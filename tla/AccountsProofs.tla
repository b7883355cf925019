--------------------------- MODULE AccountsProofs ---------------------------
(***************************************************************************)
(* Proofs about Accounts, for every number of requests, every limit and    *)
(* every duration of the lockout.  The invariants are parts of IInv, each  *)
(* of which is shown to be preserved on its own.                           *)
(***************************************************************************)
EXTENDS Accounts, TLAPS

USE LockoutAssumption, BoundsAssumption, CallsAssumption, FailingAssumption

\* Next, action by action.
LEMMA NextCases ==
    ASSUME [Next]_vars
    PROVE  \/ \E r \in Requests :
                \/ \E call \in Calls : Find(r, call)
                \/ Fill(r) \/ Create(r) \/ Check(r) \/ Write(r) \/ Invalidate(r)
                \/ SeedFind(r) \/ EnsureRole(r) \/ SeedCreate(r) \/ Finish(r)
           \/ Tick \/ CacheExpires \/ UNCHANGED vars
  BY DEF Next, Handle

\* The copies that are made have the fields of an account.
LEMMA CopyTypes ==
    ASSUME TypeOK
    PROVE  NoCopy \in Copies /\ Account \in Copies
  BY DEF TypeOK, NoCopy, Account, Copy, Copies

\* The limit of failures is positive.
LEMMA PositiveLimit == MaxFailures \in Nat /\ MaxFailures > 0
  OBVIOUS

\* What the two updates of a login do to the document.
LEMMA UpdateEffect ==
    ASSUME TypeOK, NEW r \in Requests, Update(r)
    PROVE  /\ attempts' \in Nat /\ until' \in Nat /\ streak' \in Nat
           /\ UNCHANGED <<accounts, admin>>
           /\ op[r] = "wrong" =>
                /\ attempts' = copy[r].attempts + 1
                /\ attempts' >= MaxFailures => until' > 0
                /\ attempts' < MaxFailures => until' = until
                /\ serial => streak' = streak + 1
           /\ op[r] # "wrong" => attempts' = 0 /\ until' = 0 /\ streak' = 0
  <1>1. copy[r] \in Copies /\ copy[r].attempts + 1 \in Nat /\ stamp[r] \in Nat
    BY DEF TypeOK, Copies
  <1>2. CASE op[r] = "wrong"
    BY <1>1, <1>2 DEF Update, RecordLoginFailure, TypeOK
  <1>3. CASE op[r] # "wrong"
    BY <1>3 DEF Update, ResetLoginFailures
  <1> QED
    BY <1>2, <1>3

-----------------------------------------------------------------------------
(* The parts of IInv.                                                      *)

\* Type correctness is inductive by itself.
LEMMA TypeStep == TypeOK /\ [Next]_vars => TypeOK'
  <1> SUFFICES ASSUME TypeOK, [Next]_vars PROVE TypeOK'
    OBVIOUS
  <1> USE CopyTypes DEF Goto, Labels, document, history, Fault
  <1>1. ASSUME NEW r \in Requests, NEW call \in Calls, Find(r, call) PROVE TypeOK'
    <2>1. copy' \in [Requests -> Copies]
      BY <1>1 DEF Find, TypeOK
    <2>2. pc' \in [Requests -> Labels]
      BY <1>1 DEF Find, Found, NotFound, TypeOK
    <2>3. serial' \in BOOLEAN /\ late' \subseteq Requests
          /\ op' \in [Requests -> Calls \cup {"none"}]
      BY <1>1 DEF Find, Start, TypeOK
    <2> QED
      BY <1>1, <2>1, <2>2, <2>3 DEF Find, TypeOK
  <1>2. ASSUME NEW r \in Requests, Fill(r) PROVE TypeOK'
    BY <1>2 DEF Fill, Found, TypeOK
  <1>3. ASSUME NEW r \in Requests, Create(r) PROVE TypeOK'
    BY <1>3 DEF Create, Insert, TypeOK
  <1>4. ASSUME NEW r \in Requests, Check(r) PROVE TypeOK'
    BY <1>4 DEF Check, TypeOK
  <1>5. ASSUME NEW r \in Requests, Write(r) PROVE TypeOK'
    <2>1. /\ attempts' \in Nat /\ until' \in Nat /\ streak' \in Nat
          /\ UNCHANGED <<accounts, admin>>
      BY <1>5, UpdateEffect DEF Write, TypeOK
    <2>2. pc' \in [Requests -> Labels] /\ serial' \in BOOLEAN /\ late' \subseteq Requests
      BY <1>5 DEF Write, StillLocked, TypeOK
    <2> QED
      BY <1>5, <2>1, <2>2 DEF Write, TypeOK
  <1>6. ASSUME NEW r \in Requests, Invalidate(r) PROVE TypeOK'
    BY <1>6 DEF Invalidate, TypeOK
  <1>7. ASSUME NEW r \in Requests, SeedFind(r) PROVE TypeOK'
    <2>1. copy' \in [Requests -> Copies] /\ pc' \in [Requests -> Labels]
      BY <1>7 DEF SeedFind, TypeOK
    <2>2. serial' \in BOOLEAN /\ late' \subseteq Requests
          /\ op' \in [Requests -> Calls \cup {"none"}]
      BY <1>7 DEF SeedFind, Start, TypeOK
    <2> QED
      BY <1>7, <2>1, <2>2 DEF SeedFind, TypeOK
  <1>8. ASSUME NEW r \in Requests, EnsureRole(r) PROVE TypeOK'
    BY <1>8 DEF EnsureRole, Report, TypeOK
  <1>9. ASSUME NEW r \in Requests, SeedCreate(r) PROVE TypeOK'
    <2>1. accounts' \in 0..1
      BY <1>9 DEF SeedCreate, Insert, TypeOK
    <2>2. admin' \in BOOLEAN
      BY <1>9 DEF SeedCreate, TypeOK
    <2>3. pc' \in [Requests -> Labels]
      BY <1>9 DEF SeedCreate, Report, TypeOK
    <2>4. serial' \in BOOLEAN
      BY <1>9 DEF SeedCreate, Report, TypeOK
    <2> QED
      BY <1>9, <2>1, <2>2, <2>3, <2>4 DEF SeedCreate, TypeOK
  <1>10. ASSUME NEW r \in Requests, Finish(r) PROVE TypeOK'
    <2>1. /\ pc' \in [Requests -> Labels] /\ op' \in [Requests -> Calls \cup {"none"}]
          /\ copy' \in [Requests -> Copies] /\ stamp' \in [Requests -> Nat]
      BY <1>10 DEF Finish, TypeOK
    <2>2. late' \subseteq Requests /\ serial' \in BOOLEAN
      BY <1>10 DEF Finish, TypeOK
    <2> QED
      BY <1>10, <2>1, <2>2 DEF Finish, TypeOK
  <1>11. CASE Tick
    BY <1>11 DEF Tick, StillLocked, TypeOK
  <1>12. CASE CacheExpires
    BY <1>12 DEF CacheExpires, TypeOK
  <1>13. CASE UNCHANGED vars
    BY <1>13 DEF vars, TypeOK
  <1> QED
    BY <1>1, <1>2, <1>3, <1>4, <1>5, <1>6, <1>7, <1>8, <1>9, <1>10, <1>11, <1>12, <1>13,
       NextCases

\* A step of r moves r only; accounts are not deleted and roles not taken.
LEMMA FrameStep ==
    ASSUME TypeOK, NEW r \in Requests, Handle(r) \/ Finish(r)
    PROVE  /\ \A q \in Requests \ {r} :
                pc'[q] = pc[q] /\ op'[q] = op[q] /\ copy'[q] = copy[q]
           /\ (Exists => Exists') /\ (admin => admin')
           /\ now' = now
  <1> USE DEF TypeOK, Goto, document, history, Exists
  <1>1. CASE \E call \in Calls : Find(r, call)
    BY <1>1 DEF Find, Start, Found, NotFound
  <1>2. CASE Fill(r) \/ Create(r) \/ Check(r) \/ Invalidate(r)
    BY <1>2 DEF Fill, Found, Create, Insert, Check, Invalidate
  <1>3. CASE Write(r)
    BY <1>3, UpdateEffect DEF Write
  <1>4. CASE SeedFind(r) \/ EnsureRole(r) \/ SeedCreate(r)
    BY <1>4 DEF SeedFind, Start, EnsureRole, Report, SeedCreate, Insert
  <1>5. CASE Finish(r)
    BY <1>5 DEF Finish
  <1> QED
    BY <1>1, <1>2, <1>3, <1>4, <1>5 DEF Handle

\* Requests stay on their way.
LEMMA WayStep ==
    ASSUME TypeOK, \A q \in Requests : OnItsWay(q), ~Exists => cache = NoCopy, [Next]_vars
    PROVE  \A q \in Requests : OnItsWay(q)'
  <1> SUFFICES ASSUME NEW q \in Requests PROVE OnItsWay(q)'
    OBVIOUS
  <1>1. ASSUME NEW r \in Requests, Handle(r) \/ Finish(r), q # r PROVE OnItsWay(q)'
    BY <1>1, FrameStep DEF OnItsWay
  <1> USE DEF OnItsWay, SeedLabels, TypeOK, Goto
  <1>2. ASSUME NEW call \in Calls, Find(q, call) PROVE OnItsWay(q)'
    <2>1. op'[q] = call /\ accounts' = accounts /\ call \in {"register", "right", "wrong"}
      BY <1>2 DEF Find, Start, document
    <2>2. \/ Exists /\ pc'[q] = IF call = "register" THEN "denied" ELSE "check"
          \/ Exists /\ pc'[q] = "fill"
          \/ pc'[q] = IF call = "register" THEN "create" ELSE "denied"
      BY <1>2 DEF Find, Found, NotFound
    <2> QED
      BY <2>1, <2>2 DEF Exists
  <1>3. CASE Fill(q)
    BY <1>3 DEF Fill, Found, Exists, document
  <1>4. CASE Create(q)
    BY <1>4 DEF Create, Insert, Exists
  <1>5. CASE Check(q)
    BY <1>5 DEF Check, Exists, document
  <1>6. CASE Write(q)
    <2>1. accounts' = accounts /\ op' = op /\ op[q] \in {"right", "wrong"} /\ Exists
      BY <1>6, UpdateEffect DEF Write, document
    <2>2. pc'[q] \in {"invalidate", "writeAgain", "denied"}
      BY <1>6 DEF Write
    <2> QED
      BY <2>1, <2>2 DEF Exists
  <1>7. CASE Invalidate(q)
    BY <1>7 DEF Invalidate, Exists, document
  <1>8. CASE SeedFind(q)
    BY <1>8 DEF SeedFind, Start, Exists, document
  <1>9. CASE EnsureRole(q) \/ SeedCreate(q)
    BY <1>9 DEF EnsureRole, Report, SeedCreate, Insert, Exists
  <1>10. CASE Finish(q)
    BY <1>10 DEF Finish
  <1>11. CASE Tick \/ CacheExpires \/ UNCHANGED vars
    BY <1>11 DEF Tick, CacheExpires, vars, Exists, document
  <1> QED
    BY <1>1, <1>2, <1>3, <1>4, <1>5, <1>6, <1>7, <1>8, <1>9, <1>10, <1>11 DEF Next, Handle

\* Before there is an account there is nothing to cache or to lock.
LEMMA NoAccountStep ==
    ASSUME TypeOK, \A q \in Requests : OnItsWay(q),
           ~Exists => cache = NoCopy /\ attempts = 0 /\ until = 0, [Next]_vars
    PROVE  (~Exists => cache = NoCopy /\ attempts = 0 /\ until = 0)'
  <1>1. ASSUME NEW r \in Requests, Fill(r) PROVE Exists'
    BY <1>1 DEF Fill, OnItsWay, document, Exists
  <1>2. ASSUME NEW r \in Requests, Write(r) PROVE Exists'
    BY <1>2, UpdateEffect DEF Write, OnItsWay, document, Exists
  <1>3. ASSUME NEW r \in Requests, NEW call \in Calls, Find(r, call)
        PROVE  UNCHANGED <<accounts, attempts, until, cache>>
    BY <1>3 DEF Find, document
  <1>4. ASSUME NEW r \in Requests,
               \/ Create(r) \/ Check(r) \/ Invalidate(r) \/ SeedFind(r) \/ EnsureRole(r)
               \/ SeedCreate(r) \/ Finish(r)
        PROVE  /\ UNCHANGED <<attempts, until>> /\ cache' \in {cache, NoCopy}
               /\ Exists => Exists'
    BY <1>4, FrameStep DEF Create, Check, Invalidate, SeedFind, EnsureRole, SeedCreate, Finish,
                           document, Handle
  <1>5. CASE Tick \/ CacheExpires \/ UNCHANGED vars
    BY <1>5 DEF Tick, CacheExpires, vars, document, Exists
  <1> QED
    BY <1>1, <1>2, <1>3, <1>4, <1>5, NextCases DEF Exists

\* What a failure is counted on is an older count; it was followed by the wrong
\* password of the request that counts.
LEMMA CountStep ==
    ASSUME TypeOK, FailuresCounted, LockNeedsFailures, \A q \in Requests : OnItsWay(q),
           [Next]_vars, TypeOK'
    PROVE  FailuresCounted' /\ LockNeedsFailures'
  <1> USE DEF FailuresCounted, LockNeedsFailures
  <1>0. /\ attempts \in Nat /\ wrong \in Nat /\ cache.attempts \in Int /\ until \in Nat
        /\ \A q \in Requests : copy[q].attempts \in Int
        /\ NoCopy.attempts = -1 /\ Account.attempts = attempts
        /\ pc \in [Requests -> Labels] /\ copy \in [Requests -> Copies]
        /\ op \in [Requests -> Calls \cup {"none"}]
    BY DEF TypeOK, Copies, NoCopy, Account, Copy
  <1> USE DEF Goto, document, history
  <1>1. ASSUME NEW r \in Requests, NEW call \in Calls, Find(r, call)
        PROVE  FailuresCounted' /\ LockNeedsFailures'
    <2>1. copy'[r].attempts <= wrong /\ pc'[r] \notin {"write", "writeAgain"}
      BY <1>0, <1>1 DEF Find, Found, NotFound
    <2>2. \A q \in Requests \ {r} : pc'[q] = pc[q] /\ op'[q] = op[q] /\ copy'[q] = copy[q]
      BY <1>1, FrameStep DEF Handle
    <2>3. UNCHANGED <<attempts, until, cache, wrong>>
      BY <1>1 DEF Find
    <2> QED
      BY <2>1, <2>2, <2>3
  <1>2. ASSUME NEW r \in Requests, Fill(r)
        PROVE  FailuresCounted' /\ LockNeedsFailures'
    BY <1>0, <1>2 DEF Fill, Found
  <1>3. ASSUME NEW r \in Requests, Check(r)
        PROVE  FailuresCounted' /\ LockNeedsFailures'
    <2>1. UNCHANGED <<attempts, until, cache, copy, op>> /\ wrong' \in {wrong, wrong + 1}
      BY <1>3 DEF Check
    <2>2. \A q \in Requests \ {r} : pc'[q] = pc[q]
      BY <1>3, FrameStep DEF Handle
    <2>3. pc'[r] \in {"write", "writeAgain"} /\ op[r] = "wrong" => wrong' = wrong + 1
      BY <1>0, <1>3 DEF Check
    <2>4. \A q \in Requests : copy[q].attempts <= wrong
      OBVIOUS
    <2> QED
      BY <1>0, <2>1, <2>2, <2>3, <2>4
  <1>4. ASSUME NEW r \in Requests, Write(r)
        PROVE  FailuresCounted' /\ LockNeedsFailures'
    <2>1. UNCHANGED <<cache, copy, op, wrong>>
      BY <1>4 DEF Write
    <2>2. \A q \in Requests : pc'[q] \in {"write", "writeAgain"} => pc[q] \in {"write", "writeAgain"}
      BY <1>0, <1>4 DEF Write
    <2>3. attempts' <= wrong /\ (until' > 0 => wrong >= MaxFailures)
      <3>1. CASE Update(r)
        <4>1. op[r] = "wrong" => copy[r].attempts + 1 <= wrong
          BY <1>0, <1>4 DEF Write
        <4>2. attempts' \in Nat /\ until' \in Nat
          BY <3>1, UpdateEffect
        <4> QED
          BY <1>0, <3>1, <4>1, <4>2, UpdateEffect
      <3> QED
        BY <1>4, <3>1 DEF Write
    <2> QED
      BY <2>1, <2>2, <2>3
  <1>5. ASSUME NEW r \in Requests, Create(r) \/ Invalidate(r) \/ EnsureRole(r) \/ SeedCreate(r)
        PROVE  FailuresCounted' /\ LockNeedsFailures'
    BY <1>0, <1>5 DEF Create, Invalidate, EnsureRole, Report, SeedCreate
  <1>6. ASSUME NEW r \in Requests, SeedFind(r)
        PROVE  FailuresCounted' /\ LockNeedsFailures'
    <2>1. copy'[r].attempts <= wrong /\ pc'[r] \notin {"write", "writeAgain"}
      BY <1>0, <1>6 DEF SeedFind
    <2>2. \A q \in Requests \ {r} : pc'[q] = pc[q] /\ op'[q] = op[q] /\ copy'[q] = copy[q]
      BY <1>6, FrameStep DEF Handle
    <2> QED
      BY <1>6, <2>1, <2>2 DEF SeedFind
  <1>7. ASSUME NEW r \in Requests, Finish(r)
        PROVE  FailuresCounted' /\ LockNeedsFailures'
    BY <1>0, <1>7 DEF Finish
  <1>8. CASE Tick \/ CacheExpires \/ UNCHANGED vars
    BY <1>0, <1>8 DEF Tick, CacheExpires, vars
  <1> QED
    BY <1>1, <1>2, <1>3, <1>4, <1>5, <1>6, <1>7, <1>8, NextCases

\* Roles are granted before they are copied, and never taken.
LEMMA RolesStep ==
    ASSUME TypeOK, RolesGranted, [Next]_vars
    PROVE  RolesGranted' /\ (admin => admin')
  <1>0. /\ NoCopy.admin = FALSE /\ Account.admin = admin
        /\ copy \in [Requests -> Copies]
    BY DEF TypeOK, NoCopy, Account, Copy
  <1>1. ASSUME NEW r \in Requests, Handle(r) \/ Finish(r)
        PROVE  RolesGranted' /\ (admin => admin')
    <2>1. admin => admin'
      BY <1>1, FrameStep
    <2>2. copy'[r] \in {copy[r], cache, Account, NoCopy}
      BY <1>0, <1>1 DEF Handle, Find, Fill, Create, Check, Write, Invalidate, SeedFind, EnsureRole,
                        SeedCreate, Finish
    <2>3. cache' \in {cache, copy[r], NoCopy}
      BY <1>1 DEF Handle, Find, Fill, Create, Check, Write, Invalidate, SeedFind, EnsureRole,
                  SeedCreate, Finish
    <2>4. cache'.admin => admin'
      BY <1>0, <2>1, <2>3 DEF RolesGranted
    <2>5. copy'[r].admin => admin'
      BY <1>0, <2>1, <2>2 DEF RolesGranted
    <2>6. \A q \in Requests \ {r} : copy'[q] = copy[q]
      BY <1>1, FrameStep
    <2>7. ASSUME NEW q \in Requests PROVE copy'[q].admin => admin'
      BY <2>1, <2>5, <2>6 DEF RolesGranted
    <2> QED
      BY <2>1, <2>4, <2>7 DEF RolesGranted
  <1>2. CASE Tick \/ CacheExpires \/ UNCHANGED vars
    BY <1>0, <1>2 DEF Tick, CacheExpires, vars, document, RolesGranted
  <1> QED
    BY <1>1, <1>2 DEF Next

\* The seed command reports success after it has seen or written the role.
LEMMA SeedStep ==
    ASSUME TypeOK, SeedGrants, \A q \in Requests : OnItsWay(q), [Next]_vars
    PROVE  SeedGrants'
  <1> SUFFICES ASSUME NEW q \in Requests, pc'[q] = "ok", op'[q] = "seed"
               PROVE  Exists' /\ admin'
    BY DEF SeedGrants
  <1>0. /\ pc \in [Requests -> Labels] /\ op \in [Requests -> Calls \cup {"none"}]
        /\ op[q] = "seed" => pc[q] \in SeedLabels
        /\ pc[q] = "ensureRole" => Exists
    BY DEF TypeOK, OnItsWay
  <1>1. ASSUME NEW r \in Requests, Handle(r) \/ Finish(r), q # r PROVE Exists' /\ admin'
    BY <1>1, FrameStep DEF SeedGrants
  <1> USE DEF Goto
  <1>2. ASSUME NEW call \in Calls, Find(q, call) PROVE FALSE
    BY <1>0, <1>2 DEF Find, Start
  <1>3. CASE Fill(q) \/ Create(q) \/ Check(q) \/ Write(q) \/ Invalidate(q)
    <2>1. op' = op /\ pc[q] \notin SeedLabels
      BY <1>3 DEF Fill, Create, Check, Write, Invalidate, SeedLabels
    <2> QED
      BY <1>0, <2>1
  <1>4. CASE SeedFind(q)
    <2>1. Exists /\ admin /\ UNCHANGED <<accounts, admin>>
      BY <1>0, <1>4 DEF SeedFind, document
    <2> QED
      BY <2>1 DEF Exists
  <1>5. CASE EnsureRole(q)
    BY <1>0, <1>5 DEF EnsureRole, Report, Exists
  <1>6. CASE SeedCreate(q)
    BY <1>0, <1>6 DEF SeedCreate, Report, Insert, Exists
  <1>7. CASE Finish(q)
    BY <1>0, <1>7 DEF Finish
  <1>8. CASE Tick \/ CacheExpires \/ UNCHANGED vars
    BY <1>8 DEF Tick, CacheExpires, vars, document, SeedGrants, Exists
  <1> QED
    BY <1>1, <1>2, <1>3, <1>4, <1>5, <1>6, <1>7, <1>8 DEF Next, Handle

-----------------------------------------------------------------------------
(* Requests one after the other.                                           *)

\* SerialState and SerialLockout as the only request under way sees them.
Alone(r) ==
    /\ \A q \in Requests \ {r} : pc[q] = "idle"
    /\ pc[r] # "writeAgain"
    /\ pc[r] \in {"fill", "check", "write"} => Current(copy[r])
    /\ pc[r] # "invalidate" => cache = NoCopy \/ Current(cache)
    /\ late \subseteq {r}
    /\ r \in late => until > now /\ op[r] = "right" /\ pc[r] \in {"fill", "check", "denied"}
    /\ attempts = streak
    /\ streak >= MaxFailures => until > 0

\* Of a serial state, every request that is alone has this view ...
LEMMA AloneFrom ==
    ASSUME TypeOK, serial, SerialState, SerialLockout, NEW r \in Requests,
           pc[r] # "idle" \/ \A q \in Requests : pc[q] = "idle"
    PROVE  Alone(r)
  <1>1. \A q \in Requests \ {r} : pc[q] = "idle"
    BY DEF SerialState
  <1>2. \A q \in late : q \in Requests /\ pc[q] # "idle"
    BY DEF SerialLockout, NoStaleLockout, TypeOK
  <1>3. pc[r] # "invalidate" => \A q \in Requests : pc[q] # "invalidate"
    BY <1>1
  <1>4. pc[r] # "invalidate" => cache = NoCopy \/ Current(cache)
    BY <1>3 DEF SerialState
  <1>5. r \in late => until > now /\ op[r] = "right" /\ pc[r] \in {"fill", "check", "denied"}
    BY DEF SerialState, SerialLockout, NoStaleLockout
  <1>6. attempts = streak /\ (streak >= MaxFailures => until > 0)
    BY DEF SerialLockout
  <1>7. pc[r] # "writeAgain" /\ (pc[r] \in {"fill", "check", "write"} => Current(copy[r]))
    BY DEF SerialState
  <1> QED
    BY <1>1, <1>2, <1>4, <1>5, <1>6, <1>7 DEF Alone

\* ... and from its view the serial state follows.
LEMMA AloneTo ==
    ASSUME NEW r \in Requests, Alone(r)
    PROVE  SerialState /\ SerialLockout
  <1>1. SerialState
    BY DEF Alone, SerialState
  <1>2. SerialLockout
    BY DEF Alone, SerialLockout, NoStaleLockout
  <1> QED
    BY <1>1, <1>2

\* A request that goes on alone keeps its view, unless a call fails.
LEMMA AloneStep ==
    ASSUME TypeOK, NEW r \in Requests, Alone(r), OnItsWay(r), serial',
           ~Exists => cache = NoCopy /\ attempts = 0 /\ until = 0,
           \/ Fill(r) \/ Create(r) \/ Check(r) \/ Write(r) \/ Invalidate(r)
           \/ EnsureRole(r) \/ SeedCreate(r) \/ Finish(r)
    PROVE  Alone(r)'
  <1>0. /\ pc \in [Requests -> Labels] /\ copy \in [Requests -> Copies]
        /\ op \in [Requests -> Calls \cup {"none"}]
        /\ attempts \in Nat /\ until \in Nat /\ now \in Nat /\ streak \in Nat
        /\ copy[r].until \in Nat /\ copy[r].attempts \in Int
    BY DEF TypeOK, Copies
  <1>1. \A q \in Requests \ {r} : pc'[q] = "idle"
    BY FrameStep DEF Alone, Handle
  <1> USE DEF Alone, Current, Goto, document, history, Fault
  <1>2. CASE Fill(r)
    BY <1>0, <1>1, <1>2 DEF Fill, Found, OnItsWay
  <1>3. CASE Create(r)
    BY <1>0, <1>1, <1>3 DEF Create, Insert
  <1>4. CASE Check(r)
    BY <1>0, <1>1, <1>4 DEF Check, IsLocked
  <1>5. CASE Write(r)
    <2>1. pc[r] = "write" /\ op[r] \in {"right", "wrong"} /\ Current(copy[r]) /\ r \notin late
      BY <1>0, <1>5 DEF Write, OnItsWay
    <2>2. /\ Update(r) /\ pc'[r] = "invalidate" /\ serial' = serial
          /\ UNCHANGED <<cache, copy, op, now>> /\ late' \subseteq late
      BY <1>0, <1>5 DEF Write, StillLocked
    <2>3. attempts' = streak' /\ (streak' >= MaxFailures => until' > 0)
      <3>1. CASE op[r] = "wrong"
        <4>1. attempts' = attempts + 1 /\ streak' = streak + 1
          BY <2>1, <2>2, <3>1, UpdateEffect
        <4> QED
          BY <2>2, <3>1, <4>1, UpdateEffect
      <3>2. CASE op[r] # "wrong"
        <4>1. attempts' = 0 /\ streak' = 0
          BY <2>2, <3>2, UpdateEffect
        <4> QED
          BY ONLY <4>1, PositiveLimit
      <3> QED
        BY <3>1, <3>2
    <2> QED
      BY <1>1, <2>1, <2>2, <2>3
  <1>6. CASE Invalidate(r)
    BY <1>0, <1>1, <1>6 DEF Invalidate
  <1>7. CASE EnsureRole(r) \/ SeedCreate(r)
    BY <1>0, <1>1, <1>7 DEF EnsureRole, Report, SeedCreate, Insert
  <1>8. CASE Finish(r)
    BY <1>0, <1>1, <1>8 DEF Finish
  <1> QED
    BY <1>2, <1>3, <1>4, <1>5, <1>6, <1>7, <1>8

\* So does a request that starts when no other is under way: the copy it is
\* given, cached or not, is current.
LEMMA AloneStart ==
    ASSUME TypeOK, NEW r \in Requests, Alone(r), serial', serial,
           \A q \in Requests : pc[q] = "idle",
           SeedFind(r) \/ \E call \in Calls : Find(r, call)
    PROVE  Alone(r)'
  <1>0. /\ pc \in [Requests -> Labels] /\ copy \in [Requests -> Copies]
        /\ op \in [Requests -> Calls \cup {"none"}] /\ late = {}
        /\ Account.attempts = attempts /\ Account.until = until
        /\ pc[r] = "idle" /\ (cache = NoCopy \/ Current(cache))
    BY DEF TypeOK, Account, Copy, Alone
  <1>1. \A q \in Requests \ {r} : pc'[q] = "idle"
    BY FrameStep DEF Handle
  <1>2. UNCHANGED <<attempts, until, cache, now, streak>>
    BY DEF SeedFind, Find, document
  <1>3. CASE SeedFind(r)
    <2>1. pc'[r] \in {"ok", "ensureRole", "seedCreate"}
      BY <1>0, <1>3 DEF SeedFind, Goto
    <2>2. late' = {}
      BY <1>0, <1>3 DEF SeedFind, Start
    <2> QED
      BY <1>0, <1>1, <1>2, <2>1, <2>2 DEF Alone, Current
  <1>4. ASSUME NEW call \in Calls, Find(r, call) PROVE Alone(r)'
    <2>1. late' \subseteq {r} /\ (r \in late' => call = "right" /\ until > now) /\ op'[r] = call
      BY <1>0, <1>4 DEF Find, Start, IsLocked
    <2>2. \/ pc'[r] \in {"fill", "check"} /\ Current(copy'[r])
          \/ pc'[r] \in {"denied", "create"}
      BY <1>0, <1>4 DEF Find, Found, NotFound, Goto, Current
    <2>3. call = "right" => pc'[r] \in {"fill", "check", "denied"}
      BY <1>0, <1>4 DEF Find, Found, NotFound, Goto
    <2> QED
      BY <1>0, <1>1, <1>2, <2>1, <2>2, <2>3 DEF Alone, Current
  <1> QED
    BY <1>3, <1>4

\* The two facts about serial executions are preserved.
LEMMA SerialStep ==
    ASSUME TypeOK, \A q \in Requests : OnItsWay(q), SerialState, SerialLockout,
           ~Exists => cache = NoCopy /\ attempts = 0 /\ until = 0, [Next]_vars
    PROVE  SerialState' /\ SerialLockout'
  <1> SUFFICES ASSUME serial' PROVE SerialState' /\ SerialLockout'
    BY DEF SerialState, SerialLockout
  <1>1. ASSUME NEW r \in Requests,
               \/ Fill(r) \/ Create(r) \/ Check(r) \/ Write(r) \/ Invalidate(r)
               \/ EnsureRole(r) \/ SeedCreate(r) \/ Finish(r)
        PROVE  SerialState' /\ SerialLockout'
    <2>1. pc[r] # "idle" /\ serial
      BY <1>1 DEF Fill, Create, Check, Write, Invalidate, EnsureRole, SeedCreate, Report, Finish,
                  Fault, history
    <2>2. Alone(r)
      BY <2>1, AloneFrom
    <2>3. Alone(r)'
      BY <1>1, <2>2, AloneStep
    <2> QED
      BY <2>3, AloneTo, PTL
  <1>2. ASSUME NEW r \in Requests, SeedFind(r) \/ \E call \in Calls : Find(r, call)
        PROVE  SerialState' /\ SerialLockout'
    <2>1. serial /\ \A q \in Requests : pc[q] = "idle"
      BY <1>2 DEF SeedFind, Find, Start
    <2>2. Alone(r)
      BY <2>1, AloneFrom
    <2>3. Alone(r)'
      BY <1>2, <2>1, <2>2, AloneStart
    <2> QED
      BY <2>3, AloneTo, PTL
  <1>3. CASE Tick
    <2>1. /\ UNCHANGED <<attempts, until, cache, pc, op, copy, streak, serial>>
          /\ late' \subseteq late /\ (late' # {} => until > now')
      BY <1>3 DEF Tick, StillLocked, document
    <2> QED
      BY <2>1 DEF SerialState, SerialLockout, NoStaleLockout, Current
  <1>4. CASE CacheExpires
    BY <1>4 DEF CacheExpires, document, history, SerialState, SerialLockout, NoStaleLockout,
                Current
  <1>5. CASE UNCHANGED vars
    BY <1>5 DEF vars, SerialState, SerialLockout, NoStaleLockout, Current
  <1> QED
    BY <1>1, <1>2, <1>3, <1>4, <1>5, NextCases

-----------------------------------------------------------------------------
(* The theorems.                                                           *)

\* At the start there is no account, no copy and no request.
LEMMA InvInit == Init => IInv
  <1> SUFFICES ASSUME Init PROVE IInv
    OBVIOUS
  <1>0. NoCopy \in Copies /\ NoCopy.attempts = -1 /\ NoCopy.admin = FALSE
    BY DEF NoCopy, Copy, Copies
  <1>1. TypeOK
    <2>1. /\ pc \in [Requests -> Labels] /\ op \in [Requests -> Calls \cup {"none"}]
          /\ copy \in [Requests -> Copies] /\ stamp \in [Requests -> Nat]
      BY <1>0 DEF Init, Labels
    <2>2. /\ now \in Nat /\ accounts \in 0..1 /\ attempts \in Nat /\ until \in Nat
          /\ wrong \in Nat /\ streak \in Nat
      BY DEF Init
    <2>3. admin \in BOOLEAN /\ serial \in BOOLEAN /\ cache \in Copies /\ late \subseteq Requests
      BY <1>0 DEF Init
    <2> QED
      BY <2>1, <2>2, <2>3 DEF TypeOK
  <1>2. \A r \in Requests : OnItsWay(r)
    BY DEF Init, OnItsWay
  <1>3. FailuresCounted /\ LockNeedsFailures
    BY <1>0 DEF Init, FailuresCounted, LockNeedsFailures
  <1>4. SeedGrants /\ RolesGranted
    BY <1>0 DEF Init, SeedGrants, RolesGranted
  <1>5. SerialState /\ SerialLockout
    <2>1. pc = [r \in Requests |-> "idle"] /\ late = {} /\ cache = NoCopy
      BY DEF Init
    <2>2. attempts = streak /\ ~(streak >= MaxFailures)
      BY DEF Init
    <2> QED
      BY <2>1, <2>2 DEF SerialState, SerialLockout, NoStaleLockout
  <1> QED
    BY <1>1, <1>2, <1>3, <1>4, <1>5 DEF IInv, Init

\* IInv is inductive.
LEMMA InvStep == IInv /\ [Next]_vars => IInv'
  <1> SUFFICES ASSUME IInv, [Next]_vars PROVE IInv'
    OBVIOUS
  <1> USE DEF IInv
  <1>1. TypeOK'
    BY TypeStep
  <1>2. (~Exists => cache = NoCopy /\ attempts = 0 /\ until = 0)'
    BY NoAccountStep
  <1>3. \A r \in Requests : OnItsWay(r)'
    BY WayStep
  <1>4. FailuresCounted' /\ LockNeedsFailures'
    BY <1>1, CountStep
  <1>5. SeedGrants' /\ RolesGranted'
    BY SeedStep, RolesStep
  <1>6. SerialState' /\ SerialLockout'
    BY SerialStep
  <1> QED
    BY <1>1, <1>2, <1>3, <1>4, <1>5, <1>6

\* The inductive invariant holds in every reachable state.
THEOREM Invariance == Spec => []IInv
  BY InvInit, InvStep, PTL DEF Spec

\* Every variable of the account keeps its type.
THEOREM TypeCorrect == Spec => []TypeOK
  <1>1. IInv => TypeOK
    BY DEF IInv
  <1> QED
    BY <1>1, Invariance, PTL

\* recordLoginFailure locks nobody out before MaxFailures wrong passwords,
\* whatever copies the failures were counted on.
THEOREM LockoutHasCause == Spec => []LockNeedsFailures
  <1>1. IInv => LockNeedsFailures
    BY DEF IInv
  <1> QED
    BY <1>1, Invariance, PTL

\* SeedAdmin's success means there is an admin.
THEOREM SeedLeavesAdmin == Spec => []SeedGrants
  <1>1. IInv => SeedGrants
    BY DEF IInv
  <1> QED
    BY <1>1, Invariance, PTL

\* No copy of the account shows a role that was not granted.
THEOREM CopiedRolesGranted == Spec => []RolesGranted
  <1>1. IInv => RolesGranted
    BY DEF IInv
  <1> QED
    BY <1>1, Invariance, PTL

\* No update of a login takes the admin role back.
THEOREM RoleIsKept == Spec => RoleKept
  <1>1. IInv /\ [Next]_vars => [admin => admin']_vars
    BY RolesStep DEF IInv
  <1> QED
    BY <1>1, Invariance, PTL DEF Spec, RoleKept

\* Login and its lockout are exact when requests do not overlap and calls do
\* not fail.
THEOREM SerialLockoutExact == Spec => []SerialLockout
  <1>1. IInv => SerialLockout
    BY DEF IInv
  <1> QED
    BY <1>1, Invariance, PTL

-----------------------------------------------------------------------------
(* The refinement of UserAccount.                                          *)

\* What is said of the seed commands, as one function.
Commands == [r \in Requests |-> Command(r)]

\* A request's step changes what is said of its own seed command only.
LEMMA CommandStep ==
    ASSUME TypeOK, NEW r \in Requests, Handle(r) \/ Finish(r)
    PROVE  Commands' = [Commands EXCEPT ![r] = Command(r)']
  <1>1. \A q \in Requests \ {r} : pc'[q] = pc[q] /\ op'[q] = op[q]
    BY FrameStep
  <1>2. \A q \in Requests \ {r} : Command(q)' = Command(q)
    BY <1>1 DEF Command
  <1> QED
    BY <1>2 DEF Commands

\* A request that is no seed command changes nothing that is said of them.
LEMMA OtherStep ==
    ASSUME TypeOK, NEW r \in Requests, Handle(r), op[r] # "seed", op'[r] # "seed"
    PROVE  Commands' = Commands
  <1>1. Command(r) = "none" /\ Command(r)' = "none"
    BY DEF Command
  <1>2. Commands' = [Commands EXCEPT ![r] = "none"]
    BY <1>1, CommandStep
  <1>3. Commands = [Commands EXCEPT ![r] = "none"]
    BY <1>1 DEF Commands
  <1> QED
    BY <1>2, <1>3

\* A step of such a request that touches nothing but the request itself.
LEMMA QuietStep ==
    ASSUME TypeOK, NEW r \in Requests, Handle(r), op[r] # "seed", op'[r] # "seed",
           UNCHANGED <<accounts, admin, wrong, until>>
    PROVE  UNCHANGED Promised!vars
  <1>1. Commands' = Commands
    BY OtherStep
  <1>2. UNCHANGED <<Exists, Locked>>
    BY DEF Exists, Locked
  <1> QED
    BY <1>1, <1>2 DEF Promised!vars, Commands

\* A step of a seed command: where it was, and where it goes.
LEMMA CommandMoves ==
    ASSUME TypeOK, NEW r \in Requests, Handle(r)
    PROVE  Promised!Moves(r, Command(r), Command(r)')
  BY CommandStep DEF Promised!Moves, Commands

\* The command writes the role, and reports success or an error.
LEMMA WriteRefines ==
    ASSUME TypeOK, NEW r \in Requests, Handle(r), op[r] = "seed", op'[r] = "seed",
           pc[r] \notin {"ok", "denied"}, pc'[r] \in {"ok", "denied"},
           Exists', admin' = TRUE, UNCHANGED <<wrong, until>>
    PROVE  Promised!Next
  <1>1. Command(r) = "running" /\ Command(r)' \in {"ok", "failed"}
    BY DEF Command
  <1>2. \E outcome \in {"ok", "failed"} : Promised!Moves(r, "running", outcome)
    BY <1>1, CommandMoves
  <1>3. UNCHANGED Locked /\ Exists' = TRUE
    BY DEF Locked, Exists
  <1> QED
    BY <1>2, <1>3 DEF Promised!SeedWrites, Promised!Next

\* Updating the account: a lock needs enough wrong passwords, a login ends it.
LEMMA UpdateRefines ==
    ASSUME IInv, NEW r \in Requests, Write(r)
    PROVE  [Promised!Next]_(Promised!vars)
  <1>0. /\ TypeOK /\ OnItsWay(r) /\ pc[r] \in {"write", "writeAgain"} /\ Exists
        /\ op[r] \in {"right", "wrong"} /\ pc \in [Requests -> Labels]
        /\ copy[r].attempts \in Nat \cup {-1} /\ wrong \in Nat /\ until \in Nat
    BY DEF IInv, OnItsWay, Write, TypeOK, Copies
  <1>1. op' = op /\ wrong' = wrong
    BY DEF Write
  <1>2. Handle(r)
    BY DEF Handle
  <1>3. Commands' = Commands
    BY <1>0, <1>1, <1>2, OtherStep
  <1>4. CASE UNCHANGED document
    BY <1>0, <1>1, <1>2, <1>4, QuietStep DEF document
  <1>5. CASE Update(r)
    <2>1. UNCHANGED <<accounts, admin>> /\ UNCHANGED Exists
      BY <1>0, <1>5, UpdateEffect DEF Exists
    <2>2. CASE until' = until
      BY <1>0, <1>1, <1>2, <2>1, <2>2, QuietStep
    <2>3. CASE op[r] = "wrong" /\ attempts' >= MaxFailures
      <3>1. attempts' = copy[r].attempts + 1 /\ until' > 0
        BY <1>0, <1>5, <2>3, UpdateEffect
      <3>2. copy[r].attempts < wrong
        BY <1>0, <2>3 DEF IInv, FailuresCounted
      <3>3. wrong >= MaxFailures
        BY <1>0, <2>3, <3>1, <3>2, PositiveLimit
      <3>4. Locked' = TRUE
        BY <3>1 DEF Locked
      <3> QED
        BY <1>0, <1>1, <1>3, <2>1, <3>3, <3>4 DEF Promised!Lock, Promised!Next, Commands
    <2>4. CASE op[r] # "wrong"
      <3>1. until' = 0
        BY <1>0, <1>5, <2>4, UpdateEffect
      <3>2. Locked' = FALSE
        BY <3>1 DEF Locked
      <3> QED
        BY <1>0, <1>1, <1>3, <2>1, <3>2 DEF Promised!Unlock, Promised!Next, Commands
    <2>5. op[r] = "wrong" => attempts' \in Nat /\ (attempts' < MaxFailures => until' = until)
      BY <1>0, <1>5, UpdateEffect
    <2> QED
      BY <2>2, <2>3, <2>4, <2>5, PositiveLimit
  <1> QED
    BY <1>4, <1>5 DEF Write

\* Every step of a request is one of the promised account, or none.
LEMMA RefinementStep ==
    ASSUME IInv, [Next]_vars
    PROVE  [Promised!Next]_(Promised!vars)
  <1>0. /\ TypeOK /\ pc \in [Requests -> Labels] /\ op \in [Requests -> Calls \cup {"none"}]
        /\ \A r \in Requests : OnItsWay(r)
    BY DEF IInv, TypeOK
  <1> DEFINE Refined == [Promised!Next]_(Promised!vars)
  <1> USE DEF Goto, document, history
  <1>1. ASSUME NEW r \in Requests, NEW call \in Calls, Find(r, call) PROVE Refined
    <2>1. op[r] # "seed" /\ op'[r] # "seed" /\ UNCHANGED <<accounts, admin, wrong, until>>
      BY <1>0, <1>1 DEF Find, Start, OnItsWay
    <2>2. Handle(r)
      BY <1>1 DEF Handle
    <2> QED
      BY <1>0, <2>1, <2>2, QuietStep
  <1>2. ASSUME NEW r \in Requests, Fill(r) \/ Invalidate(r) PROVE Refined
    <2>1. op[r] # "seed" /\ op' = op /\ UNCHANGED <<accounts, admin, wrong, until>>
      BY <1>0, <1>2 DEF Fill, Invalidate, OnItsWay, SeedLabels
    <2>2. Handle(r)
      BY <1>2 DEF Handle
    <2> QED
      BY <1>0, <2>1, <2>2, QuietStep
  <1>3. ASSUME NEW r \in Requests, Create(r) PROVE Refined
    <2>1. op[r] # "seed" /\ op' = op /\ UNCHANGED <<admin, wrong, until>>
      BY <1>0, <1>3 DEF Create, OnItsWay
    <2>2. Handle(r)
      BY <1>3 DEF Handle
    <2>3. CASE UNCHANGED accounts
      BY <1>0, <2>1, <2>2, <2>3, QuietStep
    <2>4. CASE Insert
      <3>1. ~Exists /\ Exists' = TRUE /\ UNCHANGED Locked
        BY <2>1, <2>4 DEF Insert, Exists, Locked
      <3>2. Commands' = Commands
        BY <1>0, <2>1, <2>2, OtherStep
      <3> QED
        BY <2>1, <3>1, <3>2 DEF Promised!Register, Promised!Next, Commands
    <2> QED
      BY <1>3, <2>3, <2>4 DEF Create
  <1>4. ASSUME NEW r \in Requests, Check(r) PROVE Refined
    <2>1. /\ op[r] # "seed" /\ op' = op /\ UNCHANGED <<accounts, admin, until>>
          /\ wrong' \in {wrong, wrong + 1} /\ Exists
      BY <1>0, <1>4 DEF Check, OnItsWay
    <2>2. Handle(r)
      BY <1>4 DEF Handle
    <2>3. CASE UNCHANGED wrong
      BY <1>0, <2>1, <2>2, <2>3, QuietStep
    <2>4. CASE wrong' = wrong + 1
      <3>1. UNCHANGED <<Exists, Locked>>
        BY <2>1 DEF Exists, Locked
      <3>2. Commands' = Commands
        BY <1>0, <2>1, <2>2, OtherStep
      <3> QED
        BY <2>1, <2>4, <3>1, <3>2 DEF Promised!WrongPassword, Promised!Next, Commands
    <2> QED
      BY <2>1, <2>3, <2>4
  <1>5. ASSUME NEW r \in Requests, SeedFind(r) PROVE Refined
    <2>1. /\ op[r] = "none" /\ op'[r] = "seed" /\ UNCHANGED <<accounts, admin, wrong, until>>
          /\ pc'[r] \in {"ok", "ensureRole", "seedCreate"} /\ (pc'[r] = "ok" => Exists /\ admin)
      BY <1>0, <1>5 DEF SeedFind, Start, OnItsWay
    <2>2. Command(r) = "none" /\ Command(r)' = IF pc'[r] = "ok" THEN "ok" ELSE "running"
      BY <2>1 DEF Command
    <2>3. Promised!Moves(r, Command(r), Command(r)')
      BY <1>0, <1>5, CommandMoves DEF Handle
    <2>4. UNCHANGED Promised!account
      BY <2>1 DEF Promised!account, Exists, Locked
    <2>5. Promised!SeedStarts(r) \/ Promised!SeedConfirms(r)
      BY <2>1, <2>2, <2>3, <2>4 DEF Promised!SeedStarts, Promised!SeedConfirms
    <2> QED
      BY <2>5 DEF Promised!Next
  <1>6. ASSUME NEW r \in Requests, EnsureRole(r) PROVE Refined
    <2>1. /\ op[r] = "seed" /\ op' = op /\ pc[r] = "ensureRole" /\ pc'[r] \in {"ok", "denied"}
          /\ UNCHANGED <<wrong, until>> /\ admin' = TRUE
      BY <1>0, <1>6 DEF EnsureRole, Report, OnItsWay
    <2>2. Exists'
      BY <1>0, <1>6 DEF EnsureRole, OnItsWay, Exists
    <2>3. Handle(r)
      BY <1>6 DEF Handle
    <2> QED
      BY <1>0, <2>1, <2>2, <2>3, WriteRefines
  <1>7. ASSUME NEW r \in Requests, SeedCreate(r) PROVE Refined
    <2>1. /\ op[r] = "seed" /\ op' = op /\ pc[r] = "seedCreate" /\ pc'[r] \in {"ok", "denied"}
          /\ UNCHANGED <<wrong, until>>
      BY <1>0, <1>7 DEF SeedCreate, Report, OnItsWay
    <2>2. Handle(r)
      BY <1>7 DEF Handle
    <2>3. CASE Insert /\ admin' = TRUE
      <3>1. Exists'
        BY <2>3 DEF Insert, Exists
      <3> QED
        BY <1>0, <2>1, <2>2, <2>3, <3>1, WriteRefines
    <2>4. CASE Exists /\ Goto(r, "denied") /\ UNCHANGED <<accounts, admin>>
      <3>1. Command(r) = "running" /\ Command(r)' = "failed"
        BY <1>0, <2>1, <2>4 DEF Command
      <3>2. UNCHANGED Promised!account
        BY <2>1, <2>4 DEF Promised!account, Exists, Locked
      <3>3. Promised!Moves(r, "running", "failed")
        BY <1>0, <2>2, <3>1, CommandMoves
      <3> QED
        BY <2>4, <3>2, <3>3 DEF Promised!SeedConflicts, Promised!Next
    <2> QED
      BY <1>7, <2>3, <2>4 DEF SeedCreate
  <1>8. ASSUME NEW r \in Requests, Finish(r) PROVE Refined
    <2>1. op'[r] = "none" /\ UNCHANGED <<accounts, admin, wrong, until>>
      BY <1>0, <1>8 DEF Finish
    <2>2. Command(r)' = "none"
      BY <2>1 DEF Command
    <2>3. Commands' = [Commands EXCEPT ![r] = "none"]
      BY <1>0, <1>8, <2>2, CommandStep
    <2>4. UNCHANGED Promised!account
      BY <2>1 DEF Promised!account, Exists, Locked
    <2> QED
      BY <2>3, <2>4 DEF Promised!Leave, Promised!Next, Commands
  <1>9. CASE Tick \/ CacheExpires \/ UNCHANGED vars
    <2>1. UNCHANGED <<accounts, admin, wrong, until, pc, op>>
      BY <1>9 DEF Tick, CacheExpires, vars
    <2> QED
      BY <2>1 DEF Promised!vars, Exists, Locked, Command
  <1> QED
    BY <1>1, <1>2, <1>3, <1>4, <1>5, <1>6, <1>7, <1>8, <1>9, UpdateRefines, NextCases

\* Register, Login and SeedAdmin, overlapping in any number and on whatever
\* copies, do to the account what single steps would do.
THEOREM AccountAsPromised == Spec => ImplementsAccount
  <1>1. Init => Promised!Init
    BY DEF Init, Promised!Init, Exists, Locked, Command
  <1>2. IInv /\ [Next]_vars => [Promised!Next]_(Promised!vars)
    BY RefinementStep
  <1> QED
    BY <1>1, <1>2, Invariance, PTL DEF Spec, ImplementsAccount, Promised!Spec
=============================================================================
