------------------------ MODULE CachedDatabaseProofs ------------------------
(***************************************************************************)
(* Proofs about CachedDatabase, for every number and mix of calls on a     *)
(* key.  The safety properties follow from IInv, which is inductive.       *)
(***************************************************************************)
EXTENDS CachedDatabase, TLAPS

USE KindAssumption

\* Next, action by action.
LEMMA NextCases ==
    ASSUME [Next]_vars
    PROVE  \/ \E p \in Calls :
                \/ Acquire(p) \/ AcquireFails(p) \/ Release(p)
                \/ Get(p) \/ GetAgain(p) \/ Load(p) \/ Set(p)
                \/ Write(p) \/ WriteBare(p) \/ Invalidate(p)
                \/ TxnWrite(p) \/ TxnEnd(p) \/ TxnRead(p) \/ Crash(p)
           \/ CacheExpires \/ LockExpires \/ UNCHANGED vars
  BY DEF Next, Step

\* What a call's step does to the places of the calls.
LEMMA PlaceStep ==
    ASSUME TypeOK, NEW p \in Calls, Step(p) \/ TxnRead(p) \/ Crash(p)
    PROVE  /\ pc' \in [Calls -> Labels]
           /\ \A q \in Calls \ {p} : pc'[q] = pc[q]
  <1> USE DEF TypeOK, Goto, Labels, Over
  <1>1. CASE Acquire(p) \/ AcquireFails(p)
    BY <1>1 DEF Acquire, AcquireFails, Fallback
  <1>2. CASE Release(p)
    BY <1>2 DEF Release, Fallback
  <1>3. CASE Get(p) \/ GetAgain(p)
    BY <1>3 DEF Get, GetAgain
  <1>4. CASE Load(p) \/ Set(p)
    BY <1>4 DEF Load, Set
  <1>5. CASE Write(p) \/ WriteBare(p) \/ Invalidate(p)
    BY <1>5 DEF Write, WriteBare, Invalidate
  <1>6. CASE TxnWrite(p) \/ TxnRead(p) \/ TxnEnd(p)
    BY <1>6 DEF TxnWrite, TxnRead, TxnEnd
  <1>7. CASE Crash(p)
    BY <1>7 DEF Crash
  <1> QED
    BY <1>1, <1>2, <1>3, <1>4, <1>5, <1>6, <1>7 DEF Step

\* Writing: at most one write of p per step, from the three places that write.
LEMMA WriteStep ==
    ASSUME TypeOK, NEW p \in Calls, Step(p) \/ TxnRead(p) \/ Crash(p)
    PROVE  \/ UNCHANGED <<doc, applied, unlocked>>
           \/ Apply(p) /\ pc[p] \in {"write", "writeBare", "commit"}
  <1>1. CASE Acquire(p) \/ AcquireFails(p) \/ Release(p)
    BY <1>1 DEF Acquire, AcquireFails, Release
  <1>2. CASE Get(p) \/ GetAgain(p) \/ Load(p) \/ Set(p)
    BY <1>2 DEF Get, GetAgain, Load, Set
  <1>3. CASE Write(p) \/ WriteBare(p) \/ Invalidate(p)
    BY <1>3 DEF Write, WriteBare, Invalidate
  <1>4. CASE TxnWrite(p) \/ TxnRead(p) \/ TxnEnd(p)
    BY <1>4 DEF TxnWrite, TxnRead, TxnEnd, Commit
  <1>5. CASE Crash(p)
    BY <1>5 DEF Crash
  <1> QED
    BY <1>1, <1>2, <1>3, <1>4, <1>5 DEF Step

\* A write counts itself once, and leaves the other calls' counts alone.
LEMMA ApplyEffect ==
    ASSUME TypeOK, NEW p \in Calls, Apply(p), applied[p] <= 1
    PROVE  /\ doc' \in Nat /\ doc' = doc + 1
           /\ applied' \in [Calls -> 0..2] /\ applied'[p] = applied[p] + 1
           /\ \A q \in Calls \ {p} : applied'[q] = applied[q]
           /\ unlocked' \subseteq Nat
  <1>1. doc \in Nat /\ applied \in [Calls -> 0..2] /\ unlocked \subseteq Nat
    BY DEF TypeOK
  <1>2. applied[p] + 1 \in 0..2
    BY <1>1
  <1>3. applied' = [applied EXCEPT ![p] = applied[p] + 1] /\ doc' = doc + 1
    BY DEF Apply
  <1>4. unlocked' \subseteq Nat
    BY <1>1 DEF Apply
  <1> QED
    BY <1>1, <1>2, <1>3, <1>4

-----------------------------------------------------------------------------
(* The parts of IInv.                                                      *)

\* The place a call goes to fits its kind and the number of its writes.
LEMMA TallyStep ==
    ASSUME TypeOK, NEW p \in Calls, Tally(p), Step(p) \/ TxnRead(p) \/ Crash(p)
    PROVE  Tally(p)'
  <1>0. /\ pc \in [Calls -> Labels] /\ applied[p] \in 0..2
        /\ Kind[p] \in {"read", "strict", "loose", "txn"}
    BY DEF TypeOK
  <1> USE DEF Tally, LabelsOf, Over, Goto
  <1>1. CASE Acquire(p)
    BY <1>0, <1>1 DEF Acquire
  <1>2. CASE AcquireFails(p)
    BY <1>0, <1>2 DEF AcquireFails, Fallback
  <1>3. CASE Release(p)
    BY <1>0, <1>3 DEF Release, Fallback
  <1>4. CASE Get(p) \/ GetAgain(p) \/ Load(p) \/ Set(p)
    BY <1>0, <1>4 DEF Get, GetAgain, Load, Set
  <1>5. CASE Write(p)
    BY <1>0, <1>5, ApplyEffect DEF Write
  <1>6. CASE WriteBare(p)
    BY <1>0, <1>6, ApplyEffect DEF WriteBare
  <1>7. CASE Invalidate(p)
    BY <1>0, <1>7 DEF Invalidate
  <1>8. CASE TxnWrite(p) \/ TxnRead(p)
    BY <1>0, <1>8 DEF TxnWrite, TxnRead
  <1>9. CASE TxnEnd(p)
    BY <1>0, <1>9, ApplyEffect DEF TxnEnd, Commit
  <1>10. CASE Crash(p)
    BY <1>0, <1>10 DEF Crash
  <1> QED
    BY <1>1, <1>2, <1>3, <1>4, <1>5, <1>6, <1>7, <1>8, <1>9, <1>10 DEF Step

\* Types, given that a call writes twice at most.
LEMMA TypeStep ==
    ASSUME TypeOK, \A p \in Calls : Tally(p), [Next]_vars
    PROVE  TypeOK'
  <1>1. ASSUME NEW p \in Calls, Step(p) \/ TxnRead(p) \/ Crash(p)
        PROVE  TypeOK'
    <2>1. pc' \in [Calls -> Labels]
      BY <1>1, PlaceStep
    <2>2. doc' \in Nat /\ applied' \in [Calls -> 0..2] /\ unlocked' \subseteq Nat
      <3>1. CASE UNCHANGED <<doc, applied, unlocked>>
        BY <3>1 DEF TypeOK
      <3>2. CASE Apply(p) /\ pc[p] \in {"write", "writeBare", "commit"}
        <4>1. applied[p] <= 1
          BY <3>2 DEF Tally, TypeOK
        <4> QED
          BY <3>2, <4>1, ApplyEffect
      <3> QED
        BY <1>1, <3>1, <3>2, WriteStep
    <2>3. lock' \in SUBSET Calls /\ held' \subseteq Calls /\ lapsed' \subseteq held'
      BY <1>1 DEF Step, Acquire, AcquireFails, Release, Get, GetAgain, Load, Set, Write, WriteBare,
                  Invalidate, TxnWrite, TxnEnd, TxnRead, Crash, redisLock, TypeOK
    <2>4. got' \in [Calls -> Nat \cup {Nothing}]
      BY <1>1 DEF Step, Acquire, AcquireFails, Release, Get, GetAgain, Load, Set, Write, WriteBare,
                  Invalidate, TxnWrite, TxnEnd, TxnRead, Crash, TypeOK
    <2>5. cache' \in Nat \cup {Nothing}
      BY <1>1 DEF Step, Acquire, AcquireFails, Release, Get, GetAgain, Load, Set, Write, WriteBare,
                  Invalidate, TxnWrite, TxnEnd, TxnRead, Crash, TypeOK
    <2> QED
      BY <2>1, <2>2, <2>3, <2>4, <2>5 DEF TypeOK
  <1>2. CASE CacheExpires
    BY <1>2 DEF CacheExpires, redisLock, TypeOK
  <1>3. CASE LockExpires
    BY <1>3 DEF LockExpires, TypeOK
  <1>4. CASE UNCHANGED vars
    BY <1>4 DEF vars, TypeOK
  <1> QED
    BY <1>1, <1>2, <1>3, <1>4 DEF Next

\* A call inside WithLock keeps the key until it releases it or the TTL passes:
\* SetNX takes a free key only, and a release deletes its own value only.
LEMMA LockStep ==
    ASSUME TypeOK, LockOwned, [Next]_vars
    PROVE  LockOwned'
  <1> USE DEF LockOwned
  <1>0. pc \in [Calls -> Labels] /\ held \subseteq Calls /\ lapsed \subseteq held
    BY DEF TypeOK
  <1> USE DEF Inside, Goto
  <1>1. ASSUME NEW p \in Calls, Acquire(p) PROVE LockOwned'
    BY <1>0, <1>1 DEF Acquire
  <1>2. ASSUME NEW p \in Calls, AcquireFails(p) PROVE LockOwned'
    BY <1>0, <1>2 DEF AcquireFails, Fallback
  <1>3. ASSUME NEW p \in Calls, Release(p) PROVE LockOwned'
    BY <1>0, <1>3 DEF Release, Fallback
  <1>4. ASSUME NEW p \in Calls, Get(p) \/ GetAgain(p) \/ Load(p) \/ Set(p) PROVE LockOwned'
    BY <1>0, <1>4 DEF Get, GetAgain, Load, Set, redisLock
  <1>5. ASSUME NEW p \in Calls, Write(p) \/ WriteBare(p) \/ Invalidate(p) PROVE LockOwned'
    BY <1>0, <1>5 DEF Write, WriteBare, Invalidate, redisLock
  <1>6. ASSUME NEW p \in Calls, TxnWrite(p) \/ TxnEnd(p) \/ TxnRead(p) PROVE LockOwned'
    BY <1>0, <1>6 DEF TxnWrite, TxnEnd, TxnRead, redisLock
  <1>7. ASSUME NEW p \in Calls, Crash(p) PROVE LockOwned'
    BY <1>0, <1>7 DEF Crash
  <1>8. CASE CacheExpires
    BY <1>8 DEF CacheExpires, redisLock
  <1>9. CASE LockExpires
    BY <1>0, <1>9 DEF LockExpires
  <1>10. CASE UNCHANGED vars
    BY <1>10 DEF vars
  <1> QED
    BY <1>1, <1>2, <1>3, <1>4, <1>5, <1>6, <1>7, <1>8, <1>9, <1>10, NextCases

\* What a read is about to cache was committed when it was loaded, and the
\* document only grows.
LEMMA CommittedStep ==
    ASSUME TypeOK, \A p \in Calls : Tally(p), CommittedOnly, [Next]_vars, TypeOK'
    PROVE  CommittedOnly'
  <1>0. /\ doc \in Nat /\ cache \in Nat \cup {Nothing} /\ Nothing <= doc
        /\ pc \in [Calls -> Labels] /\ got \in [Calls -> Nat \cup {Nothing}]
        /\ doc' \in Nat /\ Nothing <= doc'
    BY DEF TypeOK, Nothing
  <1> USE DEF CommittedOnly, Goto
  <1>1. ASSUME NEW p \in Calls, Step(p) \/ TxnRead(p) \/ Crash(p) PROVE CommittedOnly'
    <2>1. doc <= doc'
      BY <1>0, <1>1, WriteStep DEF Apply
    <2>2. CASE got' = got /\ cache' = cache /\ pc'[p] \notin {"set", "setBare"}
      BY <1>0, <1>1, <2>1, <2>2, PlaceStep
    <2>3. CASE Get(p) \/ GetAgain(p)
      BY <1>0, <2>3 DEF Get, GetAgain
    <2>4. CASE Load(p)
      BY <1>0, <2>4 DEF Load
    <2>5. CASE Set(p)
      BY <1>0, <2>5 DEF Set
    <2>6. CASE Invalidate(p)
      BY <1>0, <2>6 DEF Invalidate
    <2>7. CASE TxnRead(p)
      BY <1>0, <2>7 DEF TxnRead
    <2>8. CASE Acquire(p) \/ AcquireFails(p) \/ Release(p)
      BY <1>0, <2>2, <2>8 DEF Acquire, AcquireFails, Release, Fallback
    <2>9. CASE Write(p) \/ WriteBare(p) \/ TxnWrite(p) \/ TxnEnd(p) \/ Crash(p)
      BY <1>0, <2>2, <2>9 DEF Write, WriteBare, TxnWrite, TxnEnd, Crash
    <2> QED
      BY <1>1, <2>3, <2>4, <2>5, <2>6, <2>7, <2>8, <2>9 DEF Step
  <1>2. CASE CacheExpires \/ LockExpires \/ UNCHANGED vars
    BY <1>0, <1>2 DEF CacheExpires, LockExpires, vars
  <1> QED
    BY <1>1, <1>2 DEF Next

\* What a read takes from the cache or the database is committed, and stays so.
LEMMA ReadsStep ==
    ASSUME TypeOK, \A p \in Calls : Tally(p), CommittedOnly, ReadsCommitted, [Next]_vars, TypeOK'
    PROVE  ReadsCommitted'
  <1> SUFFICES ASSUME NEW q \in Calls, Kind[q] = "read",
                      pc'[q] \in {"set", "setBare", "release", "done"}
               PROVE  got'[q] \in 0..doc'
    BY DEF ReadsCommitted
  <1>0. /\ doc \in Nat /\ doc' \in Nat /\ cache \in Nat \cup {Nothing} /\ cache <= doc
        /\ pc \in [Calls -> Labels] /\ got \in [Calls -> Nat \cup {Nothing}]
    BY DEF TypeOK, CommittedOnly
  <1>1. ASSUME got'[q] = got[q], pc[q] \in {"set", "setBare", "release", "done"}, doc <= doc'
        PROVE  got'[q] \in 0..doc'
    <2>1. got[q] \in 0..doc
      BY <1>1 DEF ReadsCommitted
    <2> QED
      BY <1>0, <1>1, <2>1
  <1>2. ASSUME NEW p \in Calls, Step(p) \/ TxnRead(p) \/ Crash(p)
        PROVE  doc <= doc'
    BY <1>0, <1>2, WriteStep DEF Apply
  <1>3. ASSUME NEW p \in Calls, Step(p) \/ TxnRead(p) \/ Crash(p), p # q
        PROVE  got'[q] \in 0..doc'
    <2>1. pc'[q] = pc[q]
      BY <1>3, PlaceStep
    <2>2. got'[q] = got[q]
      BY <1>0, <1>3 DEF Step, Acquire, AcquireFails, Release, Get, GetAgain, Load, Set, Write,
                        WriteBare, Invalidate, TxnWrite, TxnEnd, TxnRead, Crash
    <2> QED
      BY <1>1, <1>2, <1>3, <2>1, <2>2
  <1>4. CASE Step(q) \/ TxnRead(q) \/ Crash(q)
    <2>0. pc[q] \in LabelsOf("read")
      BY DEF Tally
    <2>1. CASE Get(q) \/ GetAgain(q)
      BY <1>0, <2>1 DEF Get, GetAgain, Goto, Nothing
    <2>2. CASE Load(q)
      BY <1>0, <2>2 DEF Load, Goto
    <2>3. CASE Set(q)
      BY <1>0, <1>1, <2>3 DEF Set
    <2>4. CASE Release(q)
      BY <1>0, <1>1, <2>4 DEF Release, Goto, Fallback
    <2>5. CASE Acquire(q) \/ AcquireFails(q) \/ Crash(q)
      BY <1>0, <2>5 DEF Acquire, AcquireFails, Crash, Goto, Fallback
    <2> QED
      BY <1>4, <2>0, <2>1, <2>2, <2>3, <2>4, <2>5
         DEF LabelsOf, Over, Step, Write, WriteBare, Invalidate, TxnWrite, TxnEnd, TxnRead
  <1>5. CASE CacheExpires \/ LockExpires \/ UNCHANGED vars
    BY <1>0, <1>1, <1>5 DEF CacheExpires, LockExpires, vars
  <1> QED
    BY <1>3, <1>4, <1>5 DEF Next

\* While a read holds the lock between its load and its fill, a write either
\* happens without the lock, and is noted, or not at all.
LEMMA FillStep ==
    ASSUME TypeOK, \A p \in Calls : Tally(p), LockOwned, FillUnderLock, [Next]_vars, TypeOK'
    PROVE  FillUnderLock'
  <1> SUFFICES ASSUME NEW q \in (held \ lapsed)', pc'[q] = "set"
               PROVE  ((got[q] + 1)..doc)' \subseteq unlocked'
    BY DEF FillUnderLock
  <1>0. /\ doc \in Nat /\ pc \in [Calls -> Labels] /\ unlocked \subseteq Nat
        /\ got \in [Calls -> Nat \cup {Nothing}] /\ q \in Calls
        /\ held \subseteq Calls
    BY DEF TypeOK
  <1>1. ASSUME NEW p \in Calls, Load(p), q = p
        PROVE  ((got[q] + 1)..doc)' \subseteq unlocked'
    <2>1. got'[q] = doc /\ doc' = doc
      BY <1>0, <1>1 DEF Load, Goto
    <2> QED
      BY <1>0, <2>1
  <1>2. ASSUME q \in held \ lapsed, pc[q] = "set", got'[q] = got[q],
               UNCHANGED <<doc, applied, unlocked>>
        PROVE  ((got[q] + 1)..doc)' \subseteq unlocked'
    BY <1>2 DEF FillUnderLock
  <1>3. ASSUME NEW p \in Calls, q \in held \ lapsed, pc[q] = "set", got'[q] = got[q],
               Apply(p), pc[p] \in {"write", "writeBare", "commit"}
        PROVE  ((got[q] + 1)..doc)' \subseteq unlocked'
    <2>1. p \notin held \ lapsed
      BY <1>3 DEF LockOwned
    <2>2. doc' = doc + 1 /\ unlocked' = unlocked \cup {doc + 1}
      BY <1>3, <2>1 DEF Apply
    <2>3. (got[q] + 1)..doc \subseteq unlocked
      BY <1>3 DEF FillUnderLock
    <2>4. ASSUME NEW k \in (got'[q] + 1)..doc' PROVE k \in unlocked'
      <3>1. got[q] \in Int
        BY <1>0 DEF Nothing
      <3>2. k \in (got[q] + 1)..doc \/ k = doc + 1
        BY <1>0, <1>3, <2>2, <3>1
      <3> QED
        BY <2>2, <2>3, <3>2
    <2> QED
      BY <2>4
  <1>4. ASSUME NEW p \in Calls, Step(p) \/ TxnRead(p) \/ Crash(p), q # p
        PROVE  q \in held \ lapsed /\ pc[q] = "set" /\ got'[q] = got[q]
    <2>1. pc[q] = "set"
      BY <1>0, <1>4, PlaceStep
    <2>2. q \in held \ lapsed
      BY <1>4 DEF Step, Acquire, AcquireFails, Release, Get, GetAgain, Load, Set, Write,
                  WriteBare, Invalidate, TxnWrite, TxnEnd, TxnRead, Crash, redisLock
    <2>3. got'[q] = got[q]
      BY <1>0, <1>4 DEF Step, Acquire, AcquireFails, Release, Get, GetAgain, Load, Set, Write,
                        WriteBare, Invalidate, TxnWrite, TxnEnd, TxnRead, Crash
    <2> QED
      BY <2>1, <2>2, <2>3
  <1>5. ASSUME NEW p \in Calls, Step(p) \/ TxnRead(p) \/ Crash(p), q = p
        PROVE  Load(p)
    BY <1>0, <1>5 DEF Step, Acquire, AcquireFails, Release, Get, GetAgain, Set, Write,
                      WriteBare, Invalidate, TxnWrite, TxnEnd, TxnRead, Crash, Goto, Fallback
  <1>6. CASE CacheExpires \/ LockExpires \/ UNCHANGED vars
    BY <1>2, <1>6 DEF CacheExpires, LockExpires, redisLock, vars
  <1>7. ASSUME NEW p \in Calls, Step(p) \/ TxnRead(p) \/ Crash(p)
        PROVE  ((got[q] + 1)..doc)' \subseteq unlocked'
    BY <1>1, <1>2, <1>3, <1>4, <1>5, <1>7, WriteStep
  <1> QED
    BY <1>6, <1>7 DEF Next

-----------------------------------------------------------------------------
(* The theorems.                                                           *)

\* At the start nothing is cached, locked or written.
LEMMA InvInit == Init => IInv
  <1> SUFFICES ASSUME Init PROVE IInv
    OBVIOUS
  <1>1. TypeOK
    BY DEF Init, TypeOK, First, Labels, Over, Nothing
  <1>2. LockOwned /\ \A p \in Calls : Tally(p)
    BY DEF Init, First, LockOwned, Inside, Tally, LabelsOf, Over
  <1>3. CommittedOnly /\ FillUnderLock /\ ReadsCommitted
    BY DEF Init, First, CommittedOnly, FillUnderLock, ReadsCommitted, Nothing
  <1> QED
    BY <1>1, <1>2, <1>3 DEF IInv

\* IInv is inductive.
LEMMA InvStep == IInv /\ [Next]_vars => IInv'
  <1> SUFFICES ASSUME IInv, [Next]_vars PROVE IInv'
    OBVIOUS
  <1>1. TypeOK' /\ LockOwned'
    BY TypeStep, LockStep DEF IInv
  <1>2. CommittedOnly' /\ FillUnderLock' /\ ReadsCommitted'
    BY <1>1, CommittedStep, FillStep, ReadsStep DEF IInv
  <1>3. ASSUME NEW q \in Calls PROVE Tally(q)'
    <2>1. ASSUME NEW p \in Calls, Step(p) \/ TxnRead(p) \/ Crash(p), q # p
          PROVE  Tally(q)'
      <3>1. pc'[q] = pc[q]
        BY <2>1, PlaceStep DEF IInv
      <3>2. applied'[q] = applied[q]
        BY <2>1, WriteStep DEF Apply, IInv, TypeOK
      <3> QED
        BY <3>1, <3>2 DEF IInv, Tally
    <2>2. CASE CacheExpires \/ LockExpires \/ UNCHANGED vars
      BY <2>2 DEF CacheExpires, LockExpires, vars, IInv, Tally
    <2> QED
      BY <2>1, <2>2, TallyStep DEF Next, IInv
  <1> QED
    BY <1>1, <1>2, <1>3 DEF IInv

\* The inductive invariant holds in every reachable state.
THEOREM Invariance == Spec => []IInv
  BY InvInit, InvStep, PTL DEF Spec

\* Every variable of the cache layer keeps its type.
THEOREM TypeCorrect == Spec => []TypeOK
  <1>1. IInv => TypeOK
    BY DEF IInv
  <1> QED
    BY <1>1, Invariance, PTL

\* No write of CachedDatabase takes effect three times.
THEOREM RepeatedOnce == Spec => []AtMostTwice
  <1>1. TypeOK => AtMostTwice
    BY DEF TypeOK, AtMostTwice
  <1> QED
    BY <1>1, TypeCorrect, PTL

\* No state that was not committed ever reaches the cache.
THEOREM CacheCommitted == Spec => []CommittedOnly
  <1>1. IInv => CommittedOnly
    BY DEF IInv
  <1> QED
    BY <1>1, Invariance, PTL

\* SetNX and the owner's value exclude two calls from WithLock, up to the TTL.
THEOREM MutualExclusion == Spec => []Exclusive
  <1>1. IInv => Exclusive
    BY DEF IInv, LockOwned, Exclusive
  <1> QED
    BY <1>1, Invariance, PTL

\* StrictLock makes a write that reports success happen exactly once.
THEOREM WritesOnce == Spec => []AppliedOnce
  <1>1. IInv => AppliedOnce
    <2> SUFFICES ASSUME IInv, NEW p \in Calls
                 PROVE  /\ Kind[p] = "strict" => applied[p] <= 1
                        /\ Kind[p] = "strict" /\ pc[p] = "done" => applied[p] = 1
                        /\ Kind[p] = "loose" /\ pc[p] = "done" => applied[p] >= 1
      BY DEF AppliedOnce
    <2>1. applied[p] \in 0..2
      BY DEF IInv, TypeOK
    <2> QED
      BY <2>1 DEF IInv, Tally
  <1> QED
    BY <1>1, Invariance, PTL

\* A fill under the lock is behind unlocked writes at most.
THEOREM LockedFillCurrent == Spec => []FillUnderLock
  <1>1. IInv => FillUnderLock
    BY DEF IInv
  <1> QED
    BY <1>1, Invariance, PTL

-----------------------------------------------------------------------------
(* The refinement of StoredDocument.                                       *)

\* What the callers of the other calls see stays.
LEMMA OthersSee ==
    ASSUME IInv, NEW p \in Calls, Step(p) \/ TxnRead(p) \/ Crash(p)
    PROVE  /\ outcome' = [outcome EXCEPT ![p] = outcome'[p]]
           /\ outcome'[p] = outcome[p] => outcome' = outcome
           /\ seen' = [seen EXCEPT ![p] = seen'[p]]
           /\ seen'[p] = seen[p] => seen' = seen
  <1>1. \A q \in Calls \ {p} : pc'[q] = pc[q]
    BY PlaceStep DEF IInv
  <1>2. \A q \in Calls \ {p} : got'[q] = got[q]
    BY DEF IInv, TypeOK, Step, Acquire, AcquireFails, Release, Get, GetAgain, Load, Set, Write,
           WriteBare, Invalidate, TxnWrite, TxnEnd, TxnRead, Crash
  <1>3. \A q \in Calls \ {p} : outcome'[q] = outcome[q] /\ seen'[q] = seen[q]
    BY <1>1, <1>2 DEF outcome, seen
  <1>4. /\ outcome = [q \in Calls |-> outcome[q]] /\ outcome' = [q \in Calls |-> outcome'[q]]
        /\ seen = [q \in Calls |-> seen[q]] /\ seen' = [q \in Calls |-> seen'[q]]
    BY DEF outcome, seen
  <1> QED
    BY <1>3, <1>4

\* Where a call writes, its kind has a write left.
LEMMA WriteRefines ==
    ASSUME IInv, NEW p \in Calls, Step(p), Apply(p)
    PROVE  Document!Write(p)
  <1>0. /\ pc \in [Calls -> Labels] /\ doc \in Nat /\ applied[p] \in 0..2 /\ Tally(p)
        /\ Kind[p] \in {"read", "strict", "loose", "txn"}
    BY DEF IInv, TypeOK
  <1>1. ~UNCHANGED doc
    BY <1>0 DEF Apply
  <1>2. CASE Write(p)
    <2>1. pc[p] = "write" /\ pc'[p] \in {"invalidate", "releaseFailed"}
      BY <1>0, <1>2 DEF Write, Goto
    <2>2. outcome[p] = "pending" /\ outcome'[p] = outcome[p] /\ seen'[p] = seen[p]
      BY <2>1 DEF outcome, seen, Over
    <2>3. applied[p] < Document!Times(p)
      BY <1>0, <2>1 DEF Tally, LabelsOf, Over, Document!Times
    <2> QED
      BY <2>2, <2>3, OthersSee DEF Document!Write, Apply
  <1>3. CASE WriteBare(p)
    <2>1. pc[p] = "writeBare" /\ pc'[p] \in {"invalidateBare", "failed"}
      BY <1>0, <1>3 DEF WriteBare, Goto
    <2>2. /\ outcome[p] = "pending" /\ outcome'[p] \in {outcome[p], "failed"}
          /\ seen'[p] = seen[p]
      BY <2>1 DEF outcome, seen, Over
    <2>3. applied[p] < Document!Times(p)
      BY <1>0, <2>1 DEF Tally, LabelsOf, Over, Document!Times
    <2> QED
      BY <2>2, <2>3, OthersSee DEF Document!Write, Apply
  <1>4. CASE TxnEnd(p)
    <2>1. pc[p] = "commit" /\ pc'[p] \in {"invalidateBare", "failed"}
      BY <1>0, <1>4 DEF TxnEnd, Goto
    <2>2. /\ outcome[p] = "pending" /\ outcome'[p] \in {outcome[p], "failed"}
          /\ seen'[p] = seen[p]
      BY <2>1 DEF outcome, seen, Over
    <2>3. applied[p] < Document!Times(p)
      BY <1>0, <2>1 DEF Tally, LabelsOf, Over, Document!Times
    <2> QED
      BY <2>2, <2>3, OthersSee DEF Document!Write, Apply
  <1> QED
    BY <1>1, <1>2, <1>3, <1>4 DEF Step, Acquire, AcquireFails, Release, Get, GetAgain, Load, Set,
       Invalidate, TxnWrite

\* Any other step of a call is hidden from its caller, or is its end.
LEMMA EndRefines ==
    ASSUME IInv, IInv', NEW p \in Calls, Step(p) \/ TxnRead(p) \/ Crash(p),
           UNCHANGED <<doc, applied>>
    PROVE  Document!Next \/ UNCHANGED Document!vars
  <1>0. /\ pc \in [Calls -> Labels] /\ applied'[p] \in 0..2 /\ Tally(p)'
        /\ Kind[p] \in {"read", "strict", "loose", "txn"}
    BY DEF IInv, TypeOK
  <1>1. pc[p] \notin Over
    BY DEF Over, Step, Acquire, AcquireFails, Release, Get, GetAgain, Load, Set, Write, WriteBare,
       Invalidate, TxnWrite, TxnEnd, TxnRead, Crash
  <1>2. outcome[p] = "pending" /\ seen[p] = Nothing
    BY <1>1 DEF outcome, seen, Over
  <1>3. CASE pc'[p] \notin Over
    <2>1. outcome'[p] = outcome[p] /\ seen'[p] = seen[p]
      BY <1>2, <1>3 DEF outcome, seen, Over
    <2> QED
      BY <2>1, OthersSee DEF Document!vars
  <1>4. CASE pc'[p] \in Over \ {"done"}
    <2>1. outcome'[p] = "failed" /\ seen'[p] = seen[p]
      BY <1>2, <1>4 DEF outcome, seen
    <2> QED
      BY <1>2, <2>1, OthersSee DEF Document!Fail, Document!Next
  <1>5. CASE pc'[p] = "done" /\ Kind[p] = "read"
    <2>1. outcome'[p] = "done" /\ seen'[p] = got'[p]
      BY <1>5 DEF outcome, seen
    <2>2. got'[p] \in 0..doc
      BY <1>5 DEF IInv, ReadsCommitted
    <2> QED
      BY <1>2, <1>5, <2>1, <2>2, OthersSee DEF Document!Return, Document!Next
  <1>6. CASE pc'[p] = "done" /\ Kind[p] # "read"
    <2>1. outcome'[p] = "done" /\ seen'[p] = seen[p]
      BY <1>2, <1>6 DEF outcome, seen
    <2>2. applied[p] >= 1
      BY <1>0, <1>6 DEF Tally
    <2> QED
      BY <1>2, <1>6, <2>1, <2>2, OthersSee DEF Document!Return, Document!Next
  <1> QED
    BY <1>3, <1>4, <1>5, <1>6

\* Every step of the layer is one of the document, or none.
LEMMA RefinementStep ==
    ASSUME IInv, IInv', [Next]_vars
    PROVE  Document!Next \/ UNCHANGED Document!vars
  <1>1. ASSUME NEW p \in Calls, Step(p) \/ TxnRead(p) \/ Crash(p)
        PROVE  Document!Next \/ UNCHANGED Document!vars
    <2>1. CASE UNCHANGED <<doc, applied>>
      BY <1>1, <2>1, EndRefines
    <2>2. CASE Apply(p)
      <3>1. doc' # doc
        BY <2>2 DEF Apply, IInv, TypeOK
      <3>2. Step(p)
        BY <1>1, <3>1 DEF TxnRead, Crash
      <3> QED
        BY <2>2, <3>2, WriteRefines DEF Document!Next
    <2> QED
      BY <1>1, <2>1, <2>2, WriteStep DEF IInv
  <1>2. CASE CacheExpires \/ LockExpires \/ UNCHANGED vars
    <2>1. UNCHANGED <<doc, applied, pc, got>>
      BY <1>2 DEF CacheExpires, LockExpires, vars
    <2> QED
      BY <2>1 DEF Document!vars, outcome, seen
  <1> QED
    BY <1>1, <1>2 DEF Next

\* Through readThrough, write and RunInTransaction any number of calls see one
\* document: writes within their calls and as often as their kinds allow, reads
\* of committed states.
THEOREM LayerIsDocument == Spec => ImplementsDocument
  <1>1. Init => Document!Init
    <2> SUFFICES ASSUME Init PROVE Document!Init
      OBVIOUS
    <2>1. \A p \in Calls : pc[p] # "done"
      BY DEF Init, First
    <2>2. outcome \in [Calls -> {"pending", "failed"}]
      BY <2>1 DEF outcome
    <2>3. seen = [p \in Calls |-> -1]
      BY <2>1 DEF seen, Nothing
    <2> QED
      BY <2>2, <2>3 DEF Init, Document!Init
  <1>2. IInv /\ IInv' /\ [Next]_vars => [Document!Next]_(Document!vars)
    BY RefinementStep
  <1> QED
    BY <1>1, <1>2, Invariance, PTL DEF Spec, ImplementsDocument, Document!Spec

-----------------------------------------------------------------------------
(* Where stale copies come from.                                           *)

\* One call's step out of a coherent state.
LEMMA CauseStep ==
    ASSUME IInv, NEW p \in Calls, Step(p) \/ TxnRead(p) \/ Crash(p), Coherent, ~Coherent'
    PROVE  WriteUnnoticed(p) \/ InvalidationLost(p) \/ UnprotectedFill(p)
  <1> USE DEF IInv, TypeOK, Goto
  <1>1. \A q \in Calls \ {p} : pc'[q] = pc[q]
    BY PlaceStep
  <1>2. cache' # Nothing /\ cache' # doc' /\ pc'[p] \notin Invalidating
    BY DEF Coherent
  <1>3. cache \in {Nothing, doc} \/ pc[p] \in Invalidating
    BY <1>1 DEF Coherent
  <1>4. ASSUME UNCHANGED <<doc, cache>> PROVE pc[p] \in Invalidating /\ pc'[p] # pc[p]
    BY <1>2, <1>3, <1>4
  <1>5. CASE Acquire(p) \/ AcquireFails(p) \/ Release(p) \/ TxnWrite(p) \/ TxnRead(p)
    BY <1>4, <1>5 DEF Acquire, AcquireFails, Release, TxnWrite, TxnRead, Invalidating
  <1>6. CASE Get(p) \/ GetAgain(p) \/ Load(p)
    BY <1>4, <1>6 DEF Get, GetAgain, Load, Invalidating
  <1>7. CASE Crash(p)
    BY <1>4, <1>7 DEF Crash, InvalidationLost
  <1>8. CASE Invalidate(p)
    <2>1. pc[p] \in Invalidating /\ pc'[p] # pc[p]
      BY <1>2, <1>8 DEF Invalidate, Invalidating
    <2> QED
      BY <1>2, <2>1 DEF InvalidationLost
  <1>9. CASE Write(p) \/ WriteBare(p) \/ TxnEnd(p)
    <2>1. pc[p] \notin Invalidating /\ UNCHANGED cache
      BY <1>9 DEF Write, WriteBare, TxnEnd, Invalidating
    <2>2. Apply(p) /\ pc'[p] \in {"releaseFailed", "failed"}
      BY <1>2, <1>4, <1>9, <2>1 DEF Write, WriteBare, TxnEnd, Commit, Invalidating
    <2>3. applied'[p] > applied[p]
      BY <2>2 DEF Apply
    <2> QED
      BY <2>2, <2>3 DEF WriteUnnoticed
  <1>10. CASE Set(p)
    <2>1. pc[p] \in {"set", "setBare"} /\ pc'[p] # pc[p] /\ UNCHANGED doc
      BY <1>10 DEF Set
    <2>2. cache' = got[p] /\ got[p] \in Nat /\ got[p] < doc
      <3>1. pc[p] \notin Invalidating
        BY <2>1 DEF Invalidating
      <3>2. cache' = got[p]
        BY <1>2, <1>3, <1>10, <2>1, <3>1 DEF Set
      <3>3. got[p] \in Nat /\ got[p] <= doc /\ got[p] # doc
        BY <1>2, <2>1, <3>2 DEF CommittedOnly
      <3> QED
        BY <3>2, <3>3
    <2>3. ASSUME p \in held \ lapsed PROVE \E v \in unlocked : v > got[p]
      <3>1. pc[p] = "set"
        BY <2>1, <2>3 DEF LockOwned, Inside
      <3>2. got[p] + 1 \in (got[p] + 1)..doc
        BY <2>2
      <3>3. got[p] + 1 \in unlocked
        BY <2>3, <3>1, <3>2 DEF FillUnderLock
      <3>4. got[p] + 1 > got[p]
        BY <2>2
      <3> QED
        BY <3>3, <3>4
    <2> QED
      BY <2>1, <2>3 DEF UnprotectedFill
  <1> QED
    BY <1>5, <1>6, <1>7, <1>8, <1>9, <1>10 DEF Step

\* Every stale copy, for any number and mix of calls, goes back to an error that
\* hid a write, to a lost invalidation, or to a fill outside the lock's cover.
THEOREM StaleHasCause == Spec => StaleNeedsCause
  <1>1. ASSUME IInv, [Next]_vars, Coherent, ~Coherent'
        PROVE  \E p \in Calls :
                  WriteUnnoticed(p) \/ InvalidationLost(p) \/ UnprotectedFill(p)
    <2>1. CASE CacheExpires \/ LockExpires \/ UNCHANGED vars
      BY <1>1, <2>1 DEF CacheExpires, LockExpires, vars, Coherent
    <2> QED
      BY <1>1, <2>1, CauseStep DEF Next
  <1>2. IInv /\ [Next]_vars =>
          [Coherent /\ ~Coherent' =>
             \E p \in Calls :
                WriteUnnoticed(p) \/ InvalidationLost(p) \/ UnprotectedFill(p)]_vars
    BY <1>1
  <1> QED
    BY <1>2, Invariance, PTL DEF Spec, StaleNeedsCause

-----------------------------------------------------------------------------
(* Every call returns.                                                     *)

\* A step of a call brings it closer to its end.
LEMMA StepAhead ==
    ASSUME IInv, NEW p \in Calls, Step(p)
    PROVE  Ahead(pc'[p]) < Ahead(pc[p])
  <1> USE DEF IInv, TypeOK, Goto, Ahead, Over
  <1>1. CASE Acquire(p) \/ AcquireFails(p)
    <2>1. pc[p] = "lock"
      BY <1>1 DEF Acquire, AcquireFails
    <2>2. pc'[p] \in {"getAgain", "write", "loadBare", "writeBare", "failed"}
      BY <1>1 DEF Acquire, AcquireFails, Fallback
    <2> QED
      BY <2>1, <2>2
  <1>2. CASE Release(p)
    <2>1. /\ pc[p] = "release" => pc'[p] = "done"
          /\ pc[p] # "release" => pc'[p] \in {"loadBare", "writeBare", "failed"}
          /\ pc[p] \in {"release", "releaseFailed"}
      BY <1>2 DEF Release, Fallback
    <2> QED
      BY <2>1
  <1>3. CASE Get(p) \/ GetAgain(p)
    BY <1>3 DEF Get, GetAgain
  <1>4. CASE Load(p) \/ Set(p)
    BY <1>4 DEF Load, Set
  <1>5. CASE Write(p) \/ WriteBare(p) \/ Invalidate(p)
    BY <1>5 DEF Write, WriteBare, Invalidate
  <1>6. CASE TxnWrite(p) \/ TxnEnd(p)
    BY <1>6 DEF TxnWrite, TxnEnd
  <1> QED
    BY <1>1, <1>2, <1>3, <1>4, <1>5, <1>6 DEF Step

\* Nothing takes a call away from its end.
LEMMA NextAhead ==
    ASSUME IInv, [Next]_vars, NEW q \in Calls
    PROVE  pc'[q] = pc[q] \/ Ahead(pc'[q]) < Ahead(pc[q])
  <1>1. ASSUME NEW p \in Calls, Step(p) \/ TxnRead(p) \/ Crash(p), q # p
        PROVE  pc'[q] = pc[q]
    BY <1>1, PlaceStep DEF IInv
  <1>2. CASE Step(q)
    BY <1>2, StepAhead
  <1>3. CASE TxnRead(q)
    BY <1>3 DEF TxnRead
  <1>4. CASE Crash(q)
    BY <1>4 DEF Crash, Goto, Ahead, Over, IInv, TypeOK
  <1>5. CASE CacheExpires \/ LockExpires \/ UNCHANGED vars
    BY <1>5 DEF CacheExpires, LockExpires, vars
  <1> QED
    BY <1>1, <1>2, <1>3, <1>4, <1>5 DEF Next

\* A call never repeats a step that it has left behind.
THEOREM CallsGoForward == Spec => OnlyForward
  <1>1. IInv /\ [Next]_vars =>
          [\A p \in Calls : pc'[p] = pc[p] \/ Ahead(pc'[p]) < Ahead(pc[p])]_vars
    BY NextAhead
  <1> QED
    BY <1>1, Invariance, PTL DEF Spec, OnlyForward

\* A call that has at most m steps ahead will have at most n.
Closer(p, m, n) == [](Ahead(pc[p]) <= m => <>(Ahead(pc[p]) <= n))

\* One step is one step closer.
LEMMA OneCloser ==
    ASSUME NEW p \in Calls, NEW n \in Nat, NEW m \in Nat, m <= n + 1
    PROVE  Spec /\ StepsTaken(p) => Closer(p, m, n)
  <1> DEFINE Near == Ahead(pc[p]) <= m
             There == Ahead(pc[p]) <= n
  <1>0. \A l : Ahead(l) \in Nat
    BY DEF Ahead
  <1>1. IInv /\ Near /\ [Next]_vars => Near'
    BY <1>0, NextAhead
  <1>2. IInv /\ Near /\ <<Step(p)>>_vars => There'
    BY <1>0, StepAhead
  <1>3. pc[p] \in Over => There
    BY DEF Ahead
  <1> QED
    BY <1>1, <1>2, <1>3, Invariance, PTL DEF Spec, StepsTaken, Closer

\* Every call returns, among any number of others, with any failing calls and
\* lapsing locks, as long as it is given steps: no lock is waited for.
THEOREM AllReturn == Spec /\ (\A p \in Calls : StepsTaken(p)) => CallsReturn
  <1>1. ASSUME NEW p \in Calls PROVE Spec /\ StepsTaken(p) => <>(pc[p] \in Over)
    <2>1. Ahead(pc[p]) <= 7
      BY DEF Ahead
    <2>2. Ahead(pc[p]) <= 0 => pc[p] \in Over
      BY DEF Ahead
    <2>3. Spec /\ StepsTaken(p) => Closer(p, 7, 6)
      BY OneCloser
    <2>4. Spec /\ StepsTaken(p) => Closer(p, 6, 5)
      BY OneCloser
    <2>5. Spec /\ StepsTaken(p) => Closer(p, 5, 4)
      BY OneCloser
    <2>6. Spec /\ StepsTaken(p) => Closer(p, 4, 3)
      BY OneCloser
    <2>7. Spec /\ StepsTaken(p) => Closer(p, 3, 2)
      BY OneCloser
    <2>8. Spec /\ StepsTaken(p) => Closer(p, 2, 1)
      BY OneCloser
    <2>9. Spec /\ StepsTaken(p) => Closer(p, 1, 0)
      BY OneCloser
    <2> QED
      BY <2>1, <2>2, <2>3, <2>4, <2>5, <2>6, <2>7, <2>8, <2>9, PTL DEF Closer
  <1> QED
    BY <1>1 DEF CallsReturn

-----------------------------------------------------------------------------
(* What is left behind.                                                    *)

\* Once they are over, calls leave neither a copy nor a lock in Redis for longer
\* than a TTL, for any number and mix of calls.
THEOREM RedisIsCleared == Spec /\ EntriesEnd /\ LocksEnd => NothingLeftBehind
  <1> DEFINE AllOver == \A p \in Calls : pc[p] \in Over
  <1>1. ASSUME AllOver, [Next]_vars
        PROVE  /\ AllOver'
               /\ cache = Nothing => cache' = Nothing
               /\ lock = {} => lock' = {}
    <2>1. ASSUME NEW p \in Calls, Step(p) \/ TxnRead(p) \/ Crash(p) PROVE FALSE
      BY <1>1, <2>1 DEF Over, Step, Acquire, AcquireFails, Release, Get, GetAgain, Load,
           Set, Write, WriteBare, Invalidate, TxnWrite, TxnEnd, TxnRead, Crash
    <2>2. CASE CacheExpires \/ LockExpires \/ UNCHANGED vars
      BY <1>1, <2>2 DEF CacheExpires, LockExpires, redisLock, vars
    <2> QED
      BY <1>1, <2>1, <2>2 DEF Next
  <1>2. AllOver /\ [Next]_vars => AllOver'
    BY <1>1
  <1>3. AllOver /\ cache = Nothing /\ [Next]_vars => (cache = Nothing)'
    BY <1>1
  <1>4. AllOver /\ lock = {} /\ [Next]_vars => (lock = {})'
    BY <1>1
  <1>5. <<CacheExpires>>_vars => (cache = Nothing)'
    BY DEF CacheExpires
  <1>6. <<LockExpires>>_vars => (lock = {})'
    BY DEF LockExpires
  <1> QED
    BY <1>2, <1>3, <1>4, <1>5, <1>6, PTL
       DEF Spec, EntriesEnd, LocksEnd, NothingLeftBehind
=============================================================================
