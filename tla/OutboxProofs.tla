---------------------------- MODULE OutboxProofs ----------------------------
(***************************************************************************)
(* Proofs about Outbox, for every number of workers, events, retries and   *)
(* faults.  The invariants are parts of IInv; each part is shown to be     *)
(* preserved on its own, from the parts before it.                         *)
(***************************************************************************)
EXTENDS Outbox, FiniteSetTheorems, TLAPS

USE WorkersAssumption, KindAssumption, MaxRetriesAssumption, BatchAssumption,
    FaultsAssumption

\* What an insert does to the copies of an event.
LEMMA InsertCopies ==
    ASSUME stored \in [Events -> Nat], NEW e \in Events, Insert(e)
    PROVE  /\ stored' \in [Events -> Nat]
           /\ stored'[e] > 0
           /\ stored'[e] <= stored[e] + 1
           /\ Keyed(e) /\ stored[e] <= 1 => stored'[e] <= 1
           /\ \A f \in Events : f # e => stored'[f] = stored[f]
  BY DEF Insert

\* What running the handler on an event does to the worker's memory.
LEMMA HandleEffect ==
    ASSUME NEW w \in Workers, NEW e \in Events,
           \/ HandleOK(w, e) \/ HandleFails(w, e) \/ HandleAndEnqueueFail(w, e)
    PROVE  /\ \/ pc' = [pc EXCEPT ![w] = "markDone"]
              \/ pc' = [pc EXCEPT ![w] = "markFailed"]
           /\ current' = [current EXCEPT ![w] = {e}]
           /\ e \in claimed[w] /\ seen[w] = NothingSeen /\ pc[w] = "draining"
           /\ UNCHANGED <<doc, caller, seen, claimed>>
           /\ UNCHANGED stored \/ Insert(e)
  <1> USE DEF BatchClaimed, doc
  <1>1. CASE HandleOK(w, e)
    BY <1>1 DEF HandleOK
  <1>2. CASE HandleFails(w, e)
    <2>1. CASE Kind[e] = "login_history"
      BY <1>2, <2>1 DEF HandleFails
    <2>2. CASE Kind[e] # "login_history"
      BY <1>2, <2>2 DEF HandleFails
    <2> QED BY <2>1, <2>2
  <1>3. CASE HandleAndEnqueueFail(w, e)
    BY <1>3 DEF HandleAndEnqueueFail
  <1> QED BY <1>1, <1>2, <1>3

\* Type correctness is inductive by itself.
LEMMA TypeStep == TypeOK /\ [Next]_vars => TypeOK'
  <1> SUFFICES ASSUME TypeOK, [Next]_vars PROVE TypeOK'
    OBVIOUS
  <1> USE DEF TypeOK, worker, doc
  <1>1. ASSUME NEW e \in Events, Append(e) PROVE TypeOK'
    <2>1. CASE DirectAppend(e)
      <3>1. DocTypes' /\ WorkerTypes'
        BY <2>1 DEF DirectAppend, DocTypes, WorkerTypes
      <3> QED BY <2>1, <3>1, InsertCopies DEF DirectAppend, Fault
    <2>2. CASE Enqueue(e)
      <3>1. DocTypes'
        BY <2>2 DEF Enqueue, InsertDoc, DocTypes, Statuses
      <3>2. WorkerTypes'
        BY <2>2 DEF Enqueue, WorkerTypes
      <3> QED BY <2>2, <3>1, <3>2 DEF Enqueue, Fault
    <2>3. CASE CallerCrash(e)
      BY <2>3 DEF CallerCrash, Fault, DocTypes, WorkerTypes
    <2> QED BY <1>1, <2>1, <2>2, <2>3 DEF Append
  <1>2. ASSUME NEW e \in Events, BecomesDue(e) PROVE TypeOK'
    BY <1>2 DEF BecomesDue, DocTypes, WorkerTypes
  <1>3. ASSUME NEW w \in Workers, ClaimRead(w) PROVE TypeOK'
    <2>1. PICK S \in Limited(Eligible) :
             seen' = [seen EXCEPT ![w] =
                       [e \in Events |-> IF e \in S THEN status[e] ELSE "none"]]
      BY <1>3 DEF ClaimRead
    <2>2. \A e \in S : status[e] \in Readable
      BY DEF Limited, Eligible
    <2>3. WorkerTypes'
      BY <1>3, <2>1, <2>2 DEF ClaimRead, WorkerTypes
    <2> QED BY <1>3, <2>3 DEF ClaimRead, DocTypes
  <1>4. ASSUME NEW w \in Workers, DrainNothing(w) \/ ProcessEnds(w) \/ Restart(w)
        PROVE  TypeOK'
    BY <1>4 DEF DrainNothing, ProcessEnds, Restart, DocTypes, WorkerTypes
  <1>5. ASSUME NEW w \in Workers, NEW e \in Events, ClaimOne(w, e) PROVE TypeOK'
    <2>1. DocTypes'
      BY <1>5 DEF ClaimOne, Claim, DocTypes, Statuses
    <2>2. WorkerTypes'
      BY <1>5 DEF ClaimOne, WorkerTypes
    <2> QED BY <1>5, <2>1, <2>2 DEF ClaimOne
  <1>6. ASSUME NEW w \in Workers, NEW e \in Events,
               \/ HandleOK(w, e) \/ HandleFails(w, e) \/ HandleAndEnqueueFail(w, e)
        PROVE  TypeOK'
    <2>1. stored' \in [Events -> Nat]
      BY <1>6, HandleEffect, InsertCopies
    <2>2. DocTypes'
      BY <1>6, HandleEffect DEF DocTypes
    <2>3. WorkerTypes'
      <3>1. /\ \/ pc' = [pc EXCEPT ![w] = "markDone"]
               \/ pc' = [pc EXCEPT ![w] = "markFailed"]
            /\ current' = [current EXCEPT ![w] = {e}]
            /\ UNCHANGED <<seen, claimed>>
        BY <1>6, HandleEffect
      <3> QED BY <3>1 DEF WorkerTypes
    <2>4. faults' \in 0..MaxFaults
      <3>1. CASE HandleAndEnqueueFail(w, e)
        BY <3>1 DEF HandleAndEnqueueFail
      <3> QED BY <1>6, <3>1 DEF HandleOK, HandleFails, Fault
    <2>5. UNCHANGED caller
      BY <1>6, HandleEffect
    <2> QED BY <2>1, <2>2, <2>3, <2>4, <2>5
  <1>7. ASSUME NEW w \in Workers, NEW e \in Events, Mark(w, e) PROVE TypeOK'
    <2>1. DocTypes'
      BY <1>7 DEF Mark, Marked, MarkDone, MarkFailed, DocTypes, Statuses
    <2>2. WorkerTypes'
      BY <1>7 DEF Mark, WorkerTypes
    <2> QED BY <1>7, <2>1, <2>2 DEF Mark
  <1>8. ASSUME NEW w \in Workers, WorkerFault(w) PROVE TypeOK'
    <2>1. ASSUME Ended(w, "stopped") \/ Ended(w, "down") PROVE WorkerTypes'
      <3>1. CASE Ended(w, "stopped")
        BY <3>1 DEF Ended, NothingSeen, WorkerTypes
      <3>2. CASE Ended(w, "down")
        BY <3>2 DEF Ended, NothingSeen, WorkerTypes
      <3> QED BY <2>1, <3>1, <3>2
    <2>2. CASE ClaimReadFails(w)
      BY <2>1, <2>2 DEF ClaimReadFails, Stopped, Fault, DocTypes
    <2>3. CASE Crash(w)
      BY <2>1, <2>3 DEF Crash, Fault, DocTypes
    <2>4. ASSUME NEW e \in Events, ClaimOneFails(w, e) PROVE TypeOK'
      <3>1. DocTypes'
        BY <2>4 DEF ClaimOneFails, Claim, DocTypes, Statuses
      <3>2. WorkerTypes'
        BY <2>4 DEF ClaimOneFails, WorkerTypes
      <3> QED BY <2>4, <3>1, <3>2 DEF ClaimOneFails, Fault
    <2>5. ASSUME NEW e \in Events, MarkFails(w, e) PROVE TypeOK'
      <3>1. DocTypes'
        BY <2>5 DEF MarkFails, Marked, MarkDone, MarkFailed, DocTypes, Statuses
      <3> QED BY <2>1, <2>5, <3>1 DEF MarkFails, Stopped, Fault
    <2> QED BY <1>8, <2>2, <2>3, <2>4, <2>5 DEF WorkerFault
  <1>9. CASE UNCHANGED vars
    BY <1>9 DEF vars, DocTypes, WorkerTypes
  <1> QED
    BY <1>1, <1>2, <1>3, <1>4, <1>5, <1>6, <1>7, <1>8, <1>9 DEF Next, Drain


-----------------------------------------------------------------------------
(* Claims.  Only ClaimOne adds to claimed[w], and it does so in the step   *)
(* that moves the document away from the status it was read with.          *)

\* Claims stay exclusive, and idle workers empty-handed, over every step.
LEMMA ClaimStep == TypeOK /\ ExclusiveClaim /\ Idle /\ [Next]_vars
                     => ExclusiveClaim' /\ Idle'
  <1> SUFFICES ASSUME TypeOK, ExclusiveClaim, Idle, [Next]_vars
               PROVE  ExclusiveClaim' /\ Idle'
    OBVIOUS
  <1> USE DEF TypeOK, WorkerTypes, DocTypes, worker, doc
  <1>1. ASSUME NEW e \in Events, Append(e) \/ BecomesDue(e)
        PROVE  ExclusiveClaim' /\ Idle'
    <2>1. UNCHANGED worker
      BY <1>1 DEF Append, DirectAppend, Enqueue, CallerCrash, BecomesDue
    <2>2. \A f \in Events : status[f] = "processing" => status'[f] = "processing"
      BY <1>1 DEF Append, DirectAppend, Enqueue, CallerCrash, BecomesDue, InsertDoc
    <2> QED BY <2>1, <2>2 DEF ExclusiveClaim, Idle
  <1>2. ASSUME NEW w \in Workers, ClaimRead(w) PROVE ExclusiveClaim' /\ Idle'
    <2>1. ExclusiveClaim'
      BY <1>2 DEF ClaimRead, ExclusiveClaim
    <2>2. PICK S \in SUBSET Events :
            /\ seen' = [seen EXCEPT ![w] =
                          [e \in Events |-> IF e \in S THEN status[e] ELSE "none"]]
            /\ pc' = [pc EXCEPT ![w] = IF S = {} THEN "idle" ELSE "draining"]
      BY Zenon, <1>2 DEF ClaimRead, Limited, Eligible
    <2>3. Idle'
      BY <1>2, <2>2 DEF ClaimRead, Idle, NothingSeen
    <2> QED BY <2>1, <2>3
  <1>3. ASSUME NEW w \in Workers, DrainNothing(w) \/ ProcessEnds(w) \/ Restart(w)
        PROVE  ExclusiveClaim' /\ Idle'
    <2>1. ExclusiveClaim'
      BY <1>3 DEF DrainNothing, ProcessEnds, Restart, ExclusiveClaim
    <2>2. Idle'
      BY <1>3 DEF DrainNothing, ProcessEnds, Restart, BatchClaimed, Idle
    <2> QED BY <2>1, <2>2
  <1>4. ASSUME NEW w \in Workers, NEW e \in Events, ClaimOne(w, e)
        PROVE  ExclusiveClaim' /\ Idle'
    <2>1. ExclusiveClaim'
      <3>1. seen[w][e] # "processing"
        BY DEF Readable
      <3>2. CASE status[e] # seen[w][e]
        BY <1>4, <3>2 DEF ClaimOne, Claim, ExclusiveClaim
      <3>3. CASE status[e] = seen[w][e]
        <4>1. /\ status' = [status EXCEPT ![e] = "processing"]
              /\ claimed' = [claimed EXCEPT ![w] = @ \cup {e}]
          BY <1>4, <3>3 DEF ClaimOne, Claim
        <4>2. \A v \in Workers : e \notin claimed[v]
          BY <3>1, <3>3 DEF ExclusiveClaim
        <4> QED BY <4>1, <4>2 DEF ExclusiveClaim
      <3> QED BY <3>2, <3>3
    <2>2. Idle'
      BY <1>4 DEF ClaimOne, Idle
    <2> QED BY <2>1, <2>2
  <1>5. ASSUME NEW w \in Workers, NEW e \in Events,
               \/ HandleOK(w, e) \/ HandleFails(w, e) \/ HandleAndEnqueueFail(w, e)
        PROVE  ExclusiveClaim' /\ Idle'
    <2>1. ExclusiveClaim'
      BY <1>5, HandleEffect DEF ExclusiveClaim
    <2>2. /\ \/ pc' = [pc EXCEPT ![w] = "markDone"]
             \/ pc' = [pc EXCEPT ![w] = "markFailed"]
          /\ current' = [current EXCEPT ![w] = {e}]
          /\ e \in claimed[w] /\ seen[w] = NothingSeen
          /\ UNCHANGED <<seen, claimed>>
      BY <1>5, HandleEffect
    <2>3. Idle'
      BY <2>2 DEF Idle
    <2> QED BY <2>1, <2>3
  <1>6. ASSUME NEW w \in Workers, NEW e \in Events, Mark(w, e)
        PROVE  ExclusiveClaim' /\ Idle'
    <2>1. ExclusiveClaim'
      BY <1>6 DEF Mark, Marked, MarkDone, MarkFailed, ExclusiveClaim, Idle
    <2>2. Idle'
      BY <1>6 DEF Mark, Marked, Idle
    <2> QED BY <2>1, <2>2
  <1>7. ASSUME NEW w \in Workers, WorkerFault(w) PROVE ExclusiveClaim' /\ Idle'
    <2>1. ASSUME Ended(w, "stopped") \/ Ended(w, "down") PROVE Idle'
      BY <2>1 DEF Ended, NothingSeen, Idle
    <2>2. CASE ClaimReadFails(w) \/ Crash(w)
      BY Zenon, <2>1, <2>2 DEF ClaimReadFails, Crash, Stopped, Ended, ExclusiveClaim
    <2>3. ASSUME NEW e \in Events, ClaimOneFails(w, e) PROVE ExclusiveClaim' /\ Idle'
      <3>1. ExclusiveClaim'
        BY <2>3 DEF ClaimOneFails, Claim, ExclusiveClaim
      <3>2. Idle'
        BY <2>3 DEF ClaimOneFails, Idle
      <3> QED BY <3>1, <3>2
    <2>4. ASSUME NEW e \in Events, MarkFails(w, e) PROVE ExclusiveClaim' /\ Idle'
      <3>1. ExclusiveClaim'
        BY <2>4 DEF MarkFails, Stopped, Ended, Marked, MarkDone, MarkFailed, ExclusiveClaim, Idle
      <3> QED BY <2>1, <2>4, <3>1 DEF MarkFails, Stopped
    <2> QED BY <1>7, <2>2, <2>3, <2>4 DEF WorkerFault
  <1>8. CASE UNCHANGED vars
    BY <1>8 DEF vars, ExclusiveClaim, Idle
  <1> QED
    BY <1>1, <1>2, <1>3, <1>4, <1>5, <1>6, <1>7, <1>8 DEF Next, Drain
-----------------------------------------------------------------------------
(* What done means.  An event is marked done by the worker that inserted   *)
(* it, and nobody else writes its document or its copies meanwhile.        *)

\* MarkDone follows an insert that succeeded.
LEMMA DoneStep ==
    TypeOK /\ ExclusiveClaim /\ Idle /\ DoneMeansStored /\ AboutToBeDone /\ [Next]_vars
      => DoneMeansStored' /\ AboutToBeDone'
  <1> SUFFICES ASSUME TypeOK, ExclusiveClaim, Idle, DoneMeansStored, AboutToBeDone,
                      [Next]_vars
               PROVE  DoneMeansStored' /\ AboutToBeDone'
    OBVIOUS
  <1> USE DEF TypeOK, WorkerTypes, DocTypes, worker, doc
  <1>0. ASSUME NEW e \in Events, UNCHANGED stored \/ Insert(e)
        PROVE  \A f \in Events : stored[f] > 0 => stored'[f] > 0
    BY <1>0, InsertCopies
  <1>1. ASSUME NEW e \in Events, Append(e) \/ BecomesDue(e)
        PROVE  DoneMeansStored' /\ AboutToBeDone'
    <2>1. UNCHANGED worker
      BY <1>1 DEF Append, DirectAppend, Enqueue, CallerCrash, BecomesDue
    <2>2. \A f \in Events : status'[f] = "done" => status[f] = "done"
      BY <1>1 DEF Append, DirectAppend, Enqueue, CallerCrash, BecomesDue, InsertDoc
    <2>3. \A f \in Events : stored[f] > 0 => stored'[f] > 0
      BY <1>0, <1>1 DEF Append, DirectAppend, Enqueue, CallerCrash, BecomesDue
    <2> QED BY <2>1, <2>2, <2>3 DEF DoneMeansStored, AboutToBeDone
  <1>2. ASSUME NEW w \in Workers,
               ClaimRead(w) \/ DrainNothing(w) \/ ProcessEnds(w) \/ Restart(w)
        PROVE  DoneMeansStored' /\ AboutToBeDone'
    <2>1. UNCHANGED <<stored, status, current>> /\ pc'[w] # "markDone"
          /\ \A v \in Workers : v # w => pc'[v] = pc[v]
      BY <1>2 DEF ClaimRead, DrainNothing, ProcessEnds, Restart
    <2> QED BY <2>1 DEF DoneMeansStored, AboutToBeDone
  <1>3. ASSUME NEW w \in Workers, NEW e \in Events, ClaimOne(w, e) \/ ClaimOneFails(w, e)
        PROVE  DoneMeansStored' /\ AboutToBeDone'
    <2>1. UNCHANGED <<stored, pc, current>>
      BY <1>3 DEF ClaimOne, ClaimOneFails
    <2>2. \A f \in Events : status'[f] = "done" => status[f] = "done"
      BY <1>3 DEF ClaimOne, ClaimOneFails, Claim
    <2> QED BY <2>1, <2>2 DEF DoneMeansStored, AboutToBeDone
  <1>4. ASSUME NEW w \in Workers, NEW e \in Events,
               \/ HandleOK(w, e) \/ HandleFails(w, e) \/ HandleAndEnqueueFail(w, e)
        PROVE  DoneMeansStored' /\ AboutToBeDone'
    <2>1. /\ current' = [current EXCEPT ![w] = {e}]
          /\ UNCHANGED status
          /\ \A v \in Workers : v # w => pc'[v] = pc[v]
      BY <1>4, HandleEffect
    <2>2. \A f \in Events : stored[f] > 0 => stored'[f] > 0
      BY <1>0, <1>4, HandleEffect
    <2>3. pc'[w] = "markDone" /\ Kind[e] # "login_history" => stored'[e] > 0
      BY <1>4, InsertCopies DEF HandleOK, HandleFails, HandleAndEnqueueFail
    <2> QED BY <2>1, <2>2, <2>3 DEF DoneMeansStored, AboutToBeDone
  <1>5. ASSUME NEW w \in Workers, NEW e \in Events, Mark(w, e) \/ MarkFails(w, e)
        PROVE  DoneMeansStored' /\ AboutToBeDone'
    <2>1. /\ UNCHANGED stored
          /\ current' = [current EXCEPT ![w] = {}]
          /\ \A v \in Workers : v # w => pc'[v] = pc[v]
      BY <1>5 DEF Mark, MarkFails, Stopped, Ended
    <2>2. \A f \in Events : status'[f] = "done" =>
             \/ status[f] = "done"
             \/ f = e /\ e \in current[w] /\ pc[w] = "markDone"
      BY <1>5 DEF Mark, MarkFails, Marked, MarkDone, MarkFailed
    <2> QED BY <2>1, <2>2 DEF DoneMeansStored, AboutToBeDone
  <1>6. ASSUME NEW w \in Workers, ClaimReadFails(w) \/ Crash(w)
        PROVE  DoneMeansStored' /\ AboutToBeDone'
    <2>1. /\ UNCHANGED <<stored, status>>
          /\ current' = [current EXCEPT ![w] = {}]
          /\ \A v \in Workers : v # w => pc'[v] = pc[v]
      BY <1>6 DEF ClaimReadFails, Crash, Stopped, Ended
    <2> QED BY <2>1 DEF DoneMeansStored, AboutToBeDone
  <1>7. CASE UNCHANGED vars
    BY <1>7 DEF vars, DoneMeansStored, AboutToBeDone
  <1> QED
    BY <1>1, <1>2, <1>3, <1>4, <1>5, <1>6, <1>7 DEF Next, Drain, WorkerFault
-----------------------------------------------------------------------------
(* Copies.  Every attempt inserts at most once, and a further attempt      *)
(* needs MarkFailed, which counts it.                                      *)

\* An event whose copies and count stand still keeps its bound.
LEMMA SameCopies ==
    ASSUME TypeOK, CopiesCounted, NEW f \in Events,
           stored'[f] = stored[f], retry'[f] = retry[f],
           ~Keyed(f) => (Unattempted(f)' => Unattempted(f))
    PROVE  /\ Keyed(f) => stored'[f] <= 1
           /\ ~Keyed(f) => stored'[f] <= retry'[f] + 1
           /\ ~Keyed(f) /\ Unattempted(f)' => stored'[f] <= retry'[f]
  BY DEF CopiesCounted, TypeOK, DocTypes

\* Every step keeps the copies of an event covered by its failed attempts.
LEMMA CopiesStep ==
    TypeOK /\ ExclusiveClaim /\ Idle /\ CopiesCounted /\ [Next]_vars => CopiesCounted'
  <1> SUFFICES ASSUME TypeOK, ExclusiveClaim, Idle, CopiesCounted, [Next]_vars,
                      NEW f \in Events
               PROVE  /\ Keyed(f) => stored'[f] <= 1
                      /\ ~Keyed(f) => stored'[f] <= retry'[f] + 1
                      /\ ~Keyed(f) /\ Unattempted(f)' => stored'[f] <= retry'[f]
    BY DEF CopiesCounted, Keyed
  <1> DEFINE Goal == /\ Keyed(f) => stored'[f] <= 1
                     /\ ~Keyed(f) => stored'[f] <= retry'[f] + 1
                     /\ ~Keyed(f) /\ Unattempted(f)' => stored'[f] <= retry'[f]
  <1> USE DEF worker, doc
  <1>0. ASSUME UNCHANGED <<stored, retry>>, Unattempted(f)' => Unattempted(f) PROVE Goal
    BY <1>0, SameCopies
  <1>1. ASSUME NEW e \in Events, Append(e) PROVE Goal
    <2>1. CASE DirectAppend(e)
      <3>1. stored \in [Events -> Nat] /\ Keyed(e) /\ UNCHANGED <<doc, worker>>
        BY <2>1 DEF TypeOK, DirectAppend, Keyed
      <3>2. Unattempted(f)' => Unattempted(f)
        BY <3>1 DEF Unattempted
      <3>3. UNCHANGED stored \/ Insert(e)
        BY <2>1 DEF DirectAppend
      <3>4. CASE UNCHANGED stored
        BY <1>0, <3>1, <3>2, <3>4
      <3>5. CASE Insert(e) /\ f = e
        BY <3>1, <3>5, InsertCopies DEF CopiesCounted
      <3>6. CASE Insert(e) /\ f # e
        <4>1. stored'[f] = stored[f]
          BY <3>1, <3>6, InsertCopies
        <4> QED BY <3>1, <3>2, <4>1, SameCopies
      <3> QED BY <3>3, <3>4, <3>5, <3>6
    <2>2. CASE Enqueue(e)
      <3>1. UNCHANGED <<stored, retry, worker>>
        BY <2>2 DEF Enqueue, InsertDoc
      <3>2. Unattempted(f)' => Unattempted(f)
        BY <2>2, <3>1 DEF Enqueue, InsertDoc, Unattempted, TypeOK, DocTypes
      <3> QED BY <1>0, <3>1, <3>2
    <2>3. CASE CallerCrash(e)
      BY <1>0, <2>3 DEF CallerCrash, Unattempted
    <2> QED BY <1>1, <2>1, <2>2, <2>3 DEF Append
  <1>2. ASSUME NEW e \in Events, BecomesDue(e) PROVE Goal
    BY <1>0, <1>2 DEF BecomesDue, Unattempted
  <1>3. ASSUME NEW w \in Workers,
               ClaimRead(w) \/ DrainNothing(w) \/ ProcessEnds(w) \/ Restart(w)
        PROVE  Goal
    <2>1. UNCHANGED <<stored, doc, claimed, current>>
      BY <1>3 DEF ClaimRead, DrainNothing, ProcessEnds, Restart
    <2> QED BY <1>0, <2>1 DEF Unattempted
  <1>4. ASSUME NEW w \in Workers, NEW e \in Events, ClaimOne(w, e) \/ ClaimOneFails(w, e)
        PROVE  Goal
    <2>1. UNCHANGED <<stored, retry, current>>
      BY <1>4 DEF ClaimOne, ClaimOneFails, Claim
    <2>2. CASE UNCHANGED <<status, claimed>>
      BY <1>0, <2>1, <2>2 DEF Unattempted
    <2>3. CASE Claim(w, e)
      <3>1. status[e] \notin {"processing", "done"}
        BY <1>4, <2>3 DEF Claim, ClaimOne, ClaimOneFails, TypeOK, WorkerTypes, Readable
      <3>2. \A v \in Workers : f # e => (f \in claimed'[v] <=> f \in claimed[v])
        BY <1>4 DEF ClaimOne, ClaimOneFails, TypeOK, WorkerTypes
      <3>3. f # e => status'[f] = status[f]
        BY <2>3 DEF Claim, TypeOK, DocTypes
      <3> QED BY <1>0, <2>1, <3>1, <3>2, <3>3 DEF Unattempted
    <2> QED BY <1>4, <2>2, <2>3 DEF ClaimOne, ClaimOneFails
  <1>5. ASSUME NEW w \in Workers, NEW e \in Events,
               \/ HandleOK(w, e) \/ HandleFails(w, e) \/ HandleAndEnqueueFail(w, e)
        PROVE  Goal
    <2>1. /\ current' = [current EXCEPT ![w] = {e}] /\ current[w] = {}
          /\ e \in claimed[w] /\ UNCHANGED <<status, retry, claimed>>
          /\ UNCHANGED stored \/ Insert(e)
      BY <1>5, HandleEffect DEF Idle
    <2>2. CASE f # e
      <3>1. stored'[f] = stored[f]
        BY <2>1, <2>2, InsertCopies DEF TypeOK
      <3>2. Unattempted(f)' => Unattempted(f)
        BY <2>1, <2>2 DEF Unattempted, TypeOK, WorkerTypes
      <3> QED BY <2>1, <3>1, <3>2, SameCopies
    <2>3. CASE f = e
      <3>1. Unattempted(e)
        BY <2>1 DEF Unattempted
      <3>2. ~Unattempted(e)'
        <4>1. status'[e] = "processing"
          BY <2>1 DEF ExclusiveClaim
        <4>2. \A v \in Workers : e \in claimed'[v] => e \in current'[v]
          BY <2>1 DEF ExclusiveClaim, TypeOK, WorkerTypes
        <4> QED BY <4>1, <4>2 DEF Unattempted
      <3>3. /\ stored[e] \in Nat /\ stored'[e] \in Nat
            /\ stored'[e] <= stored[e] + 1
            /\ Keyed(e) /\ stored[e] <= 1 => stored'[e] <= 1
        BY <2>1, InsertCopies DEF TypeOK
      <3> QED BY <2>1, <2>3, <3>1, <3>2, <3>3 DEF CopiesCounted, TypeOK, DocTypes
    <2> QED BY <2>2, <2>3
  <1>6. ASSUME NEW w \in Workers, NEW e \in Events, Mark(w, e) \/ MarkFails(w, e)
        PROVE  Goal
    <2>1. /\ UNCHANGED stored /\ e \in current[w] /\ e \in claimed[w]
          /\ current' = [current EXCEPT ![w] = {}]
          /\ UNCHANGED doc \/ MarkDone(e) \/ MarkFailed(e)
          /\ \/ claimed' = [claimed EXCEPT ![w] = @ \ {e}]
             \/ claimed' = [claimed EXCEPT ![w] = {}]
      BY <1>6 DEF Mark, MarkFails, Marked, Stopped, Ended, Idle
    <2>2. CASE f # e
      <3>1. retry'[f] = retry[f] /\ status'[f] = status[f]
        BY <2>1, <2>2 DEF MarkDone, MarkFailed, TypeOK, DocTypes
      <3>2. \A v \in Workers : f \in claimed'[v] \ current'[v] => f \in claimed[v] \ current[v]
        BY <2>1, <2>2 DEF Idle, TypeOK, WorkerTypes
      <3> QED BY <2>1, <3>1, <3>2, SameCopies DEF Unattempted
    <2>3. CASE f = e
      <3>1. \A v \in Workers : e \notin claimed'[v]
        <4>1. \A v \in Workers : v # w => claimed'[v] = claimed[v]
          BY <2>1 DEF TypeOK, WorkerTypes
        <4>2. e \notin claimed'[w]
          BY <2>1 DEF TypeOK, WorkerTypes
        <4> QED BY <2>1, <4>1, <4>2 DEF ExclusiveClaim
      <3>2. status[e] = "processing"
        BY <2>1 DEF ExclusiveClaim
      <3>3. CASE MarkFailed(e)
        <4>1. retry'[e] = retry[e] + 1
          BY <3>3 DEF MarkFailed, TypeOK, DocTypes
        <4> QED BY <2>1, <2>3, <4>1 DEF CopiesCounted, TypeOK, DocTypes
      <3>4. CASE UNCHANGED doc \/ MarkDone(e)
        <4>1. UNCHANGED retry /\ status'[e] \in {"processing", "done"}
          BY <3>2, <3>4 DEF MarkDone, TypeOK, DocTypes
        <4>2. ~Unattempted(f)'
          BY <2>3, <3>1, <4>1 DEF Unattempted
        <4> QED BY <1>0, <2>1, <4>1, <4>2
      <3> QED BY <2>1, <3>3, <3>4
    <2> QED BY <2>2, <2>3
  <1>7. ASSUME NEW w \in Workers, ClaimReadFails(w) \/ Crash(w) PROVE Goal
    <2>1. /\ UNCHANGED <<stored, doc>>
          /\ claimed' = [claimed EXCEPT ![w] = {}]
          /\ current' = [current EXCEPT ![w] = {}]
      BY <1>7 DEF ClaimReadFails, Crash, Stopped, Ended
    <2> QED BY <1>0, <2>1 DEF Unattempted, TypeOK, WorkerTypes
  <1>8. CASE UNCHANGED vars
    BY <1>0, <1>8 DEF vars, Unattempted
  <1>9. ASSUME NEW w \in Workers, Drain(w) PROVE Goal
    BY <1>3, <1>4, <1>5, <1>6, <1>9 DEF Drain
  <1>10. ASSUME NEW w \in Workers, WorkerFault(w) PROVE Goal
    BY <1>4, <1>6, <1>7, <1>10 DEF WorkerFault
  <1> QED BY <1>1, <1>2, <1>3, <1>8, <1>9, <1>10 DEF Next
-----------------------------------------------------------------------------
(* Retries.  A worker that has read or claimed e may still add one to its  *)
(* count; ClaimRead lets no worker in once the count has reached its       *)
(* maximum, so that the workers already in bound the excess.               *)

\* An event whose count stands still and that no worker newly holds.
LEMMA SameRetries ==
    ASSUME TypeOK, RetriesCovered, NEW f \in Events, retry'[f] = retry[f],
           \A v \in Workers : \/ seen'[v][f] = "none" \/ seen'[v][f] = seen[v][f]
                              \/ f \in claimed[v],
           \A v \in Workers : f \in claimed'[v] => f \in claimed[v] \/ seen[v][f] # "none"
    PROVE  retry'[f] + Cardinality(Holders(f)') <= MaxRetries + Cardinality(Workers) - 1
  <1>1. IsFiniteSet(Holders(f)) /\ Holders(f)' \in SUBSET Holders(f)
    BY FS_Subset DEF Holders
  <1>2. Cardinality(Holders(f)') <= Cardinality(Holders(f))
    BY <1>1, FS_Subset
  <1>3. /\ Cardinality(Holders(f)) \in Nat /\ Cardinality(Holders(f)') \in Nat
        /\ Cardinality(Workers) \in Nat
    BY <1>1, FS_Subset, FS_CardinalityType
  <1> QED BY <1>2, <1>3 DEF RetriesCovered, TypeOK, DocTypes

\* Every step keeps the retry count covered by the workers that hold the event.
LEMMA RetriesStep ==
    TypeOK /\ ExclusiveClaim /\ Idle /\ RetriesCovered /\ [Next]_vars => RetriesCovered'
  <1> SUFFICES ASSUME TypeOK, ExclusiveClaim, Idle, RetriesCovered, [Next]_vars,
                      NEW f \in Events
               PROVE  retry'[f] + Cardinality(Holders(f)')
                        <= MaxRetries + Cardinality(Workers) - 1
    BY DEF RetriesCovered
  <1> DEFINE Goal == retry'[f] + Cardinality(Holders(f)')
                       <= MaxRetries + Cardinality(Workers) - 1
  <1> USE DEF worker, doc
  <1>1. ASSUME NEW e \in Events, Append(e) \/ BecomesDue(e) PROVE Goal
    <2>1. UNCHANGED <<retry, worker>>
      BY <1>1 DEF Append, DirectAppend, Enqueue, CallerCrash, BecomesDue, InsertDoc
    <2> QED BY <2>1, SameRetries
  <1>2. ASSUME NEW w \in Workers, ClaimRead(w) PROVE Goal
    <2>1. PICK S \in Limited(Eligible) :
            seen' = [seen EXCEPT ![w] =
                       [e \in Events |-> IF e \in S THEN status[e] ELSE "none"]]
      BY Zenon, <1>2 DEF ClaimRead
    <2>2. UNCHANGED <<retry, claimed>>
      BY <1>2 DEF ClaimRead
    <2>3. CASE f \in S
      <3>1. retry[f] < MaxRetries
        BY <2>3 DEF Limited, Eligible
      <3>2. Holders(f)' \in SUBSET Workers
        BY DEF Holders
      <3>3. /\ Cardinality(Holders(f)') <= Cardinality(Workers)
            /\ Cardinality(Holders(f)') \in Nat /\ Cardinality(Workers) \in Nat
        BY <3>2, FS_Subset, FS_CardinalityType
      <3> QED BY <2>2, <3>1, <3>3 DEF TypeOK, DocTypes
    <2>4. CASE f \notin S
      <3>1. \A v \in Workers : seen'[v][f] = "none" \/ seen'[v][f] = seen[v][f]
        BY <2>1, <2>4 DEF TypeOK, WorkerTypes
      <3> QED BY <2>2, <3>1, SameRetries
    <2> QED BY <2>3, <2>4
  <1>3. ASSUME NEW w \in Workers, DrainNothing(w) \/ ProcessEnds(w) \/ Restart(w) PROVE Goal
    <2>1. UNCHANGED <<retry, seen, claimed>>
      BY <1>3 DEF DrainNothing, ProcessEnds, Restart
    <2> QED BY <2>1, SameRetries
  <1>4. ASSUME NEW w \in Workers, NEW e \in Events, ClaimOne(w, e) \/ ClaimOneFails(w, e)
        PROVE  Goal
    <2>1. UNCHANGED retry
      BY <1>4 DEF ClaimOne, ClaimOneFails, Claim
    <2>2. \A v \in Workers : seen'[v][f] = "none" \/ seen'[v][f] = seen[v][f]
      <3>1. seen' = [seen EXCEPT ![w][e] = "none"]
        BY <1>4 DEF ClaimOne, ClaimOneFails
      <3> QED BY <3>1 DEF TypeOK, WorkerTypes
    <2>3. \A v \in Workers : f \in claimed'[v] => f \in claimed[v] \/ seen[v][f] # "none"
      BY <1>4 DEF ClaimOne, ClaimOneFails, TypeOK, WorkerTypes
    <2> QED BY <2>1, <2>2, <2>3, SameRetries
  <1>5. ASSUME NEW w \in Workers, NEW e \in Events,
               \/ HandleOK(w, e) \/ HandleFails(w, e) \/ HandleAndEnqueueFail(w, e)
        PROVE  Goal
    <2>1. UNCHANGED <<retry, seen, claimed>>
      BY <1>5, HandleEffect
    <2> QED BY <2>1, SameRetries
  <1>6. ASSUME NEW w \in Workers, NEW e \in Events, Mark(w, e) \/ MarkFails(w, e)
        PROVE  Goal
    <2>0. e \in current[w] /\ pc[w] \in {"markDone", "markFailed"}
      BY <1>6 DEF Mark, MarkFails, Idle
    <2>1. /\ e \in claimed[w] /\ seen[w] = NothingSeen
          /\ UNCHANGED retry \/ MarkFailed(e)
          /\ UNCHANGED seen \/ seen' = [seen EXCEPT ![w] = NothingSeen]
          /\ \/ claimed' = [claimed EXCEPT ![w] = @ \ {e}]
             \/ claimed' = [claimed EXCEPT ![w] = {}]
      <3>1. e \in claimed[w] /\ seen[w] = NothingSeen
        BY <2>0 DEF Idle
      <3> QED BY <1>6, <3>1 DEF Mark, MarkFails, Marked, MarkDone, Stopped, Ended
    <2>2. UNCHANGED seen
      BY <2>1 DEF TypeOK, WorkerTypes
    <2>3. \A v \in Workers : claimed'[v] \subseteq claimed[v]
      BY <2>1 DEF TypeOK, WorkerTypes
    <2>4. CASE retry'[f] = retry[f]
      BY <2>2, <2>3, <2>4, SameRetries
    <2>5. CASE retry'[f] # retry[f]
      <3>1. f = e /\ retry'[f] = retry[f] + 1
        BY <2>1, <2>5 DEF MarkFailed, TypeOK, DocTypes
      <3>2. w \notin Holders(f)'
        BY <2>1, <2>2, <3>1 DEF Holders, NothingSeen, TypeOK, WorkerTypes
      <3>3. Holders(f)' \in SUBSET (Holders(f) \ {w}) /\ w \in Holders(f)
        BY <2>1, <2>2, <2>3, <3>1, <3>2 DEF Holders
      <3>4. IsFiniteSet(Holders(f))
        BY FS_Subset DEF Holders
      <3>5. /\ IsFiniteSet(Holders(f) \ {w})
            /\ Cardinality(Holders(f) \ {w}) = Cardinality(Holders(f)) - 1
        BY <3>3, <3>4, FS_RemoveElement
      <3>6. /\ Cardinality(Holders(f)') <= Cardinality(Holders(f) \ {w})
            /\ IsFiniteSet(Holders(f)')
        BY <3>3, <3>5, FS_Subset
      <3>7. /\ Cardinality(Holders(f)) \in Nat /\ Cardinality(Holders(f)') \in Nat
            /\ Cardinality(Workers) \in Nat
        BY <3>4, <3>6, FS_CardinalityType
      <3> QED BY <3>1, <3>5, <3>6, <3>7 DEF RetriesCovered, TypeOK, DocTypes
    <2> QED BY <2>4, <2>5
  <1>7. ASSUME NEW w \in Workers, ClaimReadFails(w) \/ Crash(w) PROVE Goal
    <2>1. /\ UNCHANGED retry
          /\ claimed' = [claimed EXCEPT ![w] = {}]
          /\ seen' = [seen EXCEPT ![w] = NothingSeen]
      BY <1>7 DEF ClaimReadFails, Crash, Stopped, Ended
    <2>2. \A v \in Workers : seen'[v][f] = "none" \/ seen'[v][f] = seen[v][f]
      BY <2>1 DEF NothingSeen, TypeOK, WorkerTypes
    <2>3. \A v \in Workers : f \in claimed'[v] => f \in claimed[v]
      BY <2>1 DEF TypeOK, WorkerTypes
    <2> QED BY <2>1, <2>2, <2>3, SameRetries
  <1>8. CASE UNCHANGED vars
    BY <1>8, SameRetries DEF vars
  <1> QED
    BY <1>1, <1>2, <1>3, <1>4, <1>5, <1>6, <1>7, <1>8 DEF Next, Drain, WorkerFault
-----------------------------------------------------------------------------
(* The invariant and what follows from it.                                 *)

\* An event gets its document from its Append call only.
LEMMA NewStep == TypeOK /\ NewHasNoDoc /\ ExclusiveClaim /\ Idle /\ [Next]_vars
                   => NewHasNoDoc'
  <1> SUFFICES ASSUME TypeOK, NewHasNoDoc, ExclusiveClaim, Idle, [Next]_vars
               PROVE  NewHasNoDoc'
    OBVIOUS
  <1> USE DEF doc, NewHasNoDoc, TypeOK, DocTypes, WorkerTypes
  <1>1. ASSUME NEW e \in Events, Append(e) \/ BecomesDue(e) PROVE NewHasNoDoc'
    <2>1. CASE DirectAppend(e) \/ CallerCrash(e) \/ BecomesDue(e)
      BY <2>1 DEF DirectAppend, CallerCrash, BecomesDue
    <2>2. CASE Enqueue(e)
      BY <2>2 DEF Enqueue, InsertDoc
    <2> QED BY <1>1, <2>1, <2>2 DEF Append
  <1>2. ASSUME NEW w \in Workers,
               \/ ClaimRead(w) \/ DrainNothing(w) \/ ProcessEnds(w) \/ Restart(w)
               \/ ClaimReadFails(w) \/ Crash(w)
        PROVE  NewHasNoDoc'
    BY <1>2 DEF ClaimRead, DrainNothing, ProcessEnds, Restart, ClaimReadFails, Crash
  <1>3. ASSUME NEW w \in Workers, NEW e \in Events, ClaimOne(w, e) \/ ClaimOneFails(w, e)
        PROVE  NewHasNoDoc'
    <2>1. \A f \in Events : status[f] = "none" => status'[f] = "none"
      BY <1>3 DEF ClaimOne, ClaimOneFails, Claim
    <2> QED BY <1>3, <2>1 DEF ClaimOne, ClaimOneFails
  <1>4. ASSUME NEW w \in Workers, NEW e \in Events,
               \/ HandleOK(w, e) \/ HandleFails(w, e) \/ HandleAndEnqueueFail(w, e)
        PROVE  NewHasNoDoc'
    <2>1. UNCHANGED <<status, caller>>
      BY <1>4, HandleEffect
    <2> QED BY <2>1
  <1>5. ASSUME NEW w \in Workers, NEW e \in Events, Mark(w, e) \/ MarkFails(w, e)
        PROVE  NewHasNoDoc'
    <2>1. status[e] = "processing"
      BY <1>5 DEF Mark, MarkFails, ExclusiveClaim, Idle
    <2>2. \A f \in Events : status[f] = "none" => status'[f] = "none"
      BY <1>5, <2>1 DEF Mark, MarkFails, Marked, MarkDone, MarkFailed
    <2> QED BY <1>5, <2>2 DEF Mark, MarkFails
  <1>6. CASE UNCHANGED vars
    BY <1>6 DEF vars
  <1> QED BY Zenon, <1>1, <1>2, <1>3, <1>4, <1>5, <1>6 DEF Next, Drain, WorkerFault

\* An accepted event keeps its document, and a document its count, until a worker
\* that claimed it marks it.
LEMMA AcceptedStep == TypeOK /\ Accepted /\ ExclusiveClaim /\ Idle /\ [Next]_vars
                        => Accepted'
  <1> SUFFICES ASSUME TypeOK, Accepted, ExclusiveClaim, Idle, [Next]_vars
               PROVE  Accepted'
    OBVIOUS
  <1> USE DEF doc, Accepted, TypeOK, DocTypes, WorkerTypes
  <1>1. ASSUME NEW e \in Events, Append(e) \/ BecomesDue(e) PROVE Accepted'
    <2>1. CASE DirectAppend(e)
      BY <2>1 DEF DirectAppend
    <2>2. CASE CallerCrash(e) \/ BecomesDue(e)
      BY <2>2 DEF CallerCrash, BecomesDue
    <2>3. CASE Enqueue(e)
      <3>1. CASE InsertDoc(e)
        BY <2>3, <3>1 DEF Enqueue, InsertDoc
      <3>2. CASE UNCHANGED doc /\ caller' = [caller EXCEPT ![e] = "refused"]
        BY <3>2
      <3> QED BY <2>3, <3>1, <3>2 DEF Enqueue
    <2> QED BY <1>1, <2>1, <2>2, <2>3 DEF Append
  <1>2. ASSUME NEW w \in Workers,
               \/ ClaimRead(w) \/ DrainNothing(w) \/ ProcessEnds(w) \/ Restart(w)
               \/ ClaimReadFails(w) \/ Crash(w)
        PROVE  Accepted'
    BY <1>2 DEF ClaimRead, DrainNothing, ProcessEnds, Restart, ClaimReadFails, Crash
  <1>3. ASSUME NEW w \in Workers, NEW e \in Events, ClaimOne(w, e) \/ ClaimOneFails(w, e)
        PROVE  Accepted'
    <2>1. UNCHANGED caller /\ (UNCHANGED doc \/ Claim(w, e))
      BY <1>3 DEF ClaimOne, ClaimOneFails
    <2> QED BY <2>1 DEF Claim
  <1>4. ASSUME NEW w \in Workers, NEW e \in Events,
               \/ HandleOK(w, e) \/ HandleFails(w, e) \/ HandleAndEnqueueFail(w, e)
        PROVE  Accepted'
    <2>1. UNCHANGED <<doc, caller>>
      BY <1>4, HandleEffect
    <2> QED BY <2>1
  <1>5. ASSUME NEW w \in Workers, NEW e \in Events, Mark(w, e) \/ MarkFails(w, e)
        PROVE  Accepted'
    <2>1. UNCHANGED caller /\ (UNCHANGED doc \/ MarkDone(e) \/ MarkFailed(e))
      BY <1>5 DEF Mark, MarkFails, Marked
    <2> QED BY <2>1 DEF MarkDone, MarkFailed
  <1>6. CASE UNCHANGED vars
    BY <1>6 DEF vars
  <1> QED BY Zenon, <1>1, <1>2, <1>3, <1>4, <1>5, <1>6 DEF Next, Drain, WorkerFault

\* The initial state satisfies the invariant.
LEMMA InvInit == Init => IInv
  <1> SUFFICES ASSUME Init PROVE IInv
    OBVIOUS
  <1>1. TypeOK
    BY DEF Init, TypeOK, DocTypes, WorkerTypes, Statuses, Readable, NothingSeen
  <1>2. /\ ExclusiveClaim /\ Idle /\ DoneMeansStored /\ AboutToBeDone
        /\ CopiesCounted /\ NewHasNoDoc /\ Accepted
    BY DEF Init, ExclusiveClaim, Idle, DoneMeansStored, AboutToBeDone,
           CopiesCounted, Unattempted, NewHasNoDoc, Accepted
  <1>3. RetriesCovered
    <2> SUFFICES ASSUME NEW e \in Events
                 PROVE  retry[e] + Cardinality(Holders(e))
                          <= MaxRetries + Cardinality(Workers) - 1
      BY DEF RetriesCovered
    <2>1. Holders(e) = {} /\ retry[e] = 0
      BY DEF Init, Holders, NothingSeen
    <2>2. Cardinality(Workers) \in Nat /\ Cardinality(Holders(e)) = 0
      BY <2>1, FS_CardinalityType, FS_EmptySet
    <2> QED BY <2>1, <2>2
  <1> QED BY <1>1, <1>2, <1>3 DEF IInv

\* Every step keeps the invariant.
LEMMA InvStep == IInv /\ [Next]_vars => IInv'
  BY TypeStep, ClaimStep, DoneStep, CopiesStep, RetriesStep, NewStep, AcceptedStep
  DEF IInv

\* The invariant holds in every reachable state.
THEOREM Invariance == Spec => []IInv
  BY InvInit, InvStep, PTL DEF Spec

\* ClaimBatch hands an event to at most one worker at a time, for any number of
\* workers and any faults.
THEOREM Exclusive == Spec => []ExclusiveClaim
  <1>1. IInv => ExclusiveClaim
    BY DEF IInv
  <1> QED BY Invariance, <1>1, PTL

\* No audit log or error event is marked done before it is in its collection.
THEOREM Delivered == Spec => []DoneMeansStored
  <1>1. IInv => DoneMeansStored
    BY DEF IInv
  <1> QED BY Invariance, <1>1, PTL

\* retry_count exceeds max_retries by less than the number of workers.
THEOREM BoundedRetry == Spec => []RetryBound
  <1>1. IInv => RetryBound
    <2> SUFFICES ASSUME IInv, NEW e \in Events
                 PROVE  retry[e] <= MaxRetries + Cardinality(Workers) - 1
      BY DEF RetryBound
    <2>1. IsFiniteSet(Holders(e))
      BY FS_Subset DEF Holders
    <2>2. Cardinality(Holders(e)) \in Nat /\ Cardinality(Workers) \in Nat
      BY <2>1, FS_CardinalityType
    <2> QED BY <2>2 DEF IInv, RetriesCovered, TypeOK, DocTypes
  <1> QED BY Invariance, <1>1, PTL

\* An event is in its collection at most once more than it has failed.
THEOREM BoundedCopies == Spec => []CopiesBounded
  <1>1. IInv => CopiesBounded
    <2> SUFFICES ASSUME IInv, NEW e \in Events PROVE stored[e] <= retry[e] + 1
      BY DEF CopiesBounded
    <2>1. stored[e] \in Nat /\ retry[e] \in Nat
      BY DEF IInv, TypeOK, DocTypes
    <2>2. CASE Keyed(e)
      BY <2>1, <2>2 DEF IInv, CopiesCounted
    <2>3. CASE ~Keyed(e)
      BY <2>1, <2>3 DEF IInv, CopiesCounted
    <2> QED BY <2>2, <2>3
  <1> QED BY Invariance, <1>1, PTL

\* Nothing drops out of sight: an audit log or error event that was accepted is
\* stored, findable, in a running worker's hands, used up or orphaned, for any
\* number of workers and whatever fails.
THEOREM InSight == Spec => []NothingForgotten
  <1>1. IInv => NothingForgotten
    <2> SUFFICES ASSUME IInv, NEW e \in Events, Kind[e] # "login_history",
                        caller[e] = "accepted" \/ status[e] # "none"
                 PROVE  \/ stored[e] > 0 \/ e \in Eligible \/ Delayed(e)
                        \/ \E w \in Workers :
                             /\ e \in claimed[w]
                             /\ pc[w] \in {"draining", "markDone", "markFailed"}
                        \/ Exhausted(e) \/ Orphaned(e)
      BY DEF NothingForgotten
    <2>1. status[e] \in {"pending", "processing", "failed", "done"} /\ retry[e] \in Nat
      BY DEF IInv, Accepted, TypeOK, DocTypes, Statuses
    <2>2. CASE status[e] = "done"
      BY <2>2 DEF IInv, DoneMeansStored
    <2>3. CASE status[e] = "pending"
      BY <2>3 DEF IInv, Accepted, Eligible, Readable
    <2>4. CASE status[e] = "failed"
      BY <2>1, <2>4 DEF Eligible, Readable, Delayed, Exhausted
    <2>5. CASE status[e] = "processing" /\ ~Orphaned(e)
      <3>1. PICK w \in Workers : e \in claimed[w]
        BY <2>5 DEF Orphaned
      <3>2. pc[w] \in {"draining", "markDone", "markFailed"}
        BY <3>1 DEF IInv, Idle, TypeOK, WorkerTypes
      <3> QED BY <3>1, <3>2
    <2> QED BY <2>1, <2>2, <2>3, <2>4, <2>5
  <1> QED BY Invariance, <1>1, PTL

\* Type correctness in every reachable state.
THEOREM TypeCorrect == Spec => []TypeOK
  BY Invariance, PTL DEF IInv

\* A document is orphaned by an error or the end of a worker, by nothing else.
LEMMA OrphanedByFault ==
    ASSUME IInv, [Next]_vars, NEW f \in Events, Orphaned(f)', ~Orphaned(f)
    PROVE  \E w \in Workers : WorkerFault(w)
  <1> USE DEF doc, worker
  <1> status \in [Events -> Statuses] /\ claimed \in [Workers -> SUBSET Events]
    BY DEF IInv, TypeOK, DocTypes, WorkerTypes
  <1>1. ~UNCHANGED <<status, claimed>>
    BY DEF Orphaned
  <1>2. ASSUME NEW e \in Events, Append(e) \/ BecomesDue(e) PROVE FALSE
    <2>1. UNCHANGED claimed /\ (UNCHANGED status \/ InsertDoc(e))
      BY <1>2 DEF Append, DirectAppend, Enqueue, CallerCrash, BecomesDue
    <2> QED BY <1>1, <2>1 DEF InsertDoc, Orphaned
  <1>3. ASSUME NEW w \in Workers,
               ClaimRead(w) \/ DrainNothing(w) \/ ProcessEnds(w) \/ Restart(w)
        PROVE  FALSE
    BY <1>1, <1>3 DEF ClaimRead, DrainNothing, ProcessEnds, Restart
  <1>4. ASSUME NEW w \in Workers, NEW e \in Events, ClaimOne(w, e) PROVE FALSE
    <2>1. /\ status' = [status EXCEPT ![e] = "processing"]
          /\ claimed' = [claimed EXCEPT ![w] = @ \cup {e}]
      BY <1>1, <1>4 DEF ClaimOne, Claim
    <2> QED BY <2>1 DEF Orphaned
  <1>5. ASSUME NEW w \in Workers, NEW e \in Events,
               \/ HandleOK(w, e) \/ HandleFails(w, e) \/ HandleAndEnqueueFail(w, e)
        PROVE  FALSE
    BY <1>1, <1>5, HandleEffect
  <1>6. ASSUME NEW w \in Workers, NEW e \in Events, Mark(w, e) PROVE FALSE
    <2>1. /\ claimed' = [claimed EXCEPT ![w] = @ \ {e}]
          /\ \/ status' = [status EXCEPT ![e] = "done"]
             \/ status' = [status EXCEPT ![e] = "failed"]
      BY <1>6 DEF Mark, Marked, MarkDone, MarkFailed
    <2> QED BY <2>1 DEF Orphaned
  <1>7. CASE UNCHANGED vars
    BY <1>1, <1>7 DEF vars
  <1> QED BY Zenon, <1>2, <1>3, <1>4, <1>5, <1>6, <1>7 DEF Next, Drain

\* An error or the end of a worker is one fault.
LEMMA WorkerFaultCounts ==
    ASSUME NEW w \in Workers, WorkerFault(w)
    PROVE  faults' = faults + 1
  BY DEF WorkerFault, ClaimReadFails, Crash, ClaimOneFails, MarkFails, Fault

\* Only a step that spends a fault orphans a document.
THEOREM OrphanCause == Spec => OrphansNeedFaults
  <1>1. ASSUME IInv, [Next]_vars, NEW f \in Events, Orphaned(f)', ~Orphaned(f)
        PROVE  faults' > faults
    <2>1. faults' = faults + 1
      BY <1>1, OrphanedByFault, WorkerFaultCounts
    <2> QED BY <1>1, <2>1 DEF IInv, TypeOK
  <1>2. IInv /\ [Next]_vars =>
          [\A e \in Events : Orphaned(e)' /\ ~Orphaned(e) => faults' > faults]_vars
    BY <1>1
  <1> QED
    BY Invariance, <1>2, PTL DEF Spec, OrphansNeedFaults
-----------------------------------------------------------------------------
(* The loss.  What a worker has in hand is bounded by the limit of its     *)
(* find, and only a fault adds to the orphans: those of one hand.          *)

\* A set that lies within another, both of finitely many events.
LEMMA Fewer ==
    ASSUME IsFiniteSet(Events), NEW S \in SUBSET Events, NEW T \in SUBSET S
    PROVE  /\ Cardinality(T) \in Nat /\ Cardinality(S) \in Nat
           /\ Cardinality(T) <= Cardinality(S)
  BY FS_Subset, FS_CardinalityType

\* Only ClaimRead fills a worker's hands, with what its find is limited to.
LEMMA BatchStep ==
    ASSUME IsFiniteSet(Events), TypeOK, Idle, BatchHeld, [Next]_vars
    PROVE  BatchHeld'
  <1> SUFFICES ASSUME NEW v \in Workers PROVE Cardinality(InHand(v)') <= Batch
    BY DEF BatchHeld
  <1> USE DEF TypeOK, WorkerTypes, worker
  <1> InHand(v) \in SUBSET Events
    BY DEF InHand
  <1>0. ASSUME InHand(v)' \in SUBSET InHand(v) PROVE Cardinality(InHand(v)') <= Batch
    <2>1. /\ Cardinality(InHand(v)') <= Cardinality(InHand(v))
          /\ Cardinality(InHand(v)') \in Nat /\ Cardinality(InHand(v)) \in Nat
      BY <1>0, Fewer
    <2> QED BY <2>1 DEF BatchHeld
  <1>1. ASSUME NEW w \in Workers, ClaimRead(w) PROVE Cardinality(InHand(v)') <= Batch
    <2>1. PICK S \in Limited(Eligible) :
            seen' = [seen EXCEPT ![w] =
                       [e \in Events |-> IF e \in S THEN status[e] ELSE "none"]]
      BY Zenon, <1>1 DEF ClaimRead
    <2>2. CASE v = w
      <3>1. InHand(v)' = S
        <4>1. S \in SUBSET Events /\ \A e \in S : status[e] # "none"
          BY DEF Limited, Eligible, Readable
        <4>2. claimed'[v] = {}
          BY <1>1, <2>2 DEF ClaimRead, Idle
        <4> QED BY <2>1, <2>2, <4>1, <4>2 DEF InHand
      <3>2. Cardinality(S) <= Batch
        BY DEF Limited
      <3> QED BY <3>1, <3>2
    <2>3. CASE v # w
      <3>1. InHand(v)' = InHand(v)
        BY <1>1, <2>1, <2>3 DEF ClaimRead, InHand
      <3> QED BY <1>0, <3>1
    <2> QED BY <2>2, <2>3
  <1>2. ASSUME UNCHANGED <<seen, claimed>> PROVE Cardinality(InHand(v)') <= Batch
    BY <1>0, <1>2 DEF InHand
  <1>3. ASSUME NEW w \in Workers, NEW e \in Events, ClaimOne(w, e) \/ ClaimOneFails(w, e)
        PROVE  InHand(v)' \in SUBSET InHand(v)
    <2>1. /\ seen[w][e] # "none" /\ seen' = [seen EXCEPT ![w][e] = "none"]
          /\ \/ UNCHANGED claimed \/ claimed' = [claimed EXCEPT ![w] = @ \cup {e}]
      BY <1>3 DEF ClaimOne, ClaimOneFails
    <2> QED BY <2>1 DEF InHand
  <1>4. ASSUME NEW w \in Workers, NEW e \in Events, Mark(w, e)
        PROVE  InHand(v)' \in SUBSET InHand(v)
    BY <1>4 DEF Mark, InHand
  <1>5. ASSUME NEW w \in Workers, Ended(w, "stopped") \/ Ended(w, "down")
        PROVE  InHand(v)' \in SUBSET InHand(v)
    <2>1. /\ seen' = [seen EXCEPT ![w] = [e \in Events |-> "none"]]
          /\ claimed' = [claimed EXCEPT ![w] = {}]
      BY <1>5 DEF Ended, NothingSeen
    <2>2. CASE v = w
      BY <2>1, <2>2 DEF InHand
    <2>3. CASE v # w
      BY <2>1, <2>3 DEF InHand
    <2> QED BY <2>2, <2>3
  <1>6. ASSUME NEW e \in Events, Append(e) \/ BecomesDue(e) PROVE UNCHANGED <<seen, claimed>>
    BY <1>6 DEF Append, DirectAppend, Enqueue, CallerCrash, BecomesDue
  <1>7. ASSUME NEW w \in Workers, NEW e \in Events,
               \/ HandleOK(w, e) \/ HandleFails(w, e) \/ HandleAndEnqueueFail(w, e)
        PROVE  UNCHANGED <<seen, claimed>>
    BY <1>7, HandleEffect
  <1>8. ASSUME NEW w \in Workers, DrainNothing(w) \/ ProcessEnds(w) \/ Restart(w)
        PROVE  UNCHANGED <<seen, claimed>>
    BY <1>8 DEF DrainNothing, ProcessEnds, Restart
  <1>9. ASSUME NEW w \in Workers, WorkerFault(w) PROVE InHand(v)' \in SUBSET InHand(v)
    BY <1>3, <1>5, <1>9
       DEF WorkerFault, ClaimReadFails, Crash, MarkFails, Stopped
  <1>10. CASE UNCHANGED vars
    BY <1>2, <1>10 DEF vars
  <1>11. ASSUME NEW w \in Workers, Drain(w) PROVE Cardinality(InHand(v)') <= Batch
    BY <1>0, <1>1, <1>2, <1>3, <1>4, <1>7, <1>8, <1>11 DEF Drain
  <1> QED BY <1>0, <1>2, <1>6, <1>8, <1>9, <1>10, <1>11 DEF Next

\* Faults are never taken back.
LEMMA FaultsGrow ==
    ASSUME TypeOK, [Next]_vars
    PROVE  faults' >= faults
  <1> USE DEF TypeOK
  <1>1. ASSUME NEW e \in Events, Append(e) \/ BecomesDue(e) PROVE faults' >= faults
    BY <1>1 DEF Append, DirectAppend, Enqueue, CallerCrash, BecomesDue, Fault
  <1>2. ASSUME NEW w \in Workers, Drain(w) \/ ProcessEnds(w) \/ Restart(w)
        PROVE  faults' >= faults
    <2>1. ASSUME NEW e \in Events, HandleAndEnqueueFail(w, e) PROVE faults' >= faults
      BY <2>1 DEF HandleAndEnqueueFail
    <2> QED BY <1>2, <2>1 DEF Drain, ClaimRead, DrainNothing, ClaimOne, HandleOK,
                              HandleFails, Mark, Fault, ProcessEnds, Restart
  <1>3. ASSUME NEW w \in Workers, WorkerFault(w) PROVE faults' >= faults
    BY <1>3, WorkerFaultCounts
  <1>4. CASE UNCHANGED vars
    BY <1>4 DEF vars
  <1> QED BY <1>1, <1>2, <1>3, <1>4 DEF Next

\* What an error or the end of a worker orphans, the worker had in hand.
LEMMA OrphanedFromHand ==
    ASSUME IInv, NEW w \in Workers, WorkerFault(w),
           NEW f \in Events, Orphaned(f)', ~Orphaned(f)
    PROVE  f \in InHand(w)
  <1> USE DEF IInv, TypeOK, DocTypes, WorkerTypes, doc
  <1>1. ASSUME UNCHANGED status, claimed' = [claimed EXCEPT ![w] = {}] PROVE f \in claimed[w]
    BY <1>1 DEF Orphaned
  <1>2. CASE ClaimReadFails(w) \/ Crash(w)
    BY <1>1, <1>2 DEF ClaimReadFails, Crash, Stopped, Ended, InHand
  <1>3. ASSUME NEW e \in Events, ClaimOneFails(w, e) PROVE f \in InHand(w)
    <2>1. f = e
      BY <1>3 DEF ClaimOneFails, Claim, Orphaned
    <2> QED BY <1>3, <2>1 DEF ClaimOneFails, InHand
  <1>4. ASSUME NEW e \in Events, MarkFails(w, e) PROVE f \in InHand(w)
    <2>1. /\ claimed' = [claimed EXCEPT ![w] = {}]
          /\ \/ UNCHANGED status
             \/ status' = [status EXCEPT ![e] = "done"]
             \/ status' = [status EXCEPT ![e] = "failed"]
      BY <1>4 DEF MarkFails, Stopped, Ended, Marked, MarkDone, MarkFailed
    <2>2. f \in claimed[w]
      BY <2>1 DEF Orphaned
    <2> QED BY <2>2 DEF InHand
  <1> QED BY <1>2, <1>3, <1>4 DEF WorkerFault

\* A worker has no more than a batch in hand, in every reachable state.
LEMMA BatchInvariance ==
    ASSUME IsFiniteSet(Events)
    PROVE  Spec => [](IInv /\ BatchHeld)
  <1>1. Init => IInv /\ BatchHeld
    <2> SUFFICES ASSUME Init PROVE BatchHeld
      BY InvInit
    <2>1. \A w \in Workers : InHand(w) = {}
      BY DEF Init, InHand, NothingSeen
    <2> QED BY <2>1, FS_EmptySet DEF BatchHeld
  <1>2. IInv /\ BatchHeld /\ [Next]_vars => (IInv /\ BatchHeld)'
    BY InvStep, BatchStep DEF IInv
  <1> QED BY <1>1, <1>2, PTL DEF Spec

\* What a step orphans is a part of one hand, and the step is a fault.
LEMMA LossStep ==
    ASSUME IsFiniteSet(Events), IInv, BatchHeld, [Next]_vars, Orphans' \ Orphans # {}
    PROVE  Cardinality(Orphans' \ Orphans) <= Batch /\ faults' > faults
  <1>1. PICK f \in Events : Orphaned(f)' /\ ~Orphaned(f)
    BY DEF Orphans
  <1>2. PICK w \in Workers : WorkerFault(w)
    BY <1>1, OrphanedByFault
  <1>3. faults' > faults
    BY <1>2, WorkerFaultCounts DEF IInv, TypeOK
  <1>4. InHand(w) \in SUBSET Events
    BY DEF InHand, IInv, TypeOK, WorkerTypes
  <1>5. Orphans' \ Orphans \in SUBSET InHand(w)
    BY <1>2, OrphanedFromHand DEF Orphans
  <1>6. /\ Cardinality(Orphans' \ Orphans) <= Cardinality(InHand(w))
        /\ Cardinality(Orphans' \ Orphans) \in Nat /\ Cardinality(InHand(w)) \in Nat
    BY <1>4, <1>5, Fewer
  <1>7. Cardinality(InHand(w)) <= Batch /\ Batch \in Nat
    BY DEF BatchHeld, IInv, TypeOK
  <1> QED BY <1>3, <1>6, <1>7

\* A step orphans at most one batch, and only a fault orphans anything, for any
\* number of workers, retries and faults; of events there are finitely many.
THEOREM BoundedLoss == IsFiniteSet(Events) /\ Spec => LossBounded
  <1>1. ASSUME IsFiniteSet(Events) PROVE Spec => LossBounded
    <2>1. IInv /\ BatchHeld /\ [Next]_vars =>
            [LET lost == Orphans' \ Orphans IN
               lost # {} => Cardinality(lost) <= Batch /\ faults' > faults]_vars
      BY <1>1, LossStep
    <2>2. Spec => [](IInv /\ BatchHeld)
      BY <1>1, BatchInvariance
    <2> QED BY <2>1, <2>2, PTL DEF Spec, LossBounded
  <1> QED BY <1>1

\* Counting in batches.
LEMMA OneMoreBatch ==
    ASSUME NEW b \in Nat, NEW m \in Nat, NEW c \in Nat, NEW d \in Nat,
           c <= b * m, d <= c + b
    PROVE  d <= b * (m + 1)
  <1>1. b * (m + 1) = b * m + b /\ b * m \in Nat
    OBVIOUS
  <1> DEFINE p == b * m
  <1>2. c <= p /\ p \in Nat
    BY <1>1
  <1> HIDE DEF p
  <1>3. d <= p + b
    BY <1>2
  <1> QED BY <1>1, <1>3 DEF p

\* More faults pay for more.
LEMMA MoreBatches ==
    ASSUME NEW b \in Nat, NEW m \in Nat, NEW n \in Nat, NEW c \in Nat,
           c <= b * m, m <= n
    PROVE  c <= b * n
  <1>1. b * m <= b * n /\ b * m \in Nat /\ b * n \in Nat
    OBVIOUS
  <1> DEFINE p == b * m
             q == b * n
  <1>2. c <= p /\ p <= q /\ p \in Nat /\ q \in Nat
    BY <1>1
  <1> HIDE DEF p, q
  <1>3. c <= q
    BY <1>2
  <1> QED BY <1>3 DEF q

\* A step adds to the orphans no more than its faults pay for.
LEMMA TotalStep ==
    ASSUME IsFiniteSet(Events), IInv, IInv', BatchHeld, LossTotal, [Next]_vars
    PROVE  LossTotal'
  <1>1. /\ faults \in Nat /\ faults' \in Nat /\ faults' >= faults /\ Batch \in Nat
    BY FaultsGrow DEF IInv, TypeOK
  <1>2. /\ Orphans \in SUBSET Events /\ IsFiniteSet(Orphans)
        /\ Cardinality(Orphans) \in Nat
    BY FS_Subset, FS_CardinalityType DEF Orphans
  <1>3. ASSUME NEW w \in Workers, WorkerFault(w) PROVE LossTotal'
    <2>1. InHand(w) \in SUBSET Events
      BY DEF InHand, IInv, TypeOK, WorkerTypes
    <2>2. Orphans' \in SUBSET (Orphans \cup InHand(w))
      BY <1>3, OrphanedFromHand DEF Orphans
    <2>3. /\ Cardinality(InHand(w)) \in Nat /\ IsFiniteSet(InHand(w))
          /\ Cardinality(InHand(w)) <= Batch
      BY <2>1, FS_Subset, FS_CardinalityType DEF BatchHeld
    <2>4. /\ Cardinality(Orphans \cup InHand(w)) \in Nat
          /\ Cardinality(Orphans \cup InHand(w)) <= Cardinality(Orphans) + Batch
      <3>1. Cardinality(Orphans \cup InHand(w)) =
              Cardinality(Orphans) + Cardinality(InHand(w))
                - Cardinality(Orphans \cap InHand(w))
        BY <1>2, <2>3, FS_Union
      <3>2. Cardinality(Orphans \cap InHand(w)) \in Nat
            /\ Cardinality(Orphans \cap InHand(w)) <= Cardinality(Orphans)
        BY <1>2, Fewer
      <3> QED BY <1>1, <1>2, <2>3, <3>1, <3>2
    <2>5. Cardinality(Orphans') \in Nat /\ Cardinality(Orphans') <= Cardinality(Orphans) + Batch
      <3>1. /\ Cardinality(Orphans') \in Nat
            /\ Cardinality(Orphans') <= Cardinality(Orphans \cup InHand(w))
        BY <1>2, <2>1, <2>2, Fewer
      <3> QED BY <1>1, <1>2, <2>4, <3>1
    <2>6. faults' = faults + 1
      BY <1>3, WorkerFaultCounts
    <2>7. Cardinality(Orphans') <= Batch * (faults + 1)
      BY <1>1, <1>2, <2>5, OneMoreBatch DEF LossTotal
    <2> QED BY <2>6, <2>7 DEF LossTotal
  <1>4. ASSUME ~\E w \in Workers : WorkerFault(w) PROVE LossTotal'
    <2>1. Orphans' \in SUBSET Orphans
      BY <1>4, OrphanedByFault DEF Orphans
    <2>2. Cardinality(Orphans') \in Nat /\ Cardinality(Orphans') <= Cardinality(Orphans)
      BY <1>2, <2>1, Fewer
    <2>3. Cardinality(Orphans') <= Batch * faults
      <3> DEFINE p == Batch * faults
      <3>1. p \in Nat
        BY <1>1
      <3>2. Cardinality(Orphans) <= p
        BY DEF LossTotal
      <3> HIDE DEF p
      <3>3. Cardinality(Orphans') <= p
        BY <1>2, <2>2, <3>1, <3>2
      <3> QED BY <3>3 DEF p
    <2> QED BY <1>1, <2>2, <2>3, MoreBatches DEF LossTotal
  <1> QED BY <1>3, <1>4

\* At most Batch documents are orphaned for every fault so far: the steps of
\* BoundedLoss add up.
THEOREM BoundedTotal == IsFiniteSet(Events) /\ Spec => []LossTotal
  <1>1. ASSUME IsFiniteSet(Events) PROVE Spec => []LossTotal
    <2>1. Init => LossTotal
      <3> SUFFICES ASSUME Init PROVE LossTotal
        OBVIOUS
      <3>1. Orphans = {} /\ faults = 0
        BY DEF Init, Orphans, Orphaned
      <3> QED BY <3>1, FS_EmptySet DEF LossTotal
    <2>2. (IInv /\ BatchHeld) /\ (IInv /\ BatchHeld)' /\ LossTotal /\ [Next]_vars => LossTotal'
      BY <1>1, TotalStep
    <2>3. Spec => [](IInv /\ BatchHeld)
      BY <1>1, BatchInvariance
    <2> QED BY <2>1, <2>2, <2>3, PTL DEF Spec
  <1> QED BY <1>1
-----------------------------------------------------------------------------
(* The outbox implements the work queue.                                   *)

\* A step that moves neither a document nor a claim is no step of the queue, or
\* does the work of one item.
LEMMA QueueWaits ==
    ASSUME UNCHANGED <<status, claimed, stored>>
    PROVE  UNCHANGED Queue!vars
  BY DEF Queue!vars, Stage, Owners

\* A step on the document of one event is a step on one item of the queue.
LEMMA QueueMoves ==
    ASSUME TypeOK, TypeOK', UNCHANGED stored, NEW e \in Events, NEW s, NEW h,
           Stage(e)' = s, Owners(e)' = h,
           \A f \in Events : f # e =>
              status'[f] = status[f] /\ \A v \in Workers : f \in claimed'[v] <=> f \in claimed[v]
    PROVE  Queue!Become(e, s, h)
  <1>1. \A f \in Events : f # e => Owners(f)' = Owners(f)
    BY DEF Owners
  <1>2. \A f \in Events : f # e => Stage(f)' = Stage(f)
    BY Zenon, <1>1 DEF Stage
  <1>3. [f \in Events |-> Stage(f)]' = [[f \in Events |-> Stage(f)] EXCEPT ![e] = s]
    BY Zenon, <1>2
  <1>4. [f \in Events |-> Owners(f)]' = [[f \in Events |-> Owners(f)] EXCEPT ![e] = h]
    BY Zenon, <1>1
  <1> QED BY <1>3, <1>4 DEF Queue!Become

\* A claimed event is held by the worker that claimed it, and by no other.
LEMMA Holds ==
    ASSUME TypeOK, ExclusiveClaim, NEW w \in Workers, NEW e \in Events
    PROVE  /\ e \in claimed[w] => Owners(e) = {w} /\ Stage(e) = "held"
           /\ Owners(e) = {w} => e \in claimed[w]
           /\ status[e] \in Readable => Owners(e) = {} /\ Stage(e) = "waiting"
           /\ status[e] = "none" => Owners(e) = {} /\ Stage(e) = "absent"
  <1> USE DEF Owners
  <1>1. e \in claimed[w] => Owners(e) = {w} /\ status[e] = "processing"
    BY DEF ExclusiveClaim
  <1>2. status[e] # "processing" => Owners(e) = {}
    BY DEF ExclusiveClaim
  <1>3. w \in Owners(e) => e \in claimed[w]
    OBVIOUS
  <1> QED BY <1>1, <1>2, <1>3 DEF Stage, Readable

\* A worker that ends lets go of what it had claimed, but for what it marked.
LEMMA QueueQuits ==
    ASSUME TypeOK, TypeOK', ExclusiveClaim, UNCHANGED stored, NEW w \in Workers,
           claimed' = [claimed EXCEPT ![w] = {}],
           NEW kept \in SUBSET claimed[w], NEW s \in {"finished", "waiting"},
           \A i, j \in kept : i = j,
           \A f \in Events \ kept : status'[f] = status[f],
           \A f \in kept : Stage(f)' = s
    PROVE  Queue!Quit(w)
  <1>1. Queue!Held(w) = claimed[w]
    BY Zenon, Holds DEF Queue!Held, TypeOK, WorkerTypes
  <1>2. ASSUME NEW f \in claimed[w]
        PROVE  Owners(f)' = {} /\ Stage(f)' = IF f \in kept THEN s ELSE "lost"
    <2>1. f \in Events /\ status[f] = "processing"
      BY DEF TypeOK, WorkerTypes, ExclusiveClaim
    <2>2. Owners(f)' = {}
      BY <2>1 DEF Owners, ExclusiveClaim, TypeOK, WorkerTypes
    <2> QED BY Zenon, <2>1, <2>2 DEF Stage, Readable
  <1>3. ASSUME NEW f \in Events \ claimed[w]
        PROVE  Owners(f)' = Owners(f) /\ Stage(f)' = Stage(f)
    <2>1. Owners(f)' = Owners(f)
      BY DEF Owners, TypeOK, WorkerTypes
    <2> QED BY Zenon, <2>1 DEF Stage
  <1>4. [f \in Events |-> Stage(f)]' =
          [f \in Events |-> IF f \in kept THEN s
                            ELSE IF f \in Queue!Held(w) THEN "lost"
                            ELSE [g \in Events |-> Stage(g)][f]]
    BY <1>1, <1>2, <1>3
  <1>5. [f \in Events |-> Owners(f)]' =
          [f \in Events |-> IF f \in Queue!Held(w) THEN {}
                            ELSE [g \in Events |-> Owners(g)][f]]
    BY <1>1, <1>2, <1>3
  <1> QED BY <1>1, <1>4, <1>5 DEF Queue!Quit

\* An insert by a producer that has not enqueued yet, or by the holder, is the
\* work of that item; a duplicate-key conflict does nothing.
LEMMA QueueWorks ==
    ASSUME TypeOK, NEW e \in Events, Stage(e) \in {"absent", "held"},
           UNCHANGED stored \/ Insert(e), UNCHANGED <<status, claimed>>
    PROVE  Queue!Perform(e) \/ UNCHANGED Queue!vars
  <1>1. CASE UNCHANGED stored
    BY <1>1, QueueWaits
  <1>2. CASE stored' = [stored EXCEPT ![e] = @ + 1]
    <2>1. UNCHANGED <<[f \in Events |-> Stage(f)], [f \in Events |-> Owners(f)]>>
      BY DEF Stage, Owners
    <2> QED BY <1>2, <2>1 DEF Queue!Perform
  <1>3. Insert(e) => UNCHANGED stored \/ stored' = [stored EXCEPT ![e] = @ + 1]
    BY Zenon DEF Insert, TypeOK
  <1> QED BY <1>1, <1>2, <1>3

\* The steps of callers and of time.
LEMMA QueueCallers ==
    ASSUME IInv, IInv', NEW e \in Events, Append(e) \/ BecomesDue(e)
    PROVE  [Queue!Next]_(Queue!vars)
  <1> USE DEF doc, worker
  <1>1. CASE DirectAppend(e)
    <2>1. Stage(e) = "absent"
      BY <1>1 DEF DirectAppend, IInv, NewHasNoDoc, Stage, Readable
    <2>2. (UNCHANGED stored \/ Insert(e)) /\ UNCHANGED <<status, claimed>>
      BY <1>1 DEF DirectAppend
    <2> QED BY <2>1, <2>2, QueueWorks DEF IInv, Queue!Next
  <1>2. CASE Enqueue(e)
    <2>1. UNCHANGED <<stored, claimed>> /\ (UNCHANGED doc \/ InsertDoc(e))
      BY <1>2 DEF Enqueue
    <2>2. CASE UNCHANGED status
      BY <2>1, <2>2, QueueWaits
    <2>3. CASE status[e] = "none" /\ status' = [status EXCEPT ![e] = "pending"]
      <3>1. Owners(e) = {} /\ Stage(e) = "absent"
        BY <2>3 DEF IInv, ExclusiveClaim, Owners, Stage, Readable
      <3>2. Owners(e)' = {} /\ Stage(e)' = "waiting"
        BY <2>1, <2>3, <3>1 DEF IInv, TypeOK, DocTypes, Owners, Stage, Readable
      <3>3. Queue!Become(e, "waiting", {})
        BY <2>1, <2>3, <3>2, QueueMoves DEF IInv, TypeOK, DocTypes
      <3> QED BY <3>1, <3>3 DEF Queue!Put, Queue!Next
    <2> QED BY <2>1, <2>2, <2>3 DEF InsertDoc
  <1>3. CASE CallerCrash(e) \/ BecomesDue(e)
    BY <1>3, QueueWaits DEF CallerCrash, BecomesDue
  <1> QED BY <1>1, <1>2, <1>3 DEF Append

\* The steps of ClaimBatch.
LEMMA QueueClaims ==
    ASSUME IInv, IInv', NEW w \in Workers, NEW e \in Events,
           ClaimOne(w, e) \/ ClaimOneFails(w, e)
    PROVE  [Queue!Next]_(Queue!vars)
  <1> USE DEF doc, IInv
  <1>1. CASE UNCHANGED <<status, claimed>>
    BY <1>1, QueueWaits DEF ClaimOne, ClaimOneFails
  <1>2. CASE Claim(w, e)
    <2>1. /\ status[e] \in Readable
          /\ status' = [status EXCEPT ![e] = "processing"]
          /\ UNCHANGED stored
      BY <1>2 DEF Claim, ClaimOne, ClaimOneFails, TypeOK, WorkerTypes
    <2>2. Owners(e) = {} /\ Stage(e) = "waiting"
      BY <2>1, Holds
    <2>3. CASE claimed' = [claimed EXCEPT ![w] = @ \cup {e}]
      <3>1. Owners(e)' = {w} /\ Stage(e)' = "held"
        BY <2>1, <2>2, <2>3 DEF Owners, Stage, TypeOK, DocTypes, WorkerTypes, Readable
      <3>2. Queue!Become(e, "held", {w})
        BY Zenon, <2>1, <2>3, <3>1, QueueMoves DEF TypeOK, DocTypes, WorkerTypes
      <3> QED BY <2>2, <3>2 DEF Queue!Take, Queue!Next
    <2>4. CASE UNCHANGED claimed
      <3>1. Owners(e)' = {} /\ Stage(e)' = "lost"
        BY <2>1, <2>2, <2>4 DEF Owners, Stage, TypeOK, DocTypes, Readable
      <3>2. Queue!Become(e, "lost", {})
        BY <2>1, <2>4, <3>1, QueueMoves DEF TypeOK, DocTypes
      <3> QED BY <2>2, <3>2 DEF Queue!Lose, Queue!Next
    <2> QED BY <2>3, <2>4 DEF ClaimOne, ClaimOneFails
  <1> QED BY <1>1, <1>2 DEF ClaimOne, ClaimOneFails

\* The steps of DrainOnce on a claimed event, and the end of a worker.
LEMMA QueueDrains ==
    ASSUME IInv, IInv', NEW w \in Workers, NEW e \in Events,
           \/ HandleOK(w, e) \/ HandleFails(w, e) \/ HandleAndEnqueueFail(w, e)
           \/ Mark(w, e) \/ MarkFails(w, e)
    PROVE  [Queue!Next]_(Queue!vars)
  <1> USE DEF doc, IInv
  <1>1. CASE HandleOK(w, e) \/ HandleFails(w, e) \/ HandleAndEnqueueFail(w, e)
    <2>1. /\ e \in claimed[w] /\ UNCHANGED <<status, claimed>>
          /\ UNCHANGED stored \/ Insert(e)
      BY <1>1, HandleEffect
    <2>2. Stage(e) = "held"
      BY <2>1, Holds
    <2> QED BY <2>1, <2>2, QueueWorks DEF Queue!Next
  <1>2. ASSUME Mark(w, e) \/ MarkFails(w, e)
        PROVE  /\ e \in claimed[w]
               /\ Owners(e) = {w}
               /\ UNCHANGED stored
               /\ \A f \in Events : f # e => status'[f] = status[f]
               /\ \/ UNCHANGED status /\ MarkFails(w, e)
                  \/ status'[e] = "done" \/ status'[e] = "failed"
    <2>1. e \in claimed[w]
      BY <1>2 DEF Mark, MarkFails, Idle
    <2>2. Owners(e) = {w}
      BY <2>1, Holds
    <2> QED BY <1>2, <2>1, <2>2
         DEF Mark, MarkFails, Marked, MarkDone, MarkFailed, TypeOK, DocTypes
  <1>3. CASE Mark(w, e)
    <2>1. claimed' = [claimed EXCEPT ![w] = @ \ {e}] /\ status'[e] \in {"done", "failed"}
      BY <1>3 DEF Mark, Marked, MarkDone, MarkFailed, TypeOK, DocTypes
    <2>2. Owners(e)' = {}
      BY <1>2, <1>3, <2>1 DEF Owners, TypeOK, WorkerTypes
    <2>3. \/ Queue!Become(e, "finished", {})
          \/ Queue!Become(e, "waiting", {})
      <3>1. Stage(e)' = "finished" \/ Stage(e)' = "waiting"
        BY <2>1 DEF Stage, Readable
      <3>2. \A f \in Events : f # e =>
              status'[f] = status[f] /\ \A v \in Workers : f \in claimed'[v] <=> f \in claimed[v]
        BY <1>2, <1>3, <2>1 DEF TypeOK, WorkerTypes
      <3> QED BY <1>2, <1>3, <2>2, <3>1, <3>2, QueueMoves
    <2>4. [f \in Events |-> Owners(f)][e] = {w}
      BY <1>2, <1>3
    <2>5. Queue!Finish(w, e) \/ Queue!Return(w, e)
      BY <2>3, <2>4 DEF Queue!Finish, Queue!Return
    <2> QED BY <2>5 DEF Queue!Next
  <1>4. CASE MarkFails(w, e)
    <2>1. claimed' = [claimed EXCEPT ![w] = {}]
      BY <1>4 DEF MarkFails, Stopped, Ended
    <2>2. CASE UNCHANGED status
      <3>1. Queue!Quit(w)
        <4> DEFINE kept == {}
        <4>1. /\ kept \in SUBSET claimed[w] /\ \A i, j \in kept : i = j
              /\ \A f \in kept : Stage(f)' = "finished"
          OBVIOUS
        <4> HIDE DEF kept
        <4> QED BY Zenon, <1>2, <1>4, <2>1, <2>2, <4>1, QueueQuits
      <3> QED BY <3>1 DEF Queue!Next
    <2>3. CASE status'[e] = "done" \/ status'[e] = "failed"
      <3>1. Stage(e)' = "finished" \/ Stage(e)' = "waiting"
        BY <2>3 DEF Stage, Readable
      <3>2. Queue!Quit(w)
        <4> DEFINE kept == {e}
        <4>1. kept \in SUBSET claimed[w] /\ \A i, j \in kept : i = j
          BY <1>2, <1>4
        <4>2. \A f \in Events \ kept : status'[f] = status[f]
          BY <1>2, <1>4
        <4>3. \A f \in kept : Stage(f)' = Stage(e)'
          OBVIOUS
        <4> HIDE DEF kept
        <4> QED BY Zenon, <1>2, <1>4, <2>1, <3>1, <4>1, <4>2, <4>3, QueueQuits
      <3> QED BY <3>2 DEF Queue!Next
    <2> QED BY <1>2, <1>4, <2>2, <2>3
  <1> QED BY <1>1, <1>3, <1>4

\* Every step of the outbox is a step of the queue, or none.
LEMMA QueueStep == IInv /\ IInv' /\ [Next]_vars => [Queue!Next]_(Queue!vars)
  <1> SUFFICES ASSUME IInv, IInv', [Next]_vars PROVE [Queue!Next]_(Queue!vars)
    OBVIOUS
  <1>1. ASSUME NEW w \in Workers, \/ ClaimRead(w) \/ DrainNothing(w)
                                  \/ ProcessEnds(w) \/ Restart(w)
        PROVE  [Queue!Next]_(Queue!vars)
    BY <1>1, QueueWaits DEF ClaimRead, DrainNothing, ProcessEnds, Restart, doc
  <1>2. ASSUME NEW w \in Workers, ClaimReadFails(w) \/ Crash(w)
        PROVE  [Queue!Next]_(Queue!vars)
    <2>1. UNCHANGED <<status, stored>> /\ claimed' = [claimed EXCEPT ![w] = {}]
      BY <1>2 DEF ClaimReadFails, Crash, Stopped, Ended, doc
    <2>2. Queue!Quit(w)
      <3> DEFINE kept == {}
      <3>1. /\ kept \in SUBSET claimed[w] /\ \A i, j \in kept : i = j
            /\ \A f \in kept : Stage(f)' = "finished"
        OBVIOUS
      <3> HIDE DEF kept
      <3> QED BY Zenon, <2>1, <3>1, QueueQuits DEF IInv
    <2> QED BY <2>2 DEF Queue!Next
  <1>3. CASE UNCHANGED vars
    BY <1>3, QueueWaits DEF vars
  <1> QED
    BY Zenon, <1>1, <1>2, <1>3, QueueCallers, QueueClaims, QueueDrains
       DEF Next, Drain, WorkerFault

\* The outbox, for any number of workers and events and with any faults, is a
\* queue that hands each item to one consumer at a time and settles it once.
THEOREM IsWorkQueue == Spec => ImplementsQueue
  <1>1. Init => Queue!Init
    <2> SUFFICES ASSUME Init PROVE Queue!Init
      OBVIOUS
    <2>1. \A e \in Events : Stage(e) = "absent" /\ Owners(e) = {}
      BY DEF Init, Stage, Owners, Readable
    <2> QED BY <2>1 DEF Init, Queue!Init
  <1> QED
    BY <1>1, Invariance, QueueStep, PTL DEF Spec, ImplementsQueue, Queue!Spec

\* What the queue has finished stays finished, and its work is not done again.
LEMMA FinishedStays ==
    ASSUME IInv, Queue!Next, NEW f \in Events, Stage(f) = "finished"
    PROVE  Stage(f)' = "finished" /\ stored'[f] = stored[f]
  <1> DEFINE S == [e \in Events |-> Stage(e)]
             H == [e \in Events |-> Owners(e)]
  <1>1. S[f] = "finished" /\ H[f] = {}
    <2>1. Owners(f) = {}
      BY DEF IInv, ExclusiveClaim, Owners, Stage, TypeOK, DocTypes, Readable, Statuses
    <2> QED BY <2>1
  <1>2. stored \in [Events -> Nat]
    BY DEF IInv, TypeOK
  <1>3. S'[f] = Stage(f)'
    OBVIOUS
  <1> SUFFICES S'[f] = "finished" /\ stored'[f] = stored[f]
    BY <1>3
  <1>5. ASSUME NEW e \in Events, Queue!Put(e) \/ Queue!Perform(e) \/ Queue!Lose(e)
        PROVE  S'[f] = "finished" /\ stored'[f] = stored[f]
    BY Zenon, <1>1, <1>2, <1>5 DEF Queue!Put, Queue!Perform, Queue!Lose, Queue!Become
  <1>6. ASSUME NEW c \in Workers, NEW e \in Events,
               Queue!Take(c, e) \/ Queue!Finish(c, e) \/ Queue!Return(c, e)
        PROVE  S'[f] = "finished" /\ stored'[f] = stored[f]
    BY Zenon, <1>1, <1>6 DEF Queue!Take, Queue!Finish, Queue!Return, Queue!Become
  <1>7. ASSUME NEW c \in Workers, Queue!Quit(c)
        PROVE  S'[f] = "finished" /\ stored'[f] = stored[f]
    <2>1. f \notin Queue!Held(c)
      BY <1>1 DEF Queue!Held
    <2> QED BY <1>1, <1>7, <2>1 DEF Queue!Quit
  <1> QED BY <1>5, <1>6, <1>7 DEF Queue!Next

\* Nothing happens to an event once it is done: the queue's promise, read back.
THEOREM DoneFinal == Spec => DoneIsFinal
  <1>1. ASSUME IInv, IInv', [Next]_vars, NEW f \in Events, status[f] = "done"
        PROVE  status'[f] = "done" /\ stored'[f] = stored[f]
    <2>1. Stage(f) = "finished"
      BY <1>1 DEF Stage, Readable
    <2>2. Stage(f)' = "finished" /\ stored'[f] = stored[f]
      <3>1. CASE Queue!Next
        BY <1>1, <2>1, <3>1, FinishedStays
      <3>2. CASE UNCHANGED Queue!vars
        <4>1. [e \in Events |-> Stage(e)]' = [e \in Events |-> Stage(e)] /\ UNCHANGED stored
          BY <3>2 DEF Queue!vars
        <4>2. [e \in Events |-> Stage(e)]'[f] = [e \in Events |-> Stage(e)][f]
          BY <4>1
        <4> QED BY <2>1, <4>1, <4>2
      <3> QED BY <1>1, <3>1, <3>2, QueueStep
    <2>3. status'[f] \in Statuses
      BY <1>1 DEF IInv, TypeOK, DocTypes
    <2> QED BY <2>2, <2>3 DEF Stage, Readable, Statuses
  <1>2. IInv /\ IInv' /\ [Next]_vars =>
          [\A e \in Events :
             status[e] = "done" => status'[e] = "done" /\ stored'[e] = stored[e]]_vars
    BY <1>1
  <1> QED BY Invariance, <1>2, PTL DEF Spec, DoneIsFinal
=============================================================================
