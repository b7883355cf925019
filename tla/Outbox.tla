------------------------------- MODULE Outbox -------------------------------
(***************************************************************************)
(* The transactional outbox: the repositories that enqueue audit logs,     *)
(* error events and login-history entries (internal/app/outbox), the       *)
(* outbox_events collection (internal/platform/outbox/mongo_outbox.go) and *)
(* the worker each API process runs over it (worker.go, handler.go).       *)
(*                                                                         *)
(* One Mongo call is one step; a worker's memory between two calls is      *)
(* seen[w], claimed[w] and current[w].  A call that fails is a fault: it   *)
(* may have been applied by the server before the error was reported.      *)
(***************************************************************************)
EXTENDS Integers, FiniteSets

CONSTANTS
    Workers,      \* the API processes; each runs one worker
    Events,       \* the business events that callers append
    Kind,         \* Kind[e]: the type of event e
    MaxRetries,   \* max_retries, the same for every document
    Batch,        \* the worker's batch size
    FaultKinds,   \* the faults that may happen
    MaxFaults     \* bound on the number of faults in a behaviour

Kinds == {"audit_log", "error_event", "login_history"}
AllFaults == {"enqueue", "insert", "find", "claim", "mark", "crash"}

ASSUME WorkersAssumption == IsFiniteSet(Workers)
ASSUME KindAssumption == Kind \in [Events -> Kinds]
ASSUME MaxRetriesAssumption == MaxRetries \in Nat \ {0}
ASSUME BatchAssumption == Batch \in Nat \ {0}
ASSUME FaultsAssumption == FaultKinds \subseteq AllFaults /\ MaxFaults \in Nat

VARIABLES
    status,    \* status[e]: status of e's outbox_events document, or "none"
    retry,     \* retry[e]: its retry_count
    due,       \* the events whose process_after has passed
    stored,    \* stored[e]: copies of e in its target collection
    caller,    \* caller[e]: how far the Append call for e has come
    pc,        \* pc[w]: where worker w stands in DrainOnce
    seen,      \* seen[w][e]: status read by ClaimBatch, until its update
    claimed,   \* claimed[w]: events ClaimBatch returned, not yet marked
    current,   \* current[w]: events whose handler ran, about to be marked
    faults     \* number of faults so far

vars == <<status, retry, due, stored, caller, pc, seen, claimed, current, faults>>
doc == <<status, retry, due>>
worker == <<pc, seen, claimed, current>>

Statuses == {"none", "pending", "processing", "failed", "done"}
Readable == {"pending", "failed"}
NothingSeen == [e \in Events |-> "none"]

\* login_history and audit_logs documents carry the event's id as _id;
\* error_events documents have no _id of their own, so a second insert of the
\* same event is a second document.
Keyed(e) == Kind[e] # "error_event"

Init ==
    /\ status = [e \in Events |-> "none"]
    /\ retry = [e \in Events |-> 0]
    /\ due = {}
    /\ stored = [e \in Events |-> 0]
    /\ caller = [e \in Events |-> "new"]
    /\ pc = [w \in Workers |-> "idle"]
    /\ seen = [w \in Workers |-> NothingSeen]
    /\ claimed = [w \in Workers |-> {}]
    /\ current = [w \in Workers |-> {}]
    /\ faults = 0

Fault(kind) ==
    /\ kind \in FaultKinds
    /\ faults < MaxFaults
    /\ faults' = faults + 1

\* The server applies an insert of e: a keyed document that is already there is
\* a duplicate-key conflict and stays one document.
Insert(e) ==
    stored' = [stored EXCEPT ![e] = IF Keyed(e) /\ @ > 0 THEN @ ELSE @ + 1]

-----------------------------------------------------------------------------
(* Callers.  The audit and error repositories only enqueue; the login      *)
(* history repository inserts first and enqueues when that fails.          *)

DirectAppend(e) ==
    /\ Kind[e] = "login_history"
    /\ caller[e] = "new"
    /\ \/ /\ Insert(e)
          /\ caller' = [caller EXCEPT ![e] = "accepted"]
          /\ UNCHANGED faults
       \/ /\ Fault("insert")
          /\ (UNCHANGED stored \/ Insert(e))
          /\ caller' = [caller EXCEPT ![e] = "fallback"]
    /\ UNCHANGED <<doc, worker>>

\* The unique index on idempotency_key makes the insert of a document that is
\* already there a success without effect.
InsertDoc(e) ==
    IF status[e] = "none"
      THEN /\ status' = [status EXCEPT ![e] = "pending"]
           /\ due' = due \cup {e}
           /\ UNCHANGED retry
      ELSE UNCHANGED doc

Enqueue(e) ==
    /\ caller[e] = IF Kind[e] = "login_history" THEN "fallback" ELSE "new"
    /\ \/ /\ InsertDoc(e)
          /\ caller' = [caller EXCEPT ![e] = "accepted"]
          /\ UNCHANGED faults
       \/ /\ Fault("enqueue")
          /\ (UNCHANGED doc \/ InsertDoc(e))
          /\ caller' = [caller EXCEPT ![e] = "refused"]
    /\ UNCHANGED <<stored, worker>>

\* The process ends between the failed insert and the enqueue.
CallerCrash(e) ==
    /\ caller[e] = "fallback"
    /\ Fault("crash")
    /\ caller' = [caller EXCEPT ![e] = "refused"]
    /\ UNCHANGED <<doc, stored, worker>>

-----------------------------------------------------------------------------
(* ClaimBatch: one find, then one conditional update per document read.    *)
\* Mutant: the find without its "failed" part.
Eligible_PendingOnly ==
    {e \in Events : status[e] = "pending" /\ e \in due /\ retry[e] < MaxRetries}

Eligible ==
    {e \in Events : status[e] \in Readable /\ e \in due /\ retry[e] < MaxRetries}

\* Mutant: the find without its limit.
Limited_Not(docs) == {docs}

\* The limit keeps the Batch documents that are due longest; which ones these
\* are is left open.
Limited(docs) ==
    {S \in SUBSET docs :
        \/ S = docs /\ Cardinality(docs) <= Batch
        \/ Cardinality(S) = Batch}

ClaimRead(w) ==
    /\ pc[w] = "idle"
    /\ \E S \in Limited(Eligible) :
         /\ seen' = [seen EXCEPT ![w] =
                       [e \in Events |-> IF e \in S THEN status[e] ELSE "none"]]
         /\ pc' = [pc EXCEPT ![w] = IF S = {} THEN "idle" ELSE "draining"]
    /\ UNCHANGED <<doc, stored, caller, claimed, current, faults>>

\* The worker goroutine ends, and what it had in hand is forgotten.
Ended(w, label) ==
    /\ pc' = [pc EXCEPT ![w] = label]
    /\ seen' = [seen EXCEPT ![w] = NothingSeen]
    /\ claimed' = [claimed EXCEPT ![w] = {}]
    /\ current' = [current EXCEPT ![w] = {}]

\* DrainOnce returns its error and Run returns with it.  The process only logs
\* that: it goes on serving, without a worker.
Stopped(w) == Ended(w, "stopped")

ClaimReadFails(w) ==
    /\ pc[w] = "idle"
    /\ Fault("find")
    /\ Stopped(w)
    /\ UNCHANGED <<doc, stored, caller>>
\* Mutants: the update without its status condition, or without its $set.
Claim_AnyStatus(w, e) ==
    /\ status' = [status EXCEPT ![e] = "processing"]
    /\ UNCHANGED <<retry, due>>
Claim_KeepsStatus(w, e) ==
    /\ status[e] = seen[w][e]
    /\ UNCHANGED <<status, retry, due>>

\* The update matches on _id and on the status that was read, nothing else.
Claim(w, e) ==
    /\ status[e] = seen[w][e]
    /\ status' = [status EXCEPT ![e] = "processing"]
    /\ UNCHANGED <<retry, due>>

ClaimOne(w, e) ==
    /\ pc[w] = "draining"
    /\ seen[w][e] # "none"
    /\ \/ Claim(w, e) /\ claimed' = [claimed EXCEPT ![w] = @ \cup {e}]
       \/ status[e] # seen[w][e] /\ UNCHANGED <<doc, claimed>>
    /\ seen' = [seen EXCEPT ![w][e] = "none"]
    /\ UNCHANGED <<stored, caller, pc, current, faults>>

\* The update reports an error: the event is dropped from the batch, although
\* the server may have moved it to processing.
ClaimOneFails(w, e) ==
    /\ pc[w] = "draining"
    /\ seen[w][e] # "none"
    /\ Fault("claim")
    /\ (UNCHANGED doc \/ Claim(w, e))
    /\ seen' = [seen EXCEPT ![w][e] = "none"]
    /\ UNCHANGED <<stored, caller, pc, claimed, current>>

-----------------------------------------------------------------------------
(* DrainOnce's loop: handler, then MarkDone or MarkFailed, event by event. *)

BatchClaimed(w) == pc[w] = "draining" /\ seen[w] = NothingSeen

HandleOK(w, e) ==
    /\ BatchClaimed(w)
    /\ e \in claimed[w]
    /\ Insert(e)
    /\ pc' = [pc EXCEPT ![w] = "markDone"]
    /\ current' = [current EXCEPT ![w] = {e}]
    /\ UNCHANGED <<doc, caller, seen, claimed, faults>>
\* Mutant: the handler's error is dropped.
HandleFails_MarksDone(w, e) ==
    /\ BatchClaimed(w)
    /\ e \in claimed[w]
    /\ Fault("insert")
    /\ (UNCHANGED stored \/ Insert(e))
    /\ pc' = [pc EXCEPT ![w] = "markDone"]
    /\ current' = [current EXCEPT ![w] = {e}]
    /\ UNCHANGED <<doc, caller, seen, claimed>>

\* The insert into the target collection fails.  For login_history the handler
\* was given the enqueueing repository (cmd/api/main.go), whose Append then
\* enqueues the event again; its document exists, so that succeeds and the
\* handler returns nil.
HandleFails(w, e) ==
    /\ BatchClaimed(w)
    /\ e \in claimed[w]
    /\ Fault("insert")
    /\ (UNCHANGED stored \/ Insert(e))
    /\ pc' = [pc EXCEPT ![w] =
                IF Kind[e] = "login_history" THEN "markDone" ELSE "markFailed"]
    /\ current' = [current EXCEPT ![w] = {e}]
    /\ UNCHANGED <<doc, caller, seen, claimed>>

\* The login_history insert failed, or met the copy that is already there, and
\* the second enqueue fails too: only then does the handler report an error.
HandleAndEnqueueFail(w, e) ==
    LET failures == IF stored[e] = 0 THEN 2 ELSE 1
    IN  /\ BatchClaimed(w)
        /\ e \in claimed[w]
        /\ Kind[e] = "login_history"
        /\ "enqueue" \in FaultKinds
        /\ stored[e] = 0 => "insert" \in FaultKinds
        /\ faults + failures <= MaxFaults
        /\ faults' = faults + failures
        /\ (UNCHANGED stored \/ Insert(e))
        /\ pc' = [pc EXCEPT ![w] = "markFailed"]
        /\ current' = [current EXCEPT ![w] = {e}]
        /\ UNCHANGED <<doc, caller, seen, claimed>>

MarkDone(e) ==
    /\ status' = [status EXCEPT ![e] = "done"]
    /\ UNCHANGED <<retry, due>>

\* Mutants: the update without $inc, or one whose $inc is given the new count
\* instead of 1.
MarkFailed_NoCount(e) ==
    /\ status' = [status EXCEPT ![e] = "failed"]
    /\ due' = due \ {e}
    /\ UNCHANGED retry

MarkFailed_AddsCount(e) ==
    /\ status' = [status EXCEPT ![e] = "failed"]
    /\ retry' = [retry EXCEPT ![e] = @ + (@ + 1)]
    /\ due' = due \ {e}

MarkFailed(e) ==
    /\ status' = [status EXCEPT ![e] = "failed"]
    /\ retry' = [retry EXCEPT ![e] = @ + 1]
    /\ due' = due \ {e}

Marked(w, e) ==
    \/ pc[w] = "markDone" /\ MarkDone(e)
    \/ pc[w] = "markFailed" /\ MarkFailed(e)

Mark(w, e) ==
    /\ e \in current[w]
    /\ Marked(w, e)
    /\ claimed' = [claimed EXCEPT ![w] = @ \ {e}]
    /\ current' = [current EXCEPT ![w] = {}]
    /\ pc' = [pc EXCEPT ![w] = IF claimed[w] = {e} THEN "idle" ELSE "draining"]
    /\ UNCHANGED <<stored, caller, seen, faults>>

\* The rest of the batch is abandoned in processing.
MarkFails(w, e) ==
    /\ e \in current[w]
    /\ Fault("mark")
    /\ (UNCHANGED doc \/ Marked(w, e))
    /\ Stopped(w)
    /\ UNCHANGED <<stored, caller>>

\* Every document of the batch was taken by another worker.
DrainNothing(w) ==
    /\ BatchClaimed(w)
    /\ claimed[w] = {}
    /\ pc' = [pc EXCEPT ![w] = "idle"]
    /\ UNCHANGED <<doc, stored, caller, seen, claimed, current, faults>>

-----------------------------------------------------------------------------
(* The environment: process crashes and restarts, and the retry delay.     *)

\* The process dies, or is told to shut down: that cancels the worker's context,
\* so that its calls fail and what it has claimed is left as it is.
Crash(w) ==
    /\ pc[w] \notin {"stopped", "down"}
    /\ Fault("crash")
    /\ Ended(w, "down")
    /\ UNCHANGED <<doc, stored, caller>>

\* A process that has lost its worker ends: by a deployment, or by a crash.
ProcessEnds(w) ==
    /\ pc[w] = "stopped"
    /\ pc' = [pc EXCEPT ![w] = "down"]
    /\ UNCHANGED <<doc, stored, caller, seen, claimed, current, faults>>

Restart(w) ==
    /\ pc[w] = "down"
    /\ pc' = [pc EXCEPT ![w] = "idle"]
    /\ UNCHANGED <<doc, stored, caller, seen, claimed, current, faults>>

\* process_after passes.
BecomesDue(e) ==
    /\ status[e] = "failed"
    /\ e \notin due
    /\ due' = due \cup {e}
    /\ UNCHANGED <<status, retry, stored, caller, worker, faults>>

Append(e) == DirectAppend(e) \/ Enqueue(e) \/ CallerCrash(e)

Drain(w) ==
    \/ ClaimRead(w) \/ DrainNothing(w)
    \/ \E e \in Events :
         \/ ClaimOne(w, e) \/ HandleOK(w, e) \/ HandleFails(w, e)
         \/ HandleAndEnqueueFail(w, e) \/ Mark(w, e)

WorkerFault(w) ==
    \/ ClaimReadFails(w) \/ Crash(w)
    \/ \E e \in Events : ClaimOneFails(w, e) \/ MarkFails(w, e)

Next ==
    \/ \E e \in Events : Append(e) \/ BecomesDue(e)
    \/ \E w \in Workers : Drain(w) \/ WorkerFault(w) \/ ProcessEnds(w) \/ Restart(w)

Spec == Init /\ [][Next]_vars

\* A ticker drives each worker, the supervisor restarts processes that are down,
\* and time passes.  Nothing makes a process end that has lost its worker.
Fairness ==
    /\ \A w \in Workers : WF_vars(Drain(w)) /\ WF_vars(Restart(w))
    /\ \A e \in Events : WF_vars(BecomesDue(e))

FairSpec == Spec /\ Fairness

-----------------------------------------------------------------------------
(* Properties.                                                             *)

DocTypes ==
    /\ status \in [Events -> Statuses]
    /\ retry \in [Events -> Nat]
    /\ due \subseteq Events

WorkerTypes ==
    /\ pc \in [Workers -> {"idle", "draining", "markDone", "markFailed", "stopped", "down"}]
    /\ seen \in [Workers -> [Events -> Readable \cup {"none"}]]
    /\ claimed \in [Workers -> SUBSET Events]
    /\ current \in [Workers -> SUBSET Events]

\* Every variable has its type; seen only holds statuses that ClaimBatch reads.
TypeOK ==
    /\ DocTypes
    /\ WorkerTypes
    /\ stored \in [Events -> Nat]
    /\ caller \in [Events -> {"new", "fallback", "accepted", "refused"}]
    /\ faults \in 0..MaxFaults

\* The conditional update of ClaimBatch makes a claim exclusive: while a worker
\* has an event in hand the document says processing and no other worker has
\* the event, whatever the two read before their updates.
ExclusiveClaim ==
    \A w \in Workers : \A e \in claimed[w] :
        /\ status[e] = "processing"
        /\ \A v \in Workers \ {w} : e \notin claimed[v]

\* An audit log or error event the outbox calls done is in its collection.
DoneMeansStored ==
    \A e \in Events :
        status[e] = "done" /\ Kind[e] # "login_history" => stored[e] > 0

\* max_retries is read in ClaimBatch's find and not in its update, so with
\* several workers retry_count can pass it; by one less than their number at
\* most, and not at all for one worker.
RetryBound ==
    \A e \in Events : retry[e] <= MaxRetries + Cardinality(Workers) - 1

\* A second copy of an error event is the trace of a failed attempt: the
\* collection never holds more than retry_count + 1 copies.
CopiesBounded ==
    \A e \in Events : stored[e] <= retry[e] + 1

\* done is final: MarkDone is followed by no other status of the document and
\* by no further write of the event, also by a worker that read it earlier.
DoneIsFinal ==
    [][\A e \in Events :
         status[e] = "done" => status'[e] = "done" /\ stored'[e] = stored[e]]_vars

\* The parts of the inductive invariant behind the four invariants above.  A
\* worker between two drains has nothing in hand; what it is about to mark is
\* one of the events it claimed.
Idle ==
    \A w \in Workers :
        /\ pc[w] \in {"idle", "stopped", "down"} => claimed[w] = {} /\ seen[w] = NothingSeen
        /\ pc[w] \in {"markDone", "markFailed"} => seen[w] = NothingSeen
        /\ pc[w] \notin {"markDone", "markFailed"} => current[w] = {}
        /\ current[w] \subseteq claimed[w]
        /\ \A e, f \in current[w] : e = f

AboutToBeDone ==
    \A w \in Workers : \A e \in current[w] :
        pc[w] = "markDone" /\ Kind[e] # "login_history" => stored[e] > 0

\* An attempt on e has not been made since e was last marked.
Unattempted(e) ==
    \/ status[e] \notin {"processing", "done"}
    \/ \E w \in Workers : e \in claimed[w] \ current[w]

CopiesCounted ==
    \A e \in Events :
        /\ Keyed(e) => stored[e] <= 1
        /\ ~Keyed(e) => stored[e] <= retry[e] + 1
        /\ ~Keyed(e) /\ Unattempted(e) => stored[e] <= retry[e]

Holders(e) == {w \in Workers : seen[w][e] # "none" \/ e \in claimed[w]}

\* Every worker that has read or claimed e may still add one to its count.
RetriesCovered ==
    \A e \in Events :
        retry[e] + Cardinality(Holders(e)) <= MaxRetries + Cardinality(Workers) - 1

NewHasNoDoc ==
    \A e \in Events : caller[e] = "new" => status[e] = "none"

\* A document exists from the first insert on; a pending one was never marked.
Accepted ==
    \A e \in Events :
        /\ caller[e] = "accepted" /\ Kind[e] # "login_history" => status[e] # "none"
        /\ status[e] \in {"none", "pending"} => retry[e] = 0
        /\ status[e] = "pending" => e \in due

IInv == /\ TypeOK /\ ExclusiveClaim /\ Idle
        /\ DoneMeansStored /\ AboutToBeDone
        /\ CopiesCounted /\ RetriesCovered /\ NewHasNoDoc /\ Accepted

\* In processing, and in nobody's hands: no find will ever read the document.
Orphaned(e) ==
    status[e] = "processing" /\ \A w \in Workers : e \notin claimed[w]

\* Only a fault orphans a document - a crash, or an update whose answer is an
\* error: the loop of DrainOnce lets go of no event it has not marked.
OrphansNeedFaults ==
    [][\A e \in Events : Orphaned(e)' /\ ~Orphaned(e) => faults' > faults]_vars

\* What ClaimBatch has read or claimed for the worker and DrainOnce not settled.
InHand(w) == {e \in Events : seen[w][e] # "none"} \cup claimed[w]
Orphans == {e \in Events : Orphaned(e)}

\* The loss is bounded: the limit of the find is also a limit on what a worker
\* has in hand, so that a step that orphans documents is a fault, and orphans no
\* more than one batch however many documents wait.
LossBounded ==
    [][LET lost == Orphans' \ Orphans IN
         lost # {} => Cardinality(lost) <= Batch /\ faults' > faults]_vars

\* The same bound on the orphans of all steps together.
LossTotal == Cardinality(Orphans) <= Batch * faults

\* The part of its inductive invariant that IInv does not have.
BatchHeld == \A w \in Workers : Cardinality(InHand(w)) <= Batch

\* The queue that callers see: pending and failed documents wait, processing
\* ones are held by the worker that claimed them, or lost.
Owners(e) == {w \in Workers : e \in claimed[w]}
Stage(e) ==
    CASE status[e] = "none" -> "absent"
      [] status[e] \in Readable -> "waiting"
      [] status[e] = "done" -> "finished"
      [] status[e] = "processing" -> IF Owners(e) = {} THEN "lost" ELSE "held"

Queue == INSTANCE WorkQueue
    WITH Items <- Events, Consumers <- Workers,
         state <- [e \in Events |-> Stage(e)],
         holder <- [e \in Events |-> Owners(e)],
         effects <- stored

\* The outbox is a work queue: its documents pass from hand to hand, one holder
\* at a time; done is final, and so is the loss of an orphaned document; the
\* event is written before it is enqueued or by its holder only.
ImplementsQueue == Queue!Spec

Exhausted(e) == status[e] = "failed" /\ retry[e] >= MaxRetries

\* process_after of a failed attempt has not passed yet.
Delayed(e) == status[e] = "failed" /\ e \notin due /\ retry[e] < MaxRetries

\* No audit log or error event that was accepted, or is in the outbox, drops out
\* of sight: it is stored, or ClaimBatch will find it, now or after its delay, or
\* a running worker has it in hand, or its retries are used up; else it is
\* orphaned.
NothingForgotten ==
    \A e \in {x \in Events : Kind[x] # "login_history"} :
        caller[e] = "accepted" \/ status[e] # "none" =>
            \/ stored[e] > 0 \/ e \in Eligible \/ Delayed(e)
            \/ \E w \in Workers :
                 e \in claimed[w] /\ pc[w] \in {"draining", "markDone", "markFailed"}
            \/ Exhausted(e) \/ Orphaned(e)

\* At-least-once: an audit log or error event whose Append returned nil ends up
\* in its collection unless its retries are used up.
AtLeastOnce ==
    \A e \in {x \in Events : Kind[x] # "login_history"} :
        caller[e] = "accepted" ~> stored[e] > 0 \/ Exhausted(e)

\* Every process runs on without its worker.
Abandoned == \A w \in Workers : pc[w] = "stopped"

\* What does hold, whatever crashes and fails: such an event is stored, or its
\* retries are used up, or it was orphaned, or nobody drains the outbox until a
\* process is replaced.  An insert that fails is retried.
StoredUnlessOrphaned ==
    \A e \in {x \in Events : Kind[x] # "login_history"} :
        caller[e] = "accepted" ~>
            stored[e] > 0 \/ Exhausted(e) \/ Orphaned(e) \/ Abandoned

\* A login-history event whose write fails in the worker is marked failed and
\* retried, so that a done document is one whose entry was written
\* (docs/operations.md, dependency degradation matrix).
LoginHistoryRetried ==
    \A e \in Events :
        status[e] = "done" /\ Kind[e] = "login_history" => stored[e] > 0
=============================================================================
