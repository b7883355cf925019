----------------------------- MODULE ApiProcess -----------------------------
(***************************************************************************)
(* The life of an API process: run in cmd/api/main.go, from the start by   *)
(* the supervisor (restart: unless-stopped) to the last deferred call.     *)
(*                                                                         *)
(* Three kinds of goroutine matter: run itself, the outbox worker, and the *)
(* handlers of the HTTP server.  stage names the call run makes next; the  *)
(* stages from closeRedis on are the deferred calls, last one first, and   *)
(* what is open follows from the stage.  A signal cancels the context of   *)
(* run and of the worker; requests have contexts of their own.             *)
(***************************************************************************)
EXTENDS Integers, FiniteSets

CONSTANTS
    Procs,      \* the API processes
    MaxBusy,    \* bound on the requests in flight in one process
    MaxFaults   \* bound on calls that fail, workers that stop and crashes

ASSUME ProcessBounds == MaxBusy \in Nat /\ MaxFaults \in Nat

VARIABLES
    stage,      \* stage[p]: where run stands, "down" while p does not run
    signalled,  \* processes whose context a signal has cancelled
    worker,     \* processes whose outbox worker runs
    busy,       \* busy[p]: the requests p has accepted and not answered
    forced,     \* processes that left run before their work was over
    faults      \* faults so far

process == <<stage, signalled, worker, busy, forced>>
lifecycle == <<stage, signalled, worker, busy, forced, faults>>

Closing == {"closeRedis", "closeMongo", "closeLog"}
Stages == {"down", "load", "connect", "indexes", "redis", "serve", "drain", "wait"} \cup Closing

LifecycleInit ==
    /\ stage = [p \in Procs |-> "down"]
    /\ signalled = {}
    /\ worker = {}
    /\ busy = [p \in Procs |-> 0]
    /\ forced = {}
    /\ faults = 0

Goto(p, label) == stage' = [stage EXCEPT ![p] = label]
Fault == faults < MaxFaults /\ faults' = faults + 1

\* The process is gone, and with it its goroutines.
Exit(p) ==
    /\ Goto(p, "down")
    /\ signalled' = signalled \ {p}
    /\ worker' = worker \ {p}
    /\ busy' = [busy EXCEPT ![p] = 0]
    /\ forced' = forced \ {p}

-----------------------------------------------------------------------------
(* Start-up.                                                               *)

Start(p) ==
    /\ stage[p] = "down"
    /\ Goto(p, "load")
    /\ UNCHANGED <<signalled, worker, busy, forced, faults>>

\* config.Load, the logger, the signal context and the metrics.
Load(p) ==
    /\ stage[p] = "load"
    /\ Goto(p, "connect")
    /\ UNCHANGED <<signalled, worker, busy, forced, faults>>

LoadFails(p) ==
    /\ stage[p] = "load"
    /\ Exit(p)

\* connectMongo pings, EnsureIndexes creates: both under the signal context.
\* NewRedis only prepares a client.  The worker, unless OUTBOX_ENABLED is false,
\* runs from then on, before the server does; NewTokenService repeats tests that
\* config.Load has made.
Open(p) ==
    /\ \/ /\ stage[p] \in {"connect", "indexes"}
          /\ p \notin signalled
          /\ Goto(p, IF stage[p] = "connect" THEN "indexes" ELSE "redis")
          /\ UNCHANGED worker
       \/ /\ stage[p] = "redis"
          /\ Goto(p, "serve")
          /\ worker' \in {worker, worker \cup {p}}
    /\ UNCHANGED <<signalled, busy, forced, faults>>

\* connectMongo disconnects by itself when the ping fails.
OpenFails(p) ==
    /\ stage[p] \in {"connect", "indexes", "redis"}
    /\ \/ p \in signalled /\ stage[p] # "redis" /\ UNCHANGED faults
       \/ Fault
    /\ Goto(p, IF stage[p] = "connect" THEN "closeLog" ELSE "closeMongo")
    /\ UNCHANGED <<signalled, worker, busy, forced>>

-----------------------------------------------------------------------------
(* The server and the worker.                                              *)

Accept(p) ==
    /\ stage[p] = "serve"
    /\ busy[p] < MaxBusy
    /\ busy' = [busy EXCEPT ![p] = @ + 1]
    /\ UNCHANGED <<stage, signalled, worker, forced, faults>>

Respond(p) ==
    /\ busy[p] > 0
    /\ busy' = [busy EXCEPT ![p] = @ - 1]
    /\ UNCHANGED <<stage, signalled, worker, forced, faults>>

\* Run returns once its context is cancelled or a call of DrainOnce fails; the
\* process goes on without a worker.
WorkerEnds(p) ==
    /\ p \in worker
    /\ \/ p \in signalled /\ UNCHANGED faults
       \/ Fault
    /\ worker' = worker \ {p}
    /\ UNCHANGED <<stage, signalled, busy, forced>>

-----------------------------------------------------------------------------
(* Shutdown.                                                               *)

\* SIGTERM or an interrupt.  Without signal.NotifyContext, before it is called
\* and after the deferred stop, it ends the process.
Signal(p) ==
    /\ stage[p] # "down"
    /\ p \notin signalled
    /\ \/ /\ stage[p] \in {"load", "closeLog"}
          /\ Exit(p)
       \/ /\ stage[p] \notin {"load", "closeLog"}
          /\ signalled' = signalled \cup {p}
          /\ UNCHANGED <<stage, worker, busy, forced>>
    /\ UNCHANGED faults

ShutdownRequested(p) ==
    /\ stage[p] = "serve"
    /\ p \in signalled
    /\ Goto(p, "drain")
    /\ UNCHANGED <<signalled, worker, busy, forced, faults>>

\* ListenAndServe fails: run returns at once.
ServeFails(p) ==
    /\ stage[p] = "serve"
    /\ Fault
    /\ Goto(p, "closeRedis")
    /\ forced' = forced \cup {p}
    /\ UNCHANGED <<signalled, worker, busy>>
\* Mutant: the server is closed without waiting for its handlers.
Shutdown_Close(p) ==
    /\ stage[p] = "drain"
    /\ Goto(p, "wait")
    /\ UNCHANGED <<signalled, worker, busy, forced, faults>>

\* server.Shutdown accepts nothing more and waits for the handlers; after 10 s
\* it gives up, and run returns without waiting for the worker.
Shutdown(p) ==
    /\ stage[p] = "drain"
    /\ \/ /\ busy[p] = 0
          /\ Goto(p, "wait")
          /\ UNCHANGED forced
       \/ /\ busy[p] > 0
          /\ Goto(p, "closeRedis")
          /\ forced' = forced \cup {p}
    /\ UNCHANGED <<signalled, worker, busy, faults>>
\* Mutant: no time-out on the worker.
AwaitWorker_Forever(p) ==
    /\ stage[p] = "wait"
    /\ p \notin worker
    /\ Goto(p, "closeRedis")
    /\ UNCHANGED <<signalled, worker, busy, forced, faults>>

\* outboxDone is closed, or 5 s have passed.
AwaitWorker(p) ==
    /\ stage[p] = "wait"
    /\ forced' = IF p \in worker THEN forced \cup {p} ELSE forced
    /\ Goto(p, "closeRedis")
    /\ UNCHANGED <<signalled, worker, busy, faults>>

\* The deferred calls: Redis, Mongo, the signal context, the log file.
Close(p) ==
    /\ \/ /\ stage[p] \in {"closeRedis", "closeMongo"}
          /\ Goto(p, IF stage[p] = "closeRedis" THEN "closeMongo" ELSE "closeLog")
          /\ UNCHANGED <<signalled, worker, busy, forced>>
       \/ /\ stage[p] = "closeLog"
          /\ Exit(p)
    /\ UNCHANGED faults

\* A panic outside the handlers, or SIGKILL.
Crash(p) ==
    /\ stage[p] # "down"
    /\ Fault
    /\ Exit(p)

\* What run does after its configuration is loaded.
Run(p) ==
    \/ Open(p) \/ OpenFails(p)
    \/ ShutdownRequested(p) \/ Shutdown(p) \/ AwaitWorker(p)
    \/ Close(p)

-----------------------------------------------------------------------------
(* Properties.                                                             *)

LifecycleTypeOK ==
    /\ stage \in [Procs -> Stages]
    /\ signalled \subseteq Procs
    /\ worker \subseteq Procs
    /\ busy \in [Procs -> Nat]
    /\ forced \subseteq Procs
    /\ faults \in Nat

\* A process that was not forced out closes its stores when no handler and no
\* worker can use them any more: an accepted request is answered, a batch is
\* finished or left between two of its calls.
CleanStop ==
    \A p \in Procs : stage[p] \in Closing /\ p \notin forced =>
        busy[p] = 0 /\ p \notin worker

\* What CleanStop rests on: there is work from "serve" on only, and after the
\* handlers none but the worker's.  A signal is noted once signal.NotifyContext
\* has been called, and until the process ends.
Working(p) ==
    /\ stage[p] \in {"down", "load", "connect", "indexes", "redis"} =>
         busy[p] = 0 /\ p \notin worker
    /\ stage[p] = "wait" => busy[p] = 0
    /\ p \in forced => stage[p] \in Closing
    /\ p \in signalled => stage[p] \notin {"down", "load"}

\* A signal is obeyed: during start-up, while requests hang and while the worker
\* hangs, run returns and the process ends.
Stops == \A p \in Procs : p \in signalled ~> stage[p] = "down"

\* Where run can go on: everywhere but in select, before a signal.
RunReady(p) == stage[p] \notin {"down", "load"} /\ (stage[p] = "serve" => p \in signalled)

\* The stages that run has ahead of it.
ToGo(label) ==
    CASE label = "down" -> 0
      [] label = "closeLog" -> 1
      [] label = "closeMongo" -> 2
      [] label = "closeRedis" -> 3
      [] label = "wait" -> 4
      [] label = "drain" -> 5
      [] label = "serve" -> 6
      [] label = "redis" -> 7
      [] label = "indexes" -> 8
      [] label = "connect" -> 9
      [] label = "load" -> 10

\* The stages until it serves, through the restart where it is on its way out.
ToServe(label) == IF ToGo(label) >= 6 THEN ToGo(label) - 6 ELSE ToGo(label) + 5
=============================================================================
