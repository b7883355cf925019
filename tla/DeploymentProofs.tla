-------------------------- MODULE DeploymentProofs --------------------------
(***************************************************************************)
(* Proofs about ApiProcess and Deployment, for every number of processes,  *)
(* tokens and requests in flight, and for every overlap and roll-out time. *)
(***************************************************************************)
EXTENDS Deployment, TLAPS

USE ProcessBounds, DeploymentAssumption

\* The life of a process, as one step of Deployment can change it.
LifeStep(p) ==
    \/ Start(p) \/ Load(p) \/ LoadFails(p) \/ Open(p) \/ OpenFails(p)
    \/ Accept(p) \/ Respond(p) \/ WorkerEnds(p) \/ Signal(p)
    \/ ShutdownRequested(p) \/ ServeFails(p) \/ Shutdown(p) \/ AwaitWorker(p)
    \/ Close(p) \/ Crash(p)

\* Next is a step of one process, or leaves the processes alone.
LEMMA NextLife ==
    ASSUME [Next]_vars
    PROVE  \/ \E p \in Procs : LifeStep(p) /\ (LoadConfig(p) \/ ProcessStep(p) \/ Replace(p))
           \/ UNCHANGED <<lifecycle, conf>>
  <1>1. ASSUME NEW p \in Procs, LoadConfig(p) PROVE LifeStep(p)
    BY <1>1 DEF LoadConfig, LifeStep
  <1>2. ASSUME NEW p \in Procs, ProcessStep(p) PROVE LifeStep(p)
    BY <1>2 DEF ProcessStep, Serve, Run, Handle, LifeStep
  <1>3. ASSUME NEW p \in Procs, Replace(p) PROVE LifeStep(p)
    BY <1>3 DEF Replace, LifeStep
  <1>4. CASE \E p \in Procs, t \in Tokens : GenerateAccessToken(p, t)
    BY <1>4 DEF GenerateAccessToken
  <1>5. CASE Rotate \/ RemovePrevious \/ Tick
    BY <1>5 DEF Rotate, RemovePrevious, Tick
  <1>6. CASE UNCHANGED vars
    BY <1>6 DEF vars, lifecycle
  <1> QED
    BY <1>1, <1>2, <1>3, <1>4, <1>5, <1>6 DEF Next

-----------------------------------------------------------------------------
(* The life of a process.                                                  *)

\* Types of the lifecycle variables.
LEMMA LifeTypes ==
    ASSUME LifecycleTypeOK, NEW p \in Procs, LifeStep(p), faults' \in Nat
    PROVE  LifecycleTypeOK'
  <1> USE DEF LifecycleTypeOK, Goto, Stages, Closing
  <1>1. CASE Start(p) \/ Load(p)
    BY <1>1 DEF Start, Load
  <1>2. CASE LoadFails(p) \/ Crash(p)
    BY <1>2 DEF LoadFails, Crash, Exit
  <1>3. CASE Open(p) \/ OpenFails(p)
    BY <1>3 DEF Open, OpenFails
  <1>4. CASE Accept(p) \/ Respond(p)
    BY <1>4 DEF Accept, Respond
  <1>5. CASE WorkerEnds(p) \/ ShutdownRequested(p) \/ ServeFails(p)
    BY <1>5 DEF WorkerEnds, ShutdownRequested, ServeFails
  <1>6. CASE Signal(p)
    BY <1>6 DEF Signal, Exit
  <1>7. CASE Shutdown(p) \/ AwaitWorker(p)
    BY <1>7 DEF Shutdown, AwaitWorker
  <1>8. CASE Close(p)
    BY <1>8 DEF Close, Exit
  <1> QED
    BY <1>1, <1>2, <1>3, <1>4, <1>5, <1>6, <1>7, <1>8 DEF LifeStep

\* A step of p leaves the other processes alone.
LEMMA OthersLive ==
    ASSUME LifecycleTypeOK, NEW p \in Procs, LifeStep(p), NEW q \in Procs \ {p}
    PROVE  /\ stage'[q] = stage[q]
           /\ busy'[q] = busy[q]
           /\ q \in signalled' <=> q \in signalled
           /\ q \in worker' <=> q \in worker
           /\ q \in forced' <=> q \in forced
  <1> USE DEF LifecycleTypeOK, Goto
  <1>1. CASE Start(p) \/ Load(p) \/ LoadFails(p) \/ Crash(p)
    BY <1>1 DEF Start, Load, LoadFails, Crash, Exit
  <1>2. CASE Open(p) \/ OpenFails(p)
    BY <1>2 DEF Open, OpenFails
  <1>3. CASE Accept(p) \/ Respond(p) \/ WorkerEnds(p)
    BY <1>3 DEF Accept, Respond, WorkerEnds
  <1>4. CASE Signal(p) \/ Close(p)
    BY <1>4 DEF Signal, Close, Exit
  <1>5. CASE ShutdownRequested(p) \/ ServeFails(p) \/ Shutdown(p) \/ AwaitWorker(p)
    BY <1>5 DEF ShutdownRequested, ServeFails, Shutdown, AwaitWorker
  <1> QED
    BY <1>1, <1>2, <1>3, <1>4, <1>5 DEF LifeStep

\* CleanStop, for one process.
CleanStopOf(p) ==
    stage[p] \in Closing /\ p \notin forced => busy[p] = 0 /\ p \notin worker

\* Shutdown passes by when nothing is in flight, AwaitWorker when the worker has
\* ended; who passes otherwise is noted as forced.
LEMMA StopStep ==
    ASSUME LifecycleTypeOK, NEW p \in Procs, LifeStep(p), Working(p), CleanStopOf(p)
    PROVE  Working(p)' /\ CleanStopOf(p)'
  <1> USE DEF LifecycleTypeOK, Goto, Working, CleanStopOf, Closing
  <1>1. CASE Start(p) \/ Load(p)
    BY <1>1 DEF Start, Load
  <1>2. CASE LoadFails(p) \/ Crash(p)
    BY <1>2 DEF LoadFails, Crash, Exit
  <1>3. CASE Open(p) \/ OpenFails(p)
    BY <1>3 DEF Open, OpenFails
  <1>4. CASE Accept(p) \/ Respond(p)
    BY <1>4 DEF Accept, Respond
  <1>5. CASE WorkerEnds(p) \/ ShutdownRequested(p) \/ ServeFails(p)
    BY <1>5 DEF WorkerEnds, ShutdownRequested, ServeFails
  <1>6. CASE Signal(p)
    BY <1>6 DEF Signal, Exit
  <1>7. CASE Shutdown(p) \/ AwaitWorker(p)
    BY <1>7 DEF Shutdown, AwaitWorker
  <1>8. CASE Close(p)
    BY <1>8 DEF Close, Exit
  <1> QED
    BY <1>1, <1>2, <1>3, <1>4, <1>5, <1>6, <1>7, <1>8 DEF LifeStep

\* A process comes to a stage past the loading of its configuration by Load
\* only, and goes back by its end only.
LEMMA LoadedStep ==
    ASSUME LifecycleTypeOK, NEW p \in Procs, LifeStep(p)
    PROVE  \/ Load(p) /\ stage[p] = "load" /\ stage'[p] = "connect"
           \/ stage[p] \in {"down", "load"} /\ stage'[p] \in {"down", "load"}
           \/ stage[p] \notin {"down", "load"} /\ stage'[p] # "load"
  <1> USE DEF LifecycleTypeOK, Goto
  <1>1. CASE Start(p) \/ Load(p) \/ LoadFails(p) \/ Crash(p)
    BY <1>1 DEF Start, Load, LoadFails, Crash, Exit
  <1>2. CASE Open(p) \/ OpenFails(p)
    BY <1>2 DEF Open, OpenFails
  <1>3. CASE Accept(p) \/ Respond(p) \/ WorkerEnds(p)
    BY <1>3 DEF Accept, Respond, WorkerEnds
  <1>4. CASE Signal(p) \/ Close(p)
    BY <1>4 DEF Signal, Close, Exit
  <1>5. CASE ShutdownRequested(p) \/ ServeFails(p) \/ Shutdown(p) \/ AwaitWorker(p)
    BY <1>5 DEF ShutdownRequested, ServeFails, Shutdown, AwaitWorker
  <1> QED
    BY <1>1, <1>2, <1>3, <1>4, <1>5 DEF LifeStep

-----------------------------------------------------------------------------
(* The rotation.                                                           *)

\* Only faults are counted.
LEMMA FaultsStep ==
    ASSUME LifecycleTypeOK, [Next]_vars
    PROVE  faults' \in Nat
  <1> USE DEF LifecycleTypeOK, Fault
  <1>1. ASSUME NEW p \in Procs, LoadConfig(p) PROVE faults' \in Nat
    BY <1>1 DEF LoadConfig, Load
  <1>2. ASSUME NEW p \in Procs, ProcessStep(p) PROVE faults' \in Nat
    BY <1>2 DEF ProcessStep, Start, Serve, Run, ServeFails, Open, OpenFails, ShutdownRequested,
                Shutdown, AwaitWorker, Close, Handle, Accept, Respond, WorkerEnds, Crash
  <1>3. ASSUME NEW p \in Procs, Replace(p) PROVE faults' \in Nat
    BY <1>3 DEF Replace, Signal
  <1>4. CASE UNCHANGED lifecycle
    BY <1>4 DEF lifecycle
  <1> QED
    BY <1>1, <1>2, <1>3, <1>4, NextLife

\* The clock goes on; env and notAfter change together.
LEMMA OperatorStep ==
    ASSUME TypeOK, [Next]_vars
    PROVE  /\ \/ UNCHANGED <<now, env, notAfter>>
              \/ Rotate
              \/ RemovePrevious
              \/ Tick
           /\ now' \in Nat /\ env' \in 1..3 /\ notAfter' \in Nat
           /\ now <= now' /\ env <= env'
  <1>0. now \in Nat /\ env \in 1..3 /\ notAfter \in Nat
    BY DEF TypeOK
  <1>1. \/ UNCHANGED <<now, env, notAfter>> \/ Rotate \/ RemovePrevious \/ Tick
    BY DEF Next, vars, LoadConfig, ProcessStep, Replace, GenerateAccessToken
  <1> QED
    BY <1>0, <1>1 DEF Rotate, RemovePrevious, Tick

\* A process keeps its configuration to its end; a new one is env.
LEMMA ConfStep ==
    ASSUME TypeOK, Configured, [Next]_vars, NEW q \in Procs
    PROVE  /\ conf' \in [Procs -> 0..3]
           /\ conf'[q] = 0 <=> stage'[q] \in {"down", "load"}
           /\ \/ conf'[q] = conf[q]
              \/ conf'[q] = 0
              \/ conf'[q] = env /\ UNCHANGED <<now, env, notAfter>>
  <1>0. /\ LifecycleTypeOK /\ conf \in [Procs -> 0..3] /\ env \in 1..3
        /\ \A p \in Procs : conf[p] = 0 <=> stage[p] \in {"down", "load"}
    BY DEF TypeOK, Configured
  <1>1. ASSUME NEW p \in Procs, LifeStep(p), LoadConfig(p)
        PROVE  /\ conf' \in [Procs -> 0..3]
               /\ conf'[q] = 0 <=> stage'[q] \in {"down", "load"}
               /\ \/ conf'[q] = conf[q]
                  \/ conf'[q] = env /\ UNCHANGED <<now, env, notAfter>>
    <2>1. CASE Load(p) /\ conf' = [conf EXCEPT ![p] = env]
      BY <1>0, <1>1, <2>1 DEF Load, Goto, LoadConfig, LifecycleTypeOK
    <2>2. CASE LoadFails(p) /\ UNCHANGED conf
      BY <1>0, <1>1, <2>2 DEF LoadFails, Exit, Goto, LifecycleTypeOK
    <2> QED
      BY <1>1, <2>1, <2>2 DEF LoadConfig
  <1>2. ASSUME NEW p \in Procs, LifeStep(p), ProcessStep(p) \/ Replace(p)
        PROVE  /\ conf' \in [Procs -> 0..3]
               /\ conf'[q] = 0 <=> stage'[q] \in {"down", "load"}
               /\ conf'[q] = conf[q] \/ conf'[q] = 0
    <2>1. conf' = [r \in Procs |-> IF stage'[r] = "down" THEN 0 ELSE conf[r]]
      BY <1>2 DEF ProcessStep, Replace, Forget
    <2>2. ~Load(p)
      BY <1>0, <1>2 DEF ProcessStep, Replace, Load, Start, Serve, Run, ServeFails, Open,
                  OpenFails, ShutdownRequested, Shutdown, AwaitWorker, Close, Handle, Accept,
                  Respond, WorkerEnds, Signal, Crash, Exit, Goto, LifecycleTypeOK, Working
    <2>3. CASE q = p
      BY <1>0, <1>2, <2>1, <2>2, <2>3, LoadedStep
    <2>4. CASE q # p
      BY <1>0, <1>2, <2>1, <2>4, OthersLive
    <2> QED
      BY <2>1, <2>3, <2>4, <1>0
  <1>3. CASE UNCHANGED <<lifecycle, conf>>
    BY <1>0, <1>3 DEF lifecycle
  <1> QED
    BY <1>1, <1>2, <1>3, NextLife
\* No process is older than Rollout after the rotation: the clock waits.
LEMMA ConfiguredStep ==
    ASSUME TypeOK, Configured, [Next]_vars
    PROVE  Configured'
  <1> SUFFICES ASSUME NEW q \in Procs
               PROVE  /\ conf'[q] = 0 <=> stage'[q] \in {"down", "load"}
                      /\ conf'[q] <= env'
                      /\ conf'[q] = 1 /\ env' # 1 => now' <= Rotated' + Rollout
    BY DEF Configured
  <1>0. /\ now \in Nat /\ env \in 1..3 /\ notAfter \in Nat /\ conf[q] \in 0..3
        /\ conf[q] <= env
        /\ conf[q] = 1 /\ env # 1 => now <= notAfter - Overlap + Rollout
    BY DEF TypeOK, Configured, Rotated
  <1>1. /\ conf'[q] = 0 <=> stage'[q] \in {"down", "load"}
        /\ \/ conf'[q] = conf[q]
           \/ conf'[q] = 0
           \/ conf'[q] = env /\ UNCHANGED <<now, env, notAfter>>
    BY ConfStep
  <1>2. CASE UNCHANGED <<now, env, notAfter>>
    BY <1>0, <1>1, <1>2 DEF Rotated
  <1>3. CASE Rotate
    BY <1>0, <1>1, <1>3 DEF Rotate, Rotated
  <1>4. CASE RemovePrevious
    BY <1>0, <1>1, <1>4 DEF RemovePrevious, Rotated
  <1>5. CASE Tick
    BY <1>0, <1>1, <1>5 DEF Tick, Rotated
  <1> QED
    BY <1>2, <1>3, <1>4, <1>5, OperatorStep

\* A token of the old key is issued by an old process, so no later than Rollout
\* after the rotation.
LEMMA SignedStep ==
    ASSUME TypeOK, \A p \in Procs : Working(p), Configured, Signed, [Next]_vars
    PROVE  /\ kid' \in [Tokens -> 0..2] /\ exp' \in [Tokens -> Nat]
           /\ Signed'
  <1>0. /\ now \in Nat /\ env \in 1..3 /\ notAfter \in Nat
        /\ kid \in [Tokens -> 0..2] /\ exp \in [Tokens -> Nat]
    BY DEF TypeOK
  <1>1. ASSUME NEW p \in Procs, NEW t \in Tokens, GenerateAccessToken(p, t)
        PROVE  kid' \in [Tokens -> 0..2] /\ exp' \in [Tokens -> Nat] /\ Signed'
    <2>1. conf[p] \in 1..3 /\ conf[p] <= env
      BY <1>1 DEF GenerateAccessToken, Working, Configured, TypeOK, LifecycleTypeOK
    <2>2. /\ kid' = [kid EXCEPT ![t] = Key(conf[p])]
          /\ exp' = [exp EXCEPT ![t] = now + TTL]
          /\ UNCHANGED <<now, env, notAfter>>
      BY <1>1 DEF GenerateAccessToken
    <2>3. Key(conf[p]) \in 1..2 /\ Key(conf[p]) <= env /\ (Key(conf[p]) = 1 => conf[p] = 1)
      BY <1>0, <2>1 DEF Key
    <2>4. conf[p] = 1 /\ env # 1 => now <= Rotated + Rollout
      BY DEF Configured
    <2>5. Rotated' = Rotated /\ Rotated \in Int
      BY <1>0, <2>2 DEF Rotated
    <2>6. kid' \in [Tokens -> 0..2] /\ exp' \in [Tokens -> Nat]
      BY <1>0, <2>2, <2>3
    <2>7. ASSUME NEW u \in Tokens
          PROVE  /\ kid'[u] <= env'
                 /\ exp'[u] <= now' + TTL
                 /\ kid'[u] = 1 /\ env' # 1 => exp'[u] <= Rotated' + Rollout + TTL
      <3>1. CASE u = t
        BY <1>0, <2>2, <2>3, <2>4, <2>5, <3>1
      <3>2. CASE u # t
        BY <1>0, <2>2, <2>5, <3>2 DEF Signed
      <3> QED
        BY <3>1, <3>2
    <2> QED
      BY <2>6, <2>7 DEF Signed
  <1>2. ASSUME UNCHANGED <<kid, exp>> PROVE Signed'
    <2> SUFFICES ASSUME NEW u \in Tokens
                 PROVE  /\ kid[u] <= env'
                        /\ exp[u] <= now' + TTL
                        /\ kid[u] = 1 /\ env' # 1 => exp[u] <= Rotated' + Rollout + TTL
      BY <1>2 DEF Signed
    <2>1. /\ kid[u] \in 0..2 /\ exp[u] \in Nat /\ kid[u] <= env /\ exp[u] <= now + TTL
          /\ kid[u] = 1 /\ env # 1 => exp[u] <= notAfter - Overlap + Rollout + TTL
      BY <1>0 DEF Signed, Rotated
    <2>2. CASE UNCHANGED <<now, env, notAfter>>
      BY <2>1, <2>2 DEF Rotated
    <2>3. CASE Rotate
      BY <1>0, <2>1, <2>3 DEF Rotate, Rotated
    <2>4. CASE RemovePrevious
      BY <1>0, <2>1, <2>4 DEF RemovePrevious, Rotated
    <2>5. CASE Tick
      BY <1>0, <2>1, <2>5 DEF Tick, Rotated
    <2> QED
      BY <2>2, <2>3, <2>4, <2>5, OperatorStep
  <1>3. CASE UNCHANGED <<kid, exp>>
    BY <1>0, <1>2, <1>3
  <1>4. \/ UNCHANGED <<kid, exp>>
        \/ \E p \in Procs, t \in Tokens : GenerateAccessToken(p, t)
    BY DEF Next, vars, LoadConfig, ProcessStep, Replace, Rotate, RemovePrevious, Tick
  <1> QED
    BY <1>1, <1>3, <1>4

-----------------------------------------------------------------------------
(* The theorems.                                                           *)

\* At the start nothing runs and no token is issued.
LEMMA InvInit == Init => IInv
  BY DEF Init, LifecycleInit, IInv, TypeOK, LifecycleTypeOK, Stages, Closing, Working, CleanStop,
         Configured, Signed, Rotated

\* IInv is inductive.
LEMMA InvStep == IInv /\ [Next]_vars => IInv'
  <1> SUFFICES ASSUME IInv, [Next]_vars PROVE IInv'
    OBVIOUS
  <1>0. /\ TypeOK /\ LifecycleTypeOK /\ Configured /\ Signed
        /\ \A p \in Procs : Working(p) /\ CleanStopOf(p)
    BY DEF IInv, TypeOK, CleanStop, CleanStopOf
  <1>1. LifecycleTypeOK'
    <2>1. CASE UNCHANGED lifecycle
      BY <1>0, <2>1 DEF lifecycle, LifecycleTypeOK
    <2> QED
      BY <1>0, <2>1, NextLife, LifeTypes, FaultsStep
  <1>2. conf' \in [Procs -> 0..3]
    <2>1. CASE Procs = {}
      BY <1>0, <2>1, NextLife DEF TypeOK
    <2> QED
      BY <1>0, <2>1, ConfStep
  <1>3. /\ now' \in Nat /\ env' \in 1..3 /\ notAfter' \in Nat
        /\ kid' \in [Tokens -> 0..2] /\ exp' \in [Tokens -> Nat] /\ Signed'
    BY <1>0, OperatorStep, SignedStep
  <1>4. TypeOK' /\ Configured'
    BY <1>0, <1>1, <1>2, <1>3, ConfiguredStep DEF TypeOK
  <1>5. ASSUME NEW q \in Procs PROVE Working(q)' /\ CleanStopOf(q)'
    <2>1. ASSUME NEW p \in Procs, LifeStep(p), q # p PROVE Working(q)' /\ CleanStopOf(q)'
      BY <1>0, <2>1, OthersLive DEF Working, CleanStopOf
    <2>2. CASE UNCHANGED lifecycle
      BY <1>0, <2>2 DEF lifecycle, Working, CleanStopOf
    <2> QED
      BY <1>0, <2>1, <2>2, NextLife, StopStep
  <1>6. env' = 3 => now' > notAfter'
    <2>1. now \in Nat /\ notAfter \in Nat /\ (env = 3 => now > notAfter)
      BY DEF IInv, TypeOK
    <2> QED
      BY <1>0, <2>1, OperatorStep DEF Rotate, RemovePrevious, Tick
  <1> QED
    BY <1>3, <1>4, <1>5, <1>6 DEF IInv, CleanStop, CleanStopOf

\* The inductive invariant holds in every reachable state.
THEOREM Invariance == Spec => []IInv
  BY InvInit, InvStep, PTL DEF Spec

\* Every variable keeps its type.
THEOREM TypeCorrect == Spec => []TypeOK
  <1>1. IInv => TypeOK
    BY DEF IInv
  <1> QED
    BY <1>1, Invariance, PTL

\* The deferred calls of run close no store that a handler or the worker still
\* uses, unless run returned early or a time-out passed.
THEOREM GracefulStop == Spec => []CleanStop
  <1>1. IInv => CleanStop
    BY DEF IInv
  <1> QED
    BY <1>1, Invariance, PTL

\* An overlap of the roll-out time and a token's lifetime keeps every valid token
\* valid, with any number of processes and whatever order they are replaced in.
THEOREM RolloutIsInvisible == Spec => []TokensSurvive
  <1>1. IInv => TokensSurvive
    <2> SUFFICES ASSUME IInv, Overlap >= Rollout + TTL, NEW p \in Procs, NEW t \in Tokens,
                        conf[p] # 0, Valid(t), ~(conf[p] = 1 /\ kid[t] = 2)
                 PROVE  AcceptsKey(conf[p], kid[t])
      BY DEF TokensSurvive
    <2>1. /\ now \in Nat /\ env \in 1..3 /\ notAfter \in Nat /\ exp[t] \in Nat
          /\ conf[p] \in 1..3 /\ conf[p] <= env
          /\ kid[t] \in 1..2 /\ now < exp[t]
          /\ kid[t] = 1 /\ env # 1 => exp[t] <= notAfter - Overlap + Rollout + TTL
          /\ env = 3 => now > notAfter
      BY DEF IInv, TypeOK, Configured, Signed, Rotated, Valid
    <2>2. CASE kid[t] = 2
      BY <2>1, <2>2 DEF AcceptsKey, Key
    <2>3. CASE kid[t] = 1 /\ conf[p] = 1
      BY <2>3 DEF AcceptsKey, Key
    <2>4. CASE kid[t] = 1 /\ conf[p] # 1
      <3>1. now < notAfter
        BY <2>1, <2>4
      <3> QED
        BY <2>1, <2>4, <3>1 DEF AcceptsKey, Key
    <2> QED
      BY <2>1, <2>2, <2>3, <2>4
  <1> QED
    BY <1>1, Invariance, PTL
-----------------------------------------------------------------------------
(* A signal is obeyed.                                                     *)

\* A signalled process ends or is no further from its end than before; its
\* context stays cancelled.
LEMMA SignalledStep ==
    ASSUME IInv, NEW p \in Procs, LifeStep(p), p \in signalled
    PROVE  \/ stage'[p] = "down"
           \/ p \in signalled' /\ ToGo(stage'[p]) <= ToGo(stage[p])
  <1> USE DEF Goto, ToGo
  <1>0. stage \in [Procs -> Stages] /\ stage[p] \notin {"down", "load"}
    BY DEF IInv, TypeOK, LifecycleTypeOK, Working
  <1>1. CASE Start(p) \/ Load(p) \/ LoadFails(p) \/ Signal(p)
    BY <1>0, <1>1 DEF Start, Load, LoadFails, Signal
  <1>2. CASE Open(p)
    BY <1>0, <1>2 DEF Open
  <1>3. CASE OpenFails(p)
    BY <1>0, <1>3 DEF OpenFails
  <1>4. CASE Accept(p) \/ Respond(p) \/ WorkerEnds(p)
    <2>1. UNCHANGED <<stage, signalled>>
      BY <1>4 DEF Accept, Respond, WorkerEnds
    <2> QED
      BY <1>0, <2>1 DEF Stages, Closing
  <1>5. CASE ShutdownRequested(p) \/ ServeFails(p)
    BY <1>0, <1>5 DEF ShutdownRequested, ServeFails
  <1>6. CASE Shutdown(p) \/ AwaitWorker(p)
    BY <1>0, <1>6 DEF Shutdown, AwaitWorker
  <1>7. CASE Close(p) \/ Crash(p)
    BY <1>0, <1>7 DEF Close, Crash, Exit
  <1> QED
    BY <1>1, <1>2, <1>3, <1>4, <1>5, <1>6, <1>7 DEF LifeStep

\* A step of run itself brings a signalled process nearer to its end.
LEMMA RunStep ==
    ASSUME IInv, NEW p \in Procs, Run(p), p \in signalled
    PROVE  \/ stage'[p] = "down"
           \/ p \in signalled' /\ ToGo(stage'[p]) < ToGo(stage[p])
  <1> USE DEF Goto, ToGo
  <1>0. stage \in [Procs -> Stages]
    BY DEF IInv, TypeOK, LifecycleTypeOK
  <1>1. CASE Open(p)
    BY <1>0, <1>1 DEF Open
  <1>2. CASE OpenFails(p)
    BY <1>0, <1>2 DEF OpenFails
  <1>3. CASE ShutdownRequested(p)
    BY <1>0, <1>3 DEF ShutdownRequested
  <1>4. CASE Shutdown(p) \/ AwaitWorker(p)
    BY <1>0, <1>4 DEF Shutdown, AwaitWorker
  <1>5. CASE Close(p)
    BY <1>0, <1>5 DEF Close, Exit
  <1> QED
    BY <1>1, <1>2, <1>3, <1>4, <1>5 DEF Run

\* A signalled process with at most n stages to go, or one that has ended.
Within(p, n) == stage[p] = "down" \/ (p \in signalled /\ ToGo(stage[p]) <= n)
Nearer(p, m, n) == [](Within(p, m) => <>Within(p, n))

\* One step of run is one stage.
LEMMA OneNearer ==
    ASSUME NEW p \in Procs, NEW n \in Nat, NEW m \in Nat, m <= n + 1
    PROVE  Spec /\ RunTaken(p) => Nearer(p, m, n)
  <1> DEFINE Stopping == p \in signalled /\ ToGo(stage[p]) <= m
             There == Within(p, n)
  <1>0. \A l \in Stages : ToGo(l) \in Nat
    BY DEF ToGo, Stages, Closing
  <1>t. IInv => stage[p] \in Stages
    BY DEF IInv, TypeOK, LifecycleTypeOK
  <1>1. IInv /\ IInv' /\ Stopping /\ [Next]_vars => Stopping' \/ There'
    <2> SUFFICES ASSUME IInv, IInv', Stopping, [Next]_vars PROVE Stopping' \/ There'
      OBVIOUS
    <2>1. ASSUME NEW q \in Procs, LifeStep(q), q # p PROVE Stopping'
      BY <2>1, OthersLive DEF IInv, TypeOK
    <2>2. CASE LifeStep(p)
      <3>1. stage[p] \in Stages /\ stage'[p] \in Stages
        BY <1>t, IInv' DEF IInv, TypeOK, LifecycleTypeOK
      <3> QED
        BY <1>0, <2>2, <3>1, SignalledStep DEF Within
    <2>3. CASE UNCHANGED lifecycle
      BY <2>3 DEF lifecycle
    <2> QED
      BY <2>1, <2>2, <2>3, NextLife
  <1>2. IInv /\ IInv' /\ Stopping /\ <<Run(p) /\ ProcessStep(p)>>_vars => There'
    <2> SUFFICES ASSUME IInv, IInv', Stopping, Run(p) PROVE There'
      OBVIOUS
    <2>1. stage[p] \in Stages /\ stage'[p] \in Stages
      BY <1>t, IInv' DEF IInv, TypeOK, LifecycleTypeOK
    <2> QED
      BY <1>0, <2>1, RunStep DEF Within
  <1>3. IInv /\ Stopping => RunReady(p)
    BY DEF IInv, Working, RunReady
  <1>4. Within(p, m) => Stopping \/ There
    BY DEF Within
  <1> HIDE DEF Stopping, There
  <1>5. Spec /\ RunTaken(p) => [](Within(p, m) => <>There)
    BY <1>1, <1>2, <1>3, <1>4, Invariance, PTL DEF Spec, RunTaken
  <1> QED
    BY <1>5 DEF There, Nearer

\* Every process ends once it is signalled, with any number of requests and
\* workers that hang and at whatever stage the signal finds it, as long as run is
\* given steps.
THEOREM SignalsObeyed == Spec /\ (\A p \in Procs : RunTaken(p)) => Stops
  <1>1. ASSUME NEW p \in Procs PROVE Spec /\ RunTaken(p) => (p \in signalled ~> stage[p] = "down")
    <2>1. IInv /\ p \in signalled => Within(p, 9)
      BY DEF IInv, TypeOK, LifecycleTypeOK, Working, Stages, Closing, Within, ToGo
    <2>2. IInv /\ Within(p, 0) => stage[p] = "down"
      BY DEF IInv, TypeOK, LifecycleTypeOK, Stages, Closing, Within, ToGo
    <2>3. Spec /\ RunTaken(p) => Nearer(p, 9, 8) /\ Nearer(p, 8, 7) /\ Nearer(p, 7, 6)
      BY OneNearer
    <2>4. Spec /\ RunTaken(p) => Nearer(p, 6, 5) /\ Nearer(p, 5, 4) /\ Nearer(p, 4, 3)
      BY OneNearer
    <2>5. Spec /\ RunTaken(p) => Nearer(p, 3, 2) /\ Nearer(p, 2, 1) /\ Nearer(p, 1, 0)
      BY OneNearer
    <2> QED
      BY <2>1, <2>2, <2>3, <2>4, <2>5, Invariance, PTL DEF Nearer
  <1> QED
    BY <1>1 DEF Stops

-----------------------------------------------------------------------------
(* A process that ended serves again.                                      *)

\* A step with neither a fault nor a rotation, under a configuration that needs no
\* not_after.
Calm == faults' = faults /\ env' = env /\ env # 2

\* The way to "serve" is a number, and zero at its end only.
LEMMA ToServeNat ==
    ASSUME NEW l \in Stages
    PROVE  ToServe(l) \in 0..10 /\ (ToServe(l) = 0 <=> l = "serve")
  BY DEF Stages, Closing, ToServe, ToGo

\* In a calm step a process that is not signalled stays, comes nearer to "serve",
\* or is told to stop because its configuration is not the current one.
LEMMA CalmStep ==
    ASSUME IInv, [Next]_vars, Calm, NEW p \in Procs, p \notin signalled, stage[p] # "serve"
    PROVE  \/ p \in signalled' /\ conf[p] \notin {0, env}
           \/ /\ p \notin signalled'
              /\ stage'[p] = stage[p] \/ ToServe(stage'[p]) < ToServe(stage[p])
  <1> USE DEF Goto, ToServe, ToGo
  <1>0. /\ LifecycleTypeOK /\ stage \in [Procs -> Stages] /\ signalled \subseteq Procs
        /\ faults \in Nat
        /\ conf[p] = 0 <=> stage[p] \in {"down", "load"}
    BY DEF IInv, TypeOK, LifecycleTypeOK, Configured
  <1>1. ASSUME NEW q \in Procs, LifeStep(q), q # p
        PROVE  p \notin signalled' /\ stage'[p] = stage[p]
    BY <1>0, <1>1, OthersLive
  <1>2. CASE LoadConfig(p)
    BY <1>0, <1>2 DEF LoadConfig, Load, LoadFails, Validate, Fault, Calm
  <1>3. CASE Replace(p)
    BY <1>0, <1>3 DEF Replace, Signal, Exit
  <1>4. CASE ProcessStep(p)
    <2>1. CASE Start(p)
      BY <1>0, <2>1 DEF Start
    <2>2. CASE Open(p)
      BY <1>0, <2>2 DEF Open
    <2>3. CASE OpenFails(p) \/ ServeFails(p) \/ Crash(p)
      BY <1>0, <2>3 DEF OpenFails, ServeFails, Crash, Fault, Calm
    <2>4. CASE ShutdownRequested(p) \/ Shutdown(p) \/ AwaitWorker(p)
      BY <1>0, <2>4 DEF ShutdownRequested, Shutdown, AwaitWorker
    <2>5. CASE Close(p)
      BY <1>0, <2>5 DEF Close, Exit
    <2>6. CASE Handle(p) \/ WorkerEnds(p)
      BY <1>0, <2>6 DEF Handle, Accept, Respond, WorkerEnds
    <2> QED
      BY <1>4, <2>1, <2>2, <2>3, <2>4, <2>5, <2>6 DEF ProcessStep, Serve, Run
  <1>5. CASE UNCHANGED lifecycle
    BY <1>0, <1>5 DEF lifecycle
  <1> QED
    BY <1>1, <1>2, <1>3, <1>4, <1>5, NextLife

\* The step that the stage calls for brings it nearer.
LEMMA OwnStep ==
    ASSUME IInv, Calm, NEW p \in Procs, p \notin signalled, stage[p] # "serve",
           \/ Start(p) /\ ProcessStep(p)
           \/ LoadConfig(p)
           \/ Run(p) /\ ProcessStep(p)
    PROVE  p \notin signalled' /\ ToServe(stage'[p]) < ToServe(stage[p])
  <1> USE DEF Goto, ToServe, ToGo
  <1>0. stage \in [Procs -> Stages] /\ signalled \subseteq Procs /\ faults \in Nat
    BY DEF IInv, TypeOK, LifecycleTypeOK
  <1>1. CASE Start(p)
    BY <1>0, <1>1 DEF Start
  <1>2. CASE LoadConfig(p)
    BY <1>0, <1>2 DEF LoadConfig, Load, Validate, Fault, Calm
  <1>3. CASE Open(p) \/ OpenFails(p)
    BY <1>0, <1>3 DEF Open, OpenFails, Fault, Calm
  <1>4. CASE ShutdownRequested(p) \/ Shutdown(p) \/ AwaitWorker(p)
    BY <1>0, <1>4 DEF ShutdownRequested, Shutdown, AwaitWorker
  <1>5. CASE Close(p)
    BY <1>0, <1>5 DEF Close, Exit
  <1> QED
    BY <1>1, <1>2, <1>3, <1>4, <1>5 DEF Run

\* A process that is not signalled and has at most n stages to "serve"; one that
\* nobody has a reason to signal.
Onward(p, n) == p \notin signalled /\ ToServe(stage[p]) <= n
Current(p) == p \notin signalled /\ conf[p] \in {0, env}
Toward(p, m, n) == [](Onward(p, m) => <>(Onward(p, n) \/ p \in signalled))

\* The supervisor, config.Load and run give a process its steps.
Supervised(p) == StartTaken(p) /\ LoadTaken(p) /\ RunTaken(p)

\* One step is one stage.
LEMMA OneOnward ==
    ASSUME NEW p \in Procs, NEW n \in Nat, NEW m \in Nat, m <= n + 1
    PROVE  []IInv /\ [][Next]_vars /\ [][Calm]_vars /\ Supervised(p) => Toward(p, m, n)
  <1> DEFINE There == Onward(p, n) \/ p \in signalled
             Away == Onward(p, m) /\ ~There
             Off == Away /\ stage[p] = "down"
             Loading == Away /\ stage[p] = "load"
             Running == Away /\ stage[p] \notin {"down", "load"}
  <1>1. IInv => stage[p] \in Stages /\ ToServe(stage[p]) \in Nat
    BY ToServeNat DEF IInv, TypeOK, LifecycleTypeOK
  <1>2. IInv /\ Away => stage[p] # "serve" /\ p \notin signalled
    BY <1>1, ToServeNat DEF Onward
  <1>3. IInv /\ IInv' /\ Away /\ [Next]_vars /\ [Calm]_vars =>
          There' \/ (Away' /\ stage'[p] = stage[p])
    <2> SUFFICES ASSUME IInv, IInv', Away, [Next]_vars, [Calm]_vars
                 PROVE  There' \/ (Away' /\ stage'[p] = stage[p])
      OBVIOUS
    <2>1. CASE UNCHANGED vars
      BY <2>1 DEF vars, Onward
    <2>2. CASE Calm
      <3>1. ToServe(stage[p]) \in Nat /\ ToServe(stage'[p]) \in Nat
        BY <1>1, IInv' , ToServeNat DEF IInv, TypeOK, LifecycleTypeOK
      <3>2. \/ p \in signalled'
            \/ /\ p \notin signalled'
               /\ stage'[p] = stage[p] \/ ToServe(stage'[p]) < ToServe(stage[p])
        BY <1>2, <2>2, CalmStep
      <3> QED
        BY <3>1, <3>2 DEF Onward
    <2> QED
      BY <2>1, <2>2
  <1>4. ASSUME IInv, IInv', Away, [Calm]_vars,
               \/ <<Start(p) /\ ProcessStep(p)>>_vars
               \/ <<LoadConfig(p)>>_vars
               \/ <<Run(p) /\ ProcessStep(p)>>_vars
        PROVE  There'
    <2>1. ToServe(stage[p]) \in Nat /\ ToServe(stage'[p]) \in Nat
      BY <1>1, <1>4, ToServeNat DEF IInv, TypeOK, LifecycleTypeOK
    <2>2. p \notin signalled' /\ ToServe(stage'[p]) < ToServe(stage[p])
      BY <1>2, <1>4, OwnStep
    <2> QED
      BY <1>4, <2>1, <2>2 DEF Onward
  <1>5. IInv /\ Running => RunReady(p)
    BY <1>2 DEF RunReady
  <1>6. IInv /\ IInv' /\ Off /\ [Next]_vars /\ [Calm]_vars => Off' \/ There'
    BY <1>3
  <1>7. IInv /\ IInv' /\ Loading /\ [Next]_vars /\ [Calm]_vars => Loading' \/ There'
    BY <1>3
  <1>8. IInv /\ IInv' /\ Running /\ [Next]_vars /\ [Calm]_vars => Running' \/ There'
    BY <1>3
  <1>9. /\ IInv /\ IInv' /\ Off /\ [Calm]_vars /\ <<Start(p) /\ ProcessStep(p)>>_vars => There'
        /\ IInv /\ IInv' /\ Loading /\ [Calm]_vars /\ <<LoadConfig(p)>>_vars => There'
        /\ IInv /\ IInv' /\ Running /\ [Calm]_vars /\ <<Run(p) /\ ProcessStep(p)>>_vars => There'
    BY <1>4
  <1>10. /\ Onward(p, m) => There \/ Off \/ Loading \/ Running
         /\ Off => stage[p] = "down"
         /\ Loading => stage[p] = "load"
    OBVIOUS
  <1> HIDE DEF There, Off, Loading, Running
  <1>11. []IInv /\ [][Next]_vars /\ [][Calm]_vars /\ Supervised(p) => [](Onward(p, m) => <>There)
    BY <1>5, <1>6, <1>7, <1>8, <1>9, <1>10, PTL
       DEF Supervised, StartTaken, LoadTaken, RunTaken
  <1> QED
    BY <1>11 DEF There, Toward

\* Unless it is signalled, a process comes to serve.
LEMMA ServesUnlessSignalled ==
    ASSUME NEW p \in Procs
    PROVE  []IInv /\ [][Next]_vars /\ [][Calm]_vars /\ Supervised(p) =>
             [](stage[p] = "serve" \/ <>(stage[p] = "serve" \/ p \in signalled))
  <1> DEFINE Premise == []IInv /\ [][Next]_vars /\ [][Calm]_vars /\ Supervised(p)
  <1>1. IInv => p \in signalled \/ Onward(p, 10)
    BY ToServeNat DEF Onward, IInv, TypeOK, LifecycleTypeOK
  <1>2. IInv /\ Onward(p, 0) => stage[p] = "serve"
    BY ToServeNat DEF Onward, IInv, TypeOK, LifecycleTypeOK
  <1>3. Premise => Toward(p, 10, 9) /\ Toward(p, 9, 8) /\ Toward(p, 8, 7)
    BY OneOnward
  <1>4. Premise => Toward(p, 7, 6) /\ Toward(p, 6, 5) /\ Toward(p, 5, 4)
    BY OneOnward
  <1>5. Premise => Toward(p, 4, 3) /\ Toward(p, 3, 2) /\ Toward(p, 2, 1) /\ Toward(p, 1, 0)
    BY OneOnward
  <1> QED
    BY <1>1, <1>2, <1>3, <1>4, <1>5, PTL DEF Toward

\* A process that has just ended gives no reason to signal it, until it serves.
LEMMA CurrentStep ==
    ASSUME NEW p \in Procs
    PROVE  /\ IInv /\ stage[p] = "down" => Current(p)
           /\ IInv /\ Current(p) /\ [Next]_vars /\ [Calm]_vars =>
                Current(p)' \/ stage[p] = "serve"
  <1>1. IInv /\ stage[p] = "down" => Current(p)
    BY DEF IInv, Working, Configured, Current
  <1>2. ASSUME IInv, Current(p), [Next]_vars, Calm, stage[p] # "serve" PROVE Current(p)'
    <2>1. conf'[p] \in {conf[p], 0, env}
      BY <1>2, ConfStep DEF IInv
    <2>2. p \notin signalled'
      BY <1>2, CalmStep DEF Current
    <2> QED
      BY <1>2, <2>1, <2>2 DEF Current, Calm
  <1>3. Current(p) /\ UNCHANGED vars => Current(p)'
    BY DEF vars, Current
  <1> QED
    BY <1>1, <1>2, <1>3

\* The operator finishes what was begun: there is a last configuration, and it is
\* not the one with a not_after.
LEMMA ConfigurationSettles ==
    Spec /\ TimePasses /\ RemovalTaken => <>[](env = 1) \/ <>[](env = 3)
  <1> DEFINE Past == env = 2 /\ now > notAfter
  <1>1. IInv => env = 1 \/ env = 2 \/ env = 3
    BY DEF IInv, TypeOK
  <1>2. IInv /\ [Next]_vars =>
          /\ env = 3 => (env = 3)'
          /\ env = 2 => (env = 2)' \/ (env = 3)'
          /\ Past => Past' \/ (env = 3)'
    <2> SUFFICES ASSUME IInv, [Next]_vars
                 PROVE  /\ env = 3 => env' = 3
                        /\ env = 2 => env' = 2 \/ env' = 3
                        /\ Past => Past' \/ env' = 3
      OBVIOUS
    <2>1. /\ UNCHANGED <<now, env, notAfter>> \/ Rotate \/ RemovePrevious \/ Tick
          /\ now \in Nat /\ notAfter \in Nat /\ env \in 1..3
      BY OperatorStep DEF IInv, TypeOK
    <2> QED
      BY <2>1 DEF Rotate, RemovePrevious, Tick
  <1>3. Past /\ <<RemovePrevious>>_vars => (env = 3)'
    BY DEF RemovePrevious
  <1>4. Past <=> env = 2 /\ now > notAfter
    OBVIOUS
  <1> HIDE DEF Past
  <1>5. IInv => ~(env = 1 /\ env = 2) /\ ~(env = 1 /\ env = 3) /\ ~(env = 2 /\ env = 3)
    OBVIOUS
  <1> QED
    BY <1>1, <1>2, <1>3, <1>4, <1>5, Invariance, PTL DEF Spec, TimePasses, RemovalTaken

\* Every process serves again and again, whatever ended it and in whatever order
\* processes were replaced, once faults come to an end and not_after passes: no
\* rotation leaves a process that cannot start, or that is told to stop for ever.
THEOREM Recovers ==
    /\ Spec /\ FaultsCease /\ TimePasses /\ RemovalTaken
    /\ \A p \in Procs : Supervised(p)
    => ServesAgain
  <1>1. ASSUME NEW p \in Procs
        PROVE  /\ Spec /\ FaultsCease /\ TimePasses /\ RemovalTaken
               /\ Supervised(p) /\ (p \in signalled ~> stage[p] = "down")
               => []<>(stage[p] = "serve")
    <2>1. /\ env = 1 /\ (env = 1)' /\ [faults' = faults]_vars => [Calm]_vars
          /\ env = 3 /\ (env = 3)' /\ [faults' = faults]_vars => [Calm]_vars
      BY DEF Calm
    <2>2. Spec /\ FaultsCease /\ (<>[](env = 1) \/ <>[](env = 3)) => <>[][Calm]_vars
      BY <2>1, PTL DEF FaultsCease
    <2>3. /\ IInv /\ stage[p] = "down" => Current(p)
          /\ IInv /\ Current(p) /\ [Next]_vars /\ [Calm]_vars =>
               Current(p)' \/ stage[p] = "serve"
          /\ Current(p) => ~(p \in signalled)
      BY CurrentStep DEF Current
    <2>4. []IInv /\ [][Next]_vars /\ [][Calm]_vars /\ Supervised(p) =>
            [](stage[p] = "serve" \/ <>(stage[p] = "serve" \/ p \in signalled))
      BY ServesUnlessSignalled
    <2> QED
      BY <2>2, <2>3, <2>4, Invariance, ConfigurationSettles, PTL
         DEF Spec, Supervised, StartTaken, LoadTaken, RunTaken
  <1>2. Spec /\ (\A p \in Procs : Supervised(p)) =>
          \A p \in Procs : p \in signalled ~> stage[p] = "down"
    BY SignalsObeyed DEF Supervised, Stops
  <1> QED
    BY <1>1, <1>2 DEF ServesAgain

-----------------------------------------------------------------------------
(* A rotation ends.                                                        *)

\* A process with the old configuration is told to stop, and its successor loads
\* a newer one.
LEMMA OldProcessEnds ==
    ASSUME NEW p \in Procs
    PROVE  Spec /\ ReplaceTaken(p) /\ (p \in signalled ~> stage[p] = "down")
             => (env = 2 ~> []~(conf[p] = 1))
  <1> DEFINE Gone == ~(env = 1) /\ ~(conf[p] = 1)
             Old == ~(env = 1) /\ conf[p] = 1
  <1>1. IInv /\ [Next]_vars => (Gone => Gone') /\ (Old => Old' \/ Gone')
    <2> SUFFICES ASSUME IInv, [Next]_vars PROVE (Gone => Gone') /\ (Old => Old' \/ Gone')
      OBVIOUS
    <2>1. conf'[p] \in {conf[p], 0, env}
      BY ConfStep DEF IInv
    <2>2. ~(env = 1) => ~(env' = 1)
      BY OperatorStep DEF IInv, Rotate, RemovePrevious, Tick
    <2> QED
      BY <2>1, <2>2
  <1>2. env = 2 => Gone \/ Old
    OBVIOUS
  <1>3. Old /\ ~(p \in signalled) => ReplaceReady(p)
    BY DEF ReplaceReady
  <1>4. IInv /\ Old /\ <<Replace(p)>>_vars => Gone' \/ (p \in signalled)'
    <2> SUFFICES ASSUME IInv, Old, Replace(p) PROVE Gone' \/ p \in signalled'
      OBVIOUS
    <2>1. stage \in [Procs -> Stages] /\ env' = env
      BY DEF IInv, TypeOK, LifecycleTypeOK, Replace
    <2>2. CASE stage[p] \in {"load", "closeLog"}
      <3>1. stage'[p] = "down"
        BY <2>1, <2>2 DEF Replace, Signal, Exit, Goto
      <3> QED
        BY <2>1, <3>1 DEF Replace, Forget
    <2>3. CASE stage[p] \notin {"load", "closeLog"}
      BY <2>3 DEF Replace, Signal
    <2> QED
      BY <2>2, <2>3
  <1>5. IInv /\ stage[p] = "down" => ~(conf[p] = 1)
    BY DEF IInv, Configured
  <1>6. (Gone => ~(conf[p] = 1)) /\ (Old => conf[p] = 1)
    OBVIOUS
  <1> HIDE DEF Gone, Old
  <1> QED
    BY <1>1, <1>2, <1>3, <1>4, <1>5, <1>6, Invariance, PTL DEF Spec, ReplaceTaken

\* Once the operator has begun a rotation, replaces the old processes and removes
\* the previous key after its not_after, every process ends with the old key and
\* never has it again, with whatever requests and workers hang.
THEOREM RotationIsFinished ==
    /\ Spec /\ TimePasses /\ RemovalTaken
    /\ \A p \in Procs : RunTaken(p) /\ ReplaceTaken(p)
    => RotationEnds
  <1>1. Spec /\ TimePasses /\ RemovalTaken => (env = 2 ~> env = 3)
    <2>1. IInv => ~(env = 1 /\ env = 2)
      OBVIOUS
    <2>2. IInv /\ [Next]_vars => (~(env = 1) => ~(env = 1)')
      BY OperatorStep DEF IInv, Rotate, RemovePrevious, Tick
    <2> QED
      BY <2>1, <2>2, Invariance, ConfigurationSettles, PTL DEF Spec
  <1>2. Spec /\ (\A p \in Procs : RunTaken(p)) =>
          \A p \in Procs : p \in signalled ~> stage[p] = "down"
    BY SignalsObeyed DEF Stops
  <1>3. Spec /\ (\A p \in Procs : RunTaken(p) /\ ReplaceTaken(p)) =>
          \A p \in Procs : env = 2 ~> []~(conf[p] = 1)
    BY <1>2, OldProcessEnds
  <1> QED
    BY <1>1, <1>3 DEF RotationEnds
=============================================================================
