----------------------------- MODULE Deployment -----------------------------
(***************************************************************************)
(* A rolling deployment with a new signing key, as docs/operations.md (JWT *)
(* key rotation) describes it: API processes (ApiProcess) that load their  *)
(* configuration when they start (internal/config/config.go) and sign and  *)
(* accept tokens by the keys they have loaded                              *)
(* (internal/app/auth/token_service.go).                                   *)
(*                                                                         *)
(* Configuration 1 has the old key; 2 has the new key, the old one as the  *)
(* previous key, and its not_after; 3 has the new key alone.  While the    *)
(* processes are replaced one by one, two configurations are in use.       *)
(***************************************************************************)
EXTENDS ApiProcess

CONSTANTS
    Tokens,     \* access tokens
    TTL,        \* JWT_ACCESS_TTL
    Overlap,    \* from the rotation to JWT_ACCESS_PREVIOUS_NOT_AFTER
    Rollout,    \* the time within which the old processes are replaced
    MaxTime     \* bound on the clock

ASSUME DeploymentAssumption ==
    TTL \in Nat \ {0} /\ Overlap \in Nat \ {0} /\ Rollout \in Nat /\ MaxTime \in Nat

VARIABLES
    now,        \* the clock
    env,        \* the configuration a process that starts now will load
    notAfter,   \* PreviousNotAfter of configuration 2, 0 before the rotation
    conf,       \* conf[p]: the configuration p has loaded, 0 while it has none
    kid,        \* kid[t]: the key that signed token t, 0 before it is issued
    exp         \* exp[t]: its expiry

keys == <<now, env, notAfter, conf, kid, exp>>
vars == <<stage, signalled, worker, busy, forced, faults, now, env, notAfter, conf, kid, exp>>

Key(c) == IF c = 1 THEN 1 ELSE 2

Init ==
    /\ LifecycleInit
    /\ now = 1
    /\ env = 1
    /\ notAfter = 0
    /\ conf = [p \in Procs |-> 0]
    /\ kid = [t \in Tokens |-> 0]
    /\ exp = [t \in Tokens |-> 0]

-----------------------------------------------------------------------------
(* The processes.                                                          *)
\* Mutant: the previous key's not_after is demanded without a previous key.
Validate_AlwaysNotAfter(c) == notAfter > 0 => notAfter > now

\* The part of Validate that depends on the time: a configured previous key
\* must have its not_after in the future.
Validate(c) == c = 2 => notAfter > now

\* config.Load and the logger.  That another setting is refused, or the log
\* file cannot be opened, is a fault.
LoadConfig(p) ==
    /\ \/ /\ Validate(env)
          /\ Load(p)
          /\ conf' = [conf EXCEPT ![p] = env]
       \/ /\ LoadFails(p)
          /\ \/ ~Validate(env) /\ UNCHANGED faults
             \/ Fault
          /\ UNCHANGED conf
    /\ UNCHANGED <<now, env, notAfter, kid, exp>>

\* GenerateAccessToken, in a handler of p.
GenerateAccessToken(p, t) ==
    /\ busy[p] > 0
    /\ kid[t] = 0
    /\ kid' = [kid EXCEPT ![t] = Key(conf[p])]
    /\ exp' = [exp EXCEPT ![t] = now + TTL]
    /\ UNCHANGED <<lifecycle, now, env, notAfter, conf>>
\* Mutant: the previous key ends before its not_after.
AcceptsKey_Early(c, k) == k = Key(c) \/ (c = 2 /\ k = 1 /\ now + 1 < notAfter)

\* keyForID under configuration c.
AcceptsKey(c, k) == k = Key(c) \/ (c = 2 /\ k = 1 /\ now <= notAfter)

\* The steps of ApiProcess after the configuration is loaded; a process that
\* ends forgets it.
Forget == conf' = [p \in Procs |-> IF stage'[p] = "down" THEN 0 ELSE conf[p]]

Serve(p) == Run(p) \/ ServeFails(p)
Handle(p) == Accept(p) \/ Respond(p)

ProcessStep(p) ==
    /\ Start(p) \/ Serve(p) \/ Handle(p) \/ WorkerEnds(p) \/ Crash(p)
    /\ Forget
    /\ UNCHANGED <<now, env, notAfter, kid, exp>>

-----------------------------------------------------------------------------
(* The operator and the clock.                                             *)

\* Steps 1 to 3 of the rotation; the bound leaves time for the others.
Rotate ==
    /\ env = 1
    /\ now + Overlap < MaxTime
    /\ env' = 2
    /\ notAfter' = now + Overlap
    /\ UNCHANGED <<lifecycle, now, conf, kid, exp>>

\* Step 4: a process with another configuration is told to stop.
Replace(p) ==
    /\ conf[p] \notin {0, env}
    /\ Signal(p)
    /\ Forget
    /\ UNCHANGED <<now, env, notAfter, kid, exp>>

\* Step 5.
RemovePrevious ==
    /\ env = 2
    /\ now > notAfter
    /\ env' = 3
    /\ UNCHANGED <<lifecycle, now, notAfter, conf, kid, exp>>

\* The last old process ends within Rollout of the rotation.
Tick ==
    /\ now < MaxTime
    /\ (\E p \in Procs : conf[p] = 1) /\ env # 1 => now < notAfter - Overlap + Rollout
    /\ now' = now + 1
    /\ UNCHANGED <<lifecycle, env, notAfter, conf, kid, exp>>

Next ==
    \/ \E p \in Procs :
         \/ LoadConfig(p) \/ ProcessStep(p) \/ Replace(p)
         \/ \E t \in Tokens : GenerateAccessToken(p, t)
    \/ Rotate
    \/ RemovePrevious
    \/ Tick

Spec == Init /\ [][Next]_vars

\* The supervisor starts processes, run goes on (its waits have time-outs), time
\* passes, the operator finishes a rotation.  Handlers and workers may hang.
Fairness ==
    /\ \A p \in Procs :
         /\ WF_vars(Start(p) /\ ProcessStep(p))
         /\ WF_vars(LoadConfig(p))
         /\ WF_vars(Run(p) /\ ProcessStep(p))
         /\ WF_vars(Replace(p))
    /\ WF_vars(RemovePrevious)
    /\ WF_vars(Tick)

FairSpec == Spec /\ Fairness

-----------------------------------------------------------------------------
(* Properties.                                                             *)

\* Every variable holds a value of its kind; a process has a configuration from
\* the time it has loaded one to its end.
TypeOK ==
    /\ LifecycleTypeOK
    /\ now \in Nat
    /\ env \in 1..3
    /\ notAfter \in Nat
    /\ conf \in [Procs -> 0..3]
    /\ kid \in [Tokens -> 0..2]
    /\ exp \in [Tokens -> Nat]

Valid(t) == kid[t] # 0 /\ now < exp[t]

\* Nobody is logged out by a deployment: with an overlap of the roll-out and a
\* token's lifetime, every process accepts every valid token, but for tokens of
\* the new key that reach a process with the old configuration.
TokensSurvive ==
    Overlap >= Rollout + TTL =>
        \A p \in Procs, t \in Tokens :
            conf[p] # 0 /\ Valid(t) =>
                \/ AcceptsKey(conf[p], kid[t])
                \/ conf[p] = 1 /\ kid[t] = 2

\* The inductive invariant.  A process has a configuration once it has loaded
\* one, never a newer one than env; old processes are gone Rollout after the
\* rotation, and their tokens TTL later.
Rotated == notAfter - Overlap

Configured ==
    \A p \in Procs :
        /\ conf[p] = 0 <=> stage[p] \in {"down", "load"}
        /\ conf[p] <= env
        /\ conf[p] = 1 /\ env # 1 => now <= Rotated + Rollout

Signed ==
    \A t \in Tokens :
        /\ kid[t] <= env
        /\ exp[t] <= now + TTL
        /\ kid[t] = 1 /\ env # 1 => exp[t] <= Rotated + Rollout + TTL

IInv ==
    /\ TypeOK
    /\ \A p \in Procs : Working(p)
    /\ CleanStop
    /\ Configured
    /\ Signed
    /\ env = 3 => now > notAfter

\* Every process serves again after whatever ended it.  Between not_after and the
\* removal of the previous key a process that restarts is refused its
\* configuration; the removal ends that.
ServesAgain == \A p \in Procs : []<>(stage[p] = "serve")

\* A rotation that was begun comes to its end: the previous key is removed, and
\* each process with the old configuration ends, whatever hangs in it, and does
\* not come back with it.
RotationEnds ==
    /\ env = 2 ~> env = 3
    /\ \A p \in Procs : env = 2 ~> []~(conf[p] = 1)

\* run waits for nobody but for a signal: not for the handlers, the worker or the
\* stores.
RunNeverBlocked ==
    \A p \in Procs : ENABLED <<Run(p) /\ ProcessStep(p)>>_vars <=> RunReady(p)

\* The fairness of run with ENABLED written out, as RunNeverBlocked allows.
RunTaken(p) == []<>~RunReady(p) \/ []<><<Run(p) /\ ProcessStep(p)>>_vars

\* The same for the supervisor, config.Load and the operator.  That time passes
\* any not_after, and that faults come to an end, is not left to the bounds.
StartTaken(p) == []<>~(stage[p] = "down") \/ []<><<Start(p) /\ ProcessStep(p)>>_vars
LoadTaken(p) == []<>~(stage[p] = "load") \/ []<><<LoadConfig(p)>>_vars
ReplaceReady(p) == conf[p] \notin {0, env} /\ p \notin signalled
ReplaceTaken(p) == []<>~ReplaceReady(p) \/ []<><<Replace(p)>>_vars
RemovalTaken == []<>~(env = 2 /\ now > notAfter) \/ []<><<RemovePrevious>>_vars
TimePasses == []<>(now > notAfter)
FaultsCease == <>[][faults' = faults]_vars
=============================================================================
