----------------------------- MODULE UserAccount -----------------------------
(***************************************************************************)
(* What the auth service and the seed command promise about the account    *)
(* behind an email address, as if each operation were one step: it is      *)
(* created once and stays; a role that it has it keeps; only a seed        *)
(* command that is running gives it the admin role, and a command reports  *)
(* success only for an account that has it; it is locked only once         *)
(* MaxFailures wrong passwords have been presented.  A command that        *)
(* reports a failure may still have granted the role.                      *)
(*                                                                         *)
(* Accounts, whose requests work on copies of the account, is shown to     *)
(* implement this specification.                                           *)
(***************************************************************************)
EXTENDS Naturals

CONSTANTS Requests, MaxFailures

VARIABLES
    exists,     \* whether there is an account
    isAdmin,    \* whether it has the admin role
    failures,   \* the wrong passwords presented for it
    locked,     \* whether a lock is recorded, expired or not
    command     \* command[r]: "none", or a seed command: "running", "ok", "failed"

account == <<exists, isAdmin, failures, locked>>
vars == <<exists, isAdmin, failures, locked, command>>

Init ==
    /\ exists = FALSE
    /\ isAdmin = FALSE
    /\ failures = 0
    /\ locked = FALSE
    /\ command = [r \in Requests |-> "none"]

Register ==
    /\ ~exists
    /\ exists' = TRUE
    /\ UNCHANGED <<isAdmin, failures, locked, command>>

WrongPassword ==
    /\ exists
    /\ failures' = failures + 1
    /\ UNCHANGED <<exists, isAdmin, locked, command>>

Lock ==
    /\ exists
    /\ failures >= MaxFailures
    /\ locked' = TRUE
    /\ UNCHANGED <<exists, isAdmin, failures, command>>

Unlock ==
    /\ exists
    /\ locked' = FALSE
    /\ UNCHANGED <<exists, isAdmin, failures, command>>

Moves(r, from, to) ==
    /\ command[r] = from
    /\ command' = [command EXCEPT ![r] = to]

SeedStarts(r) == Moves(r, "none", "running") /\ UNCHANGED account

\* The command finds an admin, and has nothing to do.
SeedConfirms(r) ==
    /\ exists /\ isAdmin
    /\ Moves(r, "none", "ok")
    /\ UNCHANGED account

\* The command creates the admin or adds the role, and says so or not.
SeedWrites(r) ==
    /\ \E outcome \in {"ok", "failed"} : Moves(r, "running", outcome)
    /\ exists' = TRUE
    /\ isAdmin' = TRUE
    /\ UNCHANGED <<failures, locked>>

\* An account that appeared meanwhile is in the way.
SeedConflicts(r) ==
    /\ exists
    /\ Moves(r, "running", "failed")
    /\ UNCHANGED account

Leave(r) ==
    /\ command' = [command EXCEPT ![r] = "none"]
    /\ UNCHANGED account

Next ==
    \/ Register \/ WrongPassword \/ Lock \/ Unlock
    \/ \E r \in Requests :
         SeedStarts(r) \/ SeedConfirms(r) \/ SeedWrites(r) \/ SeedConflicts(r) \/ Leave(r)

Spec == Init /\ [][Next]_vars
=============================================================================
