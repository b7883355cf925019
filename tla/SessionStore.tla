---------------------------- MODULE SessionStore ----------------------------
(***************************************************************************)
(* What the session service promises, as if each operation were one step   *)
(* on one table: a session has one current refresh token; only that token, *)
(* and only while the session is active, is exchanged, for a token nobody  *)
(* had before; a revoked session stays revoked.                            *)
(*                                                                         *)
(* AuthSessions, with its caches and its handlers of many calls, is shown  *)
(* to implement this specification.                                        *)
(***************************************************************************)
CONSTANTS Sessions, Tokens, None

VARIABLES
    state,    \* state[s]: "absent", "active" or "revoked"
    current,  \* current[s]: the token that refreshes s, None while absent
    issued,   \* the tokens that were ever generated
    spent     \* the tokens that were exchanged

vars == <<state, current, issued, spent>>

Init ==
    /\ state = [s \in Sessions |-> "absent"]
    /\ current = [s \in Sessions |-> None]
    /\ issued = {}
    /\ spent = {}

Issue(s, t) ==
    /\ t \notin issued
    /\ issued' = issued \cup {t}
    /\ current' = [current EXCEPT ![s] = t]

Open(s, t) ==
    /\ state[s] = "absent"
    /\ Issue(s, t)
    /\ state' = [state EXCEPT ![s] = "active"]
    /\ UNCHANGED spent

Exchange(s, t) ==
    /\ state[s] = "active"
    /\ current[s] \notin spent
    /\ Issue(s, t)
    /\ spent' = spent \cup {current[s]}
    /\ UNCHANGED state

Revoke(s) ==
    /\ state[s] = "active"
    /\ state' = [state EXCEPT ![s] = "revoked"]
    /\ UNCHANGED <<current, issued, spent>>

Next ==
    \E s \in Sessions :
        Revoke(s) \/ \E t \in Tokens : Open(s, t) \/ Exchange(s, t)

Spec == Init /\ [][Next]_vars
=============================================================================
