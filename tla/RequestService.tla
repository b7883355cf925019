--------------------------- MODULE RequestService ---------------------------
(***************************************************************************)
(* What the API promises to whoever sends a request, as if it were         *)
(* answered in one step: every request gets one answer, the answer stands  *)
(* until it has left, and a request whose token was logged out before it   *)
(* came in is not served while the token lasts.                            *)
(*                                                                         *)
(* Gateway, with its chain of middleware, the calls to Redis and Mongo and *)
(* the error handler, the deadline and Recovery that all may answer, is    *)
(* shown to implement this specification.                                  *)
(***************************************************************************)
CONSTANTS
    Requests,
    Served,    \* the answers that come from a handler's success
    Refused    \* all others

VARIABLES
    reply,     \* reply[r]: "none", "pending", or the answer
    barred     \* requests with a token that was logged out and has not expired

vars == <<reply, barred>>

Init ==
    /\ reply = [r \in Requests |-> "none"]
    /\ barred = {}

Arrive(r) ==
    /\ reply[r] = "none"
    /\ reply' = [reply EXCEPT ![r] = "pending"]
    /\ barred' \in {barred, barred \cup {r}}

Serve(r, status) ==
    /\ reply[r] = "pending"
    /\ r \notin barred
    /\ status \in Served
    /\ reply' = [reply EXCEPT ![r] = status]
    /\ UNCHANGED barred

Refuse(r, status) ==
    /\ reply[r] = "pending"
    /\ status \in Refused
    /\ reply' = [reply EXCEPT ![r] = status]
    /\ UNCHANGED barred

Leave(r) ==
    /\ reply[r] \in Served \cup Refused
    /\ reply' = [reply EXCEPT ![r] = "none"]
    /\ barred' = barred \ {r}

\* Tokens reach the end of their lives.
Expire ==
    /\ UNCHANGED reply
    /\ barred' \subseteq barred

Next ==
    \/ Expire
    \/ \E r \in Requests :
         \/ Arrive(r) \/ Leave(r)
         \/ \E status \in Served : Serve(r, status)
         \/ \E status \in Refused : Refuse(r, status)

Spec == Init /\ [][Next]_vars
=============================================================================
