------------------------------ MODULE MCOutbox ------------------------------
(***************************************************************************)
(* Small instances of Outbox: two API processes, one event of each kind.   *)
(***************************************************************************)
EXTENDS Outbox

CONSTANTS w1, w2, audit, err, login

AuditOnly == [e \in {audit} |-> "audit_log"]
LoginOnly == [e \in {login} |-> "login_history"]
OneOfEach ==
    [e \in {audit, err, login} |->
        IF e = audit THEN "audit_log"
        ELSE IF e = err THEN "error_event" ELSE "login_history"]
=============================================================================
