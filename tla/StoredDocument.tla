--------------------------- MODULE StoredDocument ---------------------------
(***************************************************************************)
(* What a cached database promises about one document to those who call    *)
(* it, as if there were neither cache nor lock: a write takes effect while *)
(* its call is under way and not after, as often as its kind allows, and   *)
(* at least once if it reports success; a read returns some state that was *)
(* committed, though not always the last one.                              *)
(*                                                                         *)
(* CachedDatabase is shown to implement this specification.                *)
(***************************************************************************)
EXTENDS Integers

CONSTANTS
    Calls,
    Kind       \* Kind[p]: "read", "strict", "loose" or "txn"

VARIABLES
    doc,       \* the number of writes the document has seen
    applied,   \* applied[p]: how many of them are p's
    outcome,   \* outcome[p]: "pending", "done" or "failed"
    seen       \* seen[p]: the state that the read p returned, -1 before

vars == <<doc, applied, outcome, seen>>

\* A write without StrictLock may be repeated once.
Times(p) ==
    CASE Kind[p] = "read" -> 0
      [] Kind[p] = "loose" -> 2
      [] OTHER -> 1

Init ==
    /\ doc = 0
    /\ applied = [p \in Calls |-> 0]
    /\ outcome \in [Calls -> {"pending", "failed"}]
    /\ seen = [p \in Calls |-> -1]

\* The write takes effect; the call may fail at that, its answer lost.
Write(p) ==
    /\ outcome[p] = "pending"
    /\ applied[p] < Times(p)
    /\ doc' = doc + 1
    /\ applied' = [applied EXCEPT ![p] = @ + 1]
    /\ \/ UNCHANGED outcome
       \/ outcome' = [outcome EXCEPT ![p] = "failed"]
    /\ UNCHANGED seen

Return(p) ==
    /\ outcome[p] = "pending"
    /\ outcome' = [outcome EXCEPT ![p] = "done"]
    /\ IF Kind[p] = "read"
         THEN \E version \in 0..doc : seen' = [seen EXCEPT ![p] = version]
         ELSE applied[p] >= 1 /\ UNCHANGED seen
    /\ UNCHANGED <<doc, applied>>

Fail(p) ==
    /\ outcome[p] = "pending"
    /\ outcome' = [outcome EXCEPT ![p] = "failed"]
    /\ UNCHANGED <<doc, applied, seen>>

Next == \E p \in Calls : Write(p) \/ Return(p) \/ Fail(p)

Spec == Init /\ [][Next]_vars
=============================================================================
