----------------------------- MODULE WorkQueue ------------------------------
(***************************************************************************)
(* What the outbox promises its callers: a queue whose items are held by   *)
(* one consumer at a time, and are finished once and for all.  An item     *)
(* whose consumer quits is lost for good: nobody takes it again.           *)
(*                                                                         *)
(* Outbox is shown to implement this specification.                        *)
(***************************************************************************)
EXTENDS Integers

CONSTANTS Items, Consumers

VARIABLES
    state,     \* state[i]: "absent", "waiting", "held", "finished" or "lost"
    holder,    \* holder[i]: {c} while consumer c holds i, else {}
    effects    \* effects[i]: how often the work of i has been done

vars == <<state, holder, effects>>

Init ==
    /\ state = [i \in Items |-> "absent"]
    /\ holder = [i \in Items |-> {}]
    /\ effects = [i \in Items |-> 0]

Become(i, s, h) ==
    /\ UNCHANGED effects
    /\ state' = [state EXCEPT ![i] = s]
    /\ holder' = [holder EXCEPT ![i] = h]

\* The work of an item is done once more: before it is queued, by its producer,
\* or by its holder.
Perform(i) ==
    /\ state[i] \in {"absent", "held"}
    /\ effects' = [effects EXCEPT ![i] = @ + 1]
    /\ UNCHANGED <<state, holder>>

Put(i) == state[i] = "absent" /\ Become(i, "waiting", {})

Take(c, i) == state[i] = "waiting" /\ Become(i, "held", {c})

Finish(c, i) == holder[i] = {c} /\ Become(i, "finished", {})

Return(c, i) == holder[i] = {c} /\ Become(i, "waiting", {})

\* Taken by nobody: the consumer does not know that it has the item.
Lose(i) == state[i] = "waiting" /\ Become(i, "lost", {})

Held(c) == {i \in Items : holder[i] = {c}}

\* The consumer goes.  What it holds is lost, but for one item that it may have
\* settled with its last step.
Quit(c) ==
    \E kept \in SUBSET Held(c), s \in {"finished", "waiting"} :
        /\ \A i, j \in kept : i = j
        /\ state' = [i \in Items |->
             IF i \in kept THEN s ELSE IF i \in Held(c) THEN "lost" ELSE state[i]]
        /\ holder' = [i \in Items |-> IF i \in Held(c) THEN {} ELSE holder[i]]
        /\ UNCHANGED effects

Next ==
    \/ \E i \in Items :
         \/ Put(i) \/ Perform(i) \/ Lose(i)
         \/ \E c \in Consumers : Take(c, i) \/ Finish(c, i) \/ Return(c, i)
    \/ \E c \in Consumers : Quit(c)

Spec == Init /\ [][Next]_vars
=============================================================================
