----------------------------- MODULE SchemaLevel -----------------------------
(***************************************************************************)
(* What the migration runner promises whoever relies on the schema: one    *)
(* level that goes up by one version at a time, each version recorded      *)
(* after it has been applied, and nothing ever taken back - as if a single *)
(* command ran on its own and never failed.                                *)
(*                                                                         *)
(* Migration is shown to implement this specification.                     *)
(***************************************************************************)
EXTENDS Integers

CONSTANT Last    \* the migrations are the versions 1 .. Last

VARIABLES
    level,    \* the versions up to this one are recorded, and no other
    done      \* the versions that have been applied to their end

vars == <<level, done>>

Init == level = 0 /\ done = {}

\* Only the next version is ever applied for the first time.
Apply ==
    /\ level < Last
    /\ done' = done \cup {level + 1}
    /\ UNCHANGED level

Record ==
    /\ level + 1 \in done
    /\ level' = level + 1
    /\ UNCHANGED done

Next == Apply \/ Record

Spec == Init /\ [][Next]_vars
=============================================================================
