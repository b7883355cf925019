------------------------------ MODULE Migration ------------------------------
(***************************************************************************)
(* Versioned migrations: Runner.Run of internal/platform/migration over    *)
(* the schema_migrations collection, as cmd/migrate calls it.              *)
(*                                                                         *)
(* Several runners may be started at the same time, and each again after   *)
(* it has failed.  A run goes through the versions in order; a step asks   *)
(* for, applies or records one version, and may fail, be cut off by the    *)
(* command's deadline, or take effect and report an error.                 *)
(***************************************************************************)
EXTENDS Integers, FiniteSets

CONSTANTS
    Runners,     \* cmd/migrate processes
    Last,        \* the migrations are the versions 1 .. Last
    MaxFaults    \* bound on the number of faults

ASSUME RunnersAssumption == IsFiniteSet(Runners)
ASSUME LastAssumption == Last \in Nat \ {0}
ASSUME FaultsAssumption == MaxFaults \in Nat

VARIABLES
    records,    \* records[v]: documents of version v in schema_migrations
    complete,   \* versions whose Apply has succeeded at least once
    applies,    \* applies[v]: how often Apply was called
    pc,         \* pc[p]: what runner p does next
    at,         \* at[p]: the version it has come to
    faults      \* number of faults so far

vars == <<records, complete, applies, pc, at, faults>>

Versions == 1..Last
Recorded(v) == records[v] > 0

Init ==
    /\ records = [v \in Versions |-> 0]
    /\ complete = {}
    /\ applies = [v \in Versions |-> 0]
    /\ pc = [p \in Runners |-> "off"]
    /\ at = [p \in Runners |-> 1]
    /\ faults = 0

Goto(p, label) == pc' = [pc EXCEPT ![p] = label]
Fault == faults < MaxFaults /\ faults' = faults + 1
\* Mutant: versions in the order they were registered, latest first.
First_Unsorted == Last

\* Run sorts a copy of the list by version.
First == 1

\* Ensure creates the unique index; it is there from the first call on.
Start(p) ==
    /\ pc[p] = "off"
    /\ Goto(p, "look")
    /\ at' = [at EXCEPT ![p] = First]
    /\ UNCHANGED <<records, complete, applies, faults>>

\* On to the next version, or to the end of the list.
Advance(p) ==
    IF at[p] = Last
      THEN Goto(p, "done") /\ UNCHANGED at
      ELSE Goto(p, "look") /\ at' = [at EXCEPT ![p] = @ + 1]
\* Mutants: a recorded version applied again; a recorded version ends the run.
Look_Again(p) ==
    /\ pc[p] = "look"
    /\ Goto(p, "apply")
    /\ UNCHANGED <<records, complete, applies, at, faults>>
Look_Ends(p) ==
    /\ pc[p] = "look"
    /\ Goto(p, IF Recorded(at[p]) THEN "done" ELSE "apply")
    /\ UNCHANGED <<records, complete, applies, at, faults>>

\* Has: a recorded version is skipped.
Look(p) ==
    /\ pc[p] = "look"
    /\ \/ Recorded(at[p]) /\ Advance(p)
       \/ ~Recorded(at[p]) /\ Goto(p, "apply") /\ UNCHANGED at
    /\ UNCHANGED <<records, complete, applies, faults>>

Apply(p) ==
    /\ pc[p] = "apply"
    /\ applies' = [applies EXCEPT ![at[p]] = @ + 1]
    /\ complete' = complete \cup {at[p]}
    /\ Goto(p, "record")
    /\ UNCHANGED <<records, at, faults>>
\* Mutant: the error of Apply is dropped.
ApplyFails_Ignored(p) ==
    /\ pc[p] = "apply"
    /\ Fault
    /\ applies' = [applies EXCEPT ![at[p]] = @ + 1]
    /\ Goto(p, "record")
    /\ UNCHANGED <<records, complete, at>>

\* Apply returns an error, and Run returns with it.
ApplyFails(p) ==
    /\ pc[p] = "apply"
    /\ Fault
    /\ applies' = [applies EXCEPT ![at[p]] = @ + 1]
    /\ Goto(p, "off")
    /\ UNCHANGED <<records, complete, at>>

Insert(v) == ~Recorded(v) /\ records' = [records EXCEPT ![v] = @ + 1]

\* The unique index refuses a version another runner has recorded meanwhile,
\* which ends the run.
Record(p) ==
    /\ pc[p] = "record"
    /\ \/ Insert(at[p]) /\ Advance(p)
       \/ Recorded(at[p]) /\ Goto(p, "off") /\ UNCHANGED <<records, at>>
    /\ UNCHANGED <<complete, applies, faults>>

RecordFails(p) ==
    /\ pc[p] = "record"
    /\ Fault
    /\ Insert(at[p]) \/ UNCHANGED records
    /\ Goto(p, "off")
    /\ UNCHANGED <<complete, applies, at>>

\* The process dies, its deadline passes between two steps, or Has reports an
\* error.
Crash(p) ==
    /\ pc[p] \notin {"off", "done"}
    /\ Fault
    /\ Goto(p, "off")
    /\ UNCHANGED <<records, complete, applies, at>>

\* A finished command is run again with the next deployment.
Again(p) ==
    /\ pc[p] = "done"
    /\ Goto(p, "off")
    /\ UNCHANGED <<records, complete, applies, at, faults>>

Run(p) == Start(p) \/ Look(p) \/ Apply(p) \/ Record(p)

Next ==
    \E p \in Runners :
        Run(p) \/ ApplyFails(p) \/ RecordFails(p) \/ Crash(p) \/ Again(p)

Spec == Init /\ [][Next]_vars

\* A started command runs on, and a failed one is run again.
Fairness == \A p \in Runners : WF_vars(Run(p))

FairSpec == Spec /\ Fairness

-----------------------------------------------------------------------------
(* Properties.                                                             *)

\* Every variable holds a value of its kind; a version has one document.
TypeOK ==
    /\ records \in [Versions -> 0..1]
    /\ complete \subseteq Versions
    /\ applies \in [Versions -> Nat]
    /\ pc \in [Runners -> {"off", "look", "apply", "record", "done"}]
    /\ at \in [Runners -> Versions]
    /\ faults \in 0..MaxFaults

\* schema_migrations is truthful: a recorded version was applied to its end,
\* whoever recorded it and whatever crashed.
RecordedApplied ==
    \A v \in Versions : Recorded(v) => v \in complete

\* A run that reports success leaves the whole list applied and recorded, also
\* when other runners did part of it or died over it.
SuccessMeansComplete ==
    \A p \in Runners :
        pc[p] = "done" => \A v \in Versions : Recorded(v) /\ v \in complete

\* Migrations happen in order: a version is applied, or was recorded, only when
\* all versions before it are recorded - also with several runners.
InOrder ==
    \A v \in Versions :
        \/ Recorded(v)
        \/ \E p \in Runners : pc[p] \in {"apply", "record"} /\ at[p] = v
        => \A u \in 1..(v - 1) : Recorded(u)

\* A version is applied again only for a fault or a concurrent runner: without
\* faults at most once per runner that found it unrecorded.
AppliesBounded ==
    \A v \in Versions : applies[v] <= faults + Cardinality(Runners)

\* The parts of the inductive invariant behind these: what a runner knows of the
\* versions before the one it has come to, and of that one.
Progress(p) ==
    /\ pc[p] \in {"look", "apply", "record"} => \A u \in 1..(at[p] - 1) : Recorded(u)
    /\ pc[p] = "record" => at[p] \in complete
    /\ pc[p] = "done" => \A u \in Versions : Recorded(u)

Applying(v) == {p \in Runners : pc[p] = "apply" /\ at[p] = v}
Recording(v) == {p \in Runners : pc[p] = "record" /\ at[p] = v}

\* Until v is recorded, every runner that applied it without a fault is about
\* to record it; afterwards only those that had looked before apply it again.
AppliesCounted ==
    \A v \in Versions :
        /\ ~Recorded(v) => applies[v] <= faults + Cardinality(Recording(v))
        /\ applies[v] + Cardinality(Applying(v)) <= faults + Cardinality(Runners)

IInv ==
    /\ TypeOK
    /\ RecordedApplied
    /\ InOrder
    /\ \A p \in Runners : Progress(p)
    /\ AppliesCounted

\* The level of the schema: the versions up to it are recorded, and no other.
IsLevel(documents, n) == \A v \in Versions : documents[v] > 0 <=> v <= n
Level == CHOOSE n \in 0..Last : IsLevel(records, n)

\* There always is such a level: the part of the inductive invariant that the
\* refinement adds.
HasLevel == \E n \in 0..Last : IsLevel(records, n)

Schema == INSTANCE SchemaLevel WITH level <- Level, done <- complete

\* Any number of runners, with whatever fails on the way, are to the schema as
\* one command that never fails: the level goes up one version at a time, a
\* version is applied before it is recorded and after all earlier ones are, and
\* nothing is taken back.
ImplementsSchema == Schema!Spec

\* However often it fails on the way, running the command again gets all
\* versions recorded.
Converges ==
    <>(\A v \in Versions : Recorded(v))
=============================================================================
