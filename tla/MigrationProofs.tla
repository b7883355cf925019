--------------------------- MODULE MigrationProofs ---------------------------
(***************************************************************************)
(* Proofs about Migration, for every number of runners, versions and       *)
(* faults.  The safety properties are parts of IInv, which is inductive.   *)
(***************************************************************************)
EXTENDS Migration, FiniteSetTheorems, TLAPS

USE RunnersAssumption, LastAssumption, FaultsAssumption

\* Advance leaves the list at its end, and moves on by one before it.
LEMMA AdvanceEffect ==
    ASSUME TypeOK, NEW p \in Runners, Advance(p)
    PROVE  /\ pc' \in [Runners -> {"off", "look", "apply", "record", "done"}]
           /\ at' \in [Runners -> Versions]
           /\ pc'[p] \in {"look", "done"}
           /\ pc'[p] = "look" => at'[p] = at[p] + 1
           /\ pc'[p] = "done" => at[p] = Last
           /\ \A q \in Runners \ {p} : pc'[q] = pc[q] /\ at'[q] = at[q]
  <1>0. at[p] \in Versions
    BY DEF TypeOK
  <1>1. CASE at[p] = Last
    BY <1>1 DEF Advance, Goto, TypeOK
  <1>2. CASE at[p] # Last
    <2>1. at[p] + 1 \in Versions
      BY <1>0, <1>2 DEF Versions
    <2> QED
      BY <1>2, <2>1 DEF Advance, Goto, TypeOK
  <1> QED
    BY <1>1, <1>2

\* The unique index: an insert adds the only document of a version.
LEMMA InsertEffect ==
    ASSUME TypeOK, NEW v \in Versions, Insert(v)
    PROVE  /\ records' \in [Versions -> 0..1]
           /\ Recorded(v)'
           /\ \A u \in Versions \ {v} : records'[u] = records[u]
  <1>1. records \in [Versions -> 0..1] /\ records[v] = 0
    BY DEF TypeOK, Insert, Recorded
  <1>2. records' = [records EXCEPT ![v] = 1]
    BY <1>1 DEF Insert
  <1> QED
    BY <1>1, <1>2 DEF Recorded

\* Type correctness is inductive by itself; the unique index keeps the number of
\* documents of a version at one.
LEMMA TypeStep == TypeOK /\ [Next]_vars => TypeOK'
  <1> SUFFICES ASSUME TypeOK, [Next]_vars PROVE TypeOK'
    OBVIOUS
  <1> USE DEF TypeOK, Goto, Versions
  <1>1. ASSUME NEW p \in Runners, Start(p) PROVE TypeOK'
    BY <1>1 DEF Start, First
  <1>2. ASSUME NEW p \in Runners, Look(p) PROVE TypeOK'
    BY <1>2, AdvanceEffect DEF Look
  <1>3. ASSUME NEW p \in Runners, Apply(p) PROVE TypeOK'
    <2>1. at[p] \in Versions /\ applies[at[p]] + 1 \in Nat
      OBVIOUS
    <2>2. applies' \in [Versions -> Nat] /\ complete' \subseteq Versions
      BY <1>3, <2>1 DEF Apply
    <2> QED
      BY <1>3, <2>2 DEF Apply
  <1>4. ASSUME NEW p \in Runners, Record(p) PROVE TypeOK'
    <2>1. CASE Insert(at[p]) /\ Advance(p)
      BY <1>4, <2>1, AdvanceEffect, InsertEffect DEF Record
    <2>2. CASE pc' = [pc EXCEPT ![p] = "off"] /\ UNCHANGED <<records, at>>
      BY <1>4, <2>2 DEF Record
    <2> QED
      BY <1>4, <2>1, <2>2 DEF Record
  <1>5. ASSUME NEW p \in Runners, ApplyFails(p) PROVE TypeOK'
    <2>1. at[p] \in Versions /\ applies[at[p]] + 1 \in Nat
      OBVIOUS
    <2>2. applies' \in [Versions -> Nat] /\ faults' \in 0..MaxFaults
      BY <1>5, <2>1 DEF ApplyFails, Fault
    <2> QED
      BY <1>5, <2>2 DEF ApplyFails
  <1>6. ASSUME NEW p \in Runners, RecordFails(p) PROVE TypeOK'
    <2>1. records' \in [Versions -> 0..1] /\ faults' \in 0..MaxFaults
      BY <1>6, InsertEffect DEF RecordFails, Fault
    <2> QED
      BY <1>6, <2>1 DEF RecordFails
  <1>7. ASSUME NEW p \in Runners, Crash(p) PROVE TypeOK'
    BY <1>7 DEF Crash, Fault
  <1>8. ASSUME NEW p \in Runners, Again(p) PROVE TypeOK'
    BY <1>8 DEF Again
  <1>9. CASE UNCHANGED vars
    BY <1>9 DEF vars
  <1> QED
    BY <1>1, <1>2, <1>3, <1>4, <1>5, <1>6, <1>7, <1>8, <1>9 DEF Next, Run

\* What a runner may do to schema_migrations and to complete: nothing is taken
\* away, and what is added is the version it has come to.
LEMMA StoreStep ==
    ASSUME TypeOK, NEW p \in Runners,
           Run(p) \/ ApplyFails(p) \/ RecordFails(p) \/ Crash(p) \/ Again(p)
    PROVE  /\ complete \subseteq complete'
           /\ \A v \in Versions : Recorded(v) => Recorded(v)'
           /\ \A v \in Versions : Recorded(v)' /\ ~Recorded(v) =>
                v = at[p] /\ pc[p] = "record"
           /\ \A q \in Runners \ {p} : pc'[q] = pc[q] /\ at'[q] = at[q]
  <1> USE DEF TypeOK, Goto, Versions, Recorded
  <1>1. CASE Start(p)
    BY <1>1 DEF Start
  <1>2. CASE Look(p)
    BY <1>2, AdvanceEffect DEF Look
  <1>3. CASE Apply(p)
    BY <1>3 DEF Apply
  <1>4. CASE Record(p)
    BY <1>4, AdvanceEffect DEF Record, Insert
  <1>5. CASE ApplyFails(p)
    BY <1>5 DEF ApplyFails
  <1>6. CASE RecordFails(p)
    BY <1>6 DEF RecordFails, Insert
  <1>7. CASE Crash(p)
    BY <1>7 DEF Crash
  <1>8. CASE Again(p)
    BY <1>8 DEF Again
  <1> QED
    BY <1>1, <1>2, <1>3, <1>4, <1>5, <1>6, <1>7, <1>8 DEF Run

\* A runner that goes on has recorded, or found recorded, every version it
\* leaves behind.
LEMMA ProgressStep ==
    ASSUME TypeOK, NEW p \in Runners, Progress(p),
           Run(p) \/ ApplyFails(p) \/ RecordFails(p) \/ Crash(p) \/ Again(p)
    PROVE  Progress(p)'
  <1> USE DEF TypeOK, Goto, Versions, Recorded, Progress
  <1>1. CASE Start(p)
    BY <1>1 DEF Start, First
  <1>2. CASE Look(p)
    <2>1. pc[p] = "look" /\ UNCHANGED records
      BY <1>2 DEF Look
    <2>2. CASE Recorded(at[p]) /\ Advance(p)
      <3>1. /\ pc'[p] \in {"look", "done"}
            /\ pc'[p] = "look" => at'[p] = at[p] + 1
            /\ pc'[p] = "done" => at[p] = Last
        BY <2>2, AdvanceEffect
      <3>2. \A u \in 1..at[p] : records[u] > 0
        BY <2>1, <2>2
      <3> QED
        BY <2>1, <3>1, <3>2
    <2>3. CASE pc' = [pc EXCEPT ![p] = "apply"] /\ UNCHANGED at
      BY <2>1, <2>3
    <2> QED
      BY <1>2, <2>2, <2>3 DEF Look
  <1>3. CASE Apply(p)
    BY <1>3 DEF Apply
  <1>4. CASE Record(p)
    <2>1. CASE Insert(at[p]) /\ Advance(p)
      <3>1. at[p] \in Versions /\ records \in [Versions -> 0..1]
        OBVIOUS
      <3>2. /\ \A u \in Versions : records[u] > 0 => records'[u] > 0
            /\ records'[at[p]] > 0
        BY <2>1, <3>1, InsertEffect
      <3>3. /\ pc'[p] \in {"look", "done"}
            /\ pc'[p] = "look" => at'[p] = at[p] + 1
            /\ pc'[p] = "done" => at[p] = Last
        BY <2>1, AdvanceEffect
      <3>4. pc[p] = "record"
        BY <1>4 DEF Record
      <3>5. ASSUME NEW u \in 1..at[p] PROVE records'[u] > 0
        <4>1. u \in Versions /\ (u \in 1..(at[p] - 1) \/ u = at[p])
          BY <3>1
        <4> QED
          BY <3>2, <3>4, <4>1
      <3>6. pc'[p] = "look" => at'[p] - 1 = at[p]
        <4>1. at[p] \in Nat
          BY <3>1
        <4>2. (at[p] + 1) - 1 = at[p]
          BY <4>1
        <4> QED
          BY <3>3, <4>2
      <3>7. pc'[p] = "look" => \A u \in 1..(at'[p] - 1) : records'[u] > 0
        BY <3>5, <3>6
      <3>8. pc'[p] = "done" => \A u \in Versions : records'[u] > 0
        BY <3>3, <3>5
      <3> QED
        BY <3>3, <3>7, <3>8
    <2>2. CASE pc' = [pc EXCEPT ![p] = "off"]
      BY <2>2
    <2> QED
      BY <1>4, <2>1, <2>2 DEF Record
  <1>5. CASE ApplyFails(p)
    BY <1>5 DEF ApplyFails
  <1>6. CASE RecordFails(p)
    BY <1>6 DEF RecordFails
  <1>7. CASE Crash(p)
    BY <1>7 DEF Crash
  <1>8. CASE Again(p)
    BY <1>8 DEF Again
  <1> QED
    BY <1>1, <1>2, <1>3, <1>4, <1>5, <1>6, <1>7, <1>8 DEF Run

\* Steps of one runner take no knowledge from another, since nothing is ever
\* unrecorded.
LEMMA OrderStep ==
    ASSUME TypeOK, RecordedApplied, InOrder, \A q \in Runners : Progress(q),
           NEW p \in Runners,
           Run(p) \/ ApplyFails(p) \/ RecordFails(p) \/ Crash(p) \/ Again(p), TypeOK'
    PROVE  RecordedApplied' /\ InOrder' /\ \A q \in Runners : Progress(q)'
  <1>1. \A q \in Runners : Progress(q)'
    <2> SUFFICES ASSUME NEW q \in Runners, q # p PROVE Progress(q)'
      BY ProgressStep
    <2>1. at[q] \in Versions /\ pc'[q] = pc[q] /\ at'[q] = at[q]
      BY StoreStep DEF TypeOK
    <2>2. 1..(at[q] - 1) \subseteq Versions
      BY <2>1 DEF Versions
    <2> QED
      BY <2>1, <2>2, StoreStep DEF Progress
  <1>2. RecordedApplied'
    <2> SUFFICES ASSUME NEW v \in Versions, Recorded(v)' PROVE v \in complete'
      BY DEF RecordedApplied
    <2>1. CASE Recorded(v)
      BY <2>1, StoreStep DEF RecordedApplied
    <2>2. CASE ~Recorded(v)
      BY <2>2, StoreStep DEF Progress
    <2> QED
      BY <2>1, <2>2
  <1>3. InOrder'
    <2> SUFFICES ASSUME NEW v \in Versions,
                        \/ Recorded(v)'
                        \/ \E q \in Runners : pc'[q] \in {"apply", "record"} /\ at'[q] = v,
                        NEW u \in 1..(v - 1)
                 PROVE  Recorded(u)'
      BY DEF InOrder
    <2>1. u \in Versions
      BY DEF Versions
    <2>2. CASE Recorded(v)
      BY <2>1, <2>2, StoreStep DEF InOrder
    <2>3. CASE Recorded(v)' /\ ~Recorded(v)
      BY <2>1, <2>3, StoreStep DEF Progress
    <2>4. CASE \E q \in Runners : pc'[q] \in {"apply", "record"} /\ at'[q] = v
      BY <1>1, <2>4 DEF Progress
    <2> QED
      BY <2>2, <2>3, <2>4
  <1> QED
    BY <1>1, <1>2, <1>3

-----------------------------------------------------------------------------
(* How often a version is applied.                                         *)

\* A runner does one thing at a time, so two disjoint groups of runners
\* together number no more than all runners.
LEMMA Counts ==
    ASSUME NEW A \in SUBSET Runners, NEW B \in SUBSET Runners, A \cap B = {}
    PROVE  /\ IsFiniteSet(A) /\ IsFiniteSet(B)
           /\ Cardinality(Runners) \in Nat
           /\ Cardinality(A) \in Nat /\ Cardinality(B) \in Nat
           /\ Cardinality(A) + Cardinality(B) <= Cardinality(Runners)
  <1>1. IsFiniteSet(A) /\ IsFiniteSet(B)
    BY FS_Subset
  <1>2. Cardinality(A) \in Nat /\ Cardinality(B) \in Nat /\ Cardinality(Runners) \in Nat
    BY <1>1, FS_CardinalityType
  <1>3. Cardinality(A \cup B) = Cardinality(A) + Cardinality(B) - Cardinality(A \cap B)
    BY <1>1, FS_Union
  <1>4. Cardinality(A \cap B) = 0
    BY FS_EmptySet
  <1>5. A \cup B \in SUBSET Runners
    OBVIOUS
  <1>6. Cardinality(A \cup B) <= Cardinality(Runners)
    BY <1>5, FS_Subset
  <1> QED
    BY <1>1, <1>2, <1>3, <1>4, <1>6

\* Applying and recording, before a step and after it.
LEMMA Groups ==
    ASSUME NEW v
    PROVE  /\ Applying(v) \in SUBSET Runners /\ Recording(v) \in SUBSET Runners
           /\ Applying(v) \cap Recording(v) = {}
           /\ Applying(v)' \in SUBSET Runners /\ Recording(v)' \in SUBSET Runners
           /\ Applying(v)' \cap Recording(v)' = {}
  BY DEF Applying, Recording

\* Two groups that differ in one runner at most.
LEMMA CountOne ==
    ASSUME NEW A \in SUBSET Runners, NEW p \in Runners
    PROVE  /\ Cardinality(A) \in Nat
           /\ Cardinality(A \ {p}) >= Cardinality(A) - 1
           /\ Cardinality(A \ {p}) <= Cardinality(A)
           /\ p \in A => Cardinality(A \ {p}) = Cardinality(A) - 1
           /\ p \notin A => Cardinality(A \cup {p}) = Cardinality(A) + 1
  <1>1. IsFiniteSet(A)
    BY FS_Subset
  <1>2. Cardinality(A) \in Nat
    BY <1>1, FS_CardinalityType
  <1>3. Cardinality(A \ {p}) = IF p \in A THEN Cardinality(A) - 1 ELSE Cardinality(A)
    BY <1>1, FS_RemoveElement
  <1>4. Cardinality(A \cup {p}) = IF p \in A THEN Cardinality(A) ELSE Cardinality(A) + 1
    BY <1>1, FS_AddElement
  <1> QED
    BY <1>2, <1>3, <1>4

\* What a step adds to the applications of v is paid for by a fault, or by a
\* runner that is now about to record v, or that was about to apply it.
Balanced(v) ==
    /\ ~Recorded(v)' =>
         applies'[v] + faults + Cardinality(Recording(v))
           <= applies[v] + faults' + Cardinality(Recording(v)')
    /\ Recorded(v) =>
         applies'[v] + faults + Cardinality(Applying(v)')
           <= applies[v] + faults' + Cardinality(Applying(v))
    /\ Recorded(v)' /\ ~Recorded(v) =>
         /\ applies'[v] = applies[v] /\ faults' >= faults
         /\ Cardinality(Applying(v)') <= Cardinality(Applying(v))

\* Every step of a runner is balanced in this sense.
LEMMA BalancedStep ==
    ASSUME TypeOK, NEW p \in Runners, NEW v \in Versions,
           Run(p) \/ ApplyFails(p) \/ RecordFails(p) \/ Crash(p) \/ Again(p)
    PROVE  Balanced(v)
  <1> DEFINE A == Applying(v)
             R == Recording(v)
             a == Cardinality(A)
             r == Cardinality(R)
  <1>0. /\ A \in SUBSET Runners /\ R \in SUBSET Runners /\ a \in Nat /\ r \in Nat
        /\ applies[v] \in Nat /\ faults \in Nat
        /\ pc \in [Runners -> {"off", "look", "apply", "record", "done"}]
        /\ at \in [Runners -> Versions]
        /\ p \in A <=> pc[p] = "apply" /\ at[p] = v
        /\ p \in R <=> pc[p] = "record" /\ at[p] = v
    <2>1. A \in SUBSET Runners /\ R \in SUBSET Runners
      BY Groups
    <2>2. a \in Nat /\ r \in Nat
      BY <2>1, CountOne
    <2> QED
      BY <2>1, <2>2 DEF TypeOK, Applying, Recording
  <1>c. /\ Cardinality(R \ {p}) >= r - 1 /\ Cardinality(R \ {p}) \in Nat
        /\ Cardinality(A \ {p}) <= a /\ Cardinality(A \ {p}) \in Nat
        /\ p \in A => Cardinality(A \ {p}) = a - 1
        /\ p \notin R => Cardinality(R \cup {p}) = r + 1
    <2>1. A \ {p} \in SUBSET Runners /\ R \ {p} \in SUBSET Runners
      BY <1>0
    <2> QED
      BY <1>0, <2>1, CountOne
  <1>s. \A q \in Runners \ {p} : pc'[q] = pc[q] /\ at'[q] = at[q]
    BY StoreStep
  <1>m. Recorded(v) => Recorded(v)'
    BY StoreStep
  <1>d. \/ A' = A /\ pc'[p] # "apply"
        \/ A' = A \ {p} /\ pc'[p] # "apply"
        \/ pc'[p] = "apply"
    BY <1>s DEF Applying
  <1>e. \/ R' = R /\ pc'[p] # "record"
        \/ R' = R \ {p} /\ pc'[p] # "record"
        \/ pc'[p] = "record"
    BY <1>s DEF Recording
  <1>1. CASE Start(p) \/ Again(p)
    <2>1. /\ pc[p] \in {"off", "done"} /\ pc'[p] \in {"look", "off"}
          /\ applies' = applies /\ faults' = faults /\ records' = records
      BY <1>0, <1>1 DEF Start, Again, Goto
    <2>2. A' = A /\ R' = R
      BY <1>0, <1>s, <2>1 DEF Applying, Recording
    <2> QED
      BY <1>0, <2>1, <2>2 DEF Balanced, Recorded
  <1>2. CASE Look(p)
    <2>1. /\ pc[p] = "look" /\ pc'[p] \in {"look", "apply", "done"}
          /\ pc'[p] = "apply" => ~Recorded(at[p]) /\ at'[p] = at[p]
          /\ applies' = applies /\ faults' = faults /\ records' = records
      BY <1>0, <1>2, AdvanceEffect DEF Look, Goto
    <2>2. R' = R
      BY <1>0, <1>s, <2>1 DEF Recording
    <2>3. Recorded(v) => A' = A
      BY <1>0, <1>s, <2>1 DEF Applying
    <2> QED
      BY <1>0, <2>1, <2>2, <2>3 DEF Balanced, Recorded
  <1>3. CASE Apply(p)
    <2>1. /\ pc[p] = "apply" /\ pc'[p] = "record" /\ at' = at
          /\ applies' = [applies EXCEPT ![at[p]] = @ + 1]
          /\ faults' = faults /\ records' = records
      BY <1>0, <1>3 DEF Apply, Goto
    <2>2. applies \in [Versions -> Nat]
      BY DEF TypeOK
    <2>3. CASE at[p] = v
      <3>1. A' = A \ {p} /\ R' = R \cup {p} /\ p \in A /\ p \notin R
        BY <1>0, <1>s, <2>1, <2>3 DEF Applying, Recording
      <3>2. applies'[v] = applies[v] + 1
        BY <2>1, <2>2, <2>3
      <3> QED
        BY <1>0, <1>c, <2>1, <3>1, <3>2 DEF Balanced, Recorded
    <2>4. CASE at[p] # v
      <3>1. A' = A /\ R' = R /\ applies'[v] = applies[v]
        BY <1>0, <1>s, <2>1, <2>2, <2>4 DEF Applying, Recording
      <3> QED
        BY <1>0, <2>1, <3>1 DEF Balanced, Recorded
    <2> QED
      BY <2>3, <2>4
  <1>4. CASE Record(p)
    <2>1. /\ pc[p] = "record" /\ pc'[p] \in {"look", "done", "off"}
          /\ applies' = applies /\ faults' = faults
      BY <1>0, <1>4, AdvanceEffect DEF Record, Goto
    <2>2. A' = A
      BY <1>0, <1>s, <2>1 DEF Applying
    <2>3. at[p] = v => Recorded(v)'
      BY <1>0, <1>4, InsertEffect DEF Record, Recorded
    <2>4. at[p] # v => R' = R
      BY <1>0, <1>s, <2>1 DEF Recording
    <2> QED
      BY <1>0, <2>1, <2>2, <2>3, <2>4 DEF Balanced
  <1>5. CASE ApplyFails(p)
    <2>1. /\ pc[p] = "apply" /\ pc'[p] = "off" /\ at' = at
          /\ applies' = [applies EXCEPT ![at[p]] = @ + 1]
          /\ faults' = faults + 1 /\ records' = records
      BY <1>0, <1>5 DEF ApplyFails, Fault, Goto
    <2>2. applies \in [Versions -> Nat]
      BY DEF TypeOK
    <2>3. R' = R
      BY <1>0, <1>s, <2>1 DEF Recording
    <2>4. CASE at[p] = v
      <3>1. A' = A \ {p} /\ p \in A /\ applies'[v] = applies[v] + 1
        BY <1>0, <1>s, <2>1, <2>2, <2>4 DEF Applying
      <3> QED
        BY <1>0, <1>c, <2>1, <2>3, <3>1 DEF Balanced, Recorded
    <2>5. CASE at[p] # v
      <3>1. A' = A /\ applies'[v] = applies[v]
        BY <1>0, <1>s, <2>1, <2>2, <2>5 DEF Applying
      <3> QED
        BY <1>0, <2>1, <2>3, <3>1 DEF Balanced, Recorded
    <2> QED
      BY <2>4, <2>5
  <1>6. CASE RecordFails(p) \/ Crash(p)
    <2>1. /\ pc'[p] = "off" /\ applies' = applies /\ faults' = faults + 1
      BY <1>0, <1>6 DEF RecordFails, Crash, Fault, Goto
    <2>2. A' \in {A, A \ {p}} /\ R' \in {R, R \ {p}}
      BY <1>d, <1>e, <2>1
    <2>3. /\ Cardinality(A') <= a /\ Cardinality(A') \in Nat
          /\ r <= Cardinality(R') + 1 /\ Cardinality(R') \in Nat
      <3> HIDE DEF A, R
      <3> QED
        BY <1>0, <1>c, <2>2
    <2> QED
      BY <1>0, <2>1, <2>3 DEF Balanced
  <1> QED
    BY <1>1, <1>2, <1>3, <1>4, <1>5, <1>6 DEF Run

\* The number of applications stays covered.
LEMMA CountedStep ==
    ASSUME TypeOK, AppliesCounted, TypeOK', NEW p \in Runners,
           Run(p) \/ ApplyFails(p) \/ RecordFails(p) \/ Crash(p) \/ Again(p)
    PROVE  AppliesCounted'
  <1> SUFFICES ASSUME NEW v \in Versions
               PROVE  /\ ~Recorded(v)' =>
                           applies'[v] <= faults' + Cardinality(Recording(v)')
                      /\ applies'[v] + Cardinality(Applying(v)')
                           <= faults' + Cardinality(Runners)
    BY DEF AppliesCounted
  <1> DEFINE a == Cardinality(Applying(v))
             r == Cardinality(Recording(v))
  <1>1. /\ a \in Nat /\ r \in Nat /\ a' \in Nat /\ r' \in Nat
        /\ Cardinality(Runners) \in Nat
        /\ a + r <= Cardinality(Runners) /\ a' + r' <= Cardinality(Runners)
    BY Groups, Counts
  <1>2. applies[v] \in Nat /\ faults \in Nat /\ applies'[v] \in Nat /\ faults' \in Nat
    BY DEF TypeOK
  <1>3. Balanced(v) /\ (Recorded(v) => Recorded(v)')
    BY BalancedStep, StoreStep
  <1>4. ~Recorded(v)' => applies'[v] <= faults' + r'
    BY <1>1, <1>2, <1>3 DEF Balanced, AppliesCounted
  <1>5. applies'[v] + a' <= faults' + Cardinality(Runners)
    <2>1. CASE ~Recorded(v)'
      BY <1>1, <1>2, <1>4, <2>1
    <2>2. CASE Recorded(v)
      BY <1>1, <1>2, <1>3, <2>2 DEF Balanced, AppliesCounted
    <2>3. CASE Recorded(v)' /\ ~Recorded(v)
      BY <1>1, <1>2, <1>3, <2>3 DEF Balanced, AppliesCounted
    <2> QED
      BY <2>1, <2>2, <2>3
  <1> QED
    BY <1>4, <1>5

-----------------------------------------------------------------------------
(* The theorems.                                                           *)

\* Nothing is recorded or applied at the start.
LEMMA InvInit == Init => IInv
  <1> SUFFICES ASSUME Init PROVE IInv
    OBVIOUS
  <1>1. TypeOK /\ RecordedApplied /\ InOrder /\ \A p \in Runners : Progress(p)
    BY DEF Init, TypeOK, RecordedApplied, InOrder, Progress, Recorded, Versions
  <1>2. ASSUME NEW v \in Versions
        PROVE  /\ applies[v] <= faults + Cardinality(Recording(v))
               /\ applies[v] + Cardinality(Applying(v)) <= faults + Cardinality(Runners)
    <2>1. /\ Cardinality(Applying(v)) \in Nat /\ Cardinality(Recording(v)) \in Nat
          /\ Cardinality(Runners) \in Nat
          /\ Cardinality(Applying(v)) + Cardinality(Recording(v)) <= Cardinality(Runners)
      BY Groups, Counts
    <2>2. applies[v] = 0 /\ faults = 0
      BY DEF Init
    <2> QED
      BY <2>1, <2>2
  <1> QED
    BY <1>1, <1>2 DEF IInv, AppliesCounted

\* IInv is inductive.
LEMMA InvStep == IInv /\ [Next]_vars => IInv'
  <1> SUFFICES ASSUME IInv, [Next]_vars PROVE IInv'
    OBVIOUS
  <1>1. TypeOK'
    BY TypeStep DEF IInv
  <1>2. ASSUME NEW p \in Runners,
               Run(p) \/ ApplyFails(p) \/ RecordFails(p) \/ Crash(p) \/ Again(p)
        PROVE  IInv'
    BY <1>1, <1>2, OrderStep, CountedStep DEF IInv
  <1>3. CASE UNCHANGED vars
    BY <1>3 DEF vars, IInv, TypeOK, RecordedApplied, InOrder, Progress, AppliesCounted,
                Recorded, Applying, Recording
  <1> QED
    BY <1>2, <1>3 DEF Next

\* The inductive invariant holds in every reachable state.
THEOREM Invariance == Spec => []IInv
  BY InvInit, InvStep, PTL DEF Spec

\* Every variable keeps its type, and no version has two documents in
\* schema_migrations, however many runners insert it.
THEOREM TypeCorrect == Spec => []TypeOK
  <1>1. IInv => TypeOK
    BY DEF IInv
  <1> QED
    BY <1>1, Invariance, PTL

\* schema_migrations never names a version that was not applied to its end.
THEOREM Truthful == Spec => []RecordedApplied
  <1>1. IInv => RecordedApplied
    BY DEF IInv
  <1> QED
    BY <1>1, Invariance, PTL

\* Run's order is kept by any number of runners that crash and start again.
THEOREM Ordered == Spec => []InOrder
  <1>1. IInv => InOrder
    BY DEF IInv
  <1> QED
    BY <1>1, Invariance, PTL

\* A cmd/migrate that reports success has the whole list behind it, for any
\* number of runners and faults.
THEOREM SuccessIsComplete == Spec => []SuccessMeansComplete
  <1>1. IInv => SuccessMeansComplete
    BY DEF IInv, Progress, RecordedApplied, SuccessMeansComplete
  <1> QED
    BY <1>1, Invariance, PTL

\* Has and the unique index bound the repetitions of a migration by the number
\* of faults and of runners.
THEOREM FewApplies == Spec => []AppliesBounded
  <1>1. IInv => AppliesBounded
    <2> SUFFICES ASSUME IInv, NEW v \in Versions
                 PROVE  applies[v] <= faults + Cardinality(Runners)
      BY DEF AppliesBounded
    <2>1. Cardinality(Applying(v)) \in Nat /\ Cardinality(Runners) \in Nat
      BY Groups, Counts
    <2> QED
      BY <2>1 DEF IInv, AppliesCounted, TypeOK
  <1> QED
    BY <1>1, Invariance, PTL

-----------------------------------------------------------------------------
(* The runners implement one schema level.                                 *)

\* There is one level at most.
LEMMA OneLevel ==
    ASSUME NEW documents, NEW a \in 0..Last, NEW b \in 0..Last,
           IsLevel(documents, a), IsLevel(documents, b)
    PROVE  a = b
  <1>1. ASSUME NEW m \in 0..Last, NEW n \in 0..Last, m < n,
               IsLevel(documents, m), IsLevel(documents, n)
        PROVE  FALSE
    <2>1. n \in Versions
      BY <1>1 DEF Versions
    <2>2. n <= m
      BY <1>1, <2>1 DEF IsLevel
    <2> QED
      BY <1>1, <2>2
  <1> QED
    BY <1>1

\* So that Level is the one there is, before a step and after it.
LEMMA LevelIs ==
    ASSUME NEW n \in 0..Last
    PROVE  /\ IsLevel(records, n) => Level = n
           /\ IsLevel(records', n) => Level' = n
  <1>1. IsLevel(records, n) => Level \in 0..Last /\ IsLevel(records, Level)
    BY DEF Level
  <1>2. IsLevel(records', n) => Level' \in 0..Last /\ IsLevel(records', Level')
    BY DEF Level
  <1> QED
    BY <1>1, <1>2, OneLevel

\* What a step does to the level: nothing, or a runner that has recorded every
\* version before its own records that one.
LEMMA LevelStep ==
    ASSUME IInv, HasLevel, NEW p \in Runners,
           Run(p) \/ ApplyFails(p) \/ RecordFails(p) \/ Crash(p) \/ Again(p)
    PROVE  /\ HasLevel'
           /\ Level \in 0..Last /\ IsLevel(records, Level)
           /\ \/ Level' = Level
              \/ /\ Level' = Level + 1 /\ UNCHANGED complete
                 /\ Level + 1 \in complete
  <1>1. PICK n \in 0..Last : IsLevel(records, n)
    BY DEF HasLevel
  <1>2. Level = n
    BY <1>1, LevelIs
  <1>3. CASE \A v \in Versions : Recorded(v)' <=> Recorded(v)
    <2>1. IsLevel(records', n)
      BY <1>1, <1>3 DEF IsLevel, Recorded
    <2> QED
      BY <1>1, <1>2, <2>1, LevelIs DEF HasLevel
  <1>4. CASE ~\A v \in Versions : Recorded(v)' <=> Recorded(v)
    <2>1. PICK v \in Versions : Recorded(v)' /\ ~Recorded(v)
      BY <1>4, StoreStep DEF IInv
    <2>2. v = at[p] /\ pc[p] = "record"
      BY <2>1, StoreStep DEF IInv
    <2>3. v \in complete /\ \A u \in 1..(v - 1) : Recorded(u)
      BY <2>2 DEF IInv, Progress
    <2>4. v = n + 1
      <3>1. v > n
        BY <1>1, <2>1 DEF IsLevel, Recorded, Versions
      <3>2. CASE v > n + 1
        <4>1. n + 1 \in 1..(v - 1) /\ n + 1 \in Versions
          BY <1>1, <3>2 DEF Versions
        <4>2. n + 1 <= n
          BY <1>1, <2>3, <4>1 DEF IsLevel, Recorded
        <4> QED
          BY <1>1, <4>2
      <3> QED
        BY <1>1, <3>1, <3>2 DEF Versions
    <2>5. \A u \in Versions : Recorded(u)' <=> Recorded(u) \/ u = v
      BY <2>1, <2>2, StoreStep DEF IInv
    <2>6. n + 1 \in 0..Last /\ IsLevel(records', n + 1)
      BY <1>1, <2>4, <2>5 DEF IsLevel, Recorded, Versions
    <2>7. Level' = n + 1
      BY <2>6, LevelIs
    <2>8. UNCHANGED complete
      <3>1. ~UNCHANGED records
        BY <2>1 DEF Recorded
      <3> QED
        BY <2>2, <3>1 DEF Run, Start, Look, Apply, Record, ApplyFails, RecordFails,
                          Crash, Again
    <2> QED
      BY <1>1, <1>2, <2>3, <2>4, <2>6, <2>7, <2>8 DEF HasLevel
  <1> QED
    BY <1>3, <1>4

\* Every step of the runners is a step of the schema, or none: an Apply of a
\* version that is recorded already is not seen.
LEMMA SchemaStep == IInv /\ HasLevel /\ [Next]_vars => [Schema!Next]_(Schema!vars) /\ HasLevel'
  <1> SUFFICES ASSUME IInv, HasLevel, [Next]_vars
               PROVE  [Schema!Next]_(Schema!vars) /\ HasLevel'
    OBVIOUS
  <1>1. ASSUME NEW p \in Runners,
               Run(p) \/ ApplyFails(p) \/ RecordFails(p) \/ Crash(p) \/ Again(p)
        PROVE  [Schema!Next]_(Schema!vars) /\ HasLevel'
    <2>1. HasLevel' /\ Level \in 0..Last /\ IsLevel(records, Level)
      BY <1>1, LevelStep
    <2>2. CASE Level' = Level + 1 /\ UNCHANGED complete /\ Level + 1 \in complete
      BY <2>1, <2>2 DEF Schema!Next, Schema!Record
    <2>3. CASE Level' = Level /\ ~Apply(p)
      <3>1. UNCHANGED complete
        BY <1>1, <2>3 DEF Run, Start, Look, Record, ApplyFails, RecordFails, Crash, Again
      <3> QED
        BY <2>1, <2>3, <3>1 DEF Schema!vars
    <2>4. CASE Level' = Level /\ Apply(p)
      <3>1. /\ complete' = complete \cup {at[p]} /\ at[p] \in Versions
            /\ \A u \in 1..(at[p] - 1) : Recorded(u)
        BY <2>4 DEF Apply, IInv, TypeOK, Progress
      <3>2. CASE Recorded(at[p])
        <4>1. complete' = complete
          BY <3>1, <3>2 DEF IInv, RecordedApplied
        <4> QED
          BY <2>1, <2>4, <4>1 DEF Schema!vars
      <3>3. CASE ~Recorded(at[p])
        <4>1. at[p] > Level
          BY <2>1, <3>1, <3>3 DEF IsLevel, Recorded, Versions
        <4>2. CASE at[p] > Level + 1
          <5>1. Level + 1 \in 1..(at[p] - 1) /\ Level + 1 \in Versions
            BY <2>1, <3>1, <4>2 DEF Versions
          <5>2. Level + 1 <= Level
            BY <2>1, <3>1, <5>1 DEF IsLevel, Recorded
          <5> QED
            BY <2>1, <5>2
        <4>3. CASE at[p] = Level + 1
          <5>1. Level < Last
            BY <2>1, <3>1, <4>3 DEF Versions
          <5> QED
            BY <2>1, <2>4, <3>1, <4>3, <5>1 DEF Schema!Next, Schema!Apply
        <4> QED
          BY <2>1, <3>1, <4>1, <4>2, <4>3 DEF Versions
      <3> QED
        BY <3>2, <3>3
    <2> QED
      BY <1>1, <2>2, <2>3, <2>4, LevelStep
  <1>2. CASE UNCHANGED vars
    <2>1. UNCHANGED Level /\ HasLevel'
      BY <1>2 DEF vars, Level, HasLevel, IsLevel, Recorded
    <2> QED
      BY <1>2, <2>1 DEF vars, Schema!vars
  <1> QED
    BY <1>1, <1>2 DEF Next

\* Any number of runners over any number of versions are one schema level that
\* only goes up, one applied version at a time.
THEOREM IsSchemaLevel == Spec => ImplementsSchema
  <1>1. Init => HasLevel /\ Schema!Init
    <2> SUFFICES ASSUME Init PROVE HasLevel /\ Schema!Init
      OBVIOUS
    <2>1. 0 \in 0..Last /\ IsLevel(records, 0)
      BY DEF Init, IsLevel, Versions
    <2>2. Level = 0
      BY <2>1, LevelIs
    <2> QED
      BY <2>1, <2>2 DEF Init, HasLevel, Schema!Init
  <1> QED
    BY <1>1, Invariance, SchemaStep, PTL DEF Spec, ImplementsSchema, Schema!Spec
=============================================================================
