--------------------------- MODULE Effects_proofs ---------------------------
(***************************************************************************)
(* What effect graphs and the effect runtime promise for any buffers,      *)
(* assignments, plans, captures and cursors: a graph is executed as if in   *)
(* place, what callers can read of the runtime is a versioned store, a      *)
(* cursor that is admitted continues from what it left and is not refused,  *)
(* and the native path does what the interpreter does.  A transaction       *)
(* stages its steps by a fold; the first part of this module shows that     *)
(* the fold is the run of the steps one after the other.                    *)
(***************************************************************************)
EXTENDS EffectGraph, EffectRuntime, FiniteSetTheorems, WellFoundedInduction, TLAPS

-----------------------------------------------------------------------------
(* Numbers and folds *)

(* Induction: a set that holds 0 and with every number the next one. *)
LEMMA CountUp ==
    ASSUME NEW G, 0 \in G, \A n \in Nat : n \in G => n + 1 \in G
    PROVE  \A n \in Nat : n \in G
  <1> DEFINE N == Nat \ G
  <1>1. SUFFICES ASSUME N # {} PROVE FALSE
    OBVIOUS
  <1>2. N \subseteq Nat
    OBVIOUS
  <1> HIDE DEF N
  <1>3. PICK n \in N : \A m \in N : ~(<<m, n>> \in OpToRel(<, Nat))
    BY <1>1, <1>2, NatLessThanWellFounded, WFMin
  <1>4. n \in Nat /\ n # 0
    BY <1>2 DEF N
  <1>5. n - 1 \in Nat /\ n - 1 \notin N
    <2>1. n - 1 \in Nat /\ n - 1 < n
      BY <1>4
    <2>2. <<n - 1, n>> \in OpToRel(<, Nat)
      BY <1>4, <2>1 DEF OpToRel
    <2> QED
      BY <1>3, <2>1, <2>2
  <1>6. n - 1 \in G /\ (n - 1) + 1 = n
    BY <1>4, <1>5 DEF N
  <1>7. n \in G
    BY <1>5, <1>6
  <1> QED
    BY <1>7 DEF N

(* The largest element of a set of positions. *)
LEMMA LargestPosition ==
    ASSUME NEW n \in Nat, NEW S \in SUBSET (1 .. n), S # {}
    PROVE  Max(S) \in S /\ \A x \in S : x <= Max(S)
  <1> DEFINE G == {k \in Nat : \A T \in SUBSET (1 .. k) : T # {} => \E m \in T : \A x \in T : x <= m}
  <1>1. 0 \in G
    <2>1. 1 .. 0 = {}
      OBVIOUS
    <2> QED
      BY <2>1
  <1>2. ASSUME NEW k \in Nat, k \in G PROVE k + 1 \in G
    <2> SUFFICES ASSUME NEW T \in SUBSET (1 .. k + 1), T # {}
                 PROVE  \E m \in T : \A x \in T : x <= m
      OBVIOUS
    <2>1. CASE k + 1 \in T
      BY <2>1
    <2>2. CASE k + 1 \notin T
      BY <1>2, <2>2
    <2> QED
      BY <2>1, <2>2
  <1> HIDE DEF G
  <1>3. n \in G
    BY <1>1, <1>2, CountUp
  <1>4. \E m \in S : \A x \in S : x <= m
    BY <1>3 DEF G
  <1>5. \E m \in S : \A x \in S : m >= x
    BY <1>4
  <1> QED
    BY <1>5 DEF Max

(* Removing the largest position of a set of positions. *)
LEMMA WithoutLargest ==
    ASSUME NEW n \in Nat, NEW t \in SUBSET (1 .. n + 1)
    PROVE  /\ n + 1 \in t => Max(t) = n + 1 /\ t \ {n + 1} \in SUBSET (1 .. n)
           /\ n + 1 \notin t => t \in SUBSET (1 .. n)
           /\ n + 1 \notin t /\ t # {} => Max(t) # n + 1 /\ t \ {Max(t)} \in SUBSET (1 .. n)
  <1> DEFINE m == n + 1
  <1>1. m \in Nat /\ t \in SUBSET (1 .. m) /\ (\A x \in 1 .. m : x # m => x \in 1 .. n)
    OBVIOUS
  <1> HIDE DEF m
  <1>2. t # {} => Max(t) \in t /\ \A x \in t : x <= Max(t)
    BY <1>1, LargestPosition
  <1>3. ASSUME m \in t PROVE Max(t) = m
    <2>1. Max(t) \in 1 .. m /\ m <= Max(t)
      BY <1>1, <1>2, <1>3
    <2> QED
      BY <1>1, <2>1
  <1>4. /\ m \in t => Max(t) = m /\ t \ {m} \in SUBSET (1 .. n)
        /\ m \notin t => t \in SUBSET (1 .. n)
        /\ m \notin t /\ t # {} => Max(t) # m /\ t \ {Max(t)} \in SUBSET (1 .. n)
    BY <1>1, <1>2, <1>3
  <1> QED
    BY <1>4 DEF m

(* An initial segment. *)
LEMMA Segment ==
    ASSUME NEW n \in Nat
    PROVE  /\ 1 .. 0 = {}
           /\ n # 0 => Max(1 .. n) = n /\ (1 .. n) \ {n} = 1 .. n - 1 /\ 1 .. n # {}
  <1>1. ASSUME n # 0 PROVE Max(1 .. n) = n
    <2>1. 1 .. n # {} /\ n \in 1 .. n /\ 1 .. n \in SUBSET (1 .. n)
      BY <1>1
    <2>2. Max(1 .. n) \in 1 .. n /\ n <= Max(1 .. n)
      BY <2>1, LargestPosition
    <2> QED
      BY <2>2
  <1> QED
    BY <1>1

(* run is the sequence of staging states of n steps. *)
StageRun(run, n, acc, steps, sources) ==
    /\ run[0] = acc
    /\ \A i \in 1 .. n : run[i] = StageStep(run[i - 1], steps[i], sources)

(* Stage is the last state of a run of its steps. *)
LEMMA StageRuns ==
    ASSUME NEW acc, NEW steps, NEW sources, NEW n \in Nat, DOMAIN steps = 1 .. n
    PROVE  \E run : StageRun(run, n, acc, steps, sources) /\ Stage(acc, steps, sources) = run[n]
  <1> DEFINE Value(it, t) == IF t = {} THEN acc
                             ELSE StageStep(it[t \ {Max(t)}], steps[Max(t)], sources)
             Folds(it) == it = [t \in SUBSET (1 .. n) |-> Value(it, t)]
             G == {k \in Nat : \E it : \A t \in SUBSET (1 .. k) : it[t] = Value(it, t)}
  <1>1. Stage(acc, steps, sources) = (CHOOSE it : Folds(it))[1 .. n]
    BY DEF Stage, FoldLeft, MapThenFoldSet
  <1>2. 0 \in G
    <2> DEFINE it == [t \in SUBSET (1 .. 0) |-> acc]
    <2>1. \A t \in SUBSET (1 .. 0) : it[t] = Value(it, t)
      BY Segment
    <2> QED
      BY <2>1
  <1>3. ASSUME NEW k \in Nat, k \in G PROVE k + 1 \in G
    <2>1. PICK it : \A t \in SUBSET (1 .. k) : it[t] = Value(it, t)
      BY <1>3
    <2> DEFINE more == [t \in SUBSET (1 .. k + 1) |->
                          IF k + 1 \in t THEN StageStep(it[t \ {k + 1}], steps[k + 1], sources)
                          ELSE it[t]]
    <2>2. \A t \in SUBSET (1 .. k) : more[t] = it[t] /\ t \in SUBSET (1 .. k + 1)
      OBVIOUS
    <2>3. ASSUME NEW t \in SUBSET (1 .. k + 1) PROVE more[t] = Value(more, t)
      <3>1. CASE k + 1 \in t
        <4>1. Max(t) = k + 1 /\ t \ {k + 1} \in SUBSET (1 .. k)
          BY <3>1, WithoutLargest
        <4>2. more[t] = StageStep(it[t \ {k + 1}], steps[k + 1], sources)
          BY <3>1
        <4>3. more[t \ {k + 1}] = it[t \ {k + 1}]
          BY <2>2, <4>1
        <4> QED
          BY <3>1, <4>1, <4>2, <4>3
      <3>2. CASE k + 1 \notin t
        <4>1. t \in SUBSET (1 .. k) /\ (t # {} => t \ {Max(t)} \in SUBSET (1 .. k))
          BY <3>2, WithoutLargest
        <4>2. more[t] = it[t] /\ (t # {} => more[t \ {Max(t)}] = it[t \ {Max(t)}])
          BY <2>2, <4>1
        <4> QED
          BY <2>1, <4>1, <4>2
      <3> QED
        BY <3>1, <3>2
    <2> HIDE DEF more, Value
    <2> QED
      BY <2>3
  <1>4. n \in G
    <2> HIDE DEF G
    <2> QED
      BY <1>2, <1>3, CountUp
  <1>5. PICK it : \A t \in SUBSET (1 .. n) : it[t] = Value(it, t)
    BY <1>4
  <1>6. \E all : Folds(all)
    <2> DEFINE all == [t \in SUBSET (1 .. n) |-> it[t]]
    <2>1. \A t \in SUBSET (1 .. n) : t # {} => t \ {Max(t)} \in SUBSET (1 .. n)
      OBVIOUS
    <2>2. \A t \in SUBSET (1 .. n) : Value(it, t) = Value(all, t)
      BY <2>1
    <2>3. Folds(all)
      BY <1>5, <2>2
    <2> QED
      BY <2>3
  <1> DEFINE fold == CHOOSE all : Folds(all)
  <1>7. Folds(fold)
    BY <1>6
  <1> HIDE DEF fold
  <1>8. \A t \in SUBSET (1 .. n) : fold[t] = Value(fold, t)
    BY <1>7
  <1> DEFINE run == [i \in 0 .. n |-> fold[1 .. i]]
  <1>9. run[0] = acc
    <2>1. 1 .. 0 = {} /\ {} \in SUBSET (1 .. n) /\ 0 \in 0 .. n
      BY Segment
    <2>2. fold[{}] = acc
      BY <1>8, <2>1
    <2> QED
      BY <2>1, <2>2
  <1>10. ASSUME NEW i \in 1 .. n PROVE run[i] = StageStep(run[i - 1], steps[i], sources)
    <2>1. i \in Nat /\ i # 0 /\ 1 .. i \in SUBSET (1 .. n) /\ i - 1 \in 0 .. n /\ i \in 0 .. n
      OBVIOUS
    <2>2. Max(1 .. i) = i /\ (1 .. i) \ {i} = 1 .. i - 1 /\ 1 .. i # {}
      BY <2>1, Segment
    <2> QED
      BY <1>8, <2>1, <2>2
  <1>11. Stage(acc, steps, sources) = run[n]
    BY <1>1 DEF fold
  <1> QED
    BY <1>9, <1>10, <1>11 DEF StageRun

(* One entry of a batch, and the run of a batch. *)
StageEntry(acc, entry) == Stage(acc, RebasedSteps(entry), entry.sources)
BatchRun(run, n, acc, batch) ==
    /\ run[0] = acc
    /\ \A i \in 1 .. n : run[i] = StageEntry(run[i - 1], batch[i])

(* StageBatch is the last state of a run of its entries. *)
LEMMA BatchRuns ==
    ASSUME NEW acc, NEW batch, NEW n \in Nat, DOMAIN batch = 1 .. n
    PROVE  \E run : BatchRun(run, n, acc, batch) /\ StageBatch(acc, batch) = run[n]
  <1> DEFINE Value(it, t) == IF t = {} THEN acc
                             ELSE StageEntry(it[t \ {Max(t)}], batch[Max(t)])
             Folds(it) == it = [t \in SUBSET (1 .. n) |-> Value(it, t)]
             G == {k \in Nat : \E it : \A t \in SUBSET (1 .. k) : it[t] = Value(it, t)}
  <1>1. StageBatch(acc, batch) = (CHOOSE it : Folds(it))[1 .. n]
    BY DEF StageBatch, StageEntry, FoldLeft, MapThenFoldSet
  <1>2. 0 \in G
    <2> DEFINE it == [t \in SUBSET (1 .. 0) |-> acc]
    <2>1. \A t \in SUBSET (1 .. 0) : it[t] = Value(it, t)
      BY Segment
    <2> QED
      BY <2>1
  <1>3. ASSUME NEW k \in Nat, k \in G PROVE k + 1 \in G
    <2>1. PICK it : \A t \in SUBSET (1 .. k) : it[t] = Value(it, t)
      BY <1>3
    <2> DEFINE more == [t \in SUBSET (1 .. k + 1) |->
                          IF k + 1 \in t THEN StageEntry(it[t \ {k + 1}], batch[k + 1])
                          ELSE it[t]]
    <2>2. \A t \in SUBSET (1 .. k) : more[t] = it[t] /\ t \in SUBSET (1 .. k + 1)
      OBVIOUS
    <2>3. ASSUME NEW t \in SUBSET (1 .. k + 1) PROVE more[t] = Value(more, t)
      <3>1. CASE k + 1 \in t
        <4>1. Max(t) = k + 1 /\ t \ {k + 1} \in SUBSET (1 .. k)
          BY <3>1, WithoutLargest
        <4>2. more[t] = StageEntry(it[t \ {k + 1}], batch[k + 1])
          BY <3>1
        <4>3. more[t \ {k + 1}] = it[t \ {k + 1}]
          BY <2>2, <4>1
        <4> QED
          BY <3>1, <4>1, <4>2, <4>3
      <3>2. CASE k + 1 \notin t
        <4>1. t \in SUBSET (1 .. k) /\ (t # {} => t \ {Max(t)} \in SUBSET (1 .. k))
          BY <3>2, WithoutLargest
        <4>2. more[t] = it[t] /\ (t # {} => more[t \ {Max(t)}] = it[t \ {Max(t)}])
          BY <2>2, <4>1
        <4> QED
          BY <2>1, <4>1, <4>2
      <3> QED
        BY <3>1, <3>2
    <2> HIDE DEF more, Value
    <2> QED
      BY <2>3
  <1>4. n \in G
    <2> HIDE DEF G
    <2> QED
      BY <1>2, <1>3, CountUp
  <1>5. PICK it : \A t \in SUBSET (1 .. n) : it[t] = Value(it, t)
    BY <1>4
  <1>6. \E all : Folds(all)
    <2> DEFINE all == [t \in SUBSET (1 .. n) |-> it[t]]
    <2>1. \A t \in SUBSET (1 .. n) : t # {} => t \ {Max(t)} \in SUBSET (1 .. n)
      OBVIOUS
    <2>2. \A t \in SUBSET (1 .. n) : Value(it, t) = Value(all, t)
      BY <2>1
    <2>3. Folds(all)
      BY <1>5, <2>2
    <2> QED
      BY <2>3
  <1> DEFINE fold == CHOOSE all : Folds(all)
  <1>7. Folds(fold)
    BY <1>6
  <1> HIDE DEF fold
  <1>8. \A t \in SUBSET (1 .. n) : fold[t] = Value(fold, t)
    BY <1>7
  <1> DEFINE run == [i \in 0 .. n |-> fold[1 .. i]]
  <1>9. run[0] = acc
    <2>1. 1 .. 0 = {} /\ {} \in SUBSET (1 .. n) /\ 0 \in 0 .. n
      BY Segment
    <2>2. fold[{}] = acc
      BY <1>8, <2>1
    <2> QED
      BY <2>1, <2>2
  <1>10. ASSUME NEW i \in 1 .. n PROVE run[i] = StageEntry(run[i - 1], batch[i])
    <2>1. i \in Nat /\ i # 0 /\ 1 .. i \in SUBSET (1 .. n) /\ i - 1 \in 0 .. n /\ i \in 0 .. n
      OBVIOUS
    <2>2. Max(1 .. i) = i /\ (1 .. i) \ {i} = 1 .. i - 1 /\ 1 .. i # {}
      BY <2>1, Segment
    <2> QED
      BY <1>8, <2>1, <2>2
  <1>11. StageBatch(acc, batch) = run[n]
    BY <1>1 DEF fold
  <1> QED
    BY <1>9, <1>10, <1>11 DEF BatchRun

(* The steps of a batch, entry after entry. *)
ConcatEntry(steps, entry) == steps \o RebasedSteps(entry)
ConcatRun(run, n, batch) ==
    /\ run[0] = <<>>
    /\ \A i \in 1 .. n : run[i] = ConcatEntry(run[i - 1], batch[i])

(* BatchSteps is the last of these. *)
LEMMA StepsRun ==
    ASSUME NEW batch, NEW n \in Nat, DOMAIN batch = 1 .. n
    PROVE  \E run : ConcatRun(run, n, batch) /\ BatchSteps(batch) = run[n]
  <1> DEFINE Value(it, t) == IF t = {} THEN <<>>
                             ELSE ConcatEntry(it[t \ {Max(t)}], batch[Max(t)])
             Folds(it) == it = [t \in SUBSET (1 .. n) |-> Value(it, t)]
             G == {k \in Nat : \E it : \A t \in SUBSET (1 .. k) : it[t] = Value(it, t)}
  <1>1. BatchSteps(batch) = (CHOOSE it : Folds(it))[1 .. n]
    BY DEF BatchSteps, ConcatEntry, FoldLeft, MapThenFoldSet
  <1>2. 0 \in G
    <2> DEFINE it == [t \in SUBSET (1 .. 0) |-> <<>>]
    <2>1. \A t \in SUBSET (1 .. 0) : it[t] = Value(it, t)
      BY Segment
    <2> QED
      BY <2>1
  <1>3. ASSUME NEW k \in Nat, k \in G PROVE k + 1 \in G
    <2>1. PICK it : \A t \in SUBSET (1 .. k) : it[t] = Value(it, t)
      BY <1>3
    <2> DEFINE more == [t \in SUBSET (1 .. k + 1) |->
                          IF k + 1 \in t THEN ConcatEntry(it[t \ {k + 1}], batch[k + 1])
                          ELSE it[t]]
    <2>2. \A t \in SUBSET (1 .. k) : more[t] = it[t] /\ t \in SUBSET (1 .. k + 1)
      OBVIOUS
    <2>3. ASSUME NEW t \in SUBSET (1 .. k + 1) PROVE more[t] = Value(more, t)
      <3>1. CASE k + 1 \in t
        <4>1. Max(t) = k + 1 /\ t \ {k + 1} \in SUBSET (1 .. k)
          BY <3>1, WithoutLargest
        <4>2. more[t] = ConcatEntry(it[t \ {k + 1}], batch[k + 1])
          BY <3>1
        <4>3. more[t \ {k + 1}] = it[t \ {k + 1}]
          BY <2>2, <4>1
        <4> QED
          BY <3>1, <4>1, <4>2, <4>3
      <3>2. CASE k + 1 \notin t
        <4>1. t \in SUBSET (1 .. k) /\ (t # {} => t \ {Max(t)} \in SUBSET (1 .. k))
          BY <3>2, WithoutLargest
        <4>2. more[t] = it[t] /\ (t # {} => more[t \ {Max(t)}] = it[t \ {Max(t)}])
          BY <2>2, <4>1
        <4> QED
          BY <2>1, <4>1, <4>2
      <3> QED
        BY <3>1, <3>2
    <2> HIDE DEF more, Value
    <2> QED
      BY <2>3
  <1>4. n \in G
    <2> HIDE DEF G
    <2> QED
      BY <1>2, <1>3, CountUp
  <1>5. PICK it : \A t \in SUBSET (1 .. n) : it[t] = Value(it, t)
    BY <1>4
  <1>6. \E all : Folds(all)
    <2> DEFINE all == [t \in SUBSET (1 .. n) |-> it[t]]
    <2>1. \A t \in SUBSET (1 .. n) : t # {} => t \ {Max(t)} \in SUBSET (1 .. n)
      OBVIOUS
    <2>2. \A t \in SUBSET (1 .. n) : Value(it, t) = Value(all, t)
      BY <2>1
    <2>3. Folds(all)
      BY <1>5, <2>2
    <2> QED
      BY <2>3
  <1> DEFINE fold == CHOOSE all : Folds(all)
  <1>7. Folds(fold)
    BY <1>6
  <1> HIDE DEF fold
  <1>8. \A t \in SUBSET (1 .. n) : fold[t] = Value(fold, t)
    BY <1>7
  <1> DEFINE run == [i \in 0 .. n |-> fold[1 .. i]]
  <1>9. run[0] = <<>>
    <2>1. 1 .. 0 = {} /\ {} \in SUBSET (1 .. n) /\ 0 \in 0 .. n
      BY Segment
    <2>2. fold[{}] = <<>>
      BY <1>8, <2>1
    <2> QED
      BY <2>1, <2>2
  <1>10. ASSUME NEW i \in 1 .. n PROVE run[i] = ConcatEntry(run[i - 1], batch[i])
    <2>1. i \in Nat /\ i # 0 /\ 1 .. i \in SUBSET (1 .. n) /\ i - 1 \in 0 .. n /\ i \in 0 .. n
      OBVIOUS
    <2>2. Max(1 .. i) = i /\ (1 .. i) \ {i} = 1 .. i - 1 /\ 1 .. i # {}
      BY <2>1, Segment
    <2> QED
      BY <1>8, <2>1, <2>2
  <1>11. BatchSteps(batch) = run[n]
    BY <1>1 DEF fold
  <1> QED
    BY <1>9, <1>10, <1>11 DEF ConcatRun

-----------------------------------------------------------------------------
(* Staging and commit *)

StoreEntry == [version : Nat, content : Content]

(* The accumulator of a staging fold. *)
IsStaging(acc) == acc.ok \in BOOLEAN /\ acc = [ok |-> acc.ok, snapshots |-> acc.snapshots]

(* Every snapshot names a live buffer at its live version or above, and holds
   a tensor. *)
Stages(acc, live) ==
    \A s \in DOMAIN acc.snapshots :
        /\ s \in States /\ s.buffer \in DOMAIN live
        /\ s.version >= live[s.buffer].version
        /\ acc.snapshots[s] \in Content

(* What the validation of a plan leaves to be said about a step. *)
StepOk(step, sources) ==
    /\ step.target \in States /\ step.write \in States
    /\ step.write.buffer = step.target.buffer
    /\ step.write.version = step.target.version + 1
    /\ step.id \in DOMAIN sources => sources[step.id] \in Content

(* A step has been staged above what is live. *)
WriteOk(step, acc, live) ==
    /\ step.write \in DOMAIN acc.snapshots
    /\ step.write.version > live[step.write.buffer].version

(* One step of a staging. *)
LEMMA StepStages ==
    ASSUME NEW live, \A b \in DOMAIN live : live[b].version \in Nat,
           NEW acc, IsStaging(acc), Stages(acc, live),
           NEW sources, NEW step, StepOk(step, sources)
    PROVE  LET new == StageStep(acc, step, sources)
           IN  /\ IsStaging(new) /\ Stages(new, live)
               /\ DOMAIN acc.snapshots \subseteq DOMAIN new.snapshots
               /\ new.ok => acc.ok /\ WriteOk(step, new, live)
  <1> DEFINE sn == acc.snapshots
             new == StageStep(acc, step, sources)
  <1>1. CASE ~acc.ok \/ ~(Reads(step, sources) \subseteq DOMAIN sn)
    <2>1. new = [acc EXCEPT !.ok = FALSE]
      BY <1>1 DEF StageStep
    <2>2. new.ok = FALSE /\ new.snapshots = sn /\ new = [ok |-> new.ok, snapshots |-> new.snapshots]
      BY <2>1 DEF IsStaging
    <2> QED
      BY <2>2 DEF IsStaging, Stages
  <1>2. CASE acc.ok /\ Reads(step, sources) \subseteq DOMAIN sn
    <2> DEFINE source == IF step.id \in DOMAIN sources THEN sources[step.id] ELSE sn[step.source]
               candidate == Assigned(sn[step.target], source, step.region)
               grown == [s \in DOMAIN sn \cup {step.write} |->
                           IF s = step.write THEN candidate ELSE sn[s]]
    <2>1. new = [acc EXCEPT !.snapshots = grown]
      BY <1>2 DEF StageStep
    <2>2. new.ok = acc.ok /\ new.snapshots = grown
          /\ new = [ok |-> new.ok, snapshots |-> new.snapshots]
      BY <2>1 DEF IsStaging
    <2>3. step.target \in DOMAIN sn /\ source \in Content
      BY <1>2 DEF Reads, StepOk, Stages
    <2>4. candidate \in Content
      <3>1. sn[step.target] \in Content
        BY <2>3 DEF Stages
      <3> HIDE DEF source
      <3> QED
        BY <2>3, <3>1 DEF Assigned, Content
    <2>5. /\ step.write \in States /\ step.write.buffer \in DOMAIN live
          /\ step.write.version > live[step.write.buffer].version
      <3>1. step.target \in States /\ step.write \in States /\ step.target.buffer \in DOMAIN live
            /\ step.target.version >= live[step.target.buffer].version
        BY <2>3 DEF StepOk, Stages
      <3>2. step.write.buffer = step.target.buffer /\ step.write.version = step.target.version + 1
        BY DEF StepOk
      <3>3. step.target.version \in Nat /\ live[step.target.buffer].version \in Nat
        BY <3>1 DEF States
      <3> QED
        BY <3>1, <3>2, <3>3
    <2>6. step.write.version >= live[step.write.buffer].version
      BY <2>5 DEF States
    <2> HIDE DEF candidate, source
    <2>7. Stages(new, live)
      <3> SUFFICES ASSUME NEW s \in DOMAIN grown
                   PROVE  /\ s \in States /\ s.buffer \in DOMAIN live
                          /\ s.version >= live[s.buffer].version
                          /\ grown[s] \in Content
        BY <2>2 DEF Stages
      <3>1. CASE s = step.write
        BY <2>4, <2>5, <2>6, <3>1
      <3>2. CASE s # step.write
        BY <3>2 DEF Stages
      <3> QED
        BY <3>1, <3>2
    <2> QED
      BY <1>2, <2>2, <2>5, <2>7 DEF IsStaging, WriteOk
  <1> QED
    BY <1>1, <1>2 DEF IsStaging

(* A whole staging: what was there stays, and if it succeeds every write of a
   step is there too. *)
LEMMA StageStages ==
    ASSUME NEW live, \A b \in DOMAIN live : live[b].version \in Nat,
           NEW acc, IsStaging(acc), Stages(acc, live),
           NEW sources, NEW steps, NEW n \in Nat, DOMAIN steps = 1 .. n,
           \A i \in 1 .. n : StepOk(steps[i], sources)
    PROVE  LET new == Stage(acc, steps, sources)
           IN  /\ IsStaging(new) /\ Stages(new, live)
               /\ DOMAIN acc.snapshots \subseteq DOMAIN new.snapshots
               /\ new.ok => acc.ok /\ \A i \in 1 .. n : WriteOk(steps[i], new, live)
  <1>1. PICK run : StageRun(run, n, acc, steps, sources) /\ Stage(acc, steps, sources) = run[n]
    BY StageRuns
  <1> DEFINE Good(k) ==
               /\ IsStaging(run[k]) /\ Stages(run[k], live)
               /\ DOMAIN acc.snapshots \subseteq DOMAIN run[k].snapshots
               /\ run[k].ok => acc.ok /\ \A i \in 1 .. k : WriteOk(steps[i], run[k], live)
             G == {k \in Nat : k <= n => Good(k)}
  <1>2. 0 \in G
    <2>1. Good(0)
      BY <1>1 DEF StageRun
    <2> QED
      BY <2>1
  <1>3. ASSUME NEW k \in Nat, k \in G PROVE k + 1 \in G
    <2> SUFFICES ASSUME k + 1 <= n PROVE Good(k + 1)
      OBVIOUS
    <2>1. Good(k)
      BY <1>3
    <2>2. run[k + 1] = StageStep(run[k], steps[k + 1], sources) /\ StepOk(steps[k + 1], sources)
      <3>1. k + 1 \in 1 .. n /\ (k + 1) - 1 = k
        OBVIOUS
      <3> QED
        BY <1>1, <3>1 DEF StageRun
    <2>3. /\ IsStaging(run[k + 1]) /\ Stages(run[k + 1], live)
          /\ DOMAIN run[k].snapshots \subseteq DOMAIN run[k + 1].snapshots
          /\ run[k + 1].ok => run[k].ok /\ WriteOk(steps[k + 1], run[k + 1], live)
      BY <2>1, <2>2, StepStages
    <2>4. ASSUME run[k + 1].ok, NEW i \in 1 .. k + 1 PROVE WriteOk(steps[i], run[k + 1], live)
      <3>1. CASE i = k + 1
        BY <2>3, <2>4, <3>1
      <3>2. CASE i # k + 1
        <4>1. i \in 1 .. k
          BY <3>2
        <4> QED
          BY <2>1, <2>3, <2>4, <4>1 DEF WriteOk
      <3> QED
        BY <3>1, <3>2
    <2> QED
      BY <2>1, <2>3, <2>4
  <1>4. n \in G
    <2> HIDE DEF G
    <2> QED
      BY <1>2, <1>3, CountUp
  <1> QED
    BY <1>1, <1>4

(* The last state written to a buffer is written by one of the steps. *)
LEMMA FinalIsWritten ==
    ASSUME NEW steps, NEW n \in Nat, DOMAIN steps = 1 .. n, NEW b \in Written(steps)
    PROVE  \E i \in 1 .. n : FinalState(steps, b) = steps[i].write /\ steps[i].write.buffer = b
  <1> DEFINE S == {i \in DOMAIN steps : steps[i].write.buffer = b}
  <1>1. S \in SUBSET (1 .. n) /\ S # {}
    BY DEF Written
  <1>2. Max(S) \in S
    BY <1>1, LargestPosition
  <1>3. FinalState(steps, b) = steps[Max(S)].write
    BY DEF FinalState
  <1> HIDE DEF S
  <1>4. Max(S) \in 1 .. n /\ steps[Max(S)].write.buffer = b
    BY <1>2 DEF S
  <1> QED
    BY <1>3, <1>4

(* What a commit makes of a store: the buffers written are at higher versions
   and hold tensors, the others are as they were. *)
Follows(live, new, written) ==
    /\ new \in [DOMAIN live -> StoreEntry]
    /\ \A b \in DOMAIN live :
         IF b \in written THEN new[b].version > live[b].version ELSE new[b] = live[b]

(* The commit of steps that have been staged. *)
LEMMA CommitFollows ==
    ASSUME NEW live, live \in [DOMAIN live -> StoreEntry],
           NEW acc, Stages(acc, live),
           NEW steps, NEW n \in Nat, DOMAIN steps = 1 .. n,
           \A i \in 1 .. n : WriteOk(steps[i], acc, live)
    PROVE  Follows(live, Committed(live, steps, acc.snapshots), Written(steps))
  <1> DEFINE new == Committed(live, steps, acc.snapshots)
  <1>1. ASSUME NEW b \in DOMAIN live, b \in Written(steps)
        PROVE  new[b] \in StoreEntry /\ new[b].version > live[b].version
    <2>1. PICK i \in 1 .. n : FinalState(steps, b) = steps[i].write /\ steps[i].write.buffer = b
      BY <1>1, FinalIsWritten
    <2>2. new[b] = [version |-> steps[i].write.version, content |-> acc.snapshots[steps[i].write]]
      BY <1>1, <2>1 DEF Committed
    <2>3. /\ steps[i].write \in DOMAIN acc.snapshots
          /\ steps[i].write.version > live[b].version
      BY <2>1 DEF WriteOk
    <2>4. steps[i].write.version \in Nat /\ acc.snapshots[steps[i].write] \in Content
      BY <2>3 DEF Stages, States
    <2> QED
      BY <2>2, <2>3, <2>4 DEF StoreEntry
  <1>2. ASSUME NEW b \in DOMAIN live, b \notin Written(steps)
        PROVE  new[b] = live[b]
    BY <1>2 DEF Committed
  <1>3. new = [b \in DOMAIN live |-> new[b]]
    BY DEF Committed
  <1> HIDE DEF new
  <1>4. new \in [DOMAIN live -> StoreEntry]
    BY <1>1, <1>2, <1>3
  <1>5. Follows(live, new, Written(steps))
    BY <1>1, <1>2, <1>4 DEF Follows
  <1> QED
    BY <1>5 DEF new

(* The live states themselves are staged. *)
LEMMA SnapshotsStage ==
    ASSUME NEW live, live \in [DOMAIN live -> StoreEntry], DOMAIN live \subseteq Buffers
    PROVE  IsStaging(Staging(Snapshots(live))) /\ Stages(Staging(Snapshots(live)), live)
  <1>1. IsStaging(Staging(Snapshots(live)))
    BY DEF IsStaging, Staging
  <1>2. ASSUME NEW s \in DOMAIN Snapshots(live)
        PROVE  /\ s \in States /\ s.buffer \in DOMAIN live
               /\ s.version >= live[s.buffer].version
               /\ Snapshots(live)[s] \in Content
    <2>1. PICK b \in DOMAIN live : s = State(b, live[b].version)
      BY <1>2 DEF Snapshots
    <2>2. s.buffer = b /\ s.version = live[b].version
      BY <2>1 DEF State
    <2>3. live[b] \in StoreEntry /\ b \in Buffers
      OBVIOUS
    <2>4. Snapshots(live)[s] = live[s.buffer].content
      BY <1>2 DEF Snapshots
    <2>5. s \in States
      BY <2>1, <2>3 DEF State, States, StoreEntry
    <2> QED
      BY <2>2, <2>3, <2>4, <2>5 DEF StoreEntry
  <1> QED
    BY <1>1, <1>2 DEF Stages, Staging

-----------------------------------------------------------------------------
(* Plans and batches *)

(* The contents that a pure schedule computed are tensors. *)
SourcesOk(plan, sources) ==
    \A i \in DOMAIN plan : plan[i].id \in DOMAIN sources => sources[plan[i].id] \in Content

(* A plan that executes moves what it writes and nothing else. *)
LEMMA PlanFollows ==
    ASSUME NEW live, live \in [DOMAIN live -> StoreEntry], DOMAIN live \subseteq Buffers,
           NEW plan \in Seq(Steps), NEW sources, SourcesOk(plan, sources),
           PlanOutcome(live, plan, sources).ok
    PROVE  /\ Follows(live, PlanOutcome(live, plan, sources).live, Written(plan))
           /\ Written(plan) \subseteq DOMAIN live
  <1> DEFINE n == Len(plan)
             staged == Stage(Staging(Snapshots(live)), plan, sources)
             good == Validate(plan) /\ Written(plan) \subseteq DOMAIN live /\ staged.ok
  <1>1. PlanOutcome(live, plan, sources) =
          IF good THEN [ok |-> TRUE, live |-> Committed(live, plan, staged.snapshots)]
          ELSE [ok |-> FALSE, live |-> live]
    BY DEF PlanOutcome, Refused
  <1>2. n \in Nat /\ DOMAIN plan = 1 .. n
    OBVIOUS
  <1> HIDE DEF n, good
  <1>3. good /\ PlanOutcome(live, plan, sources).live = Committed(live, plan, staged.snapshots)
    BY <1>1
  <1>4. \A i \in 1 .. n : StepOk(plan[i], sources)
    <2> TAKE i \in 1 .. n
    <2>1. ValidateStep(plan, i) /\ plan[i] \in Steps
      BY <1>2, <1>3 DEF good, Validate, n
    <2> QED
      BY <1>2, <2>1 DEF ValidateStep, StepOk, SourcesOk, Steps, States
  <1>5. \A b \in DOMAIN live : live[b].version \in Nat
    BY DEF StoreEntry
  <1>6. Stages(staged, live) /\ \A i \in 1 .. n : WriteOk(plan[i], staged, live)
    BY <1>2, <1>3, <1>4, <1>5, SnapshotsStage, StageStages DEF good
  <1> HIDE DEF staged
  <1> QED
    BY <1>2, <1>3, <1>6, CommitFollows DEF good

(* What an entry of a batch is. *)
EntryOk(entry) ==
    /\ entry.plan \in Seq(Steps)
    /\ \A b \in DOMAIN entry.starts : b \in Buffers /\ entry.starts[b] \in Nat
    /\ SourcesOk(entry.plan, entry.sources)

(* A step of a plan, rebased. *)
LEMMA RebasedStep ==
    ASSUME NEW entry, EntryOk(entry), NEW i \in DOMAIN entry.plan
    PROVE  LET step == entry.plan[i]
               new == RebasedSteps(entry)[i]
           IN  /\ new.id = step.id /\ new.region = step.region
               /\ new.target = Rebase(step.target, entry.starts)
               /\ new.source = Rebase(step.source, entry.starts)
               /\ new.write = Rebase(step.write, entry.starts)
               /\ step \in Steps
  <1>1. entry.plan[i] \in Steps
    BY DEF EntryOk
  <1>2. RebasedSteps(entry)[i] = RebaseStep(entry.plan[i], entry.starts)
    BY DEF RebasedSteps
  <1> QED
    BY <1>1, <1>2 DEF RebaseStep, Steps

(* The rebased steps of a valid plan. *)
LEMMA RebasedOk ==
    ASSUME NEW entry, EntryOk(entry), Validate(entry.plan),
           Named(entry) \subseteq DOMAIN entry.starts
    PROVE  /\ DOMAIN RebasedSteps(entry) = 1 .. Len(entry.plan)
           /\ \A i \in 1 .. Len(entry.plan) :
                StepOk(RebasedSteps(entry)[i], entry.sources)
           /\ Written(RebasedSteps(entry)) = Written(entry.plan)
  <1> DEFINE plan == entry.plan
  <1>1. plan \in Seq(Steps) /\ DOMAIN plan = 1 .. Len(plan)
    BY DEF EntryOk
  <1>2. DOMAIN RebasedSteps(entry) = DOMAIN plan
    BY DEF RebasedSteps
  <1>3. ASSUME NEW i \in DOMAIN plan
        PROVE  /\ StepOk(RebasedSteps(entry)[i], entry.sources)
               /\ RebasedSteps(entry)[i].write.buffer = plan[i].write.buffer
    <2> DEFINE step == plan[i]
               new == RebasedSteps(entry)[i]
               at == entry.starts
    <2>1. /\ new.id = step.id /\ new.target = Rebase(step.target, at)
          /\ new.write = Rebase(step.write, at) /\ step \in Steps
      BY RebasedStep
    <2>2. ValidateStep(plan, i)
      BY <1>1 DEF Validate
    <2>3. step.target.buffer = step.write.buffer /\ step.write.version = step.target.version + 1
      BY <2>2 DEF ValidateStep
    <2>4. step.write.buffer \in DOMAIN at
      BY DEF Named, Written
    <2>5. at[step.write.buffer] \in Nat /\ step.target.version \in Nat /\ step.write.buffer \in Buffers
      BY <2>1, <2>4 DEF EntryOk, Steps, States
    <2>6. /\ new.target = [buffer |-> step.write.buffer,
                           version |-> at[step.write.buffer] + step.target.version]
          /\ new.write = [buffer |-> step.write.buffer,
                          version |-> at[step.write.buffer] + step.target.version + 1]
      <3> HIDE DEF new, step, at
      <3> QED
        BY <2>1, <2>3, <2>5 DEF Rebase, State
    <2>7. new.id \in DOMAIN entry.sources => entry.sources[new.id] \in Content
      BY <2>1 DEF EntryOk, SourcesOk
    <2> HIDE DEF new, step, at
    <2>8. StepOk(new, entry.sources) /\ new.write.buffer = step.write.buffer
      BY <2>5, <2>6, <2>7 DEF StepOk, States
    <2> QED
      BY <2>8 DEF new, step
  <1>4. Written(RebasedSteps(entry)) = Written(plan)
    BY <1>2, <1>3 DEF Written
  <1> QED
    BY <1>1, <1>2, <1>3, <1>4

(* What the checks of a batch establish about an entry. *)
EntryValid(entry) ==
    EntryOk(entry) /\ Validate(entry.plan) /\ Named(entry) \subseteq DOMAIN entry.starts

(* The staging of a batch. *)
LEMMA BatchStages ==
    ASSUME NEW live, \A b \in DOMAIN live : live[b].version \in Nat,
           NEW acc, IsStaging(acc), Stages(acc, live),
           NEW batch, NEW n \in Nat, DOMAIN batch = 1 .. n,
           \A i \in 1 .. n : EntryValid(batch[i])
    PROVE  LET new == StageBatch(acc, batch)
           IN  /\ IsStaging(new) /\ Stages(new, live)
               /\ new.ok => \A i \in 1 .. n : \A j \in DOMAIN batch[i].plan :
                              WriteOk(RebasedSteps(batch[i])[j], new, live)
  <1>1. PICK run : BatchRun(run, n, acc, batch) /\ StageBatch(acc, batch) = run[n]
    BY BatchRuns
  <1> DEFINE Done(k, i) == \A j \in DOMAIN batch[i].plan :
                             WriteOk(RebasedSteps(batch[i])[j], run[k], live)
             Good(k) == /\ IsStaging(run[k]) /\ Stages(run[k], live)
                        /\ run[k].ok => \A i \in 1 .. k : Done(k, i)
             G == {k \in Nat : k <= n => Good(k)}
  <1>2. 0 \in G
    <2>1. run[0] = acc
      BY <1>1 DEF BatchRun
    <2>2. Good(0)
      BY <2>1
    <2> QED
      BY <2>2
  <1>3. ASSUME NEW k \in Nat, k \in G PROVE k + 1 \in G
    <2> SUFFICES ASSUME k + 1 <= n PROVE Good(k + 1)
      OBVIOUS
    <2>1. Good(k)
      BY <1>3
    <2> DEFINE entry == batch[k + 1]
    <2>2. k + 1 \in 1 .. n /\ (k + 1) - 1 = k
      OBVIOUS
    <2>3. /\ run[k + 1] = Stage(run[k], RebasedSteps(entry), entry.sources)
          /\ EntryValid(entry)
      BY <1>1, <2>2 DEF BatchRun, StageEntry
    <2> HIDE DEF entry
    <2>4. /\ Len(entry.plan) \in Nat /\ DOMAIN entry.plan = 1 .. Len(entry.plan)
          /\ DOMAIN RebasedSteps(entry) = 1 .. Len(entry.plan)
          /\ \A j \in 1 .. Len(entry.plan) : StepOk(RebasedSteps(entry)[j], entry.sources)
      BY <2>3, RebasedOk DEF EntryValid, EntryOk
    <2>5. /\ IsStaging(run[k + 1]) /\ Stages(run[k + 1], live)
          /\ DOMAIN run[k].snapshots \subseteq DOMAIN run[k + 1].snapshots
          /\ run[k + 1].ok => /\ run[k].ok
                              /\ \A j \in 1 .. Len(entry.plan) :
                                   WriteOk(RebasedSteps(entry)[j], run[k + 1], live)
      BY <2>1, <2>3, <2>4, StageStages
    <2>6. ASSUME run[k + 1].ok, NEW i \in 1 .. k + 1 PROVE Done(k + 1, i)
      <3>1. CASE i = k + 1
        BY <2>4, <2>5, <2>6, <3>1 DEF entry
      <3>2. CASE i # k + 1
        <4>1. i \in 1 .. k
          BY <3>2
        <4>2. Done(k, i)
          BY <2>1, <2>5, <2>6, <4>1
        <4> QED
          BY <2>5, <4>2 DEF WriteOk
      <3> QED
        BY <3>1, <3>2
    <2> QED
      BY <2>5, <2>6
  <1>4. n \in G
    <2> HIDE DEF G
    <2> QED
      BY <1>2, <1>3, CountUp
  <1> QED
    BY <1>1, <1>4

(* The elements of a sequence, and of two of them one after the other. *)
Items(s) == {s[k] : k \in DOMAIN s}

LEMMA ConcatItems ==
    ASSUME NEW X, NEW s \in Seq(X), NEW t \in Seq(X)
    PROVE  s \o t \in Seq(X) /\ Items(s \o t) = Items(s) \cup Items(t)
  <1> DEFINE both == s \o t
  <1>1. /\ both \in Seq(X) /\ Len(both) = Len(s) + Len(t) /\ Len(s) \in Nat /\ Len(t) \in Nat
        /\ DOMAIN both = 1 .. Len(s) + Len(t) /\ DOMAIN s = 1 .. Len(s) /\ DOMAIN t = 1 .. Len(t)
        /\ \A i \in 1 .. Len(s) : both[i] = s[i]
        /\ \A i \in 1 .. Len(t) : both[Len(s) + i] = t[i]
    OBVIOUS
  <1> HIDE DEF both
  <1>2. ASSUME NEW i \in 1 .. Len(s) + Len(t) PROVE both[i] \in Items(s) \cup Items(t)
    <2>1. CASE i <= Len(s)
      BY <1>1, <2>1 DEF Items
    <2>2. CASE i > Len(s)
      <3>1. i - Len(s) \in 1 .. Len(t) /\ Len(s) + (i - Len(s)) = i
        BY <1>1, <2>2
      <3> QED
        BY <1>1, <3>1 DEF Items
    <2> QED
      BY <1>1, <2>1, <2>2
  <1>3. ASSUME NEW i \in 1 .. Len(s) PROVE s[i] \in Items(both)
    <2>1. i \in 1 .. Len(s) + Len(t)
      BY <1>1
    <2> QED
      BY <1>1, <2>1 DEF Items
  <1>4. ASSUME NEW i \in 1 .. Len(t) PROVE t[i] \in Items(both)
    <2>1. Len(s) + i \in 1 .. Len(s) + Len(t)
      BY <1>1
    <2> QED
      BY <1>1, <2>1 DEF Items
  <1>5. Items(both) = Items(s) \cup Items(t)
    BY <1>1, <1>2, <1>3, <1>4 DEF Items
  <1> QED
    BY <1>1, <1>5 DEF both

(* The steps of a batch are those of its entries. *)
LEMMA BatchStepsAre ==
    ASSUME NEW batch, NEW n \in Nat, DOMAIN batch = 1 .. n,
           \A i \in 1 .. n : EntryValid(batch[i])
    PROVE  LET steps == BatchSteps(batch)
           IN  /\ Len(steps) \in Nat /\ DOMAIN steps = 1 .. Len(steps)
               /\ \A k \in DOMAIN steps : \E i \in 1 .. n : \E j \in DOMAIN batch[i].plan :
                    steps[k] = RebasedSteps(batch[i])[j]
               /\ \A i \in 1 .. n : \A j \in DOMAIN batch[i].plan : \E k \in DOMAIN steps :
                    steps[k] = RebasedSteps(batch[i])[j]
  <1> DEFINE Of(i) == {RebasedSteps(batch[i])[j] : j \in DOMAIN batch[i].plan}
             X == UNION {Of(i) : i \in 1 .. n}
  <1>1. PICK run : ConcatRun(run, n, batch) /\ BatchSteps(batch) = run[n]
    BY StepsRun
  <1>2. ASSUME NEW i \in 1 .. n
        PROVE  /\ RebasedSteps(batch[i]) \in Seq(X) /\ DOMAIN RebasedSteps(batch[i]) = DOMAIN batch[i].plan
    <2>1. /\ DOMAIN RebasedSteps(batch[i]) = DOMAIN batch[i].plan
          /\ DOMAIN RebasedSteps(batch[i]) = 1 .. Len(batch[i].plan) /\ Len(batch[i].plan) \in Nat
      BY RebasedOk DEF EntryValid, EntryOk
    <2>2. RebasedSteps(batch[i]) = [j \in 1 .. Len(batch[i].plan) |-> RebasedSteps(batch[i])[j]]
      BY <2>1 DEF RebasedSteps
    <2>3. \A j \in 1 .. Len(batch[i].plan) : RebasedSteps(batch[i])[j] \in X
      <3>1. \A j \in DOMAIN batch[i].plan : RebasedSteps(batch[i])[j] \in Of(i)
        OBVIOUS
      <3>2. Of(i) \subseteq X
        <4> HIDE DEF Of
        <4> QED
          OBVIOUS
      <3> QED
        BY <2>1, <3>1, <3>2
    <2> HIDE DEF X
    <2> QED
      BY <2>1, <2>2, <2>3
  <1> DEFINE Good(k) == /\ run[k] \in Seq(X)
                        /\ \A x : x \in Items(run[k]) <=> \E i \in 1 .. k : x \in Of(i)
             G == {k \in Nat : k <= n => Good(k)}
  <1>3. Good(0)
    <2>1. run[0] = <<>> /\ DOMAIN <<>> = {}
      BY <1>1 DEF ConcatRun
    <2>2. 1 .. 0 = {}
      BY Segment
    <2>3. Items(run[0]) = {}
      BY <2>1 DEF Items
    <2>4. run[0] \in Seq(X)
      BY <2>1
    <2> QED
      BY <2>2, <2>3, <2>4
  <1>4. ASSUME NEW k \in Nat, Good(k), k + 1 <= n PROVE Good(k + 1)
    <2> DEFINE more == RebasedSteps(batch[k + 1])
    <2>1. k + 1 \in 1 .. n /\ (k + 1) - 1 = k /\ 1 .. k + 1 = (1 .. k) \cup {k + 1}
      BY <1>4
    <2>2. run[k + 1] = run[k] \o more /\ more \in Seq(X) /\ Items(more) = Of(k + 1)
      BY <1>1, <1>2, <2>1 DEF ConcatRun, ConcatEntry, Items
    <2> HIDE DEF X, Of, more
    <2>3. \A x : (\E i \in 1 .. k + 1 : x \in Of(i)) <=> (\E i \in 1 .. k : x \in Of(i)) \/ x \in Of(k + 1)
      BY <2>1
    <2>4. run[k + 1] \in Seq(X) /\ Items(run[k + 1]) = Items(run[k]) \cup Items(more)
      BY <1>4, <2>2, ConcatItems
    <2> QED
      BY <1>4, <2>2, <2>3, <2>4
  <1> HIDE DEF Good
  <1>5. Good(n)
    <2>1. 0 \in G
      BY <1>3
    <2>2. \A k \in Nat : k \in G => k + 1 \in G
      BY <1>4
    <2>3. n \in G
      <3> HIDE DEF G
      <3> QED
        BY <2>1, <2>2, CountUp
    <2> QED
      BY <2>3
  <1>6. BatchSteps(batch) \in Seq(X) /\ Items(BatchSteps(batch)) = X
    BY <1>1, <1>5 DEF Good
  <1> DEFINE steps == BatchSteps(batch)
  <1>7. Len(steps) \in Nat /\ DOMAIN steps = 1 .. Len(steps)
    <2> HIDE DEF X, steps
    <2> QED
      BY <1>6 DEF steps
  <1> HIDE DEF steps
  <1>8. ASSUME NEW k \in DOMAIN steps
        PROVE  \E i \in 1 .. n : \E j \in DOMAIN batch[i].plan : steps[k] = RebasedSteps(batch[i])[j]
    <2>1. steps[k] \in X
      BY <1>6 DEF Items, steps
    <2> QED
      BY <2>1
  <1>9. ASSUME NEW i \in 1 .. n, NEW j \in DOMAIN batch[i].plan
        PROVE  \E k \in DOMAIN steps : steps[k] = RebasedSteps(batch[i])[j]
    <2>1. RebasedSteps(batch[i])[j] \in X
      OBVIOUS
    <2>2. RebasedSteps(batch[i])[j] \in Items(steps)
      BY <1>6, <2>1 DEF steps
    <2> QED
      BY <2>2 DEF Items
  <1> QED
    BY <1>7, <1>8, <1>9 DEF steps

(* The states a batch starts from are staged. *)
LEMMA BatchSnapshotsStage ==
    ASSUME NEW live, live \in [DOMAIN live -> StoreEntry], DOMAIN live \subseteq Buffers,
           NEW batch, \A i \in DOMAIN batch : StartsLive(live, batch, i)
    PROVE  LET acc == Staging(BatchSnapshots(live, batch))
           IN  IsStaging(acc) /\ Stages(acc, live)
  <1> DEFINE acc == Staging(BatchSnapshots(live, batch))
             sn == BatchSnapshots(live, batch)
  <1>1. acc.ok = TRUE /\ acc.snapshots = sn /\ acc = [ok |-> acc.ok, snapshots |-> acc.snapshots]
    BY DEF Staging
  <1>2. ASSUME NEW s \in DOMAIN sn
        PROVE  /\ s \in States /\ s.buffer \in DOMAIN live
               /\ s.version >= live[s.buffer].version
               /\ sn[s] \in Content
    <2>1. PICK i \in DOMAIN batch : \E b \in Checked(batch[i]) :
            ProducersBefore(batch, i, b) = {} /\ s = State(b, batch[i].starts[b])
      BY <1>2 DEF BatchSnapshots
    <2>2. PICK b \in Checked(batch[i]) :
            ProducersBefore(batch, i, b) = {} /\ s = State(b, batch[i].starts[b])
      BY <2>1
    <2>3. b \in DOMAIN live /\ live[b].version = batch[i].starts[b]
      BY <2>2 DEF StartsLive
    <2>4. s = [buffer |-> b, version |-> live[b].version]
      BY <2>2, <2>3 DEF State
    <2>5. sn[s] = live[s.buffer].content
      BY <1>2 DEF BatchSnapshots
    <2>6. live[b] \in StoreEntry /\ b \in Buffers
      BY <2>3
    <2> QED
      BY <2>3, <2>4, <2>5, <2>6 DEF StoreEntry, States
  <1> HIDE DEF sn, acc
  <1>3. IsStaging(acc) /\ Stages(acc, live)
    BY <1>1, <1>2 DEF IsStaging, Stages
  <1> QED
    BY <1>3 DEF acc

(* A batch that executes moves what it writes and nothing else. *)
LEMMA BatchFollows ==
    ASSUME NEW live, live \in [DOMAIN live -> StoreEntry], DOMAIN live \subseteq Buffers,
           NEW batch, NEW n \in Nat, DOMAIN batch = 1 .. n,
           \A i \in 1 .. n : EntryOk(batch[i]),
           BatchOutcome(live, batch).ok
    PROVE  /\ Follows(live, BatchOutcome(live, batch).live, BatchWritten(batch))
           /\ BatchWritten(batch) \subseteq DOMAIN live
           /\ \A i \in 1 .. n : EntryValid(batch[i])
           /\ \E sn : BatchOutcome(live, batch).live = Committed(live, BatchSteps(batch), sn)
  <1> DEFINE start == Staging(BatchSnapshots(live, batch))
             staged == StageBatch(start, batch)
             steps == BatchSteps(batch)
  <1>1. BatchOutcome(live, batch) =
          IF BatchOk(live, batch) /\ staged.ok
          THEN [ok |-> TRUE, live |-> Committed(live, steps, staged.snapshots)]
          ELSE [ok |-> FALSE, live |-> live]
    BY DEF BatchOutcome, Refused
  <1>2. /\ BatchOk(live, batch) /\ staged.ok
        /\ BatchOutcome(live, batch).live = Committed(live, steps, staged.snapshots)
    BY <1>1
  <1>3. \A i \in 1 .. n : EntryValid(batch[i]) /\ StartsLive(live, batch, i)
                          /\ Written(batch[i].plan) \subseteq DOMAIN live
    BY <1>2 DEF BatchOk, RebaseOk, EntryValid
  <1>4. IsStaging(start) /\ Stages(start, live)
    BY <1>3, BatchSnapshotsStage
  <1>5. \A b \in DOMAIN live : live[b].version \in Nat
    BY DEF StoreEntry
  <1> HIDE DEF start, staged
  <1>6. Stages(staged, live)
        /\ \A i \in 1 .. n : \A j \in DOMAIN batch[i].plan : WriteOk(RebasedSteps(batch[i])[j], staged, live)
    BY <1>2, <1>3, <1>4, <1>5, BatchStages DEF staged
  <1>7. /\ Len(steps) \in Nat /\ DOMAIN steps = 1 .. Len(steps)
        /\ \A k \in DOMAIN steps : \E i \in 1 .. n : \E j \in DOMAIN batch[i].plan :
             steps[k] = RebasedSteps(batch[i])[j]
        /\ \A i \in 1 .. n : \A j \in DOMAIN batch[i].plan : \E k \in DOMAIN steps :
             steps[k] = RebasedSteps(batch[i])[j]
    BY <1>3, BatchStepsAre
  <1> HIDE DEF steps
  <1>8. \A k \in DOMAIN steps : WriteOk(steps[k], staged, live)
    BY <1>6, <1>7
  <1>9. Follows(live, Committed(live, steps, staged.snapshots), Written(steps))
    BY <1>6, <1>7, <1>8, CommitFollows
  <1>10. Written(steps) = BatchWritten(batch)
    <2>1. \A i \in 1 .. n : \A j \in DOMAIN batch[i].plan :
            RebasedSteps(batch[i])[j].write.buffer = batch[i].plan[j].write.buffer
      <3> TAKE i \in 1 .. n
      <3> TAKE j \in DOMAIN batch[i].plan
      <3>1. RebasedSteps(batch[i])[j].write = Rebase(batch[i].plan[j].write, batch[i].starts)
        BY RebasedStep
      <3> QED
        BY <3>1 DEF Rebase, State
    <2>2. ASSUME NEW b \in Written(steps) PROVE b \in BatchWritten(batch)
      <3>1. PICK k \in DOMAIN steps : b = steps[k].write.buffer
        BY <2>2 DEF Written
      <3>2. PICK i \in 1 .. n : \E j \in DOMAIN batch[i].plan : steps[k] = RebasedSteps(batch[i])[j]
        BY <1>7
      <3>3. b \in Written(batch[i].plan)
        BY <2>1, <3>1, <3>2 DEF Written
      <3> QED
        BY <3>3 DEF BatchWritten
    <2>3. ASSUME NEW b \in BatchWritten(batch) PROVE b \in Written(steps)
      <3>1. PICK i \in 1 .. n : b \in Written(batch[i].plan)
        BY <2>3 DEF BatchWritten
      <3>2. PICK j \in DOMAIN batch[i].plan : b = batch[i].plan[j].write.buffer
        BY <3>1 DEF Written
      <3>3. PICK k \in DOMAIN steps : steps[k] = RebasedSteps(batch[i])[j]
        BY <1>7
      <3> QED
        BY <2>1, <3>2, <3>3 DEF Written
    <2> QED
      BY <2>2, <2>3
  <1>11. BatchWritten(batch) \subseteq DOMAIN live
    BY <1>3 DEF BatchWritten
  <1> QED
    BY <1>2, <1>3, <1>9, <1>10, <1>11 DEF steps

(* The steps of a batch of one entry. *)
LEMMA OneEntrySteps ==
    ASSUME NEW entry, EntryValid(entry)
    PROVE  BatchSteps(<<entry>>) = RebasedSteps(entry)
  <1> DEFINE batch == <<entry>>
  <1>1. DOMAIN batch = 1 .. 1 /\ batch[1] = entry /\ 1 \in Nat
    OBVIOUS
  <1> HIDE DEF batch
  <1>2. PICK run : ConcatRun(run, 1, batch) /\ BatchSteps(batch) = run[1]
    BY <1>1, StepsRun
  <1>3. run[0] = <<>> /\ run[1] = ConcatEntry(run[0], entry)
    <2>1. 1 - 1 = 0 /\ 1 \in 1 .. 1
      OBVIOUS
    <2>2. run[0] = <<>> /\ run[1] = ConcatEntry(run[1 - 1], batch[1])
      BY <1>2, <2>1, Zenon DEF ConcatRun
    <2> QED
      BY <1>1, <2>1, <2>2, Zenon
  <1>4. BatchSteps(batch) = <<>> \o RebasedSteps(entry)
    BY <1>2, <1>3, Zenon DEF ConcatEntry
  <1> DEFINE X == Items(RebasedSteps(entry))
  <1>5. RebasedSteps(entry) \in Seq(X)
    <2>1. DOMAIN RebasedSteps(entry) = 1 .. Len(entry.plan) /\ Len(entry.plan) \in Nat
      BY RebasedOk DEF EntryValid, EntryOk
    <2>2. RebasedSteps(entry) = [j \in 1 .. Len(entry.plan) |-> RebasedSteps(entry)[j]]
      BY <2>1 DEF RebasedSteps
    <2>3. \A j \in 1 .. Len(entry.plan) : RebasedSteps(entry)[j] \in X
      BY <2>1 DEF Items
    <2> HIDE DEF X
    <2> QED
      BY <2>1, <2>2, <2>3
  <1> HIDE DEF X
  <1>6. <<>> \o RebasedSteps(entry) = RebasedSteps(entry)
    BY <1>5
  <1> QED
    BY <1>4, <1>6 DEF batch

-----------------------------------------------------------------------------
(* The inductive invariant of the runtime *)

(* Slots hold two banks each, and the visible one a tensor. *)
StoreOk ==
    /\ Registered \subseteq Buffers
    /\ version \in [Registered -> 0 .. MaxVersion]
    /\ bank \in [Registered -> [1 .. 2 -> Content \cup {None, Dirty}]]
    /\ active \in [Registered -> 1 .. 2]
    /\ poisoned \in BOOLEAN
    /\ \A b \in Registered : Visible(b) \in Content

(* A cursor's record r, beside a store: where the versions are still those the
   last replay left, so are the contents, and elsewhere they are higher. *)
RecordOk(r, live) ==
    /\ r.program \in Programs
    /\ r.frontier \in [Frontier(r.program) -> 0 .. MaxVersion]
    /\ r.left \in [Frontier(r.program) -> Content] \cup {None}
    /\ r.left # None =>
         \A b \in Frontier(r.program) :
            /\ b \in DOMAIN live /\ r.frontier[b] <= live[b].version
            /\ r.frontier[b] = live[b].version => live[b].content = r.left[b]

CursorsOk ==
    DOMAIN cursor \subseteq Cursors /\ \A c \in DOMAIN cursor : RecordOk(cursor[c], Live)

RuntimeInv == StoreOk /\ CursorsOk

(* Buffers stay, and change only to higher versions. *)
Moves(live, new) ==
    /\ DOMAIN live \subseteq DOMAIN new
    /\ new \in [DOMAIN new -> StoreEntry]
    /\ \A b \in DOMAIN live : new[b] = live[b] \/ new[b].version > live[b].version

(* What is live is a store. *)
LEMMA LiveIsStore ==
    ASSUME StoreOk
    PROVE  /\ Live \in [DOMAIN Live -> StoreEntry] /\ DOMAIN Live = Registered
           /\ \A b \in Registered : Live[b].version = version[b] /\ Live[b].content = Visible(b)
  <1>1. DOMAIN Live = Registered
        /\ \A b \in Registered : Live[b] = [version |-> version[b], content |-> Visible(b)]
    BY DEF Live
  <1>2. \A b \in Registered : version[b] \in Nat /\ Visible(b) \in Content
    BY EffectRuntimeAssumption DEF StoreOk
  <1>3. \A b \in Registered : Live[b] \in StoreEntry
    BY <1>1, <1>2 DEF StoreEntry
  <1>4. Live = [b \in Registered |-> Live[b]]
    BY DEF Live
  <1> QED
    BY <1>1, <1>3, <1>4

(* A commit moves the store. *)
LEMMA FollowsMoves ==
    ASSUME NEW live, NEW new, NEW written, Follows(live, new, written)
    PROVE  Moves(live, new) /\ DOMAIN new = DOMAIN live
  BY DEF Follows, Moves

(* A cursor that is not used stays good. *)
LEMMA RecordsKept ==
    ASSUME NEW live, live \in [DOMAIN live -> StoreEntry], NEW new, Moves(live, new)
    PROVE  \A r : RecordOk(r, live) => RecordOk(r, new)
  <1> SUFFICES ASSUME NEW r, RecordOk(r, live), r.left # None, NEW b \in Frontier(r.program)
               PROVE  /\ b \in DOMAIN new /\ r.frontier[b] <= new[b].version
                      /\ r.frontier[b] = new[b].version => new[b].content = r.left[b]
    BY DEF RecordOk
  <1>1. /\ b \in DOMAIN live /\ r.frontier[b] <= live[b].version
        /\ r.frontier[b] = live[b].version => live[b].content = r.left[b]
    BY DEF RecordOk
  <1>2. b \in DOMAIN new /\ (new[b] = live[b] \/ new[b].version > live[b].version)
    BY <1>1 DEF Moves
  <1>3. new[b].version \in Nat /\ live[b].version \in Nat /\ r.frontier[b] \in Nat
    BY <1>1, <1>2, EffectRuntimeAssumption DEF Moves, StoreEntry, RecordOk
  <1> QED
    BY <1>1, <1>2, <1>3

(* Banks are filled and flipped, and versions follow. *)
LEMMA PublishStore ==
    ASSUME StoreOk, NEW live, live \in [Registered -> StoreEntry], NEW W,
           PublishBanks(W, live), version' = [b \in Registered |-> live[b].version],
           \A b \in Registered : b \notin W => live[b].content = Visible(b),
           \A b \in Registered : live[b].version <= MaxVersion,
           poisoned' \in BOOLEAN
    PROVE  StoreOk' /\ Live' = live
  <1>1. Registered' = Registered
    BY DEF Registered
  <1>2. ASSUME NEW b \in Registered
        PROVE  /\ bank'[b] \in [1 .. 2 -> Content \cup {None, Dirty}]
               /\ active'[b] \in 1 .. 2
               /\ bank'[b][active'[b]] = live[b].content
    <2>1. bank[b] \in [1 .. 2 -> Content \cup {None, Dirty}] /\ active[b] \in 1 .. 2
      BY DEF StoreOk
    <2>2. 3 - active[b] \in 1 .. 2
      BY <2>1
    <2>3. live[b].content \in Content
      BY DEF StoreEntry
    <2>4. CASE b \in W
      <3>1. bank'[b] = [bank[b] EXCEPT ![3 - active[b]] = live[b].content] /\ active'[b] = 3 - active[b]
        BY <2>4 DEF PublishBanks
      <3> QED
        BY <2>1, <2>2, <2>3, <3>1
    <2>5. CASE b \notin W
      <3>1. bank'[b] = bank[b] /\ active'[b] = active[b]
        BY <2>5 DEF PublishBanks
      <3> QED
        BY <2>1, <2>5, <3>1 DEF Visible
    <2> QED
      BY <2>4, <2>5
  <1>3. \A b \in Registered : live[b].version \in 0 .. MaxVersion /\ live[b].content \in Content
        /\ live[b] = [version |-> live[b].version, content |-> live[b].content]
    BY EffectRuntimeAssumption DEF StoreEntry
  <1>4. StoreOk'
    <2>1. bank' \in [Registered' -> [1 .. 2 -> Content \cup {None, Dirty}]]
          /\ active' \in [Registered' -> 1 .. 2]
      BY <1>1, <1>2 DEF PublishBanks
    <2>2. version' \in [Registered' -> 0 .. MaxVersion]
      BY <1>1, <1>3
    <2>3. Registered' \subseteq Buffers
      BY <1>1 DEF StoreOk
    <2>4. \A b \in Registered' : Visible(b)' \in Content
      BY <1>1, <1>2, <1>3 DEF Visible
    <2> QED
      BY <2>1, <2>2, <2>3, <2>4 DEF StoreOk
  <1>5. Live' = [b \in Registered |-> [version |-> live[b].version, content |-> live[b].content]]
    BY <1>1, <1>2 DEF Live, Visible
  <1> QED
    BY <1>3, <1>4, <1>5

-----------------------------------------------------------------------------
(* The actions *)

(* What every step does to the store and to the cursors. *)
GoodStep == StoreOk' /\ Moves(Live, Live') /\ CursorsOk'

(* Nothing that is live has changed. *)
LEMMA NothingMoves == ASSUME StoreOk PROVE Moves(Live, Live)
  BY LiveIsStore DEF Moves

(* The cursors stay good when none of them moves. *)
LEMMA CursorsKept ==
    ASSUME RuntimeInv, Moves(Live, Live'), UNCHANGED cursor
    PROVE  CursorsOk'
  <1>1. \A r : RecordOk(r, Live) => RecordOk(r, Live')
    BY LiveIsStore, RecordsKept DEF RuntimeInv
  <1> QED
    BY <1>1 DEF RuntimeInv, CursorsOk

(* They stay good when one is set to a good record. *)
LEMMA CursorSet ==
    ASSUME RuntimeInv, Moves(Live, Live'), NEW c \in Cursors, NEW r, SetCursor(c, r),
           RecordOk(r, Live')
    PROVE  CursorsOk'
  <1>1. \A q : RecordOk(q, Live) => RecordOk(q, Live')
    BY LiveIsStore, RecordsKept DEF RuntimeInv
  <1>2. /\ DOMAIN cursor' = DOMAIN cursor \cup {c}
        /\ \A d \in DOMAIN cursor' : cursor'[d] = IF d = c THEN r ELSE cursor[d]
    BY DEF SetCursor
  <1>3. \A d \in DOMAIN cursor' : RecordOk(cursor'[d], Live')
    BY <1>1, <1>2 DEF RuntimeInv, CursorsOk
  <1>4. DOMAIN cursor' \subseteq Cursors
    BY <1>2 DEF RuntimeInv, CursorsOk
  <1> QED
    BY <1>3, <1>4 DEF CursorsOk

(* register and register_initial_snapshots. *)
LEMMA RegisterGood ==
    ASSUME RuntimeInv, NEW D \in SUBSET Buffers,
           NEW values \in [D -> [version : 0 .. MaxVersion, content : Content]],
           RegisterInitialSnapshots(values)
    PROVE  GoodStep
  <1>1. Registered' = Registered \cup D /\ DOMAIN values = D /\ D \cap Registered = {}
    BY DEF RegisterInitialSnapshots, Registered
  <1>2. ASSUME NEW b \in Registered
        PROVE  version'[b] = version[b] /\ bank'[b] = bank[b] /\ active'[b] = active[b]
    BY <1>1 DEF RegisterInitialSnapshots
  <1>3. ASSUME NEW b \in D
        PROVE  /\ version'[b] \in 0 .. MaxVersion
               /\ bank'[b] \in [1 .. 2 -> Content \cup {None, Dirty}]
               /\ active'[b] \in 1 .. 2 /\ bank'[b][active'[b]] \in Content
    <2>1. version'[b] = values[b].version /\ bank'[b] = <<values[b].content, None>> /\ active'[b] = 1
      BY <1>1 DEF RegisterInitialSnapshots
    <2>2. values[b].version \in 0 .. MaxVersion /\ values[b].content \in Content
      OBVIOUS
    <2> QED
      BY <2>1, <2>2
  <1>4. StoreOk'
    <2>1. ASSUME NEW b \in Registered'
          PROVE  /\ version'[b] \in 0 .. MaxVersion
                 /\ bank'[b] \in [1 .. 2 -> Content \cup {None, Dirty}]
                 /\ active'[b] \in 1 .. 2 /\ bank'[b][active'[b]] \in Content
      <3>1. CASE b \in Registered
        BY <1>2, <3>1 DEF RuntimeInv, StoreOk, Visible
      <3>2. CASE b \in D
        BY <1>3, <3>2
      <3> QED
        BY <1>1, <3>1, <3>2
    <2>2. /\ version' = [b \in Registered' |-> version'[b]]
          /\ bank' = [b \in Registered' |-> bank'[b]]
          /\ active' = [b \in Registered' |-> active'[b]]
      BY <1>1 DEF RegisterInitialSnapshots
    <2>3. Registered' \subseteq Buffers /\ poisoned' \in BOOLEAN
      BY <1>1 DEF RegisterInitialSnapshots, RuntimeInv, StoreOk
    <2> QED
      BY <2>1, <2>2, <2>3 DEF StoreOk, Visible
  <1>5. Moves(Live, Live')
    <2>1. DOMAIN Live = Registered /\ DOMAIN Live' = Registered'
      BY DEF Live
    <2>2. \A b \in Registered : Live'[b] = Live[b]
      BY <1>1, <1>2 DEF Live, Visible
    <2>3. Live' \in [DOMAIN Live' -> StoreEntry]
      <3>1. Live' = [b \in Registered' |-> [version |-> version'[b], content |-> Visible(b)']]
        BY DEF Live
      <3>2. \A b \in Registered' : version'[b] \in Nat /\ Visible(b)' \in Content
        BY <1>4, EffectRuntimeAssumption DEF StoreOk
      <3> QED
        BY <3>1, <3>2 DEF StoreEntry
    <2> QED
      BY <1>1, <2>1, <2>2, <2>3 DEF Moves
  <1>6. UNCHANGED cursor
    BY DEF RegisterInitialSnapshots
  <1> QED
    BY <1>4, <1>5, <1>6, CursorsKept DEF GoodStep

(* A transaction is published. *)
LEMMA PublishGood ==
    ASSUME RuntimeInv, NEW live, NEW written, Follows(Live, live, written),
           written \subseteq Registered, Publish(written, live)
    PROVE  StoreOk' /\ Live' = live /\ Moves(Live, live)
  <1>1. /\ Live \in [Registered -> StoreEntry] /\ DOMAIN Live = Registered
        /\ \A b \in Registered : Live[b].version = version[b] /\ Live[b].content = Visible(b)
    BY LiveIsStore DEF RuntimeInv
  <1>2. live \in [Registered -> StoreEntry]
        /\ \A b \in Registered : b \notin written => live[b] = Live[b]
    BY <1>1 DEF Follows
  <1>3. \A b \in Registered : live[b].version <= MaxVersion
    <2> TAKE b \in Registered
    <2>1. CASE b \in written
      BY <2>1 DEF Publish
    <2>2. CASE b \notin written
      BY <1>1, <1>2, <2>2 DEF RuntimeInv, StoreOk
    <2> QED
      BY <2>1, <2>2
  <1>4. \A b \in Registered : b \notin written => live[b].content = Visible(b)
    BY <1>1, <1>2
  <1>5. /\ PublishBanks(written, live) /\ version' = [b \in Registered |-> live[b].version]
        /\ poisoned' \in BOOLEAN
    BY DEF Publish, RuntimeInv, StoreOk
  <1> QED
    BY <1>2, <1>3, <1>4, <1>5, PublishStore, FollowsMoves DEF RuntimeInv

(* execute. *)
LEMMA ExecutePlanGood ==
    ASSUME RuntimeInv, NEW plan \in Plans, ExecutePlan(plan)
    PROVE  GoodStep
  <1> DEFINE outcome == PlanOutcome(Live, plan, NoSources)
  <1>1. plan \in Seq(Steps) /\ SourcesOk(plan, NoSources)
    BY EffectRuntimeAssumption DEF SourcesOk, NoSources
  <1>2. Live \in [DOMAIN Live -> StoreEntry] /\ DOMAIN Live = Registered /\ Registered \subseteq Buffers
    BY LiveIsStore DEF RuntimeInv, StoreOk
  <1>3. outcome.ok /\ Publish(Written(plan), outcome.live) /\ UNCHANGED cursor
    BY DEF ExecutePlan
  <1>4. Follows(Live, outcome.live, Written(plan)) /\ Written(plan) \subseteq DOMAIN Live
    BY <1>1, <1>2, <1>3, PlanFollows
  <1> HIDE DEF outcome
  <1>5. StoreOk' /\ Moves(Live, Live')
    BY <1>2, <1>3, <1>4, PublishGood
  <1> QED
    BY <1>3, <1>5, CursorsKept DEF GoodStep

(* The buffers that a plan names. *)
LEMMA StepBuffers ==
    ASSUME NEW plan \in Seq(Steps), NEW i \in DOMAIN plan
    PROVE  plan[i].write.buffer \in Buffers /\ plan[i].source.buffer \in Buffers
  <1>1. plan[i] \in Steps
    OBVIOUS
  <1>2. plan[i].write \in States /\ plan[i].source \in States
    BY <1>1 DEF Steps
  <1> QED
    BY <1>2 DEF States

(* The entries that callers submit. *)
LEMMA EntriesOk == ASSUME NEW entry \in Entries PROVE EntryOk(entry)
  <1>1. PICK plan \in Plans : entry \in [plan : {plan}, starts : StartsOf(plan), sources : {NoSources}]
    BY DEF Entries
  <1>2. entry.plan = plan /\ entry.starts \in StartsOf(plan) /\ entry.sources = NoSources
    BY <1>1
  <1>3. plan \in Seq(Steps)
    BY EffectRuntimeAssumption
  <1>4. Named([plan |-> plan]) \subseteq Buffers
    BY <1>3, StepBuffers DEF Named, Written
  <1>5. \A b \in DOMAIN entry.starts : b \in Buffers /\ entry.starts[b] \in Nat
    BY <1>2, <1>4, EffectRuntimeAssumption DEF StartsOf
  <1> QED
    BY <1>2, <1>3, <1>5 DEF EntryOk, SourcesOk, NoSources

(* execute_batch. *)
LEMMA ExecuteBatchGood ==
    ASSUME RuntimeInv, NEW e \in Entries, NEW f \in Entries, ExecuteBatch(<<e, f>>)
    PROVE  GoodStep
  <1> DEFINE batch == <<e, f>>
             outcome == BatchOutcome(Live, batch)
  <1>1. EntryOk(e) /\ EntryOk(f)
    BY EntriesOk
  <1>2. DOMAIN batch = 1 .. 2 /\ \A i \in 1 .. 2 : EntryOk(batch[i])
    BY <1>1
  <1>3. Live \in [DOMAIN Live -> StoreEntry] /\ DOMAIN Live = Registered /\ Registered \subseteq Buffers
    BY LiveIsStore DEF RuntimeInv, StoreOk
  <1>4. outcome.ok /\ Publish(BatchWritten(batch), outcome.live) /\ UNCHANGED cursor
    BY DEF ExecuteBatch
  <1> HIDE DEF batch
  <1>5. Follows(Live, outcome.live, BatchWritten(batch)) /\ BatchWritten(batch) \subseteq DOMAIN Live
    BY <1>2, <1>3, <1>4, BatchFollows
  <1> HIDE DEF outcome
  <1>6. StoreOk' /\ Moves(Live, Live')
    BY <1>3, <1>4, <1>5, PublishGood
  <1> QED
    BY <1>4, <1>6, CursorsKept DEF GoodStep

(* The plan's targets are in the frontier of a capture. *)
LEMMA FrontierHasWrites ==
    ASSUME NEW program PROVE Written(program.plan) \subseteq Frontier(program)
  BY DEF Frontier, Required

(* The values of placeholder sources are tensors when the prefix computes
   tensors. *)
LEMMA SourcesAreTensors ==
    ASSUME NEW program, NEW successor \in [Frontier(program) -> Content]
    PROVE  SourcesOk(program.plan, SourcesOf(program, successor))
  <1> SUFFICES ASSUME NEW i \in DOMAIN program.plan,
                      program.plan[i].id \in DOMAIN SourcesOf(program, successor)
               PROVE  SourcesOf(program, successor)[program.plan[i].id] \in Content
    BY DEF SourcesOk
  <1> DEFINE id == program.plan[i].id
             j == CHOOSE k \in DOMAIN program.plan : program.plan[k].id = id
  <1>1. j \in DOMAIN program.plan
    OBVIOUS
  <1>2. id \in program.pure
        /\ SourcesOf(program, successor)[id] = successor[program.plan[j].write.buffer]
    BY DEF SourcesOf
  <1>3. program.plan[j].write.buffer \in Frontier(program)
    <2> HIDE DEF j
    <2> QED
      BY <1>1, FrontierHasWrites DEF Written
  <1> HIDE DEF j, id
  <1> QED
    BY <1>2, <1>3 DEF id

(* What a pure prefix may compute are tensors, retained ones included. *)
LEMMA SuccessorsAreTensors ==
    ASSUME StoreOk, NEW program \in Programs, NEW successor \in Successors(program)
    PROVE  /\ successor \in [Frontier(program) -> Content]
           /\ \A b \in Frontier(program) \cap program.retained :
                b \in Registered => successor[b] = Visible(b)
           /\ SourcesOk(program.plan, SourcesOf(program, successor))
  <1>1. PICK values \in [Frontier(program) -> Inputs] :
          successor = [b \in Frontier(program) |->
                         IF b \in program.retained \cap Registered THEN Visible(b) ELSE values[b]]
    BY DEF Successors
  <1>2. Inputs \subseteq Content /\ program.plan \in Seq(Steps)
    BY EffectRuntimeAssumption
  <1>3. successor \in [Frontier(program) -> Content]
    BY <1>1, <1>2 DEF StoreOk
  <1>4. SourcesOk(program.plan, SourcesOf(program, successor))
    BY <1>3, SourcesAreTensors
  <1> QED
    BY <1>1, <1>3, <1>4

(* replay_recurrent: the cursor moves to the versions that its replay left. *)
LEMMA ReplayRecurrentGood ==
    ASSUME RuntimeInv, NEW c \in DOMAIN cursor, NEW successor \in Successors(cursor[c].program),
           ReplayRecurrent(c, SourcesOf(cursor[c].program, successor))
    PROVE  GoodStep
  <1> DEFINE program == cursor[c].program
             frontier == cursor[c].frontier
             sources == SourcesOf(program, successor)
             entry == [plan |-> program.plan, starts |-> RebaseStarts(program, frontier),
                       sources |-> sources]
             outcome == BatchOutcome(Live, <<entry>>)
  <1>1. /\ c \in Cursors /\ program \in Programs /\ program.plan \in Seq(Steps)
        /\ frontier \in [Frontier(program) -> 0 .. MaxVersion]
    BY EffectRuntimeAssumption DEF RuntimeInv, CursorsOk, RecordOk
  <1>2. /\ Current(frontier) /\ outcome.ok /\ Publish(Written(program.plan), outcome.live)
        /\ Advance(c, AdvancedFrontier(program, frontier),
                   [b \in Frontier(program) |-> outcome.live[b].content])
    BY DEF ReplayRecurrent, ReplayOutcome, Refused
  <1>3. /\ Live \in [DOMAIN Live -> StoreEntry] /\ DOMAIN Live = Registered /\ Registered \subseteq Buffers
        /\ \A b \in Registered : Live[b].version = version[b]
    BY LiveIsStore DEF RuntimeInv, StoreOk
  <1>4. Frontier(program) \subseteq Registered /\ \A b \in Frontier(program) : frontier[b] = version[b]
    BY <1>1, <1>2 DEF Current
  <1>5. SourcesOk(program.plan, sources)
    BY <1>1, SuccessorsAreTensors DEF RuntimeInv
  <1> HIDE DEF program, frontier, sources
  <1>6. EntryOk(entry)
    <2>1. \A b \in DOMAIN entry.starts : b \in Buffers /\ entry.starts[b] \in Nat
      <3> SUFFICES ASSUME NEW b \in Frontier(program) \cup {s.buffer : s \in Placeholders(program)}
                   PROVE  b \in Buffers /\ (b \in Frontier(program) => frontier[b] \in Nat)
        BY <1>1 DEF RebaseStarts
      <3>1. \A s \in Placeholders(program) : s.buffer \in Buffers
        BY <1>1, StepBuffers DEF Placeholders
      <3> QED
        BY <1>1, <1>3, <1>4, <3>1, EffectRuntimeAssumption
    <2> QED
      BY <1>1, <1>5, <2>1 DEF EntryOk
  <1> DEFINE batch == <<entry>>
  <1>7. DOMAIN batch = 1 .. 1 /\ batch[1] = entry
    OBVIOUS
  <1> HIDE DEF entry
  <1>8. BatchWritten(batch) = Written(program.plan)
    <2>1. BatchWritten(batch) = Written(entry.plan)
      BY <1>7 DEF BatchWritten
    <2> QED
      BY <2>1 DEF entry
  <1>9. /\ Follows(Live, outcome.live, Written(program.plan))
        /\ Written(program.plan) \subseteq Registered /\ EntryValid(entry)
    <2>1. \A i \in 1 .. 1 : EntryOk(batch[i])
      BY <1>6, <1>7
    <2>2. BatchOutcome(Live, batch).ok
      BY <1>2
    <2> HIDE DEF batch
    <2>3. /\ Follows(Live, BatchOutcome(Live, batch).live, BatchWritten(batch))
          /\ BatchWritten(batch) \subseteq DOMAIN Live
          /\ \A i \in 1 .. 1 : EntryValid(batch[i])
      BY <1>3, <1>7, <2>1, <2>2, BatchFollows
    <2> QED
      BY <1>3, <1>7, <1>8, <2>3 DEF batch
  <1>10. \E sn : outcome.live = Committed(Live, RebasedSteps(entry), sn)
    <2>1. \A i \in 1 .. 1 : EntryOk(batch[i])
      BY <1>6, <1>7
    <2>2. BatchOutcome(Live, batch).ok
      BY <1>2
    <2>3. BatchSteps(batch) = RebasedSteps(entry)
      BY <1>9, OneEntrySteps
    <2> HIDE DEF batch
    <2>4. \E sn : BatchOutcome(Live, batch).live = Committed(Live, BatchSteps(batch), sn)
      BY <1>3, <1>7, <2>1, <2>2, BatchFollows
    <2> QED
      BY <2>3, <2>4 DEF batch
  <1>11. StoreOk' /\ Live' = outcome.live /\ Moves(Live, Live')
    <2> HIDE DEF outcome
    <2> QED
      BY <1>2, <1>9, PublishGood
  <1>12. ASSUME NEW b \in Frontier(program)
         PROVE  AdvancedFrontier(program, frontier)[b] = outcome.live[b].version
    <2> DEFINE steps == RebasedSteps([plan |-> program.plan, starts |-> RebaseStarts(program, frontier)])
    <2>1. steps = RebasedSteps(entry)
      BY DEF RebasedSteps, entry
    <2>2. Written(RebasedSteps(entry)) = Written(program.plan)
      BY <1>9, RebasedOk DEF EntryValid, entry
    <2>3. AdvancedFrontier(program, frontier)[b] =
            IF b \in Written(steps) THEN FinalState(steps, b).version ELSE frontier[b]
      BY <1>1 DEF AdvancedFrontier
    <2> HIDE DEF outcome, steps
    <2>4. PICK sn : outcome.live = Committed(Live, RebasedSteps(entry), sn)
      BY <1>10
    <2>5. b \in DOMAIN Live /\ Live[b].version = frontier[b]
      BY <1>3, <1>4
    <2>6. CASE b \in Written(steps)
      BY <2>1, <2>3, <2>4, <2>5, <2>6 DEF Committed
    <2>7. CASE b \notin Written(steps)
      BY <2>1, <2>3, <2>4, <2>5, <2>7 DEF Committed
    <2> QED
      BY <2>6, <2>7
  <1> DEFINE r == [program |-> program, frontier |-> AdvancedFrontier(program, frontier),
                   left |-> [b \in Frontier(program) |-> outcome.live[b].content]]
  <1>13. SetCursor(c, r)
    BY <1>2 DEF Advance, program
  <1>14. RecordOk(r, Live')
    <2>1. AdvancedFrontier(program, frontier) = [b \in Frontier(program) |-> outcome.live[b].version]
      <3>1. /\ DOMAIN AdvancedFrontier(program, frontier) = Frontier(program)
            /\ AdvancedFrontier(program, frontier)
                 = [b \in Frontier(program) |-> AdvancedFrontier(program, frontier)[b]]
        BY <1>1 DEF AdvancedFrontier
      <3> HIDE DEF outcome
      <3> QED
        BY <1>12, <3>1
    <2> HIDE DEF outcome
    <2>2. outcome.live \in [Registered -> StoreEntry]
      BY <1>3, <1>9 DEF Follows
    <2>3. \A b \in Registered : outcome.live[b].version \in 0 .. MaxVersion
      <3>1. DOMAIN Live' = Registered' /\ \A b \in Registered' : Live'[b].version = version'[b]
        BY DEF Live
      <3>2. \A b \in Registered' : version'[b] \in 0 .. MaxVersion
        BY <1>11 DEF StoreOk
      <3> QED
        BY <1>11, <2>2, <3>1, <3>2
    <2>4. \A b \in Frontier(program) : b \in Registered /\ outcome.live[b].content \in Content
                                        /\ outcome.live[b].version \in Nat
      BY <1>4, <2>2 DEF StoreEntry
    <2>5. r.frontier \in [Frontier(program) -> 0 .. MaxVersion]
          /\ r.left \in [Frontier(program) -> Content]
      BY <1>4, <2>1, <2>3, <2>4
    <2>6. DOMAIN Live' = Registered /\ Live' = outcome.live
      BY <1>11, <2>2
    <2>7. \A b \in Frontier(program) : r.frontier[b] = outcome.live[b].version
                                        /\ r.left[b] = outcome.live[b].content
      BY <2>1
    <2>8. r.program = program
      OBVIOUS
    <2> HIDE DEF r
    <2> QED
      BY <1>1, <2>4, <2>5, <2>6, <2>7, <2>8 DEF RecordOk
  <1> HIDE DEF r
  <1> QED
    BY <1>1, <1>11, <1>13, <1>14, CursorSet DEF GoodStep

(* The native replay: the banks it keeps already hold the successor. *)
LEMMA NativeReplayGood ==
    ASSUME RuntimeInv, NEW c \in DOMAIN cursor, NEW successor \in Successors(cursor[c].program),
           NativeReplay(c, successor)
    PROVE  GoodStep
  <1> DEFINE program == cursor[c].program
             frontier == cursor[c].frontier
             outcome == NativeOutcome(frontier, successor)
  <1>1. /\ c \in Cursors /\ program \in Programs
        /\ frontier \in [Frontier(program) -> 0 .. MaxVersion]
    BY DEF RuntimeInv, CursorsOk, RecordOk
  <1>2. /\ Current(frontier) /\ \A b \in Frontier(program) : outcome[b].version <= MaxVersion
        /\ PublishBanks(Frontier(program) \ program.retained, outcome)
        /\ version' = [b \in Registered |-> outcome[b].version]
        /\ Advance(c, NextFrontier(frontier), successor)
        /\ poisoned' = poisoned
    BY DEF NativeReplay, NativeAdmitted
  <1>3. /\ successor \in [Frontier(program) -> Content]
        /\ \A b \in Frontier(program) \cap program.retained : b \in Registered => successor[b] = Visible(b)
    BY <1>1, SuccessorsAreTensors DEF RuntimeInv
  <1>4. /\ Live \in [Registered -> StoreEntry] /\ DOMAIN Live = Registered
        /\ \A b \in Registered : Live[b].version = version[b] /\ Live[b].content = Visible(b)
    BY LiveIsStore DEF RuntimeInv
  <1> HIDE DEF program, frontier
  <1>5. Frontier(program) \subseteq Registered
        /\ \A b \in Frontier(program) : frontier[b] = version[b] /\ frontier[b] \in Nat
    BY <1>1, <1>2, EffectRuntimeAssumption DEF Current
  <1>6. /\ \A b \in Frontier(program) : /\ outcome[b].version = frontier[b] + 1
                                          /\ outcome[b].content = successor[b]
                                          /\ outcome[b] \in StoreEntry
        /\ \A b \in Registered : b \notin Frontier(program) => outcome[b] = Live[b]
    <2>1. ASSUME NEW b \in Frontier(program)
          PROVE  outcome[b] = [version |-> frontier[b] + 1, content |-> successor[b]]
      BY <1>1, <1>5 DEF NativeOutcome, NextFrontier
    <2>2. \A b \in Registered : b \notin Frontier(program) => outcome[b] = Live[b]
      BY <1>1 DEF NativeOutcome
    <2> HIDE DEF outcome
    <2>3. ASSUME NEW b \in Frontier(program)
          PROVE  /\ outcome[b].version = frontier[b] + 1
                 /\ outcome[b].content = successor[b] /\ outcome[b] \in StoreEntry
      <3>1. frontier[b] + 1 \in Nat /\ successor[b] \in Content
        BY <1>3, <1>5
      <3> DEFINE v == frontier[b] + 1
      <3>2. outcome[b] = [version |-> v, content |-> successor[b]] /\ v \in Nat
        BY <2>1, <3>1
      <3> HIDE DEF v
      <3>3. outcome[b].version = v /\ outcome[b].content = successor[b] /\ outcome[b] \in StoreEntry
        BY <3>1, <3>2 DEF StoreEntry
      <3> QED
        BY <3>3 DEF v
    <2> QED
      BY <2>2, <2>3
  <1>7. outcome = [b \in Registered |-> outcome[b]]
    BY DEF NativeOutcome
  <1> HIDE DEF outcome
  <1>8. outcome \in [Registered -> StoreEntry]
    <2>1. \A b \in Registered : outcome[b] \in StoreEntry
      BY <1>4, <1>6
    <2> QED
      BY <1>7, <2>1
  <1>9. Moves(Live, outcome)
    <2>1. \A b \in Frontier(program) : outcome[b].version > Live[b].version
      BY <1>4, <1>5, <1>6
    <2> QED
      BY <1>4, <1>6, <1>8, <2>1 DEF Moves
  <1>10. \A b \in Registered : outcome[b].version <= MaxVersion
    BY <1>2, <1>4, <1>6 DEF RuntimeInv, StoreOk
  <1>11. \A b \in Registered : b \notin Frontier(program) \ program.retained =>
           outcome[b].content = Visible(b)
    BY <1>3, <1>4, <1>6
  <1>12. StoreOk' /\ Live' = outcome
    BY <1>2, <1>8, <1>10, <1>11, PublishStore DEF RuntimeInv, StoreOk
  <1> DEFINE r == [program |-> program, frontier |-> NextFrontier(frontier), left |-> successor]
  <1>13. SetCursor(c, r)
    BY <1>2 DEF Advance, program
  <1>14. RecordOk(r, outcome)
    <2>1. NextFrontier(frontier) = [b \in Frontier(program) |-> frontier[b] + 1]
      BY <1>1 DEF NextFrontier
    <2>2. \A b \in Frontier(program) : frontier[b] + 1 \in 0 .. MaxVersion
      BY <1>2, <1>5, <1>6, EffectRuntimeAssumption
    <2>3. \A b \in Frontier(program) : b \in DOMAIN outcome /\ outcome[b].version = frontier[b] + 1
                                        /\ outcome[b].content = successor[b]
      BY <1>5, <1>6, <1>8
    <2>4. r.program = program /\ r.frontier = [b \in Frontier(program) |-> frontier[b] + 1]
          /\ r.left = successor
      BY <2>1
    <2> HIDE DEF r
    <2>5. \A b \in Frontier(program) : r.frontier[b] = outcome[b].version /\ r.frontier[b] <= outcome[b].version
      BY <1>5, <2>3, <2>4
    <2> QED
      BY <1>1, <1>3, <2>2, <2>3, <2>4, <2>5 DEF RecordOk
  <1> HIDE DEF r
  <1> QED
    BY <1>1, <1>9, <1>12, <1>13, <1>14, CursorSet DEF GoodStep

(* A failing or panicking stage closure spoils banks that nobody sees. *)
LEMMA NativeReplayFailsGood ==
    ASSUME RuntimeInv, NEW c \in DOMAIN cursor, NEW written, NEW panics \in BOOLEAN,
           NativeReplayFails(c, written, panics)
    PROVE  GoodStep
  <1>1. /\ bank' = [b \in Registered |-> IF b \in written THEN Spoil(b) ELSE bank[b]]
        /\ poisoned' \in BOOLEAN /\ version' = version /\ active' = active /\ cursor' = cursor
    BY DEF NativeReplayFails
  <1>2. Registered' = Registered
    BY <1>1 DEF Registered
  <1>3. ASSUME NEW b \in Registered
        PROVE  /\ bank'[b] \in [1 .. 2 -> Content \cup {None, Dirty}]
               /\ bank'[b][active'[b]] = bank[b][active[b]]
    <2>1. bank[b] \in [1 .. 2 -> Content \cup {None, Dirty}] /\ active[b] \in 1 .. 2
      BY DEF RuntimeInv, StoreOk
    <2>2. 3 - active[b] \in 1 .. 2 /\ 3 - active[b] # active[b]
      BY <2>1
    <2>3. bank'[b] = IF b \in written THEN [bank[b] EXCEPT ![3 - active[b]] = Dirty] ELSE bank[b]
      BY <1>1 DEF Spoil
    <2> QED
      BY <1>1, <2>1, <2>2, <2>3
  <1>4. StoreOk'
    <2>1. bank' \in [Registered' -> [1 .. 2 -> Content \cup {None, Dirty}]]
      BY <1>1, <1>2, <1>3
    <2>2. \A b \in Registered' : Visible(b)' \in Content
      BY <1>2, <1>3 DEF Visible, RuntimeInv, StoreOk
    <2> QED
      BY <1>1, <1>2, <2>1, <2>2 DEF RuntimeInv, StoreOk
  <1>5. Live' = Live
    BY <1>1, <1>2, <1>3 DEF Live, Visible
  <1>6. Moves(Live, Live')
    BY <1>5, NothingMoves DEF RuntimeInv
  <1> QED
    BY <1>1, <1>4, <1>6, CursorsKept DEF GoodStep

(* resume and clone: only a cursor is set. *)
LEMMA CursorGood ==
    ASSUME RuntimeInv, NEW c \in Cursors, NEW r, SetCursor(c, r), RecordOk(r, Live),
           UNCHANGED <<version, bank, active, poisoned>>
    PROVE  GoodStep
  <1>1. Live' = Live
    BY DEF Live, Registered, Visible
  <1>2. StoreOk'
    BY DEF RuntimeInv, StoreOk, Registered, Visible
  <1>3. Moves(Live, Live')
    BY <1>1, NothingMoves DEF RuntimeInv
  <1> QED
    BY <1>1, <1>2, <1>3, CursorSet DEF GoodStep

(* Every step of the runtime is good. *)
LEMMA NextGood == ASSUME RuntimeInv, RuntimeNext PROVE GoodStep
  <1>1. ASSUME NEW b \in Persistent, Register(b, Initial[b]) PROVE GoodStep
    <2> DEFINE values == [d \in {b} |-> [version |-> 0, content |-> Initial[b]]]
    <2>1. {b} \in SUBSET Buffers /\ values \in [{b} -> [version : 0 .. MaxVersion, content : Content]]
      BY EffectRuntimeAssumption
    <2>2. RegisterInitialSnapshots(values)
      BY <1>1 DEF Register
    <2> HIDE DEF values
    <2> QED
      BY <2>1, <2>2, RegisterGood
  <1>2. ASSUME NEW buffers \in SUBSET Persistent, NEW versions \in [buffers -> 0 .. MaxVersion],
               RegisterInitialSnapshots([b \in buffers |-> [version |-> versions[b], content |-> Initial[b]]])
        PROVE  GoodStep
    <2> DEFINE values == [b \in buffers |-> [version |-> versions[b], content |-> Initial[b]]]
    <2>1. buffers \in SUBSET Buffers /\ values \in [buffers -> [version : 0 .. MaxVersion, content : Content]]
      BY EffectRuntimeAssumption
    <2>2. RegisterInitialSnapshots(values)
      BY <1>2
    <2> HIDE DEF values
    <2> QED
      BY <2>1, <2>2, RegisterGood
  <1>3. ASSUME NEW plan \in Plans, ExecutePlan(plan) PROVE GoodStep
    BY <1>3, ExecutePlanGood
  <1>4. ASSUME NEW e \in Entries, NEW f \in Entries, ExecuteBatch(<<e, f>>) PROVE GoodStep
    BY <1>4, ExecuteBatchGood
  <1>5. ASSUME NEW c \in Cursors, NEW program \in Programs,
               NEW frontier \in [Frontier(program) -> 0 .. MaxVersion], ResumeCursor(c, program, frontier)
        PROVE  GoodStep
    <2> DEFINE r == [program |-> program, frontier |-> frontier, left |-> None]
    <2>1. SetCursor(c, r) /\ UNCHANGED <<version, bank, active, poisoned>>
      BY <1>5 DEF ResumeCursor
    <2>2. RecordOk(r, Live)
      BY DEF RecordOk
    <2> HIDE DEF r
    <2> QED
      BY <2>1, <2>2, CursorGood
  <1>6. ASSUME NEW c \in DOMAIN cursor, NEW d \in Cursors, CloneCursor(c, d) PROVE GoodStep
    <2>1. SetCursor(d, cursor[c]) /\ UNCHANGED <<version, bank, active, poisoned>>
      BY <1>6 DEF CloneCursor
    <2>2. RecordOk(cursor[c], Live)
      BY DEF RuntimeInv, CursorsOk
    <2> QED
      BY <2>1, <2>2, CursorGood
  <1>7. ASSUME NEW c \in DOMAIN cursor, NEW successor \in Successors(cursor[c].program),
               \/ ReplayRecurrent(c, SourcesOf(cursor[c].program, successor))
               \/ NativeReplay(c, successor)
        PROVE  GoodStep
    BY <1>7, ReplayRecurrentGood, NativeReplayGood
  <1>8. ASSUME NEW c \in DOMAIN cursor, NEW written \in SUBSET Persistent, NEW panics \in BOOLEAN,
               NativeReplayFails(c, written, panics)
        PROVE  GoodStep
    BY <1>8, NativeReplayFailsGood
  <1> QED
    BY <1>1, <1>2, <1>3, <1>4, <1>5, <1>6, <1>7, <1>8 DEF RuntimeNext

(* The initial state. *)
LEMMA RuntimeInitInv == RuntimeInit => RuntimeInv
  BY DEF RuntimeInit, RuntimeInv, StoreOk, CursorsOk, Registered, Visible

(* Steps that change nothing. *)
LEMMA RuntimeStutter == ASSUME RuntimeInv, UNCHANGED runtimeVars PROVE RuntimeInv' /\ Live' = Live
  <1>1. Live' = Live
    BY DEF runtimeVars, Live, Registered, Visible
  <1>2. StoreOk'
    BY DEF runtimeVars, RuntimeInv, StoreOk, Registered, Visible
  <1>3. CursorsOk'
    BY <1>1 DEF runtimeVars, RuntimeInv, CursorsOk
  <1> QED
    BY <1>1, <1>2, <1>3 DEF RuntimeInv

(* The inductive invariant: every visible bank holds a tensor, and a cursor's
   frontier is behind the live versions or names exactly what its last replay
   left. *)
THEOREM RuntimeInvariance == RuntimeSpec => []RuntimeInv
  <1>1. RuntimeInit => RuntimeInv
    BY RuntimeInitInv
  <1>2. RuntimeInv /\ [RuntimeNext]_runtimeVars => RuntimeInv'
    <2>1. RuntimeInv /\ RuntimeNext => RuntimeInv'
      BY NextGood DEF GoodStep, RuntimeInv
    <2>2. RuntimeInv /\ UNCHANGED runtimeVars => RuntimeInv'
      BY RuntimeStutter
    <2> QED
      BY <2>1, <2>2
  <1> QED
    BY <1>1, <1>2, PTL DEF RuntimeSpec

(* No version exceeds its bound and no bank, cursor or lock leaves its type,
   whatever plans, batches and replays are executed. *)
THEOREM RuntimeTypes == RuntimeSpec => []RuntimeTypeOK
  <1>1. RuntimeInv => RuntimeTypeOK
    BY DEF RuntimeInv, StoreOk, CursorsOk, RecordOk, RuntimeTypeOK
  <1> QED
    BY <1>1, RuntimeInvariance, PTL

(* A replay is admitted only onto what the cursor's own last replay left. *)
THEOREM CursorsSeeTheirWrites == RuntimeSpec => []AdmittedCursorSeesItsOwnWrites
  <1>1. RuntimeInv => AdmittedCursorSeesItsOwnWrites
    <2> SUFFICES ASSUME RuntimeInv, NEW c \in DOMAIN cursor, cursor[c].left # None,
                        Current(cursor[c].frontier), NEW b \in DOMAIN cursor[c].left
                 PROVE  Visible(b) = cursor[c].left[b]
      BY DEF AdmittedCursorSeesItsOwnWrites
    <2>1. RecordOk(cursor[c], Live)
      BY DEF RuntimeInv, CursorsOk
    <2>2. b \in Frontier(cursor[c].program) /\ b \in DOMAIN cursor[c].frontier
      BY <2>1 DEF RecordOk
    <2>3. b \in Registered /\ version[b] = cursor[c].frontier[b]
      BY <2>2 DEF Current
    <2>4. Live[b].version = version[b] /\ Live[b].content = Visible(b)
      BY <2>3, LiveIsStore DEF RuntimeInv
    <2> QED
      BY <2>1, <2>2, <2>3, <2>4 DEF RecordOk
  <1> QED
    BY <1>1, RuntimeInvariance, PTL

(* What callers can read of the runtime is a versioned store: registered once,
   and afterwards changed only together with a version that grows, by plans,
   batches and replays that succeed, fail or panic. *)
THEOREM StoreIsImplemented == RuntimeSpec => ImplementsStore
  <1> DEFINE store == [b \in Buffers |-> IF b \in Registered THEN Live[b] ELSE None]
  <1>1. RuntimeInit => Store!Init
    BY DEF RuntimeInit, Registered, Store!Init
  <1>2. ASSUME RuntimeInv, RuntimeNext PROVE Store!Next
    <2>1. StoreOk /\ StoreOk' /\ Moves(Live, Live')
      BY <1>2, NextGood DEF GoodStep, RuntimeInv
    <2>2. DOMAIN Live = Registered /\ DOMAIN Live' = Registered' /\ Registered \subseteq Registered'
      BY <2>1 DEF Live, Moves
    <2>3. \A b \in Registered' : Live'[b] \in StoreEntry
      BY <2>1, <2>2 DEF Moves
    <2>4. \A b \in Registered : Live[b] \in StoreEntry /\ Live[b] # None
      BY <2>1, LiveIsStore, EffectRuntimeAssumption DEF StoreEntry
    <2>5. \A b \in Registered : Live'[b] = Live[b] \/ Live'[b].version > Live[b].version
      BY <2>1, <2>2 DEF Moves
    <2>6. \A b \in Buffers : /\ store[b] = IF b \in Registered THEN Live[b] ELSE None
                             /\ store'[b] = IF b \in Registered' THEN Live'[b] ELSE None
      OBVIOUS
    <2>7. DOMAIN store' = Buffers
      OBVIOUS
    <2>8. Store!Entry = StoreEntry
      BY DEF Store!Entry, StoreEntry
    <2> HIDE DEF store
    <2>9. ASSUME NEW b \in Buffers
          PROVE  store'[b] = store[b] \/ (store[b] = None /\ store'[b] \in StoreEntry)
                 \/ (store[b] # None /\ store'[b] \in StoreEntry /\ store'[b].version > store[b].version)
      <3>1. CASE b \in Registered
        BY <2>2, <2>3, <2>4, <2>5, <2>6, <3>1
      <3>2. CASE b \notin Registered
        BY <2>3, <2>6, <3>2
      <3> QED
        BY <3>1, <3>2
    <2> QED
      BY <2>7, <2>8, <2>9 DEF Store!Next, Store!Registers, Store!Advances, store
  <1>3. ASSUME RuntimeInv, UNCHANGED runtimeVars PROVE UNCHANGED store
    BY <1>3, RuntimeStutter DEF runtimeVars, Registered
  <1>4. RuntimeInv /\ [RuntimeNext]_runtimeVars => [Store!Next]_store
    BY <1>2, <1>3
  <1> QED
    BY <1>1, <1>4, RuntimeInvariance, PTL DEF RuntimeSpec, ImplementsStore, Store!Spec

-----------------------------------------------------------------------------
(* Replays that are never refused *)

(* A step whose reads are staged. *)
LEMMA StepGrows ==
    ASSUME NEW acc, IsStaging(acc), acc.ok, NEW sources, NEW step,
           Reads(step, sources) \subseteq DOMAIN acc.snapshots
    PROVE  LET new == StageStep(acc, step, sources)
               source == IF step.id \in DOMAIN sources THEN sources[step.id]
                         ELSE acc.snapshots[step.source]
           IN  /\ IsStaging(new) /\ new.ok
               /\ DOMAIN new.snapshots = DOMAIN acc.snapshots \cup {step.write}
               /\ new.snapshots[step.write] = Assigned(acc.snapshots[step.target], source, step.region)
               /\ \A s \in DOMAIN acc.snapshots : s # step.write => new.snapshots[s] = acc.snapshots[s]
  <1> DEFINE sn == acc.snapshots
             source == IF step.id \in DOMAIN sources THEN sources[step.id] ELSE sn[step.source]
             candidate == Assigned(sn[step.target], source, step.region)
             grown == [s \in DOMAIN sn \cup {step.write} |-> IF s = step.write THEN candidate ELSE sn[s]]
             new == StageStep(acc, step, sources)
  <1>1. new = [acc EXCEPT !.snapshots = grown]
    BY DEF StageStep
  <1> HIDE DEF candidate
  <1>2. new.ok = acc.ok /\ new.snapshots = grown /\ new = [ok |-> new.ok, snapshots |-> new.snapshots]
    BY <1>1 DEF IsStaging
  <1> HIDE DEF new
  <1>3. /\ IsStaging(new) /\ new.ok
        /\ DOMAIN new.snapshots = DOMAIN sn \cup {step.write}
        /\ new.snapshots[step.write] = candidate
        /\ \A s \in DOMAIN sn : s # step.write => new.snapshots[s] = sn[s]
    BY <1>2 DEF IsStaging
  <1> QED
    BY <1>3 DEF new, candidate

(* A read of a valid plan, rebased, is the start of its buffer or what an
   earlier step of the plan wrote. *)
LEMMA ReadIsStaged ==
    ASSUME NEW entry, EntryValid(entry), NEW i \in DOMAIN entry.plan, NEW read \in States,
           ReadOk(entry.plan, i, read), read.buffer \in DOMAIN entry.starts
    PROVE  \/ Rebase(read, entry.starts) = State(read.buffer, entry.starts[read.buffer])
           \/ \E j \in 1 .. i - 1 : Rebase(read, entry.starts) = RebasedSteps(entry)[j].write
  <1> DEFINE plan == entry.plan
             at == entry.starts
             W == WritesBefore(plan, i, read.buffer)
  <1>1. at[read.buffer] \in Nat
    BY DEF EntryValid, EntryOk
  <1>2. CASE read.version = 0
    <2>1. at[read.buffer] + read.version = at[read.buffer]
      BY <1>1, <1>2
    <2> QED
      BY <2>1 DEF Rebase
  <1>3. CASE read.version # 0
    <2>1. read.version = VersionBefore(plan, i, read.buffer)
      BY <1>3 DEF ReadOk
    <2>2. W # {} /\ read.version = plan[Max(W)].write.version
      BY <1>3, <2>1 DEF VersionBefore
    <2>3. i \in Nat /\ i - 1 \in Nat /\ W \in SUBSET (1 .. i - 1) /\ i \in 1 .. Len(plan)
      BY DEF WritesBefore, EntryValid, EntryOk
    <2>4. Max(W) \in W
      BY <2>2, <2>3, LargestPosition
    <2> DEFINE j == Max(W)
    <2>5. j \in 1 .. i - 1 /\ plan[j].write.buffer = read.buffer /\ plan[j].write.version = read.version
      BY <2>2, <2>4 DEF WritesBefore
    <2> HIDE DEF j, W
    <2>6. j \in DOMAIN plan
      BY <2>3, <2>5 DEF EntryValid, EntryOk
    <2>7. RebasedSteps(entry)[j].write = Rebase(plan[j].write, at)
      BY <2>6, RebasedStep DEF EntryValid
    <2>8. Rebase(plan[j].write, at) = Rebase(read, at)
      BY <2>5 DEF Rebase
    <2> QED
      BY <2>5, <2>7, <2>8
  <1> QED
    BY <1>2, <1>3

(* The reads of a rebased step. *)
LEMMA ReadsAreStaged ==
    ASSUME NEW entry, EntryValid(entry), NEW i \in DOMAIN entry.plan,
           NEW s \in Reads(RebasedSteps(entry)[i], entry.sources)
    PROVE  \/ \E b \in Required(entry) : s = State(b, entry.starts[b])
           \/ \E j \in 1 .. i - 1 : s = RebasedSteps(entry)[j].write
  <1> DEFINE step == entry.plan[i]
             new == RebasedSteps(entry)[i]
             at == entry.starts
  <1>1. /\ new.id = step.id /\ new.target = Rebase(step.target, at)
        /\ new.source = Rebase(step.source, at) /\ step \in Steps
    BY RebasedStep DEF EntryValid
  <1>2. ValidateStep(entry.plan, i)
    BY DEF EntryValid, EntryOk, Validate
  <1>3. step.target \in States /\ step.source \in States
    BY <1>1 DEF Steps
  <1>4. Required(entry) \subseteq DOMAIN at
    BY DEF EntryValid, Named, Required
  <1>5. ASSUME NEW read \in States, ReadOk(entry.plan, i, read), read.buffer \in Required(entry),
               s = Rebase(read, at)
        PROVE  \/ \E b \in Required(entry) : s = State(b, at[b])
               \/ \E j \in 1 .. i - 1 : s = RebasedSteps(entry)[j].write
    BY <1>4, <1>5, ReadIsStaged
  <1>6. ReadOk(entry.plan, i, step.target) /\ ReadOk(entry.plan, i, step.source)
        /\ step.target.buffer = step.write.buffer
    BY <1>2 DEF ValidateStep
  <1>7. step.target.buffer \in Required(entry)
    BY <1>6 DEF Required, Written
  <1>8. step.id \notin DOMAIN entry.sources => step.source.buffer \in Required(entry)
    BY DEF Required
  <1> HIDE DEF step, new, at
  <1>9. s = Rebase(step.target, at) \/ (step.id \notin DOMAIN entry.sources /\ s = Rebase(step.source, at))
    BY <1>1 DEF Reads, new
  <1> QED
    BY <1>3, <1>5, <1>6, <1>7, <1>8, <1>9 DEF at

(* A valid plan that starts where its required buffers are can be staged, and
   the states it writes hold what each step computes. *)
LEMMA EntryStages ==
    ASSUME NEW entry, EntryValid(entry), NEW acc, IsStaging(acc), acc.ok,
           \A b \in Required(entry) : State(b, entry.starts[b]) \in DOMAIN acc.snapshots
    PROVE  Stage(acc, RebasedSteps(entry), entry.sources).ok
  <1> DEFINE n == Len(entry.plan)
             steps == RebasedSteps(entry)
  <1>1. n \in Nat /\ DOMAIN steps = 1 .. n /\ DOMAIN entry.plan = 1 .. n
    BY RebasedOk DEF EntryValid, EntryOk
  <1> HIDE DEF n, steps
  <1>2. PICK run : StageRun(run, n, acc, steps, entry.sources)
                   /\ Stage(acc, steps, entry.sources) = run[n]
    BY <1>1, StageRuns
  <1> DEFINE Good(k) == /\ IsStaging(run[k]) /\ run[k].ok
                        /\ DOMAIN acc.snapshots \subseteq DOMAIN run[k].snapshots
                        /\ \A j \in 1 .. k : steps[j].write \in DOMAIN run[k].snapshots
             G == {k \in Nat : k <= n => Good(k)}
  <1>3. Good(0)
    BY <1>2 DEF StageRun
  <1>4. ASSUME NEW k \in Nat, Good(k), k + 1 <= n PROVE Good(k + 1)
    <2>1. k + 1 \in 1 .. n /\ (k + 1) - 1 = k
      BY <1>1, <1>4
    <2>2. run[k + 1] = StageStep(run[k], steps[k + 1], entry.sources)
      BY <1>2, <2>1 DEF StageRun
    <2>3. Reads(steps[k + 1], entry.sources) \subseteq DOMAIN run[k].snapshots
      <3> SUFFICES ASSUME NEW s \in Reads(steps[k + 1], entry.sources) PROVE s \in DOMAIN run[k].snapshots
        OBVIOUS
      <3>1. \/ \E b \in Required(entry) : s = State(b, entry.starts[b])
            \/ \E j \in 1 .. (k + 1) - 1 : s = steps[j].write
        <4>1. k + 1 \in DOMAIN entry.plan /\ s \in Reads(RebasedSteps(entry)[k + 1], entry.sources)
          BY <1>1, <2>1 DEF steps
        <4> DEFINE i == k + 1
        <4> HIDE DEF i
        <4>2. \/ \E b \in Required(entry) : s = State(b, entry.starts[b])
              \/ \E j \in 1 .. i - 1 : s = RebasedSteps(entry)[j].write
          BY <4>1, ReadsAreStaged DEF i
        <4> QED
          BY <4>2 DEF i, steps
      <3> QED
        BY <1>4, <2>1, <3>1
    <2>4. /\ IsStaging(run[k + 1]) /\ run[k + 1].ok
          /\ DOMAIN run[k + 1].snapshots = DOMAIN run[k].snapshots \cup {steps[k + 1].write}
      BY <1>4, <2>2, <2>3, StepGrows
    <2>5. \A j \in 1 .. k + 1 : j \in 1 .. k \/ j = k + 1
      OBVIOUS
    <2> QED
      BY <1>4, <2>4, <2>5
  <1> HIDE DEF Good
  <1>5. Good(n)
    <2>1. 0 \in G
      BY <1>3
    <2>2. \A k \in Nat : k \in G => k + 1 \in G
      BY <1>1, <1>4
    <2>3. n \in G
      <3> HIDE DEF G
      <3> QED
        BY <1>1, <2>1, <2>2, CountUp
    <2> QED
      BY <1>1, <2>3
  <1> QED
    BY <1>2, <1>5 DEF Good, steps

(* The staging of a batch of one entry. *)
LEMMA OneEntryStage ==
    ASSUME NEW acc, NEW entry
    PROVE  StageBatch(acc, <<entry>>) = Stage(acc, RebasedSteps(entry), entry.sources)
  <1> DEFINE batch == <<entry>>
  <1>1. DOMAIN batch = 1 .. 1 /\ batch[1] = entry /\ 1 \in Nat
    OBVIOUS
  <1> HIDE DEF batch
  <1>2. PICK run : BatchRun(run, 1, acc, batch) /\ StageBatch(acc, batch) = run[1]
    BY <1>1, BatchRuns
  <1>3. 1 - 1 = 0 /\ 1 \in 1 .. 1
    OBVIOUS
  <1>4. run[0] = acc /\ run[1] = StageEntry(run[1 - 1], batch[1])
    BY <1>2, <1>3, Zenon DEF BatchRun
  <1>5. run[1] = StageEntry(acc, entry)
    BY <1>1, <1>3, <1>4, Zenon
  <1> QED
    BY <1>2, <1>5, Zenon DEF StageEntry, batch

(* The batch that a replay executes. *)
ReplayEntry(program, frontier, sources) ==
    [plan |-> program.plan, starts |-> RebaseStarts(program, frontier), sources |-> sources]

(* A replay of a current frontier is staged and committed. *)
LEMMA ReplayIsStaged ==
    ASSUME RuntimeInv, NEW program \in Programs, CaptureOk(program),
           NEW frontier \in [Frontier(program) -> 0 .. MaxVersion], Current(frontier),
           NEW sources, DOMAIN sources = program.pure, SourcesOk(program.plan, sources)
    PROVE  LET entry == ReplayEntry(program, frontier, sources)
               staged == Stage(Staging(BatchSnapshots(Live, <<entry>>)), RebasedSteps(entry), sources)
           IN  /\ EntryValid(entry)
               /\ staged.ok
               /\ \A b \in Required(entry) :
                    State(b, entry.starts[b]) \in DOMAIN BatchSnapshots(Live, <<entry>>)
               /\ ReplayOutcome(program, frontier, sources) =
                    [ok |-> TRUE, live |-> Committed(Live, RebasedSteps(entry), staged.snapshots)]
               /\ ReplayOutcome(program, frontier, sources).ok
  <1> DEFINE entry == ReplayEntry(program, frontier, sources)
             batch == <<entry>>
             start == Staging(BatchSnapshots(Live, batch))
             staged == Stage(start, RebasedSteps(entry), sources)
  <1>1. program.plan \in Seq(Steps)
    BY EffectRuntimeAssumption
  <1>2. /\ Live \in [DOMAIN Live -> StoreEntry] /\ DOMAIN Live = Registered /\ Registered \subseteq Buffers
        /\ \A b \in Registered : Live[b].version = version[b]
    BY LiveIsStore DEF RuntimeInv, StoreOk
  <1>3. Frontier(program) \subseteq Registered /\ \A b \in Frontier(program) : frontier[b] = version[b]
    BY DEF Current
  <1>4. /\ entry.plan = program.plan /\ entry.starts = RebaseStarts(program, frontier)
        /\ entry.sources = sources
    BY DEF ReplayEntry
  <1>5. RebaseStartsOk(program, frontier)
    BY DEF RebaseStartsOk, CaptureOk
  <1>6. /\ DOMAIN RebaseStarts(program, frontier)
             = Frontier(program) \cup {s.buffer : s \in Placeholders(program)}
        /\ \A b \in Frontier(program) : RebaseStarts(program, frontier)[b] = frontier[b]
        /\ \A b \in DOMAIN RebaseStarts(program, frontier) : RebaseStarts(program, frontier)[b] \in Nat
    BY EffectRuntimeAssumption DEF RebaseStarts
  <1> HIDE DEF entry
  <1>7. EntryOk(entry)
    <2>1. \A s \in Placeholders(program) : s.buffer \in Buffers
      BY <1>1, StepBuffers DEF Placeholders
    <2>2. \A b \in DOMAIN entry.starts : b \in Buffers /\ entry.starts[b] \in Nat
      BY <1>2, <1>3, <1>4, <1>6, <2>1
    <2> QED
      BY <1>1, <1>4, <2>2 DEF EntryOk
  <1>8. Required(entry) \subseteq Frontier(program)
    BY <1>4 DEF Required, Frontier
  <1>9. Named(entry) \subseteq DOMAIN entry.starts
    <2> SUFFICES ASSUME NEW b \in Named(entry) PROVE b \in DOMAIN entry.starts
      OBVIOUS
    <2>1. CASE b \in Written(program.plan)
      BY <1>4, <1>6, <2>1, FrontierHasWrites
    <2>2. CASE b \notin Written(program.plan)
      <3>1. PICK i \in DOMAIN program.plan : b = program.plan[i].source.buffer
        BY <1>4, <2>2 DEF Named
      <3>2. CASE program.plan[i].id \in program.pure
        <4>1. program.plan[i].source \in Placeholders(program)
          BY <3>2 DEF Placeholders
        <4> QED
          BY <1>4, <1>6, <3>1, <4>1
      <3>3. CASE program.plan[i].id \notin program.pure
        <4>1. b \in Required(entry)
          BY <1>4, <3>1, <3>3 DEF Required
        <4> QED
          BY <1>4, <1>6, <1>8, <4>1
      <3> QED
        BY <3>2, <3>3
    <2> QED
      BY <2>1, <2>2
  <1>10. EntryValid(entry)
    BY <1>4, <1>7, <1>9 DEF EntryValid, CaptureOk
  <1>11. Checked(entry) \subseteq Frontier(program) /\ Required(entry) \subseteq Checked(entry)
    <2>1. ASSUME NEW s \in Placeholders(program)
          PROVE  s.buffer \in Named(entry) /\ s.buffer \notin Required(entry)
      <3>1. s.buffer \notin Frontier(program)
        BY <2>1 DEF CaptureOk
      <3>2. s.buffer \in Named(entry)
        BY <1>4, <2>1 DEF Placeholders, Named
      <3> QED
        BY <1>8, <3>1, <3>2
    <2>2. Checked(entry) \subseteq Frontier(program)
      BY <1>4, <1>6, <2>1 DEF Checked
    <2>3. Required(entry) \subseteq Checked(entry)
      BY <1>9 DEF Checked, Required, Named
    <2> QED
      BY <2>2, <2>3
  <1>12. /\ DOMAIN batch = {1} /\ batch[1] = entry /\ batch # <<>>
         /\ \A b : ProducersBefore(batch, 1, b) = {}
    BY DEF ProducersBefore
  <1> HIDE DEF batch
  <1>13. StartsLive(Live, batch, 1)
    BY <1>2, <1>3, <1>4, <1>6, <1>11, <1>12 DEF StartsLive
  <1>14. BatchOk(Live, batch)
    <2>1. \A buffers : StartsFollow(batch, 1, buffers)
      BY <1>12 DEF StartsFollow
    <2>2. Written(entry.plan) \subseteq DOMAIN Live
      BY <1>2, <1>3, <1>4, FrontierHasWrites
    <2>3. entry.plan # <<>> /\ Validate(entry.plan)
      BY <1>4 DEF CaptureOk
    <2>4. RebaseOk(batch)
      BY <1>9, <1>12, <2>1, <2>3 DEF RebaseOk
    <2> QED
      BY <1>12, <1>13, <2>1, <2>2, <2>4 DEF BatchOk
  <1>15. IsStaging(start) /\ start.ok /\ start.snapshots = BatchSnapshots(Live, batch)
    BY DEF IsStaging, Staging
  <1>16. \A b \in Required(entry) : State(b, entry.starts[b]) \in DOMAIN BatchSnapshots(Live, batch)
    <2> TAKE b \in Required(entry)
    <2>1. b \in Checked(batch[1]) /\ ProducersBefore(batch, 1, b) = {} /\ batch[1] = entry
      BY <1>11, <1>12
    <2>2. 1 \in DOMAIN batch
      BY <1>12
    <2> QED
      BY <2>1, <2>2 DEF BatchSnapshots
  <1> HIDE DEF start
  <1>17. staged.ok
    BY <1>4, <1>10, <1>15, <1>16, EntryStages
  <1>18. StageBatch(start, batch) = staged /\ BatchSteps(batch) = RebasedSteps(entry)
    BY <1>4, <1>10, OneEntryStage, OneEntrySteps DEF batch
  <1> HIDE DEF staged
  <1>19. BatchOutcome(Live, batch) =
           [ok |-> TRUE, live |-> Committed(Live, RebasedSteps(entry), staged.snapshots)]
    BY <1>14, <1>17, <1>18 DEF BatchOutcome, start
  <1>20. ReplayOutcome(program, frontier, sources) = BatchOutcome(Live, batch)
    BY <1>5 DEF ReplayOutcome, batch, entry, ReplayEntry
  <1>21. ReplayOutcome(program, frontier, sources).ok
    BY <1>19, <1>20
  <1> QED
    BY <1>10, <1>16, <1>17, <1>19, <1>20, <1>21 DEF staged, start, batch, entry

(* A cursor's replay, as the lemmas need it. *)
LEMMA CursorReplays ==
    ASSUME RuntimeInv, NEW c \in DOMAIN cursor,
           NEW successor \in [Frontier(cursor[c].program) -> Content]
    PROVE  /\ cursor[c].program \in Programs
           /\ cursor[c].frontier \in [Frontier(cursor[c].program) -> 0 .. MaxVersion]
           /\ DOMAIN SourcesOf(cursor[c].program, successor) = cursor[c].program.pure
           /\ SourcesOk(cursor[c].program.plan, SourcesOf(cursor[c].program, successor))
  <1>1. RecordOk(cursor[c], Live)
    BY DEF RuntimeInv, CursorsOk
  <1>2. DOMAIN SourcesOf(cursor[c].program, successor) = cursor[c].program.pure
    BY DEF SourcesOf
  <1> QED
    BY <1>1, <1>2, SourcesAreTensors DEF RecordOk

(* A cursor that names the live versions is never refused, whatever replays,
   failures and other writers came before: the rebased plan reads only states
   that are live or that it has itself written. *)
THEOREM ReplaysAreNeverTrapped ==
    ASSUME \A p \in Programs : CaptureOk(p)
    PROVE  RuntimeSpec => []ReplayNeverTrapped
  <1>1. RuntimeInv => ReplayNeverTrapped
    <2> SUFFICES ASSUME RuntimeInv, NEW c \in DOMAIN cursor, Current(cursor[c].frontier),
                        NEW successor \in Successors(cursor[c].program)
                 PROVE  ReplayOutcome(cursor[c].program, cursor[c].frontier,
                                      SourcesOf(cursor[c].program, successor)).ok
      BY DEF ReplayNeverTrapped
    <2> DEFINE program == cursor[c].program
               frontier == cursor[c].frontier
               sources == SourcesOf(program, successor)
    <2>1. /\ program \in Programs /\ CaptureOk(program)
          /\ frontier \in [Frontier(program) -> 0 .. MaxVersion]
          /\ DOMAIN sources = program.pure /\ SourcesOk(program.plan, sources)
      <3>1. program \in Programs
        BY DEF RuntimeInv, CursorsOk, RecordOk
      <3>2. successor \in [Frontier(program) -> Content]
        BY <3>1, SuccessorsAreTensors DEF RuntimeInv
      <3> QED
        BY <3>2, CursorReplays
    <2> HIDE DEF program, frontier, sources
    <2>2. Current(frontier)
      BY DEF frontier
    <2>3. ReplayOutcome(program, frontier, sources).ok
      BY <2>1, <2>2, ReplayIsStaged, Zenon
    <2> QED
      BY <2>3 DEF program, frontier, sources
  <1> QED
    BY <1>1, RuntimeInvariance, PTL

-----------------------------------------------------------------------------
(* The native path *)

(* The rebased step of a native capture replaces its buffer one version on, by
   what the pure prefix computed for that buffer. *)
LEMMA NativeStep ==
    ASSUME NEW program \in Programs, CaptureOk(program), Native(program),
           NEW frontier \in [Frontier(program) -> 0 .. MaxVersion],
           NEW successor \in [Frontier(program) -> Content],
           EntryValid(ReplayEntry(program, frontier, SourcesOf(program, successor))),
           NEW i \in DOMAIN program.plan
    PROVE  LET sources == SourcesOf(program, successor)
               step == RebasedSteps(ReplayEntry(program, frontier, sources))[i]
               b == program.plan[i].write.buffer
           IN  /\ b \in Frontier(program)
               /\ step.write = State(b, frontier[b] + 1)
               /\ step.region = Cells
               /\ step.id \in DOMAIN sources
               /\ sources[step.id] = successor[b]
  <1> DEFINE sources == SourcesOf(program, successor)
             entry == ReplayEntry(program, frontier, sources)
             step == RebasedSteps(entry)[i]
             b == program.plan[i].write.buffer
             plan == program.plan
  <1>1. /\ entry.plan = plan /\ entry.starts = RebaseStarts(program, frontier)
        /\ entry.sources = sources
    BY DEF ReplayEntry
  <1>2. plan[i].id \in program.pure /\ plan[i].region = Cells /\ plan[i].write.version = 1
    BY DEF Native
  <1>3. b \in Frontier(program)
    BY FrontierHasWrites DEF Written
  <1>4. RebaseStarts(program, frontier)[b] = frontier[b]
    BY <1>3 DEF RebaseStarts
  <1>5. /\ step.id = plan[i].id /\ step.region = plan[i].region
        /\ step.write = Rebase(plan[i].write, entry.starts)
    <2> HIDE DEF entry
    <2>1. EntryOk(entry) /\ i \in DOMAIN entry.plan
      BY <1>1 DEF EntryValid, entry
    <2> QED
      BY <1>1, <2>1, RebasedStep
  <1>6. step.write = State(b, frontier[b] + 1)
    BY <1>1, <1>2, <1>4, <1>5 DEF Rebase
  <1>7. plan \in Seq(Steps) /\ DOMAIN plan = 1 .. Len(plan) /\ Len(plan) \in Nat
    BY EffectRuntimeAssumption
  <1>8. \A j \in DOMAIN plan : plan[j].id = plan[i].id => j = i
    <2> SUFFICES ASSUME NEW j \in DOMAIN plan, plan[j].id = plan[i].id, j # i PROVE FALSE
      OBVIOUS
    <2>1. /\ plan[i].id \notin {plan[k].id : k \in 1 .. (i - 1)}
          /\ plan[j].id \notin {plan[k].id : k \in 1 .. (j - 1)}
      BY <1>7 DEF CaptureOk, Validate, ValidateStep, IdsBefore
    <2>2. j \in 1 .. (i - 1) \/ i \in 1 .. (j - 1)
      BY <1>7
    <2> QED
      BY <2>1, <2>2
  <1>9. (CHOOSE j \in DOMAIN plan : plan[j].id = plan[i].id) = i
    BY <1>8
  <1>10. plan[i].id \in DOMAIN sources /\ sources[plan[i].id] = successor[b]
    BY <1>2, <1>9 DEF SourcesOf
  <1> QED
    BY <1>2, <1>3, <1>5, <1>6, <1>10

(* The staging of a native capture. *)
LEMMA NativeStaged ==
    ASSUME NEW program \in Programs, CaptureOk(program), Native(program),
           NEW frontier \in [Frontier(program) -> 0 .. MaxVersion],
           NEW successor \in [Frontier(program) -> Content],
           NEW entry, entry = ReplayEntry(program, frontier, SourcesOf(program, successor)),
           EntryValid(entry), NEW acc, IsStaging(acc),
           Stage(acc, RebasedSteps(entry), entry.sources).ok
    PROVE  \A i \in DOMAIN program.plan :
             LET b == program.plan[i].write.buffer
             IN  Stage(acc, RebasedSteps(entry), entry.sources).snapshots[State(b, frontier[b] + 1)]
                   = successor[b]
  <1> DEFINE plan == program.plan
             n == Len(plan)
             steps == RebasedSteps(entry)
             sources == entry.sources
             b(i) == plan[i].write.buffer
  <1>1. /\ n \in Nat /\ DOMAIN plan = 1 .. n /\ DOMAIN steps = 1 .. n
        /\ sources = SourcesOf(program, successor)
    <2>1. entry.plan = plan /\ sources = SourcesOf(program, successor)
      BY DEF ReplayEntry
    <2>2. plan \in Seq(Steps)
      BY EffectRuntimeAssumption
    <2> QED
      BY <2>1, <2>2, RebasedOk DEF EntryValid
  <1>2. \A i \in 1 .. n :
          /\ b(i) \in Frontier(program) /\ steps[i].write = State(b(i), frontier[b(i)] + 1)
          /\ steps[i].region = Cells /\ steps[i].id \in DOMAIN sources
          /\ sources[steps[i].id] = successor[b(i)]
    BY <1>1, NativeStep
  <1> HIDE DEF n, steps, sources, b
  <1>3. PICK run : StageRun(run, n, acc, steps, sources) /\ Stage(acc, steps, sources) = run[n]
    BY <1>1, StageRuns
  <1> DEFINE Good(k) == /\ IsStaging(run[k])
                        /\ run[k].ok => \A j \in 1 .. k :
                             /\ steps[j].write \in DOMAIN run[k].snapshots
                             /\ run[k].snapshots[steps[j].write] = successor[b(j)]
             G == {k \in Nat : k <= n => Good(k)}
  <1>4. Good(0)
    BY <1>3 DEF StageRun
  <1>5. ASSUME NEW k \in Nat, Good(k), k + 1 <= n PROVE Good(k + 1)
    <2> DEFINE m == k + 1
    <2>1. m \in 1 .. n /\ m - 1 = k
      BY <1>1, <1>5
    <2>2. run[m] = StageStep(run[k], steps[m], sources)
      BY <1>3, <2>1 DEF StageRun
    <2>3. CASE ~run[k].ok \/ ~(Reads(steps[m], sources) \subseteq DOMAIN run[k].snapshots)
      <3>1. run[m] = [run[k] EXCEPT !.ok = FALSE]
        BY <2>2, <2>3 DEF StageStep
      <3>2. IsStaging(run[m]) /\ ~run[m].ok
        BY <1>5, <3>1 DEF IsStaging
      <3> QED
        BY <3>2
    <2>4. CASE run[k].ok /\ Reads(steps[m], sources) \subseteq DOMAIN run[k].snapshots
      <3> DEFINE new == run[m]
                 old == run[k]
                 target == old.snapshots[steps[m].target]
      <3>1. /\ IsStaging(new) /\ new.ok
            /\ DOMAIN new.snapshots = DOMAIN old.snapshots \cup {steps[m].write}
            /\ new.snapshots[steps[m].write] = Assigned(target, sources[steps[m].id], steps[m].region)
            /\ \A s \in DOMAIN old.snapshots : s # steps[m].write => new.snapshots[s] = old.snapshots[s]
        BY <1>2, <1>5, <2>1, <2>2, <2>4, StepGrows
      <3>2. /\ sources[steps[m].id] = successor[b(m)] /\ steps[m].region = Cells
            /\ successor[b(m)] \in Content
        BY <1>2, <2>1
      <3>3. Assigned(target, successor[b(m)], Cells) = successor[b(m)]
        BY <3>2 DEF Assigned, Content
      <3>4. new.snapshots[steps[m].write] = successor[b(m)]
        BY <3>1, <3>2, <3>3
      <3>5. ASSUME NEW j \in 1 .. m
            PROVE  /\ steps[j].write \in DOMAIN new.snapshots
                   /\ new.snapshots[steps[j].write] = successor[b(j)]
        <4>1. CASE j = m
          BY <3>1, <3>4, <4>1
        <4>2. CASE j # m
          <5>1. j \in 1 .. k
            BY <4>2
          <5>2. steps[j].write \in DOMAIN old.snapshots /\ old.snapshots[steps[j].write] = successor[b(j)]
            BY <1>5, <2>4, <5>1
          <5>3. CASE steps[j].write = steps[m].write
            <6>1. b(j) = b(m)
              <7>1. j \in 1 .. n
                BY <1>1, <2>1, <5>1
              <7>2. steps[j].write = State(b(j), frontier[b(j)] + 1)
                    /\ steps[m].write = State(b(m), frontier[b(m)] + 1)
                BY <1>2, <2>1, <7>1
              <7>3. \A x, v : State(x, v).buffer = x
                BY DEF State
              <7>4. steps[j].write.buffer = b(j) /\ steps[m].write.buffer = b(m)
                BY <7>2, <7>3
              <7> QED
                BY <5>3, <7>4
            <6> QED
              BY <3>1, <3>4, <5>3, <6>1
          <5>4. CASE steps[j].write # steps[m].write
            BY <3>1, <5>2, <5>4
          <5> QED
            BY <5>3, <5>4
        <4> QED
          BY <4>1, <4>2
      <3> QED
        BY <3>1, <3>5
    <2> QED
      BY <2>3, <2>4
  <1> HIDE DEF Good
  <1>6. Good(n)
    <2>1. 0 \in G
      BY <1>4
    <2>2. \A k \in Nat : k \in G => k + 1 \in G
      BY <1>1, <1>5
    <2>3. n \in G
      <3> HIDE DEF G
      <3> QED
        BY <1>1, <2>1, <2>2, CountUp
    <2> QED
      BY <1>1, <2>3
  <1>7. run[n].ok
    BY <1>3 DEF steps, sources
  <1>8. \A i \in 1 .. n : run[n].snapshots[State(b(i), frontier[b(i)] + 1)] = successor[b(i)]
    BY <1>2, <1>6, <1>7 DEF Good
  <1> QED
    BY <1>1, <1>3, <1>8 DEF steps, sources, b

(* The last write of a native capture to a buffer. *)
LEMMA NativeFinal ==
    ASSUME NEW program \in Programs, CaptureOk(program), Native(program),
           NEW frontier \in [Frontier(program) -> 0 .. MaxVersion],
           NEW successor \in [Frontier(program) -> Content],
           NEW entry, entry = ReplayEntry(program, frontier, SourcesOf(program, successor)),
           EntryValid(entry), NEW b \in Frontier(program)
    PROVE  /\ b \in Written(RebasedSteps(entry))
           /\ FinalState(RebasedSteps(entry), b) = State(b, frontier[b] + 1)
           /\ \E i \in DOMAIN program.plan : program.plan[i].write.buffer = b
  <1> DEFINE plan == program.plan
             n == Len(plan)
             steps == RebasedSteps(entry)
  <1>1. /\ n \in Nat /\ DOMAIN plan = 1 .. n /\ DOMAIN steps = 1 .. n
        /\ Written(steps) = Written(plan)
    <2>1. entry.plan = plan
      BY DEF ReplayEntry
    <2>2. plan \in Seq(Steps)
      BY EffectRuntimeAssumption
    <2> QED
      BY <2>1, <2>2, RebasedOk DEF EntryValid
  <1>2. b \in Written(steps) /\ b \in Written(plan)
    BY <1>1 DEF Native
  <1> HIDE DEF steps
  <1>3. PICK i \in 1 .. n : FinalState(steps, b) = steps[i].write /\ steps[i].write.buffer = b
    BY <1>1, <1>2, FinalIsWritten
  <1>4. steps[i].write = State(plan[i].write.buffer, frontier[plan[i].write.buffer] + 1)
    BY <1>1, <1>3, NativeStep DEF steps
  <1>5. plan[i].write.buffer = b
    BY <1>3, <1>4 DEF State
  <1> QED
    BY <1>1, <1>2, <1>3, <1>4, <1>5 DEF steps

(* Where the native path admits a replay, it leaves the versions, the contents
   and the cursor that the interpreter leaves for the same computed values, a
   bank that is kept instead of copied included. *)
THEOREM NativeReplaysAreInterpreted ==
    ASSUME \A p \in Programs : CaptureOk(p)
    PROVE  RuntimeSpec => []NativeIsInterpreted
  <1>1. ASSUME RuntimeInv, NEW c \in DOMAIN cursor, NativeAdmitted(c),
               NEW successor \in [Frontier(cursor[c].program) -> Content]
        PROVE  /\ NextFrontier(cursor[c].frontier)
                    = AdvancedFrontier(cursor[c].program, cursor[c].frontier)
               /\ ReplayOutcome(cursor[c].program, cursor[c].frontier,
                                SourcesOf(cursor[c].program, successor))
                    = [ok |-> TRUE, live |-> NativeOutcome(cursor[c].frontier, successor)]
    <2> DEFINE program == cursor[c].program
               frontier == cursor[c].frontier
               sources == SourcesOf(program, successor)
               entry == ReplayEntry(program, frontier, sources)
               steps == RebasedSteps(entry)
               start == Staging(BatchSnapshots(Live, <<entry>>))
               staged == Stage(start, steps, sources)
    <2>1. Current(frontier) /\ Native(program)
      BY <1>1 DEF NativeAdmitted
    <2>2. /\ program \in Programs /\ CaptureOk(program)
          /\ frontier \in [Frontier(program) -> 0 .. MaxVersion]
          /\ DOMAIN sources = program.pure /\ SourcesOk(program.plan, sources)
          /\ successor \in [Frontier(program) -> Content]
      BY <1>1, <2>1, CursorReplays
    <2> HIDE DEF program, frontier, sources
    <2>3. /\ EntryValid(entry) /\ staged.ok
          /\ ReplayOutcome(program, frontier, sources) =
               [ok |-> TRUE, live |-> Committed(Live, steps, staged.snapshots)]
      BY <1>1, <2>1, <2>2, ReplayIsStaged, Zenon
    <2>4. entry = ReplayEntry(program, frontier, SourcesOf(program, successor))
          /\ entry.sources = sources /\ entry.starts = RebaseStarts(program, frontier)
          /\ entry.plan = program.plan
      BY DEF ReplayEntry, sources
    <2>5. IsStaging(start)
      BY DEF IsStaging, Staging
    <2>6. \A b \in Frontier(program) :
            /\ b \in Written(steps) /\ FinalState(steps, b) = State(b, frontier[b] + 1)
            /\ \E i \in DOMAIN program.plan : program.plan[i].write.buffer = b
      <3> HIDE DEF entry
      <3> QED
        BY <2>1, <2>2, <2>3, <2>4, NativeFinal
    <2>7. \A b \in Frontier(program) : staged.snapshots[State(b, frontier[b] + 1)] = successor[b]
      <3> HIDE DEF entry, start
      <3>1. \A i \in DOMAIN program.plan :
              LET b == program.plan[i].write.buffer
              IN  staged.snapshots[State(b, frontier[b] + 1)] = successor[b]
        BY <2>1, <2>2, <2>3, <2>4, <2>5, NativeStaged
      <3> QED
        BY <2>6, <3>1
    <2>8. Written(steps) = Frontier(program)
      <3>1. Written(steps) = Written(entry.plan)
        <4> HIDE DEF entry
        <4> QED
          BY <2>3, RebasedOk DEF EntryValid
      <3> QED
        BY <2>1, <2>4, <3>1 DEF Native
    <2> HIDE DEF steps, staged
    <2>9. Committed(Live, steps, staged.snapshots) = NativeOutcome(frontier, successor)
      <3>1. DOMAIN Live = Registered /\ DOMAIN frontier = Frontier(program)
        BY <1>1, <2>2, LiveIsStore DEF RuntimeInv
      <3>2. \A b \in Frontier(program) :
              /\ FinalState(steps, b).version = frontier[b] + 1
              /\ staged.snapshots[FinalState(steps, b)] = successor[b]
              /\ NextFrontier(frontier)[b] = frontier[b] + 1
        BY <2>6, <2>7, <3>1 DEF State, NextFrontier
      <3> QED
        BY <2>8, <3>1, <3>2 DEF Committed, NativeOutcome
    <2>10. NextFrontier(frontier) = AdvancedFrontier(program, frontier)
      <3>1. RebasedSteps([plan |-> program.plan, starts |-> RebaseStarts(program, frontier)]) = steps
        BY <2>4 DEF steps, RebasedSteps
      <3>2. AdvancedFrontier(program, frontier) =
              [b \in DOMAIN frontier |->
                 IF b \in Written(steps) THEN FinalState(steps, b).version ELSE frontier[b]]
        BY <3>1 DEF AdvancedFrontier
      <3>3. \A b \in DOMAIN frontier : b \in Written(steps) /\ FinalState(steps, b).version = frontier[b] + 1
        BY <2>2, <2>6 DEF State
      <3> QED
        BY <3>2, <3>3 DEF NextFrontier
    <2>11. NextFrontier(frontier) = AdvancedFrontier(program, frontier)
           /\ ReplayOutcome(program, frontier, sources)
                = [ok |-> TRUE, live |-> NativeOutcome(frontier, successor)]
      BY <2>3, <2>9, <2>10
    <2> QED
      BY <2>11 DEF program, frontier, sources
  <1>2. RuntimeInv => NativeIsInterpreted
    <2> SUFFICES ASSUME RuntimeInv, NEW c \in DOMAIN cursor, NativeAdmitted(c)
                 PROVE  /\ NextFrontier(cursor[c].frontier)
                             = AdvancedFrontier(cursor[c].program, cursor[c].frontier)
                        /\ \A successor \in Successors(cursor[c].program) :
                             ReplayOutcome(cursor[c].program, cursor[c].frontier,
                                           SourcesOf(cursor[c].program, successor))
                               = [ok |-> TRUE, live |-> NativeOutcome(cursor[c].frontier, successor)]
      BY DEF NativeIsInterpreted
    <2>1. /\ cursor[c].program \in Programs
          /\ cursor[c].frontier \in [Frontier(cursor[c].program) -> 0 .. MaxVersion]
      BY DEF RuntimeInv, CursorsOk, RecordOk
    <2>2. [b \in Frontier(cursor[c].program) |-> Visible(b)] \in [Frontier(cursor[c].program) -> Content]
      BY <2>1 DEF NativeAdmitted, Current, RuntimeInv, StoreOk
    <2>3. \A successor \in Successors(cursor[c].program) :
            successor \in [Frontier(cursor[c].program) -> Content]
      BY <2>1, SuccessorsAreTensors DEF RuntimeInv
    <2> QED
      BY <1>1, <2>2, <2>3, Zenon
  <1> QED
    BY <1>2, RuntimeInvariance, PTL

-----------------------------------------------------------------------------
(* Graphs *)

(* The stores of n assignments executed in place. *)
InPlaceRun(run, n, acc, steps) ==
    /\ run[0] = acc
    /\ \A i \in 1 .. n : run[i] = InPlace(run[i - 1], steps[i])

(* The in-place fold is the last store of a run of its steps. *)
LEMMA InPlaceRuns ==
    ASSUME NEW acc, NEW steps, NEW n \in Nat, DOMAIN steps = 1 .. n
    PROVE  \E run : InPlaceRun(run, n, acc, steps) /\ FoldLeft(InPlace, acc, steps) = run[n]
  <1> DEFINE Value(it, t) == IF t = {} THEN acc
                             ELSE InPlace(it[t \ {Max(t)}], steps[Max(t)])
             Folds(it) == it = [t \in SUBSET (1 .. n) |-> Value(it, t)]
             G == {k \in Nat : \E it : \A t \in SUBSET (1 .. k) : it[t] = Value(it, t)}
  <1>1. FoldLeft(InPlace, acc, steps) = (CHOOSE it : Folds(it))[1 .. n]
    BY DEF FoldLeft, MapThenFoldSet
  <1>2. 0 \in G
    <2> DEFINE it == [t \in SUBSET (1 .. 0) |-> acc]
    <2>1. \A t \in SUBSET (1 .. 0) : it[t] = Value(it, t)
      BY Segment
    <2> QED
      BY <2>1
  <1>3. ASSUME NEW k \in Nat, k \in G PROVE k + 1 \in G
    <2>1. PICK it : \A t \in SUBSET (1 .. k) : it[t] = Value(it, t)
      BY <1>3
    <2> DEFINE more == [t \in SUBSET (1 .. k + 1) |->
                          IF k + 1 \in t THEN InPlace(it[t \ {k + 1}], steps[k + 1])
                          ELSE it[t]]
    <2>2. \A t \in SUBSET (1 .. k) : more[t] = it[t] /\ t \in SUBSET (1 .. k + 1)
      OBVIOUS
    <2>3. ASSUME NEW t \in SUBSET (1 .. k + 1) PROVE more[t] = Value(more, t)
      <3>1. CASE k + 1 \in t
        <4>1. Max(t) = k + 1 /\ t \ {k + 1} \in SUBSET (1 .. k)
          BY <3>1, WithoutLargest
        <4>2. more[t] = InPlace(it[t \ {k + 1}], steps[k + 1])
          BY <3>1
        <4>3. more[t \ {k + 1}] = it[t \ {k + 1}]
          BY <2>2, <4>1
        <4> QED
          BY <3>1, <4>1, <4>2, <4>3
      <3>2. CASE k + 1 \notin t
        <4>1. t \in SUBSET (1 .. k) /\ (t # {} => t \ {Max(t)} \in SUBSET (1 .. k))
          BY <3>2, WithoutLargest
        <4>2. more[t] = it[t] /\ (t # {} => more[t \ {Max(t)}] = it[t \ {Max(t)}])
          BY <2>2, <4>1
        <4> QED
          BY <2>1, <4>1, <4>2
      <3> QED
        BY <3>1, <3>2
    <2> HIDE DEF more, Value
    <2> QED
      BY <2>3
  <1>4. n \in G
    <2> HIDE DEF G
    <2> QED
      BY <1>2, <1>3, CountUp
  <1>5. PICK it : \A t \in SUBSET (1 .. n) : it[t] = Value(it, t)
    BY <1>4
  <1>6. \E all : Folds(all)
    <2> DEFINE all == [t \in SUBSET (1 .. n) |-> it[t]]
    <2>1. \A t \in SUBSET (1 .. n) : t # {} => t \ {Max(t)} \in SUBSET (1 .. n)
      OBVIOUS
    <2>2. \A t \in SUBSET (1 .. n) : Value(it, t) = Value(all, t)
      BY <2>1
    <2>3. Folds(all)
      BY <1>5, <2>2
    <2> QED
      BY <2>3
  <1> DEFINE fold == CHOOSE all : Folds(all)
  <1>7. Folds(fold)
    BY <1>6
  <1> HIDE DEF fold
  <1>8. \A t \in SUBSET (1 .. n) : fold[t] = Value(fold, t)
    BY <1>7
  <1> DEFINE run == [i \in 0 .. n |-> fold[1 .. i]]
  <1>9. run[0] = acc
    <2>1. 1 .. 0 = {} /\ {} \in SUBSET (1 .. n) /\ 0 \in 0 .. n
      BY Segment
    <2>2. fold[{}] = acc
      BY <1>8, <2>1
    <2> QED
      BY <2>1, <2>2
  <1>10. ASSUME NEW i \in 1 .. n PROVE run[i] = InPlace(run[i - 1], steps[i])
    <2>1. i \in Nat /\ i # 0 /\ 1 .. i \in SUBSET (1 .. n) /\ i - 1 \in 0 .. n /\ i \in 0 .. n
      OBVIOUS
    <2>2. Max(1 .. i) = i /\ (1 .. i) \ {i} = 1 .. i - 1 /\ 1 .. i # {}
      BY <2>1, Segment
    <2> QED
      BY <1>8, <2>1, <2>2
  <1>11. FoldLeft(InPlace, acc, steps) = run[n]
    BY <1>1 DEF fold
  <1> QED
    BY <1>9, <1>10, <1>11 DEF InPlaceRun

(* The version that a plan has given a buffer after one step more. *)
LEMMA VersionAfter ==
    ASSUME NEW plan, NEW m \in Nat, m # 0, NEW b
    PROVE  VersionBefore(plan, m + 1, b) =
             IF plan[m].write.buffer = b THEN plan[m].write.version ELSE VersionBefore(plan, m, b)
  <1> DEFINE W == WritesBefore(plan, m + 1, b)
  <1>1. (m + 1) - 1 = m /\ m \in 1 .. m /\ \A j \in 1 .. m : j # m => j \in 1 .. (m - 1)
    OBVIOUS
  <1>2. W = {j \in 1 .. m : plan[j].write.buffer = b}
    BY <1>1 DEF WritesBefore
  <1>3. CASE plan[m].write.buffer = b
    <2>1. m \in W /\ W \in SUBSET (1 .. m)
      BY <1>1, <1>2, <1>3
    <2>2. Max(W) = m
      <3> HIDE DEF W
      <3>1. Max(W) \in 1 .. m /\ m <= Max(W)
        BY <2>1, LargestPosition
      <3> QED
        BY <3>1
    <2> QED
      BY <1>3, <2>1, <2>2 DEF VersionBefore
  <1>4. CASE plan[m].write.buffer # b
    <2>1. W = WritesBefore(plan, m, b)
      BY <1>1, <1>2, <1>4 DEF WritesBefore
    <2> QED
      BY <1>4, <2>1 DEF VersionBefore
  <1> QED
    BY <1>3, <1>4

(* Before its first step a plan has written nothing. *)
LEMMA VersionAtFirst == \A plan, b : VersionBefore(plan, 1, b) = 0
  <1>1. 1 .. (1 - 1) = {}
    OBVIOUS
  <1> QED
    BY <1>1 DEF VersionBefore, WritesBefore

(* A graph's steps use buffers that were inserted. *)
GraphStepOk(step, inserted) ==
    /\ step \in Steps
    /\ {step.target.buffer, step.source.buffer, step.write.buffer} \subseteq inserted

(* The handles of a graph: the current version of a buffer is the one that the
   last assignment to it wrote. *)
GraphInv ==
    /\ DOMAIN initial = DOMAIN states /\ DOMAIN states \subseteq Buffers
    /\ initial = [b \in DOMAIN initial |-> initial[b]]
    /\ states \in [DOMAIN states -> Nat]
    /\ assignments \in Seq(Steps)
    /\ \A i \in DOMAIN assignments : GraphStepOk(assignments[i], DOMAIN states)
    /\ \A b \in DOMAIN states : states[b] = VersionBefore(assignments, Len(assignments) + 1, b)

(* insert: a new buffer, which no assignment has named yet. *)
LEMMA InsertGood ==
    ASSUME GraphInv, NEW b \in Buffers, Insert(b)
    PROVE  GraphInv'
  <1> USE DEF GraphInv
  <1>1. /\ b \notin DOMAIN states /\ assignments' = assignments
        /\ DOMAIN states' = DOMAIN states \cup {b} /\ DOMAIN initial' = DOMAIN initial \cup {b}
        /\ states'[b] = 0 /\ \A c \in DOMAIN states : states'[c] = states[c]
    BY DEF Insert
  <1>2. initial' = [c \in DOMAIN initial' |-> initial'[c]] /\ states' = [c \in DOMAIN states' |-> states'[c]]
    BY DEF Insert
  <1>3. states' \in [DOMAIN states' -> Nat]
    BY <1>1, <1>2
  <1>4. \A i \in DOMAIN assignments : GraphStepOk(assignments[i], DOMAIN states')
    BY <1>1 DEF GraphStepOk
  <1>5. VersionBefore(assignments, Len(assignments) + 1, b) = 0
    <2>1. Len(assignments) \in Nat /\ DOMAIN assignments = 1 .. Len(assignments)
      OBVIOUS
    <2>2. (Len(assignments) + 1) - 1 = Len(assignments)
      BY <2>1
    <2>3. WritesBefore(assignments, Len(assignments) + 1, b) = {}
      BY <1>1, <2>1, <2>2 DEF WritesBefore, GraphStepOk
    <2> QED
      BY <2>3 DEF VersionBefore
  <1>6. \A c \in DOMAIN states' : states'[c] = VersionBefore(assignments', Len(assignments') + 1, c)
    BY <1>1, <1>5
  <1> QED
    BY <1>1, <1>2, <1>3, <1>4, <1>6

(* assign and its variants: one step more, and the target's buffer moves to
   the version that the step writes. *)
LEMMA AssignGood ==
    ASSUME GraphInv, NEW target \in Handles, NEW source \in Handles, NEW region \in SUBSET Cells,
           Assign(target, source, region)
    PROVE  GraphInv'
  <1> USE DEF GraphInv
  <1> DEFINE n == Len(assignments)
             B == target.buffer
             next == State(B, states[B] + 1)
             step == [id |-> n, target |-> target, source |-> source, write |-> next,
                      region |-> region, after |-> IF n = 0 THEN {} ELSE {n - 1}]
             more == Append(assignments, step)
  <1>1. /\ assignments' = more /\ initial' = initial
        /\ states' = [states EXCEPT ![B] = next.version]
    BY DEF Assign
  <1>2. /\ n \in Nat /\ DOMAIN assignments = 1 .. n /\ MaxAssignments \in Nat
        /\ B \in DOMAIN states /\ source.buffer \in DOMAIN states
        /\ target \in States /\ source \in States
    BY EffectGraphAssumption DEF Handles, State, States
  <1>3. states[B] \in Nat /\ next \in States /\ next.version = states[B] + 1 /\ next.buffer = B
    BY <1>2 DEF State, States
  <1>4. step \in Steps
    BY <1>2, <1>3 DEF Steps
  <1>5. step.write = next /\ step.target = target /\ step.source = source
    OBVIOUS
  <1> HIDE DEF step, next
  <1>6. /\ more \in Seq(Steps) /\ Len(more) = n + 1 /\ DOMAIN more = 1 .. n + 1
        /\ more[n + 1] = step /\ \A i \in 1 .. n : more[i] = assignments[i]
    BY <1>2, <1>4
  <1> HIDE DEF n, more
  <1>7. /\ DOMAIN states' = DOMAIN states /\ states' \in [DOMAIN states' -> Nat]
        /\ states'[B] = next.version /\ \A c \in DOMAIN states : c # B => states'[c] = states[c]
    BY <1>1, <1>2, <1>3
  <1>8. \A i \in DOMAIN assignments' : GraphStepOk(assignments'[i], DOMAIN states')
    <2> SUFFICES ASSUME NEW i \in 1 .. n + 1 PROVE GraphStepOk(more[i], DOMAIN states')
      BY <1>1, <1>6
    <2>1. CASE i = n + 1
      BY <1>2, <1>3, <1>4, <1>5, <1>6, <1>7, <2>1 DEF GraphStepOk
    <2>2. CASE i # n + 1
      <3>1. i \in 1 .. n
        BY <1>2, <2>2
      <3> QED
        BY <1>2, <1>6, <1>7, <3>1 DEF GraphStepOk
    <2> QED
      BY <2>1, <2>2
  <1>9. ASSUME NEW c \in DOMAIN states
        PROVE  states'[c] = VersionBefore(more, (n + 1) + 1, c)
    <2>1. n + 1 \in Nat /\ n + 1 # 0 /\ (n + 1) - 1 = n
      BY <1>2
    <2>2. VersionBefore(more, (n + 1) + 1, c) =
            IF next.buffer = c THEN next.version ELSE VersionBefore(more, n + 1, c)
      BY <1>5, <1>6, <2>1, VersionAfter
    <2>3. VersionBefore(more, n + 1, c) = VersionBefore(assignments, n + 1, c)
      <3>1. WritesBefore(more, n + 1, c) = WritesBefore(assignments, n + 1, c)
            /\ WritesBefore(more, n + 1, c) \in SUBSET (1 .. n)
        BY <1>6, <2>1 DEF WritesBefore
      <3>2. WritesBefore(more, n + 1, c) # {} => Max(WritesBefore(more, n + 1, c)) \in 1 .. n
        BY <1>2, <3>1, LargestPosition
      <3> QED
        BY <1>6, <3>1, <3>2 DEF VersionBefore
    <2>4. states[c] = VersionBefore(assignments, n + 1, c)
      BY DEF n
    <2> QED
      BY <1>3, <1>7, <2>2, <2>3, <2>4
  <1>10. \A c \in DOMAIN states' : states'[c] = VersionBefore(assignments', Len(assignments') + 1, c)
    BY <1>1, <1>6, <1>7, <1>9
  <1> QED
    BY <1>1, <1>6, <1>7, <1>8, <1>10

(* Every handle a graph gives out names the version its assignments reach. *)
THEOREM GraphInvariance == GraphSpec => []GraphInv
  <1>1. GraphInit => GraphInv
    <2> SUFFICES ASSUME GraphInit PROVE GraphInv
      OBVIOUS
    <2>1. DOMAIN initial = {} /\ DOMAIN states = {} /\ assignments = <<>>
          /\ initial = [b \in DOMAIN initial |-> initial[b]] /\ states = [b \in DOMAIN states |-> states[b]]
      BY DEF GraphInit
    <2>2. assignments \in Seq(Steps) /\ DOMAIN assignments = {}
      BY <2>1
    <2> QED
      BY <2>1, <2>2 DEF GraphInv
  <1>2. GraphInv /\ [GraphNext]_graphVars => GraphInv'
    <2> SUFFICES ASSUME GraphInv, [GraphNext]_graphVars PROVE GraphInv'
      OBVIOUS
    <2>1. CASE GraphNext
      BY <2>1, InsertGood, AssignGood DEF GraphNext
    <2>2. CASE UNCHANGED graphVars
      BY <2>2 DEF graphVars, GraphInv, GraphStepOk
    <2> QED
      BY <2>1, <2>2
  <1> QED
    BY <1>1, <1>2, PTL DEF GraphSpec

(* The snapshots of a staging and the store of the same steps in place: the
   store holds the latest state of each buffer, and the states at version zero
   are still those the graph began with. *)
Agree(snapshots, store, plan, k) ==
    /\ DOMAIN store = DOMAIN initial /\ store = [b \in DOMAIN store |-> store[b]]
    /\ \A b \in DOMAIN initial :
         /\ VersionBefore(plan, k + 1, b) \in Nat
         /\ State(b, 0) \in DOMAIN snapshots /\ snapshots[State(b, 0)] = initial[b]
         /\ State(b, VersionBefore(plan, k + 1, b)) \in DOMAIN snapshots
         /\ snapshots[State(b, VersionBefore(plan, k + 1, b))] = store[b]

(* One step, staged and in place. *)
LEMMA StepAgrees ==
    ASSUME NEW plan, NEW k \in Nat, NEW acc, IsStaging(acc), acc.ok, NEW store,
           Agree(acc.snapshots, store, plan, k),
           GraphStepOk(plan[k + 1], DOMAIN initial), ValidateStep(plan, k + 1),
           StageStep(acc, plan[k + 1], NoSources).ok
    PROVE  Agree(StageStep(acc, plan[k + 1], NoSources).snapshots,
                 InPlace(store, plan[k + 1]), plan, k + 1)
  <1> DEFINE m == k + 1
             step == plan[m]
             new == StageStep(acc, step, NoSources)
             sn == acc.snapshots
             B == step.write.buffer
             V(b) == VersionBefore(plan, m, b)
             W(b) == VersionBefore(plan, m + 1, b)
  <1>1. Reads(step, NoSources) = {step.target, step.source} /\ step.id \notin DOMAIN NoSources
    BY DEF Reads, NoSources
  <1>2. Reads(step, NoSources) \subseteq DOMAIN sn
    <2> SUFFICES ASSUME ~(Reads(step, NoSources) \subseteq DOMAIN sn) PROVE FALSE
      OBVIOUS
    <2>1. new = [acc EXCEPT !.ok = FALSE]
      BY DEF StageStep
    <2> QED
      BY <2>1 DEF IsStaging
  <1>3. /\ DOMAIN new.snapshots = DOMAIN sn \cup {step.write}
        /\ new.snapshots[step.write] = Assigned(sn[step.target], sn[step.source], step.region)
        /\ \A s \in DOMAIN sn : s # step.write => new.snapshots[s] = sn[s]
    BY <1>1, <1>2, StepGrows
  <1>4. /\ step \in Steps /\ B \in DOMAIN initial
        /\ step.source.buffer \in DOMAIN initial
    BY DEF GraphStepOk
  <1>5. /\ step.target.buffer = B /\ step.write.version = step.target.version + 1
        /\ step.write.version = V(B) + 1
        /\ step.source.version \in {0, V(step.source.buffer)}
    BY DEF ValidateStep, ReadOk
  <1>6. /\ step.target \in States /\ step.source \in States /\ step.write \in States
    BY <1>4 DEF Steps
  <1> HIDE DEF step, new, m
  <1>7. /\ step.target = State(B, step.target.version)
        /\ step.write = State(B, step.write.version)
        /\ step.source = State(step.source.buffer, step.source.version)
    BY <1>5, <1>6 DEF States, State
  <1>8. /\ step.target.version \in Nat /\ step.source.version \in Nat
    BY <1>6 DEF States
  <1>9. \A b \in DOMAIN initial : W(b) = IF B = b THEN step.write.version ELSE V(b)
    <2>1. m \in Nat /\ m # 0
      BY DEF m
    <2> QED
      BY <2>1, VersionAfter DEF step
  <1>10. \A b \in DOMAIN initial :
           /\ V(b) \in Nat
           /\ State(b, 0) \in DOMAIN sn /\ sn[State(b, 0)] = initial[b]
           /\ State(b, V(b)) \in DOMAIN sn /\ sn[State(b, V(b))] = store[b]
    BY DEF Agree, m
  <1> HIDE DEF V, W
  <1>11. sn[step.source] = IF step.source.version = 0 THEN initial[step.source.buffer]
                           ELSE store[step.source.buffer]
    <2>1. CASE step.source.version = 0
      BY <1>4, <1>7, <1>10, <2>1
    <2>2. CASE step.source.version # 0
      BY <1>4, <1>5, <1>7, <1>10, <2>2
    <2> QED
      BY <2>1, <2>2
  <1>12. CASE step.target.version = V(B)
    <2>1. sn[step.target] = store[B]
      BY <1>4, <1>7, <1>10, <1>12
    <2> DEFINE updated == InPlace(store, step)
    <2>2. /\ DOMAIN updated = DOMAIN initial /\ updated = [b \in DOMAIN updated |-> updated[b]]
          /\ updated[B] = new.snapshots[step.write]
          /\ \A b \in DOMAIN initial : b # B => updated[b] = store[b]
      <3>1. DOMAIN store = DOMAIN initial /\ store = [b \in DOMAIN store |-> store[b]]
        BY DEF Agree
      <3>2. updated = [store EXCEPT ![B] = Assigned(store[B], sn[step.source], step.region)]
        BY <1>11 DEF InPlace
      <3> DEFINE value == Assigned(store[B], sn[step.source], step.region)
      <3>3. new.snapshots[step.write] = value
        BY <1>3, <2>1
      <3> HIDE DEF value
      <3>4. /\ DOMAIN updated = DOMAIN initial /\ updated = [b \in DOMAIN updated |-> updated[b]]
            /\ updated[B] = value /\ \A b \in DOMAIN initial : b # B => updated[b] = store[b]
        BY <1>4, <3>1, <3>2 DEF value
      <3> QED
        BY <3>3, <3>4
    <2> HIDE DEF updated
    <2>3. \A x, v, y, w : State(x, v) = State(y, w) => x = y /\ v = w
      BY DEF State
    <2>4. ASSUME NEW b \in DOMAIN initial
          PROVE  /\ State(b, 0) \in DOMAIN new.snapshots /\ new.snapshots[State(b, 0)] = initial[b]
                 /\ State(b, W(b)) \in DOMAIN new.snapshots /\ new.snapshots[State(b, W(b))] = updated[b]
      <3>1. State(b, 0) # step.write
        <4>1. step.write.version # 0
          BY <1>5, <1>8
        <4> QED
          BY <1>7, <2>3, <4>1
      <3>2. CASE b = B
        BY <1>3, <1>7, <1>9, <1>10, <2>2, <3>1, <3>2
      <3>3. CASE b # B
        <4>1. W(b) = V(b) /\ State(b, V(b)) # step.write
          BY <1>7, <1>9, <2>3, <3>3
        <4> QED
          BY <1>3, <1>10, <2>2, <3>1, <3>3, <4>1
      <3> QED
        BY <3>2, <3>3
    <2>5. \A b \in DOMAIN initial : W(b) \in Nat
      BY <1>6, <1>9, <1>10 DEF States
    <2>6. Agree(new.snapshots, updated, plan, m)
      BY <2>2, <2>4, <2>5 DEF Agree, W
    <2> QED
      BY <2>6 DEF new, step, m, updated
  <1>13. step.target.version = V(B)
    BY <1>4, <1>5, <1>8, <1>10
  <1> QED
    BY <1>12, <1>13

(* execute() leaves what executing the assignments in place, in order, leaves,
   and the versions that the handles promised: no read sees a write that it
   should not, whatever the assignments overlap. *)
THEOREM GraphsExecuteInPlace == GraphSpec => []ExecuteIsInPlace
  <1>1. GraphInv => ExecuteIsInPlace
    <2> DEFINE plan == assignments
               n == Len(plan)
               base == [s \in {State(b, 0) : b \in DOMAIN initial} |-> initial[s.buffer]]
               start == Staging(base)
               staged == Stage(start, plan, NoSources)
    <2> SUFFICES ASSUME GraphInv, Execute.ok
                 PROVE  Execute.values = FoldLeft(InPlace, initial, plan) /\ Execute.states = states
      BY DEF ExecuteIsInPlace
    <2>1. /\ Validate(plan) /\ staged.ok
          /\ Execute.values = [b \in DOMAIN initial |->
                                 IF b \in Written(plan) THEN staged.snapshots[FinalState(plan, b)]
                                 ELSE initial[b]]
          /\ Execute.states = [b \in DOMAIN initial |->
                                 IF b \in Written(plan) THEN FinalState(plan, b).version ELSE 0]
      BY DEF Execute, Plan
    <2>2. n \in Nat /\ DOMAIN plan = 1 .. n /\ plan \in Seq(Steps)
      BY DEF GraphInv
    <2> HIDE DEF plan, n, start
    <2>3. PICK run : StageRun(run, n, start, plan, NoSources) /\ staged = run[n]
      BY <2>2, StageRuns
    <2>4. PICK done : InPlaceRun(done, n, initial, plan) /\ FoldLeft(InPlace, initial, plan) = done[n]
      BY <2>2, InPlaceRuns
    <2> DEFINE Good(k) == /\ IsStaging(run[k])
                          /\ run[k].ok => Agree(run[k].snapshots, done[k], plan, k)
               G == {k \in Nat : k <= n => Good(k)}
    <2>5. Good(0)
      <3>1. run[0] = start /\ done[0] = initial
        BY <2>3, <2>4 DEF StageRun, InPlaceRun
      <3>2. IsStaging(start) /\ start.snapshots = base
        BY DEF IsStaging, Staging, start
      <3>3. \A b \in DOMAIN initial : State(b, 0) \in DOMAIN base /\ base[State(b, 0)] = initial[b]
        BY DEF State
      <3>4. \A b : VersionBefore(plan, 0 + 1, b) = 0
        BY VersionAtFirst
      <3> HIDE DEF base
      <3>5. initial = [b \in DOMAIN initial |-> initial[b]]
        BY DEF GraphInv
      <3>6. Agree(base, initial, plan, 0)
        BY <3>3, <3>4, <3>5 DEF Agree
      <3> QED
        BY <3>1, <3>2, <3>6
    <2>6. ASSUME NEW k \in Nat, Good(k), k + 1 <= n PROVE Good(k + 1)
      <3>1. k + 1 \in 1 .. n /\ (k + 1) - 1 = k
        BY <2>2, <2>6
      <3>2. run[k + 1] = StageStep(run[k], plan[k + 1], NoSources)
            /\ done[k + 1] = InPlace(done[k], plan[k + 1])
        BY <2>3, <2>4, <3>1 DEF StageRun, InPlaceRun
      <3>3. IsStaging(run[k + 1]) /\ (run[k + 1].ok => run[k].ok)
        <4>1. CASE run[k].ok /\ Reads(plan[k + 1], NoSources) \subseteq DOMAIN run[k].snapshots
          BY <2>6, <3>2, <4>1, StepGrows
        <4>2. CASE ~(run[k].ok /\ Reads(plan[k + 1], NoSources) \subseteq DOMAIN run[k].snapshots)
          <5>1. run[k + 1] = [run[k] EXCEPT !.ok = FALSE]
            BY <3>2, <4>2 DEF StageStep
          <5> QED
            BY <2>6, <5>1 DEF IsStaging
        <4> QED
          BY <4>1, <4>2
      <3>4. ASSUME run[k + 1].ok PROVE Agree(run[k + 1].snapshots, done[k + 1], plan, k + 1)
        <4>1. GraphStepOk(plan[k + 1], DOMAIN initial) /\ ValidateStep(plan, k + 1)
          BY <2>1, <2>2, <3>1 DEF GraphInv, Validate, plan, n
        <4> QED
          BY <2>6, <3>2, <3>3, <3>4, <4>1, StepAgrees
      <3> QED
        BY <3>3, <3>4
    <2> HIDE DEF Good
    <2>7. Good(n)
      <3>1. 0 \in G
        BY <2>5
      <3>2. \A k \in Nat : k \in G => k + 1 \in G
        BY <2>2, <2>6
      <3>3. n \in G
        <4> HIDE DEF G
        <4> QED
          BY <2>2, <3>1, <3>2, CountUp
      <3> QED
        BY <2>2, <3>3
    <2> DEFINE V(b) == VersionBefore(plan, n + 1, b)
    <2>8. Agree(staged.snapshots, done[n], plan, n)
      BY <2>1, <2>3, <2>7 DEF Good
    <2>9. ASSUME NEW b \in DOMAIN initial
          PROVE  /\ b \in Written(plan) => FinalState(plan, b) = State(b, V(b))
                 /\ b \notin Written(plan) => V(b) = 0
      <3>1. (n + 1) - 1 = n
        BY <2>2
      <3>2. WritesBefore(plan, n + 1, b) = {i \in DOMAIN plan : plan[i].write.buffer = b}
        BY <2>2, <3>1 DEF WritesBefore
      <3>3. b \in Written(plan) <=> WritesBefore(plan, n + 1, b) # {}
        BY <3>2 DEF Written
      <3>4. CASE b \in Written(plan)
        <4> DEFINE last == Max(WritesBefore(plan, n + 1, b))
        <4>1. FinalState(plan, b) = plan[last].write /\ V(b) = plan[last].write.version
          BY <3>2, <3>3, <3>4 DEF FinalState, VersionBefore
        <4>2. last \in DOMAIN plan /\ plan[last].write.buffer = b
          <5>1. last \in WritesBefore(plan, n + 1, b)
            BY <2>2, <3>2, <3>3, <3>4, LargestPosition
          <5> QED
            BY <3>2, <5>1
        <4> HIDE DEF last
        <4>3. plan[last].write \in States
          <5>1. plan[last] \in Steps
            BY <2>2, <4>2
          <5> QED
            BY <5>1 DEF Steps
        <4>4. plan[last].write = State(b, plan[last].write.version)
          BY <4>2, <4>3 DEF States, State
        <4> QED
          BY <3>4, <4>1, <4>4
      <3>5. CASE b \notin Written(plan)
        BY <3>3, <3>5 DEF VersionBefore
      <3> QED
        BY <3>4, <3>5
    <2>10. ASSUME NEW b \in DOMAIN initial
           PROVE  Execute.values[b] = done[n][b] /\ Execute.states[b] = V(b)
      <3>1. /\ staged.snapshots[State(b, 0)] = initial[b]
            /\ staged.snapshots[State(b, V(b))] = done[n][b]
        BY <2>8 DEF Agree
      <3>2. \A x, v : State(x, v).version = v
        BY DEF State
      <3> HIDE DEF V, staged
      <3>3. CASE b \in Written(plan)
        <4>1. FinalState(plan, b) = State(b, V(b))
          BY <2>9, <3>3
        <4>2. Execute.values[b] = staged.snapshots[FinalState(plan, b)]
              /\ Execute.states[b] = FinalState(plan, b).version
          BY <2>1, <3>3
        <4> QED
          BY <3>1, <3>2, <4>1, <4>2
      <3>4. CASE b \notin Written(plan)
        <4>1. V(b) = 0 /\ Execute.values[b] = initial[b] /\ Execute.states[b] = 0
          BY <2>1, <2>9, <3>4
        <4> QED
          BY <3>1, <4>1
      <3> QED
        BY <3>3, <3>4
    <2>11. Execute.values = done[n]
      <3>1. DOMAIN done[n] = DOMAIN initial /\ done[n] = [b \in DOMAIN done[n] |-> done[n][b]]
        BY <2>8 DEF Agree
      <3>2. Execute.values = [b \in DOMAIN initial |-> Execute.values[b]]
        BY <2>1
      <3> QED
        BY <2>10, <3>1, <3>2
    <2>12. Execute.states = states
      <3>1. states \in [DOMAIN initial -> Nat] /\ \A b \in DOMAIN initial : states[b] = V(b)
        BY DEF GraphInv, plan, n
      <3>2. Execute.states = [b \in DOMAIN initial |-> Execute.states[b]]
        BY <2>1
      <3> QED
        BY <2>10, <3>1, <3>2
    <2> QED
      BY <2>4, <2>11, <2>12
  <1> QED
    BY <1>1, GraphInvariance, PTL

-----------------------------------------------------------------------------
(* A batch is its entries in sequence *)

(* The states an entry begins with, and those its steps write. *)
Begins(entry) == {State(b, entry.starts[b]) : b \in Required(entry)}
WritesOf(entry) == {RebasedSteps(entry)[j].write : j \in DOMAIN entry.plan}

(* Two stagings hold the same contents in the states of S. *)
SameOn(S, x, y) ==
    \A s \in S : s \in DOMAIN x.snapshots /\ s \in DOMAIN y.snapshots /\ x.snapshots[s] = y.snapshots[s]

(* What staging the writes W makes of the staging x. *)
Extends(W, x, p) ==
    /\ IsStaging(p) /\ p.ok
    /\ DOMAIN x.snapshots \cup W \subseteq DOMAIN p.snapshots
    /\ \A s \in DOMAIN x.snapshots : s \notin W => p.snapshots[s] = x.snapshots[s]

(* An entry computes the same from two stagings that hold the same in the
   states it begins with, and leaves all states alone but those it writes. *)
LEMMA EntryAgrees ==
    ASSUME NEW entry, EntryValid(entry), NEW x, NEW y, IsStaging(x), IsStaging(y), x.ok, y.ok,
           SameOn(Begins(entry), x, y)
    PROVE  LET p == Stage(x, RebasedSteps(entry), entry.sources)
               q == Stage(y, RebasedSteps(entry), entry.sources)
           IN  /\ Extends(WritesOf(entry), x, p) /\ Extends(WritesOf(entry), y, q)
               /\ SameOn(WritesOf(entry), p, q)
  <1> DEFINE n == Len(entry.plan)
             steps == RebasedSteps(entry)
             W(k) == {steps[j].write : j \in 1 .. k}
  <1>1. n \in Nat /\ DOMAIN steps = 1 .. n /\ DOMAIN entry.plan = 1 .. n
    BY RebasedOk DEF EntryValid, EntryOk
  <1> HIDE DEF n, steps
  <1>2. PICK v : StageRun(v, n, x, steps, entry.sources) /\ Stage(x, steps, entry.sources) = v[n]
    BY <1>1, StageRuns
  <1>3. PICK w : StageRun(w, n, y, steps, entry.sources) /\ Stage(y, steps, entry.sources) = w[n]
    BY <1>1, StageRuns
  <1> DEFINE Good(k) == /\ Extends(W(k), x, v[k]) /\ Extends(W(k), y, w[k])
                        /\ SameOn(Begins(entry) \cup W(k), v[k], w[k])
             G == {k \in Nat : k <= n => Good(k)}
  <1>4. Good(0)
    <2>1. v[0] = x /\ w[0] = y /\ W(0) = {}
      BY <1>2, <1>3, Segment DEF StageRun
    <2> QED
      BY <2>1 DEF Extends, SameOn
  <1>5. ASSUME NEW k \in Nat, Good(k), k + 1 <= n PROVE Good(k + 1)
    <2> DEFINE step == steps[k + 1]
    <2>1. k + 1 \in 1 .. n /\ (k + 1) - 1 = k /\ W(k + 1) = W(k) \cup {step.write}
      <3>1. 1 .. k + 1 = (1 .. k) \cup {k + 1} /\ k + 1 \in 1 .. n /\ (k + 1) - 1 = k
        BY <1>1, <1>5
      <3> QED
        BY <3>1
    <2>2. v[k + 1] = StageStep(v[k], step, entry.sources) /\ w[k + 1] = StageStep(w[k], step, entry.sources)
      BY <1>2, <1>3, <2>1 DEF StageRun
    <2>3. Reads(step, entry.sources) \subseteq Begins(entry) \cup W(k)
      <3> SUFFICES ASSUME NEW s \in Reads(step, entry.sources) PROVE s \in Begins(entry) \cup W(k)
        OBVIOUS
      <3> DEFINE i == k + 1
      <3>1. i \in DOMAIN entry.plan /\ s \in Reads(RebasedSteps(entry)[i], entry.sources)
        BY <1>1, <2>1 DEF steps
      <3> HIDE DEF i
      <3>2. \/ \E b \in Required(entry) : s = State(b, entry.starts[b])
            \/ \E j \in 1 .. i - 1 : s = RebasedSteps(entry)[j].write
        BY <3>1, ReadsAreStaged
      <3> QED
        BY <2>1, <3>2 DEF i, steps, Begins
    <2> DEFINE a == v[k]
               b == w[k]
               c == v[k + 1]
               d == w[k + 1]
    <2> HIDE DEF W
    <2>4. /\ IsStaging(a) /\ a.ok /\ IsStaging(b) /\ b.ok
          /\ \A s \in Begins(entry) \cup W(k) :
               s \in DOMAIN a.snapshots /\ s \in DOMAIN b.snapshots /\ a.snapshots[s] = b.snapshots[s]
      BY <1>5 DEF Extends, SameOn
    <2> DEFINE Source(r) == IF step.id \in DOMAIN entry.sources THEN entry.sources[step.id]
                            ELSE r.snapshots[step.source]
               Value(r) == Assigned(r.snapshots[step.target], Source(r), step.region)
    <2>5. /\ Reads(step, entry.sources) \subseteq DOMAIN a.snapshots
          /\ Reads(step, entry.sources) \subseteq DOMAIN b.snapshots
          /\ Value(a) = Value(b)
      <3>1. /\ Reads(step, entry.sources) \subseteq DOMAIN a.snapshots
            /\ Reads(step, entry.sources) \subseteq DOMAIN b.snapshots
            /\ \A s \in Reads(step, entry.sources) : a.snapshots[s] = b.snapshots[s]
        BY <2>3, <2>4
      <3>2. step.target \in Reads(step, entry.sources)
            /\ (step.id \notin DOMAIN entry.sources => step.source \in Reads(step, entry.sources))
        BY DEF Reads
      <3>3. a.snapshots[step.target] = b.snapshots[step.target] /\ Source(a) = Source(b)
        BY <3>1, <3>2
      <3> HIDE DEF Source
      <3> QED
        BY <3>1, <3>3
    <2> HIDE DEF a, b, c, d, step
    <2>6. /\ IsStaging(c) /\ c.ok
          /\ DOMAIN c.snapshots = DOMAIN a.snapshots \cup {step.write}
          /\ c.snapshots[step.write] = Value(a)
          /\ \A s \in DOMAIN a.snapshots : s # step.write => c.snapshots[s] = a.snapshots[s]
      <3>1. c = StageStep(a, step, entry.sources)
        BY <2>2 DEF a, c
      <3> QED
        BY <2>4, <2>5, <3>1, StepGrows
    <2>7. /\ IsStaging(d) /\ d.ok
          /\ DOMAIN d.snapshots = DOMAIN b.snapshots \cup {step.write}
          /\ d.snapshots[step.write] = Value(b)
          /\ \A s \in DOMAIN b.snapshots : s # step.write => d.snapshots[s] = b.snapshots[s]
      <3>1. d = StageStep(b, step, entry.sources)
        BY <2>2 DEF b, d
      <3> QED
        BY <2>4, <2>5, <3>1, StepGrows
    <2> HIDE DEF Value
    <2>8. W(k + 1) = W(k) \cup {step.write}
      BY <2>1
    <2>9. Extends(W(k + 1), x, c)
      <3>1. Extends(W(k), x, a)
        BY <1>5 DEF a
      <3> QED
        BY <2>6, <2>8, <3>1 DEF Extends
    <2>10. Extends(W(k + 1), y, d)
      <3>1. Extends(W(k), y, b)
        BY <1>5 DEF b
      <3> QED
        BY <2>7, <2>8, <3>1 DEF Extends
    <2>11. SameOn(Begins(entry) \cup W(k + 1), c, d)
      BY <2>4, <2>5, <2>6, <2>7, <2>8 DEF SameOn
    <2> QED
      BY <2>9, <2>10, <2>11 DEF c, d
  <1>6. W(n) = WritesOf(entry)
    BY <1>1 DEF WritesOf, steps
  <1> HIDE DEF Good
  <1>7. Good(n)
    <2>1. 0 \in G
      BY <1>4
    <2>2. \A k \in Nat : k \in G => k + 1 \in G
      BY <1>1, <1>5
    <2>3. n \in G
      <3> HIDE DEF G
      <3> QED
        BY <1>1, <2>1, <2>2, CountUp
    <2> QED
      BY <1>1, <2>3
  <1> HIDE DEF W
  <1>8. /\ Extends(WritesOf(entry), x, v[n]) /\ Extends(WritesOf(entry), y, w[n])
        /\ SameOn(WritesOf(entry), v[n], w[n])
    BY <1>6, <1>7 DEF Good, SameOn
  <1> QED
    BY <1>2, <1>3, <1>8 DEF steps

(* The rebased steps are a sequence. *)
LEMMA RebasedSeq ==
    ASSUME NEW entry, EntryValid(entry), NEW X, Items(RebasedSteps(entry)) \subseteq X
    PROVE  RebasedSteps(entry) \in Seq(X)
  <1>1. DOMAIN RebasedSteps(entry) = 1 .. Len(entry.plan) /\ Len(entry.plan) \in Nat
    BY RebasedOk DEF EntryValid, EntryOk
  <1>2. RebasedSteps(entry) = [j \in 1 .. Len(entry.plan) |-> RebasedSteps(entry)[j]]
    BY <1>1 DEF RebasedSteps
  <1>3. \A j \in 1 .. Len(entry.plan) : RebasedSteps(entry)[j] \in X
    BY <1>1 DEF Items
  <1> QED
    BY <1>1, <1>2, <1>3

(* The steps of a batch of two entries, and their staging. *)
LEMMA TwoEntries ==
    ASSUME NEW e, NEW f, EntryValid(e), EntryValid(f), NEW acc
    PROVE  /\ BatchSteps(<<e, f>>) = RebasedSteps(e) \o RebasedSteps(f)
           /\ StageBatch(acc, <<e, f>>)
                = Stage(Stage(acc, RebasedSteps(e), e.sources), RebasedSteps(f), f.sources)
  <1> DEFINE batch == <<e, f>>
             X == Items(RebasedSteps(e))
  <1>1. DOMAIN batch = 1 .. 2 /\ batch[1] = e /\ batch[2] = f /\ 2 \in Nat
    OBVIOUS
  <1> HIDE DEF batch
  <1>2. PICK run : ConcatRun(run, 2, batch) /\ BatchSteps(batch) = run[2]
    BY <1>1, StepsRun
  <1>3. PICK staged : BatchRun(staged, 2, acc, batch) /\ StageBatch(acc, batch) = staged[2]
    BY <1>1, BatchRuns
  <1>4. 1 \in 1 .. 2 /\ 2 \in 1 .. 2 /\ 1 - 1 = 0 /\ 2 - 1 = 1
    OBVIOUS
  <1>5. run[0] = <<>> /\ run[1] = ConcatEntry(run[1 - 1], batch[1]) /\ run[2] = ConcatEntry(run[2 - 1], batch[2])
    BY <1>2, <1>4, Zenon DEF ConcatRun
  <1>6. run[1] = <<>> \o RebasedSteps(e) /\ run[2] = run[1] \o RebasedSteps(f)
    BY <1>1, <1>4, <1>5, Zenon DEF ConcatEntry
  <1>7. <<>> \o RebasedSteps(e) = RebasedSteps(e)
    <2>1. RebasedSteps(e) \in Seq(X)
      BY RebasedSeq
    <2> HIDE DEF X
    <2> QED
      BY <2>1
  <1>8. /\ staged[0] = acc /\ staged[1] = StageEntry(staged[1 - 1], batch[1])
        /\ staged[2] = StageEntry(staged[2 - 1], batch[2])
    BY <1>3, <1>4, Zenon DEF BatchRun
  <1>9. staged[2] = StageEntry(StageEntry(acc, e), f)
    BY <1>1, <1>4, <1>8, Zenon
  <1>10. BatchSteps(batch) = RebasedSteps(e) \o RebasedSteps(f)
    BY <1>2, <1>6, <1>7, Zenon
  <1>11. StageBatch(acc, batch)
           = Stage(Stage(acc, RebasedSteps(e), e.sources), RebasedSteps(f), f.sources)
    BY <1>3, <1>9, Zenon DEF StageEntry
  <1> QED
    BY <1>10, <1>11 DEF batch

(* The last state written to b by one sequence of steps after another. *)
FinalOf(s, t, b) == IF b \in Written(t) THEN FinalState(t, b) ELSE FinalState(s, b)

(* What two sequences of steps write, one after the other. *)
LEMMA FinalOfBoth ==
    ASSUME NEW X, NEW s \in Seq(X), NEW t \in Seq(X)
    PROVE  /\ Written(s \o t) = Written(s) \cup Written(t)
           /\ \A b \in Written(s \o t) : FinalState(s \o t, b) = FinalOf(s, t, b)
  <1> DEFINE both == s \o t
             m == Len(s)
             n == Len(t)
             At(u, b) == {i \in DOMAIN u : u[i].write.buffer = b}
  <1>1. /\ m \in Nat /\ n \in Nat
        /\ DOMAIN both = 1 .. m + n /\ DOMAIN s = 1 .. m /\ DOMAIN t = 1 .. n
        /\ \A i \in 1 .. m : both[i] = s[i]
        /\ \A i \in 1 .. n : both[m + i] = t[i]
    OBVIOUS
  <1> HIDE DEF both, m, n
  <1>2. \A i \in 1 .. m + n : i \in 1 .. m \/ (i - m \in 1 .. n /\ m + (i - m) = i /\ i > m)
    BY <1>1
  <1>3. (\A i \in 1 .. m : i \in 1 .. m + n) /\ (\A i \in 1 .. n : m + i \in 1 .. m + n)
    BY <1>1
  <1>4. Written(both) = Written(s) \cup Written(t)
    <2>1. ASSUME NEW b \in Written(both) PROVE b \in Written(s) \cup Written(t)
      <3>1. PICK i \in 1 .. m + n : b = both[i].write.buffer
        BY <1>1, <2>1 DEF Written
      <3>2. CASE i \in 1 .. m
        BY <1>1, <3>1, <3>2 DEF Written
      <3>3. CASE i \notin 1 .. m
        <4>1. PICK j \in 1 .. n : m + j = i
          BY <1>2, <3>3
        <4>2. b = t[j].write.buffer
          BY <1>1, <3>1, <4>1
        <4> QED
          BY <1>1, <4>2 DEF Written
      <3> QED
        BY <3>2, <3>3
    <2>2. ASSUME NEW b \in Written(s) PROVE b \in Written(both)
      BY <1>1, <1>3, <2>2 DEF Written
    <2>3. ASSUME NEW b \in Written(t) PROVE b \in Written(both)
      <3>1. PICK j \in 1 .. n : b = t[j].write.buffer
        BY <1>1, <2>3 DEF Written
      <3>2. m + j \in DOMAIN both /\ b = both[m + j].write.buffer
        BY <1>1, <1>3, <3>1
      <3> QED
        BY <3>2 DEF Written
    <2> QED
      BY <2>1, <2>2, <2>3
  <1>5. ASSUME NEW b \in Written(both), b \in Written(t) PROVE FinalState(both, b) = FinalState(t, b)
    <2> DEFINE S == At(both, b)
               T == At(t, b)
    <2>1. S \in SUBSET (1 .. m + n) /\ S # {} /\ T \in SUBSET (1 .. n) /\ T # {} /\ m + n \in Nat
      BY <1>1, <1>5 DEF Written
    <2>2. Max(S) \in S /\ (\A x \in S : x <= Max(S)) /\ Max(T) \in T /\ (\A x \in T : x <= Max(T))
      BY <1>1, <2>1, LargestPosition
    <2>3. FinalState(both, b) = both[Max(S)].write /\ FinalState(t, b) = t[Max(T)].write
      BY DEF FinalState
    <2>4. \A j \in T : m + j \in S
      BY <1>1, <1>3
    <2>5. \A i \in S : i > m => i - m \in T
      <3> TAKE i \in S
      <3> HAVE i > m
      <3>1. i \in 1 .. m + n /\ both[i].write.buffer = b
        BY <1>1
      <3>2. i - m \in 1 .. n /\ m + (i - m) = i
        BY <1>1, <3>1
      <3>3. t[i - m] = both[i]
        BY <1>1, <3>2
      <3> QED
        BY <1>1, <3>1, <3>2, <3>3
    <2> DEFINE x == Max(S)
               y == Max(T)
    <2>6. x \in 1 .. m + n /\ y \in 1 .. n
      BY <2>1, <2>2
    <2>a. x \in S /\ y \in T /\ (\A z \in S : z <= x) /\ (\A z \in T : z <= y)
      BY <2>2
    <2>b. m \in Nat
      BY <1>1
    <2> HIDE DEF x, y, S, T
    <2>c. m + y <= x
      BY ONLY <2>a, <2>4
    <2>7. m + y <= x /\ x > m
      BY ONLY <2>c, <2>6, <2>b
    <2>8. x - m <= y
      BY ONLY <2>a, <2>5, <2>7
    <2>9. x = m + y
      BY <1>1, <2>6, <2>7, <2>8
    <2>10. both[x] = t[y]
      BY <1>1, <2>6, <2>9
    <2> QED
      BY <2>3, <2>10 DEF x, y
  <1>6. ASSUME NEW b \in Written(both), b \notin Written(t) PROVE FinalState(both, b) = FinalState(s, b)
    <2>1. ASSUME NEW i \in At(both, b) PROVE i \in At(s, b)
      <3>1. i \in 1 .. m + n /\ both[i].write.buffer = b
        BY <1>1, <2>1
      <3>2. CASE i \in 1 .. m
        BY <1>1, <3>1, <3>2
      <3>3. CASE i \notin 1 .. m
        <4>1. i - m \in 1 .. n /\ both[i] = t[i - m]
          BY <1>1, <1>2, <3>1, <3>3
        <4> QED
          BY <1>1, <1>6, <3>1, <4>1 DEF Written
      <3> QED
        BY <3>2, <3>3
    <2>2. ASSUME NEW i \in At(s, b) PROVE i \in At(both, b)
      BY <1>1, <1>3, <2>2
    <2>3. At(both, b) = At(s, b)
      BY <2>1, <2>2
    <2> DEFINE S == At(s, b)
    <2>4. S \in SUBSET (1 .. m) /\ S # {}
      BY <1>1, <1>4, <1>6 DEF Written
    <2>5. Max(S) \in 1 .. m
      BY <1>1, <2>4, LargestPosition
    <2>6. FinalState(both, b) = both[Max(S)].write /\ FinalState(s, b) = s[Max(S)].write
      BY <2>3, Zenon DEF FinalState
    <2> HIDE DEF S
    <2> QED
      BY <1>1, <2>5, <2>6
  <1> QED
    BY <1>4, <1>5, <1>6 DEF FinalOf, both

(* What the checks of a batch ask of an entry that no other one precedes. *)
Admits(live, entry) ==
    /\ entry.plan # <<>> /\ Validate(entry.plan) /\ Named(entry) \subseteq DOMAIN entry.starts
    /\ \A b \in Checked(entry) : b \in DOMAIN live /\ live[b].version = entry.starts[b]

(* The states an entry starts from, their contents, what it stages, and what
   it commits. *)
Starts(entry) == {State(b, entry.starts[b]) : b \in Checked(entry)}
StartOf(live, entry) == Staging([s \in Starts(entry) |-> live[s.buffer].content])
StagedOf(live, entry) == Stage(StartOf(live, entry), RebasedSteps(entry), entry.sources)
Commits(live, entry) == Committed(live, RebasedSteps(entry), StagedOf(live, entry).snapshots)

(* What a plan reads and writes is checked. *)
LEMMA ReadsAreChecked ==
    ASSUME NEW entry, Named(entry) \subseteq DOMAIN entry.starts
    PROVE  Required(entry) \subseteq Checked(entry) /\ Written(entry.plan) \subseteq Required(entry)
  BY DEF Checked, Required, Named

(* A batch of one entry: admitted when its starts are live, and then never
   refused. *)
LEMMA OneEntryOutcome ==
    ASSUME NEW live, NEW entry, EntryOk(entry)
    PROVE  BatchOutcome(live, <<entry>>) =
             IF Admits(live, entry) THEN [ok |-> TRUE, live |-> Commits(live, entry)] ELSE Refused(live)
  <1> DEFINE batch == <<entry>>
             start == Staging(BatchSnapshots(live, batch))
  <1>1. /\ DOMAIN batch = {1} /\ batch[1] = entry /\ batch # <<>>
        /\ \A b : ProducersBefore(batch, 1, b) = {}
    BY DEF ProducersBefore
  <1> HIDE DEF batch
  <1>2. \A buffers : StartsFollow(batch, 1, buffers)
    BY <1>1 DEF StartsFollow
  <1>3. StartsLive(live, batch, 1) <=> \A b \in Checked(entry) : b \in DOMAIN live /\ live[b].version = entry.starts[b]
    BY <1>1 DEF StartsLive
  <1>4. BatchOk(live, batch) <=> Admits(live, entry)
    <2>1. RebaseOk(batch) <=> entry.plan # <<>> /\ Validate(entry.plan) /\ Named(entry) \subseteq DOMAIN entry.starts
      BY <1>1, <1>2 DEF RebaseOk
    <2>2. BatchOk(live, batch) <=> RebaseOk(batch) /\ StartsLive(live, batch, 1) /\ Written(entry.plan) \subseteq DOMAIN live
      BY <1>1, <1>2 DEF BatchOk
    <2>3. Admits(live, entry) => Written(entry.plan) \subseteq DOMAIN live
      BY ReadsAreChecked DEF Admits
    <2> QED
      BY <1>3, <2>1, <2>2, <2>3 DEF Admits
  <1>5. CASE ~Admits(live, entry)
    BY <1>4, <1>5 DEF BatchOutcome, batch
  <1>6. CASE Admits(live, entry)
    <2>1. EntryValid(entry)
      BY <1>6 DEF Admits, EntryValid
    <2>2. start = StartOf(live, entry)
      <3>1. UNION {{State(b, batch[i].starts[b]) :
                      b \in {c \in Checked(batch[i]) : ProducersBefore(batch, i, c) = {}}} :
                   i \in DOMAIN batch} = Starts(entry)
        BY <1>1 DEF Starts
      <3> QED
        BY <3>1 DEF BatchSnapshots, StartOf
    <2>3. IsStaging(start) /\ start.ok /\ DOMAIN start.snapshots = Starts(entry)
      BY <2>2 DEF IsStaging, Staging, StartOf
    <2>4. \A b \in Required(entry) : State(b, entry.starts[b]) \in DOMAIN start.snapshots
      BY <1>6, <2>3, ReadsAreChecked DEF Admits, Starts
    <2> HIDE DEF start
    <2>5. Stage(start, RebasedSteps(entry), entry.sources).ok
      BY <2>1, <2>3, <2>4, EntryStages
    <2>6. StageBatch(start, batch) = StagedOf(live, entry) /\ BatchSteps(batch) = RebasedSteps(entry)
      BY <2>1, <2>2, OneEntryStage, OneEntrySteps DEF StagedOf, batch
    <2>7. StageBatch(start, batch).ok
      BY <2>2, <2>5, <2>6 DEF StagedOf
    <2>8. BatchOutcome(live, batch) = [ok |-> TRUE, live |-> Committed(live, BatchSteps(batch), StageBatch(start, batch).snapshots)]
      BY <1>4, <1>6, <2>7 DEF BatchOutcome, start
    <2> QED
      BY <1>6, <2>6, <2>8 DEF Commits, batch
  <1> QED
    BY <1>5, <1>6

(* The last state an entry writes to a buffer. *)
LEMMA FinalOfEntry ==
    ASSUME NEW entry, EntryValid(entry), NEW b \in Written(entry.plan)
    PROVE  /\ b \in Written(RebasedSteps(entry))
           /\ FinalState(RebasedSteps(entry), b) \in WritesOf(entry)
           /\ FinalState(RebasedSteps(entry), b) = State(b, FinalState(RebasedSteps(entry), b).version)
  <1> DEFINE steps == RebasedSteps(entry)
             n == Len(entry.plan)
  <1>1. n \in Nat /\ DOMAIN steps = 1 .. n /\ DOMAIN entry.plan = 1 .. n /\ Written(steps) = Written(entry.plan)
    BY RebasedOk DEF EntryValid, EntryOk
  <1> HIDE DEF n, steps
  <1>2. PICK i \in 1 .. n : FinalState(steps, b) = steps[i].write /\ steps[i].write.buffer = b
    BY <1>1, FinalIsWritten
  <1>3. steps[i].write = Rebase(entry.plan[i].write, entry.starts)
    BY <1>1, RebasedStep DEF EntryValid, steps
  <1>4. steps[i].write = State(b, steps[i].write.version)
    BY <1>2, <1>3 DEF Rebase, State
  <1> QED
    BY <1>1, <1>2, <1>4 DEF WritesOf, steps

(* An entry writes states of the buffers it names as written. *)
LEMMA WritesAreWritten ==
    ASSUME NEW entry, EntryValid(entry), NEW s \in WritesOf(entry)
    PROVE  s.buffer \in Written(entry.plan)
  <1>1. PICK i \in DOMAIN entry.plan : s = RebasedSteps(entry)[i].write
    BY DEF WritesOf
  <1>2. s = Rebase(entry.plan[i].write, entry.starts)
    BY <1>1, RebasedStep DEF EntryValid
  <1> QED
    BY <1>2 DEF Rebase, State, Written

(* What an entry commits, buffer by buffer. *)
LEMMA CommitsAre ==
    ASSUME NEW live, NEW entry, EntryValid(entry)
    PROVE  LET new == Commits(live, entry)
               last(b) == FinalState(RebasedSteps(entry), b)
           IN  /\ DOMAIN new = DOMAIN live
               /\ \A b \in DOMAIN live :
                    new[b] = IF b \in Written(entry.plan)
                             THEN [version |-> last(b).version,
                                   content |-> StagedOf(live, entry).snapshots[last(b)]]
                             ELSE live[b]
  <1>1. Written(RebasedSteps(entry)) = Written(entry.plan)
    BY RebasedOk DEF EntryValid
  <1> QED
    BY <1>1 DEF Commits, Committed

(* The checks of a batch of two entries: the first on the live store, the
   second on what the first one leaves. *)
LEMMA TwoEntriesOk ==
    ASSUME NEW live, NEW e, NEW f, EntryOk(e), EntryOk(f)
    PROVE  BatchOk(live, <<e, f>>) <=> Admits(live, e) /\ Admits(Commits(live, e), f)
  <1> DEFINE batch == <<e, f>>
             last(b) == FinalState(RebasedSteps(e), b)
             Valid(x) == x.plan # <<>> /\ Validate(x.plan) /\ Named(x) \subseteq DOMAIN x.starts
             Follow(b) == b \in Written(e.plan) => last(b) = State(b, f.starts[b])
             Lives(b) == b \notin Written(e.plan) => b \in DOMAIN live /\ live[b].version = f.starts[b]
  <1>1. DOMAIN batch = {1, 2} /\ batch[1] = e /\ batch[2] = f /\ batch # <<>>
    OBVIOUS
  <1>2. /\ \A b : ProducersBefore(batch, 1, b) = {}
        /\ \A b : ProducersBefore(batch, 2, b) = IF b \in Written(e.plan) THEN {1} ELSE {}
    <2>1. 1 .. (1 - 1) = {} /\ 1 .. (2 - 1) = {1}
      OBVIOUS
    <2> HIDE DEF batch
    <2> QED
      BY <1>1, <2>1 DEF ProducersBefore
  <1> HIDE DEF batch
  <1>3. Max({1}) = 1
    <2>1. 1 \in Nat /\ {1} \in SUBSET (1 .. 1) /\ {1} # {}
      OBVIOUS
    <2>2. Max({1}) \in {1}
      BY <2>1, LargestPosition, Zenon
    <2> QED
      BY <2>2, Zenon
  <1>4. \A buffers : StartsFollow(batch, 1, buffers)
    BY <1>2 DEF StartsFollow
  <1>5. \A buffers : StartsFollow(batch, 2, buffers) <=> \A b \in buffers : Follow(b)
    <2>1. \A b : b \in Written(e.plan) => ProducedBefore(batch, 2, b) = last(b)
      BY <1>1, <1>2, <1>3 DEF ProducedBefore
    <2> QED
      BY <1>1, <1>2, <2>1 DEF StartsFollow
  <1>6. StartsLive(live, batch, 1) <=> \A b \in Checked(e) : b \in DOMAIN live /\ live[b].version = e.starts[b]
    BY <1>1, <1>2 DEF StartsLive
  <1>7. StartsLive(live, batch, 2) <=> \A b \in Checked(f) : Lives(b)
    BY <1>1, <1>2 DEF StartsLive
  <1> HIDE DEF Follow, Lives
  <1>8. BatchOk(live, batch) <=>
          /\ Valid(e) /\ Valid(f)
          /\ \A b \in Required(f) : Follow(b)
          /\ \A b \in Checked(e) : b \in DOMAIN live /\ live[b].version = e.starts[b]
          /\ \A b \in Checked(f) : Follow(b) /\ Lives(b)
          /\ Written(e.plan) \subseteq DOMAIN live /\ Written(f.plan) \subseteq DOMAIN live
    <2>1. RebaseOk(batch) <=> Valid(e) /\ Valid(f) /\ \A b \in Required(f) : Follow(b)
      <3>1. RebaseOk(batch) <=> /\ Valid(batch[1]) /\ StartsFollow(batch, 1, Required(batch[1]))
                                /\ Valid(batch[2]) /\ StartsFollow(batch, 2, Required(batch[2]))
        BY <1>1 DEF RebaseOk
      <3> HIDE DEF Valid
      <3> QED
        BY <1>1, <1>4, <1>5, <3>1
    <2>2. BatchOk(live, batch) <=>
            /\ RebaseOk(batch)
            /\ StartsFollow(batch, 1, Checked(batch[1])) /\ StartsLive(live, batch, 1)
            /\ Written(batch[1].plan) \subseteq DOMAIN live
            /\ StartsFollow(batch, 2, Checked(batch[2])) /\ StartsLive(live, batch, 2)
            /\ Written(batch[2].plan) \subseteq DOMAIN live
      BY <1>1 DEF BatchOk
    <2> HIDE DEF Valid
    <2> QED
      BY <1>1, <1>4, <1>5, <1>6, <1>7, <2>1, <2>2
  <1>9. Admits(live, e) <=> Valid(e) /\ \A b \in Checked(e) : b \in DOMAIN live /\ live[b].version = e.starts[b]
    BY DEF Admits
  <1> DEFINE new == Commits(live, e)
  <1>10. Admits(new, f) <=> Valid(f) /\ \A b \in Checked(f) : b \in DOMAIN new /\ new[b].version = f.starts[b]
    BY DEF Admits
  <1>11. ASSUME Admits(live, e), Valid(f)
         PROVE  /\ Written(e.plan) \subseteq DOMAIN live
                /\ Required(f) \subseteq Checked(f) /\ Written(f.plan) \subseteq Checked(f)
                /\ \A b \in Checked(f) :
                     Follow(b) /\ Lives(b) <=> b \in DOMAIN new /\ new[b].version = f.starts[b]
    <2>1. EntryValid(e)
      BY <1>11 DEF Admits, EntryValid
    <2>2. Written(e.plan) \subseteq DOMAIN live
      BY <1>11, ReadsAreChecked DEF Admits
    <2>3. Required(f) \subseteq Checked(f) /\ Written(f.plan) \subseteq Checked(f)
      BY <1>11, ReadsAreChecked
    <2>4. /\ DOMAIN new = DOMAIN live
          /\ \A b \in DOMAIN live : b \in Written(e.plan) => new[b].version = last(b).version
          /\ \A b \in DOMAIN live : b \notin Written(e.plan) => new[b] = live[b]
      <3>1. /\ DOMAIN new = DOMAIN live
            /\ \A b \in DOMAIN live :
                 new[b] = IF b \in Written(e.plan)
                          THEN [version |-> last(b).version, content |-> StagedOf(live, e).snapshots[last(b)]]
                          ELSE live[b]
        BY <2>1, CommitsAre, Zenon
      <3> HIDE DEF new, last
      <3> QED
        BY <3>1
    <2> HIDE DEF new
    <2>5. ASSUME NEW b \in Checked(f), b \in Written(e.plan)
          PROVE  Follow(b) /\ Lives(b) <=> b \in DOMAIN new /\ new[b].version = f.starts[b]
      <3>1. last(b) = State(b, last(b).version)
        BY <2>1, <2>5, FinalOfEntry
      <3>2. last(b) = State(b, f.starts[b]) <=> last(b).version = f.starts[b]
        <4> HIDE DEF last
        <4> QED
          BY <3>1 DEF State
      <3>3. b \in DOMAIN new /\ new[b].version = last(b).version
        BY <2>2, <2>4, <2>5
      <3> QED
        BY <2>5, <3>2, <3>3 DEF Follow, Lives
    <2>6. ASSUME NEW b \in Checked(f), b \notin Written(e.plan)
          PROVE  Follow(b) /\ Lives(b) <=> b \in DOMAIN new /\ new[b].version = f.starts[b]
      BY <2>4, <2>6 DEF Follow, Lives
    <2> QED
      BY <2>2, <2>3, <2>5, <2>6
  <1> HIDE DEF Valid, new
  <1>12. ASSUME BatchOk(live, batch) PROVE Admits(live, e) /\ Admits(new, f)
    BY <1>8, <1>9, <1>10, <1>11, <1>12
  <1>13. ASSUME Admits(live, e), Admits(new, f) PROVE BatchOk(live, batch)
    <2>1. \A b \in Written(f.plan) : b \in DOMAIN live
      <3>1. EntryValid(e)
        BY <1>13 DEF Admits, EntryValid
      <3>2. DOMAIN new = DOMAIN live
        BY <3>1, CommitsAre DEF new
      <3> QED
        BY <1>10, <1>11, <1>13, <3>2
    <2> QED
      BY <1>8, <1>9, <1>10, <1>11, <1>13, <2>1
  <1> QED
    BY <1>12, <1>13 DEF batch, new

(* The states a batch of two entries starts from: those of the first one, and
   those of the second that the first one does not write. *)
LEMMA TwoEntriesStart ==
    ASSUME NEW live, NEW e, NEW f
    PROVE  LET start == Staging(BatchSnapshots(live, <<e, f>>))
           IN  /\ IsStaging(start) /\ start.ok
               /\ Starts(e) \subseteq DOMAIN start.snapshots
               /\ \A b \in Checked(f) : b \notin Written(e.plan) =>
                    State(b, f.starts[b]) \in DOMAIN start.snapshots
               /\ \A s \in DOMAIN start.snapshots : start.snapshots[s] = live[s.buffer].content
  <1> DEFINE batch == <<e, f>>
             At(i) == {State(b, batch[i].starts[b]) :
                         b \in {c \in Checked(batch[i]) : ProducersBefore(batch, i, c) = {}}}
             S == UNION {At(i) : i \in DOMAIN batch}
             sn == [s \in S |-> live[s.buffer].content]
             start == Staging(BatchSnapshots(live, batch))
  <1>1. DOMAIN batch = {1, 2} /\ batch[1] = e /\ batch[2] = f
    OBVIOUS
  <1>2. /\ \A b : ProducersBefore(batch, 1, b) = {}
        /\ \A b : ProducersBefore(batch, 2, b) = IF b \in Written(e.plan) THEN {1} ELSE {}
    <2>1. 1 .. (1 - 1) = {} /\ 1 .. (2 - 1) = {1}
      OBVIOUS
    <2> HIDE DEF batch
    <2> QED
      BY <1>1, <2>1 DEF ProducersBefore
  <1>3. start = [ok |-> TRUE, snapshots |-> sn]
    BY DEF BatchSnapshots, Staging
  <1> HIDE DEF batch
  <1>4. Starts(e) \subseteq At(1)
    BY <1>1, <1>2 DEF Starts
  <1>5. \A b \in Checked(f) : b \notin Written(e.plan) => State(b, f.starts[b]) \in At(2)
    BY <1>1, <1>2
  <1>6. At(1) \subseteq S /\ At(2) \subseteq S
    <2> HIDE DEF At
    <2> QED
      BY <1>1
  <1> HIDE DEF S, start, At
  <1>7. start.ok = TRUE /\ start.snapshots = sn /\ DOMAIN sn = S
    BY <1>3
  <1>8. IsStaging(start) /\ start.ok
    BY <1>3, <1>7 DEF IsStaging
  <1>9. \A s \in DOMAIN start.snapshots : start.snapshots[s] = live[s.buffer].content
    BY <1>7
  <1> HIDE DEF sn
  <1> QED
    BY <1>4, <1>5, <1>6, <1>7, <1>8, <1>9 DEF start, batch

(* The states an entry alone starts from. *)
LEMMA EntryStart ==
    ASSUME NEW live, NEW entry
    PROVE  LET start == StartOf(live, entry)
           IN  /\ IsStaging(start) /\ start.ok /\ DOMAIN start.snapshots = Starts(entry)
               /\ \A s \in Starts(entry) : start.snapshots[s] = live[s.buffer].content
  BY DEF StartOf, Staging, IsStaging

(* Two entries that are admitted one after the other commit as a batch what
   they commit one after the other. *)
LEMMA TwoEntriesCommit ==
    ASSUME NEW live, NEW e, NEW f, EntryOk(e), EntryOk(f),
           Admits(live, e), Admits(Commits(live, e), f)
    PROVE  BatchOutcome(live, <<e, f>>) = [ok |-> TRUE, live |-> Commits(Commits(live, e), f)]
  <1> DEFINE batch == <<e, f>>
             mid == Commits(live, e)
             A == RebasedSteps(e)
             B == RebasedSteps(f)
             start == Staging(BatchSnapshots(live, batch))
             p == StagedOf(live, e)
             q == Stage(start, A, e.sources)
             r == StagedOf(mid, f)
             t == Stage(q, B, f.sources)
  <1>1. EntryValid(e) /\ EntryValid(f)
    BY DEF Admits, EntryValid
  <1>2. /\ IsStaging(start) /\ start.ok
        /\ Starts(e) \subseteq DOMAIN start.snapshots
        /\ \A b \in Checked(f) : b \notin Written(e.plan) => State(b, f.starts[b]) \in DOMAIN start.snapshots
        /\ \A s \in DOMAIN start.snapshots : start.snapshots[s] = live[s.buffer].content
    BY TwoEntriesStart
  <1>3. Required(e) \subseteq Checked(e) /\ Required(f) \subseteq Checked(f)
        /\ Written(e.plan) \subseteq Required(e) /\ Written(f.plan) \subseteq Required(f)
    BY <1>1, ReadsAreChecked DEF EntryValid
  <1>4. BatchOutcome(live, batch) =
          IF t.ok THEN [ok |-> TRUE, live |-> Committed(live, A \o B, t.snapshots)] ELSE Refused(live)
    <2>1. BatchOk(live, batch)
      BY TwoEntriesOk
    <2>2. BatchSteps(batch) = A \o B /\ StageBatch(start, batch) = t
      BY <1>1, TwoEntries
    <2> QED
      BY <2>1, <2>2 DEF BatchOutcome
  <1> HIDE DEF start, batch
  <1>5. Extends(WritesOf(e), start, q) /\ SameOn(WritesOf(e), p, q)
    <2> DEFINE alone == StartOf(live, e)
    <2>1. /\ IsStaging(alone) /\ alone.ok /\ DOMAIN alone.snapshots = Starts(e)
          /\ \A s \in Starts(e) : alone.snapshots[s] = live[s.buffer].content
      BY EntryStart
    <2> HIDE DEF alone
    <2>2. Begins(e) \subseteq Starts(e)
      BY <1>3 DEF Begins, Starts
    <2>3. SameOn(Begins(e), alone, start)
      BY <1>2, <2>1, <2>2 DEF SameOn
    <2>4. LET x == Stage(alone, RebasedSteps(e), e.sources)
              y == Stage(start, RebasedSteps(e), e.sources)
          IN  /\ Extends(WritesOf(e), alone, x) /\ Extends(WritesOf(e), start, y)
              /\ SameOn(WritesOf(e), x, y)
      BY <1>1, <1>2, <2>1, <2>3, EntryAgrees
    <2> QED
      BY <2>4 DEF StagedOf, alone
  <1>6. IsStaging(q) /\ q.ok
    BY <1>5 DEF Extends
  <1>7. /\ DOMAIN mid = DOMAIN live
        /\ \A b \in DOMAIN live :
             mid[b] = IF b \in Written(e.plan)
                      THEN [version |-> FinalState(A, b).version, content |-> p.snapshots[FinalState(A, b)]]
                      ELSE live[b]
    BY <1>1, CommitsAre, Zenon
  <1>8. \A b \in Checked(f) : b \in DOMAIN mid /\ mid[b].version = f.starts[b]
    BY DEF Admits
  <1>9. \A b \in Written(e.plan) : FinalState(A, b) \in WritesOf(e)
                                   /\ FinalState(A, b) = State(b, FinalState(A, b).version)
    BY <1>1, FinalOfEntry
  <1>10. \A s \in WritesOf(e) : s.buffer \in Written(e.plan)
    BY <1>1, WritesAreWritten
  <1>11. \A s \in WritesOf(f) : s.buffer \in Written(f.plan)
    BY <1>1, WritesAreWritten
  <1> DEFINE alone == StartOf(mid, f)
  <1>12. /\ IsStaging(alone) /\ alone.ok /\ DOMAIN alone.snapshots = Starts(f)
         /\ \A s \in Starts(f) : alone.snapshots[s] = mid[s.buffer].content
    BY EntryStart
  <1>13. r = Stage(alone, B, f.sources)
    BY DEF StagedOf
  <1>14. Commits(mid, f) = Committed(mid, B, r.snapshots)
    BY DEF Commits
  <1> HIDE DEF p, q, r, t, mid, alone, A, B
  <1>15. SameOn(Begins(f), alone, q)
    <2> SUFFICES ASSUME NEW b \in Required(f)
                 PROVE  LET s == State(b, f.starts[b])
                        IN  s \in DOMAIN alone.snapshots /\ s \in DOMAIN q.snapshots /\ alone.snapshots[s] = q.snapshots[s]
      BY DEF SameOn, Begins
    <2> DEFINE s == State(b, f.starts[b])
    <2>1. b \in Checked(f) /\ s \in Starts(f) /\ s.buffer = b
      BY <1>3 DEF Starts, State
    <2>2. s \in DOMAIN alone.snapshots /\ alone.snapshots[s] = mid[b].content
      BY <1>12, <2>1
    <2>3. b \in DOMAIN live /\ mid[b].version = f.starts[b]
      BY <1>7, <1>8, <2>1
    <2>4. CASE b \in Written(e.plan)
      <3>1. mid[b] = [version |-> FinalState(A, b).version, content |-> p.snapshots[FinalState(A, b)]]
        BY <1>7, <2>3, <2>4
      <3>2. FinalState(A, b) = s
        BY <1>9, <2>3, <2>4, <3>1
      <3>3. s \in WritesOf(e) /\ mid[b].content = p.snapshots[s]
        BY <1>9, <2>4, <3>1, <3>2
      <3> HIDE DEF s
      <3>4. s \in DOMAIN q.snapshots /\ p.snapshots[s] = q.snapshots[s]
        BY <1>5, <3>3 DEF SameOn
      <3> QED
        BY <2>2, <3>3, <3>4 DEF s
    <2>5. CASE b \notin Written(e.plan)
      <3>1. mid[b] = live[b]
        BY <1>7, <2>3, <2>5
      <3>2. s \in DOMAIN start.snapshots /\ start.snapshots[s] = live[b].content
        BY <1>2, <2>1, <2>5
      <3>3. s \notin WritesOf(e)
        BY <1>10, <2>1, <2>5
      <3> HIDE DEF s
      <3>4. s \in DOMAIN q.snapshots /\ q.snapshots[s] = start.snapshots[s]
        BY <1>5, <3>2, <3>3 DEF Extends
      <3> QED
        BY <2>2, <3>1, <3>2, <3>4 DEF s
    <2> QED
      BY <2>4, <2>5
  <1>16. Extends(WritesOf(f), q, t) /\ SameOn(WritesOf(f), r, t)
    <2>1. LET x == Stage(alone, RebasedSteps(f), f.sources)
              y == Stage(q, RebasedSteps(f), f.sources)
          IN  /\ Extends(WritesOf(f), alone, x) /\ Extends(WritesOf(f), q, y)
              /\ SameOn(WritesOf(f), x, y)
      BY <1>1, <1>6, <1>12, <1>15, EntryAgrees
    <2> QED
      BY <1>13, <2>1 DEF B, t
  <1>17. t.ok
    BY <1>16 DEF Extends
  <1>18. /\ Written(A) = Written(e.plan) /\ Written(B) = Written(f.plan)
         /\ Written(A \o B) = Written(A) \cup Written(B)
         /\ \A b \in Written(A \o B) : FinalState(A \o B, b) = FinalOf(A, B, b)
    <2>1. Written(A) = Written(e.plan) /\ Written(B) = Written(f.plan)
      BY <1>1, RebasedOk DEF EntryValid, A, B
    <2> DEFINE X == Items(A) \cup Items(B)
    <2>2. Items(A) \subseteq X /\ Items(B) \subseteq X
      OBVIOUS
    <2> HIDE DEF X
    <2>3. A \in Seq(X) /\ B \in Seq(X)
      BY <1>1, <2>2, RebasedSeq DEF A, B
    <2> QED
      BY <2>1, <2>3, FinalOfBoth
  <1>19. \A b \in Written(f.plan) : FinalState(B, b) \in WritesOf(f)
    BY <1>1, FinalOfEntry DEF B
  <1> DEFINE C == A \o B
             one == Committed(live, C, t.snapshots)
             two == Committed(mid, B, r.snapshots)
  <1>20. /\ one = [b \in DOMAIN live |-> one[b]] /\ two = [b \in DOMAIN live |-> two[b]]
         /\ \A b \in DOMAIN live :
              /\ one[b] = IF b \in Written(C) THEN [version |-> FinalState(C, b).version,
                                                    content |-> t.snapshots[FinalState(C, b)]]
                          ELSE live[b]
              /\ two[b] = IF b \in Written(B) THEN [version |-> FinalState(B, b).version,
                                                    content |-> r.snapshots[FinalState(B, b)]]
                          ELSE mid[b]
    <2> HIDE DEF C
    <2> QED
      BY <1>7 DEF Committed
  <1> HIDE DEF one, two, C
  <1>21. ASSUME NEW b \in DOMAIN live PROVE one[b] = two[b]
    <2>1. CASE b \in Written(f.plan)
      <3>1. b \in Written(C) /\ b \in Written(B) /\ FinalState(C, b) = FinalState(B, b)
        BY <1>18, <2>1 DEF FinalOf, C
      <3>2. t.snapshots[FinalState(B, b)] = r.snapshots[FinalState(B, b)]
        BY <1>16, <1>19, <2>1 DEF SameOn
      <3> QED
        BY <1>20, <1>21, <3>1, <3>2
    <2>2. CASE b \notin Written(f.plan) /\ b \in Written(e.plan)
      <3> DEFINE s == FinalState(A, b)
      <3>1. b \in Written(C) /\ b \notin Written(B) /\ FinalState(C, b) = s
        BY <1>18, <2>2 DEF FinalOf, C
      <3>2. s \in WritesOf(e) /\ s.buffer = b
        <4>1. s \in WritesOf(e) /\ s = State(b, s.version)
          BY <1>9, <2>2
        <4> HIDE DEF s
        <4> QED
          BY <4>1 DEF State
      <3>3. s \notin WritesOf(f)
        BY <1>11, <2>2, <3>2
      <3>4. mid[b] = [version |-> s.version, content |-> p.snapshots[s]]
        BY <1>7, <1>21, <2>2
      <3> HIDE DEF s
      <3>5. s \in DOMAIN q.snapshots /\ p.snapshots[s] = q.snapshots[s]
        BY <1>5, <3>2 DEF SameOn
      <3>6. t.snapshots[s] = q.snapshots[s]
        BY <1>16, <3>3, <3>5 DEF Extends
      <3>7. one[b] = [version |-> s.version, content |-> t.snapshots[s]] /\ two[b] = mid[b]
        BY <1>20, <1>21, <3>1
      <3> QED
        BY <3>4, <3>5, <3>6, <3>7
    <2>3. CASE b \notin Written(f.plan) /\ b \notin Written(e.plan)
      <3>1. b \notin Written(C) /\ b \notin Written(B) /\ mid[b] = live[b]
        BY <1>7, <1>18, <1>21, <2>3 DEF C
      <3> QED
        BY <1>20, <1>21, <3>1
    <2> QED
      BY <2>1, <2>2, <2>3
  <1>22. one = two
    BY <1>20, <1>21, Zenon
  <1>23. BatchOutcome(live, batch) = [ok |-> TRUE, live |-> two]
    BY <1>4, <1>17, <1>22 DEF one, C
  <1> QED
    BY <1>14, <1>23 DEF two, mid, batch

(* A batch of two entries and its entries one after the other. *)
LEMMA TwoEntriesInSequence ==
    ASSUME NEW live, NEW e, NEW f, EntryOk(e), EntryOk(f)
    PROVE  LET first == BatchOutcome(live, <<e>>)
               second == BatchOutcome(first.live, <<f>>)
               both == BatchOutcome(live, <<e, f>>)
           IN  /\ both.ok = (first.ok /\ second.ok)
               /\ both.ok => both.live = second.live
  <1> DEFINE first == BatchOutcome(live, <<e>>)
             second == BatchOutcome(first.live, <<f>>)
             both == BatchOutcome(live, <<e, f>>)
             mid == Commits(live, e)
  <1>1. first = IF Admits(live, e) THEN [ok |-> TRUE, live |-> mid] ELSE [ok |-> FALSE, live |-> live]
    BY OneEntryOutcome DEF Refused
  <1>2. second = IF Admits(first.live, f) THEN [ok |-> TRUE, live |-> Commits(first.live, f)]
                 ELSE [ok |-> FALSE, live |-> first.live]
    BY OneEntryOutcome DEF Refused
  <1> HIDE DEF first, second, mid
  <1>3. CASE Admits(live, e) /\ Admits(mid, f)
    <2>1. both = [ok |-> TRUE, live |-> Commits(mid, f)]
      BY <1>3, TwoEntriesCommit DEF mid
    <2>2. first.ok = TRUE /\ first.live = mid
      BY <1>1, <1>3
    <2>3. second = [ok |-> TRUE, live |-> Commits(mid, f)]
      BY <1>2, <1>3, <2>2
    <2> HIDE DEF both
    <2>4. both.ok = TRUE /\ second.ok = TRUE /\ both.live = second.live
      BY <2>1, <2>3
    <2> QED
      BY <2>2, <2>4 DEF both, first, second
  <1>4. CASE ~(Admits(live, e) /\ Admits(mid, f))
    <2>1. ~BatchOk(live, <<e, f>>)
      BY <1>4, TwoEntriesOk DEF mid
    <2>2. both = [ok |-> FALSE, live |-> live]
      BY <2>1 DEF BatchOutcome, Refused
    <2> HIDE DEF both
    <2>3. both.ok = FALSE
      BY <2>2
    <2>4. (first.ok /\ second.ok) = FALSE
      <3>1. CASE Admits(live, e)
        <4>1. first.live = mid
          BY <1>1, <3>1
        <4>2. second.ok = FALSE
          BY <1>2, <1>4, <3>1, <4>1
        <4> QED
          BY <4>2
      <3>2. CASE ~Admits(live, e)
        <4>1. first.ok = FALSE
          BY <1>1, <3>2
        <4> QED
          BY <4>1
      <3> QED
        BY <3>1, <3>2
    <2> QED
      BY <2>3, <2>4 DEF both, first, second
  <1> QED
    BY <1>3, <1>4

(* A batch is accepted exactly when its entries would be accepted one after
   the other, each on what the one before it leaves, and it leaves what they
   leave: rebasing and staging everything before the one commit changes
   nothing.  In any state of the runtime, for any two entries of any plans and
   starts. *)
THEOREM BatchesAreSequences == RuntimeSpec => []BatchIsSequential
  <1>1. BatchIsSequential
    BY EntriesOk, TwoEntriesInSequence DEF BatchIsSequential
  <1> QED
    BY <1>1, PTL

(* A plan as an entry that starts at version zero. *)
AtZero(plan) ==
    [plan |-> plan, starts |-> [b \in Named([plan |-> plan]) |-> 0], sources |-> NoSources]

(* Such an entry names, requires and checks the same buffers, and its rebased
   steps are the steps of the plan. *)
LEMMA AtZeroIs ==
    ASSUME NEW plan \in Seq(Steps)
    PROVE  LET e == AtZero(plan)
           IN  /\ e.plan = plan /\ e.sources = NoSources /\ EntryOk(e)
               /\ DOMAIN e.starts = Named(e) /\ Required(e) = Named(e) /\ Checked(e) = Named(e)
               /\ \A b \in Named(e) : e.starts[b] = 0
               /\ Named(e) = {plan[i].write.buffer : i \in DOMAIN plan}
                             \cup {plan[i].source.buffer : i \in DOMAIN plan}
  <1> DEFINE e == AtZero(plan)
             N == Named([plan |-> plan])
  <1>1. e.plan = plan /\ e.starts = [b \in N |-> 0] /\ e.sources = NoSources
    BY DEF AtZero
  <1>2. N = {plan[i].write.buffer : i \in DOMAIN plan} \cup {plan[i].source.buffer : i \in DOMAIN plan}
    BY DEF Named, Written
  <1> HIDE DEF e
  <1>3. Named(e) = N
    BY <1>1 DEF Named
  <1>4. Required(e) = N
    BY <1>1 DEF Required, Named, NoSources
  <1> HIDE DEF N
  <1>5. DOMAIN e.starts = N /\ \A b \in N : e.starts[b] = 0
    BY <1>1
  <1>6. Checked(e) = N
    BY <1>3, <1>4, <1>5 DEF Checked
  <1>7. N \subseteq Buffers
    BY <1>2, StepBuffers
  <1>8. EntryOk(e)
    BY <1>1, <1>5, <1>7 DEF EntryOk, SourcesOk, NoSources
  <1> QED
    BY <1>1, <1>2, <1>3, <1>4, <1>5, <1>6, <1>8 DEF e

(* Rebasing onto version zero changes nothing. *)
LEMMA AtZeroSteps ==
    ASSUME NEW plan \in Seq(Steps), Validate(plan)
    PROVE  RebasedSteps(AtZero(plan)) = plan
  <1> DEFINE e == AtZero(plan)
  <1>1. /\ e.plan = plan /\ \A b \in Named(e) : e.starts[b] = 0
        /\ Named(e) = {plan[i].write.buffer : i \in DOMAIN plan} \cup {plan[i].source.buffer : i \in DOMAIN plan}
    BY AtZeroIs
  <1> HIDE DEF e
  <1>2. ASSUME NEW s \in States, s.buffer \in Named(e) PROVE Rebase(s, e.starts) = s
    <2>1. e.starts[s.buffer] + s.version = s.version
      BY <1>1, <1>2 DEF States
    <2>2. s = [buffer |-> s.buffer, version |-> s.version]
      BY DEF States
    <2> QED
      BY <2>1, <2>2 DEF Rebase, State
  <1>3. ASSUME NEW i \in DOMAIN plan PROVE RebaseStep(plan[i], e.starts) = plan[i]
    <2> DEFINE step == plan[i]
    <2>1. step \in Steps /\ step.write.buffer \in Named(e) /\ step.source.buffer \in Named(e)
      BY <1>1
    <2>2. step.target.buffer = step.write.buffer
      BY DEF Validate, ValidateStep
    <2> HIDE DEF step
    <2>3. step.target \in States /\ step.source \in States /\ step.write \in States
      BY <2>1 DEF Steps
    <2>4. /\ Rebase(step.target, e.starts) = step.target /\ Rebase(step.source, e.starts) = step.source
          /\ Rebase(step.write, e.starts) = step.write
      BY <1>2, <2>1, <2>2, <2>3
    <2>5. [step EXCEPT !.target = step.target, !.source = step.source, !.write = step.write] = step
      BY <2>1 DEF Steps
    <2> QED
      BY <2>4, <2>5, Zenon DEF RebaseStep, step
  <1>4. RebasedSteps(e) = [i \in DOMAIN plan |-> plan[i]]
    BY <1>1, <1>3 DEF RebasedSteps
  <1> QED
    BY <1>4 DEF e

(* A plan that can be staged on a store finds every buffer it names there, at
   version zero: what it mentions first it reads at version zero, and no step
   writes that version. *)
LEMMA StagedStartsAtZero ==
    ASSUME NEW live, NEW plan \in Seq(Steps), Validate(plan),
           Stage(Staging(Snapshots(live)), plan, NoSources).ok,
           NEW b, b \in {plan[i].write.buffer : i \in DOMAIN plan} \cup {plan[i].source.buffer : i \in DOMAIN plan}
    PROVE  b \in DOMAIN live /\ live[b].version = 0
  <1> DEFINE n == Len(plan)
             acc == Staging(Snapshots(live))
             Zero(c) == c \in DOMAIN live /\ live[c].version = 0
  <1>1. n \in Nat /\ DOMAIN plan = 1 .. n
    OBVIOUS
  <1> HIDE DEF n
  <1>2. PICK run : StageRun(run, n, acc, plan, NoSources) /\ Stage(acc, plan, NoSources) = run[n]
    BY <1>1, StageRuns
  <1> DEFINE Good(k) == /\ IsStaging(run[k])
                        /\ run[k].ok =>
                             /\ \A s \in DOMAIN run[k].snapshots : s.version = 0 => Zero(s.buffer)
                             /\ \A j \in 1 .. k : Zero(plan[j].write.buffer) /\ Zero(plan[j].source.buffer)
             G == {k \in Nat : k <= n => Good(k)}
  <1>3. Good(0)
    <2>1. run[0] = acc /\ 1 .. 0 = {}
      BY <1>2, Segment DEF StageRun
    <2>2. IsStaging(acc) /\ acc.snapshots = Snapshots(live)
      BY DEF IsStaging, Staging
    <2>3. ASSUME NEW s \in DOMAIN Snapshots(live), s.version = 0 PROVE Zero(s.buffer)
      <3>1. PICK c \in DOMAIN live : s = State(c, live[c].version)
        BY <2>3 DEF Snapshots
      <3> QED
        BY <2>3, <3>1 DEF State
    <2> HIDE DEF acc, Zero
    <2> QED
      BY <2>1, <2>2, <2>3
  <1>4. ASSUME NEW k \in Nat, Good(k), k + 1 <= n PROVE Good(k + 1)
    <2> DEFINE i == k + 1
               step == plan[i]
               old == run[k]
               new == run[i]
    <2>1. i \in 1 .. n /\ i - 1 = k
      BY <1>1, <1>4
    <2>2. new = StageStep(old, step, NoSources)
      BY <1>2, <2>1 DEF StageRun
    <2>3. step \in Steps /\ ValidateStep(plan, i)
      BY <1>1, <2>1 DEF Validate, n
    <2>4. Reads(step, NoSources) = {step.target, step.source}
      BY DEF Reads, NoSources
    <2>5. IsStaging(old)
      BY <1>4
    <2>6. CASE ~old.ok \/ ~(Reads(step, NoSources) \subseteq DOMAIN old.snapshots)
      <3>1. new = [old EXCEPT !.ok = FALSE]
        BY <2>2, <2>6 DEF StageStep
      <3> HIDE DEF new, old
      <3>2. IsStaging(new) /\ ~new.ok
        BY <2>5, <3>1 DEF IsStaging
      <3> QED
        BY <3>2 DEF new
    <2>7. CASE old.ok /\ Reads(step, NoSources) \subseteq DOMAIN old.snapshots
      <3>1. /\ IsStaging(new) /\ new.ok
            /\ DOMAIN new.snapshots = DOMAIN old.snapshots \cup {step.write}
        <4> HIDE DEF new, old
        <4> QED
          BY <2>2, <2>5, <2>7, StepGrows
      <3>2. step.target \in States /\ step.source \in States
        BY <2>3 DEF Steps
      <3>3. /\ step.target.buffer = step.write.buffer /\ step.write.version = step.target.version + 1
            /\ ReadOk(plan, i, step.target) /\ ReadOk(plan, i, step.source)
        BY <2>3 DEF ValidateStep
      <3>4. \A s \in DOMAIN old.snapshots : s.version = 0 => Zero(s.buffer)
        BY <1>4, <2>7
      <3>5. \A j \in 1 .. k : Zero(plan[j].write.buffer) /\ Zero(plan[j].source.buffer)
        BY <1>4, <2>7
      <3> HIDE DEF Zero, new, old, step
      <3>6. ASSUME NEW read \in {step.target, step.source} PROVE Zero(read.buffer)
        <4>1. ReadOk(plan, i, read) /\ read \in DOMAIN old.snapshots
          BY <2>4, <2>7, <3>3
        <4>2. CASE read.version = 0
          BY <3>4, <4>1, <4>2
        <4>3. CASE read.version # 0
          <5> DEFINE W == WritesBefore(plan, i, read.buffer)
          <5>1. W # {}
            BY <4>1, <4>3 DEF ReadOk, VersionBefore
          <5>2. W = {j \in 1 .. k : plan[j].write.buffer = read.buffer}
            BY <2>1, Zenon DEF WritesBefore
          <5> QED
            BY <3>5, <5>1, <5>2
        <4> QED
          BY <4>2, <4>3
      <3>7. Zero(step.write.buffer) /\ Zero(step.source.buffer)
        BY <3>3, <3>6
      <3>8. step.write.version # 0
        BY <3>2, <3>3 DEF States
      <3>9. \A s \in DOMAIN new.snapshots : s.version = 0 => Zero(s.buffer)
        BY <3>1, <3>4, <3>8
      <3>10. \A j \in 1 .. i : j \in 1 .. k \/ j = i
        OBVIOUS
      <3>11. \A j \in 1 .. i : Zero(plan[j].write.buffer) /\ Zero(plan[j].source.buffer)
        <4> HIDE DEF i
        <4> QED
          BY <3>5, <3>7, <3>10 DEF step
      <3> QED
        BY <3>1, <3>9, <3>11 DEF new
    <2> QED
      BY <2>6, <2>7
  <1> HIDE DEF Good
  <1>5. Good(n)
    <2>1. 0 \in G
      BY <1>3
    <2>2. \A k \in Nat : k \in G => k + 1 \in G
      BY <1>1, <1>4
    <2>3. n \in G
      <3> HIDE DEF G
      <3> QED
        BY <1>1, <2>1, <2>2, CountUp
    <2> QED
      BY <1>1, <2>3
  <1>6. run[n].ok
    BY <1>2
  <1>7. \A j \in 1 .. n : Zero(plan[j].write.buffer) /\ Zero(plan[j].source.buffer)
    BY <1>5, <1>6 DEF Good
  <1> HIDE DEF Zero
  <1>8. Zero(b)
    BY <1>1, <1>7
  <1> QED
    BY <1>8 DEF Zero

(* A plan executed directly and as a batch that starts at version zero. *)
LEMMA PlanAtZero ==
    ASSUME NEW live, NEW plan \in Seq(Steps), plan # <<>>
    PROVE  PlanOutcome(live, plan, NoSources) = BatchOutcome(live, <<AtZero(plan)>>)
  <1> DEFINE e == AtZero(plan)
             start == Staging(Snapshots(live))
             staged == Stage(start, plan, NoSources)
             good == Validate(plan) /\ Written(plan) \subseteq DOMAIN live /\ staged.ok
  <1>1. /\ e.plan = plan /\ e.sources = NoSources /\ EntryOk(e)
        /\ DOMAIN e.starts = Named(e) /\ Required(e) = Named(e) /\ Checked(e) = Named(e)
        /\ \A b \in Named(e) : e.starts[b] = 0
        /\ Named(e) = {plan[i].write.buffer : i \in DOMAIN plan} \cup {plan[i].source.buffer : i \in DOMAIN plan}
    BY AtZeroIs
  <1>2. BatchOutcome(live, <<e>>) =
          IF Admits(live, e) THEN [ok |-> TRUE, live |-> Commits(live, e)] ELSE Refused(live)
    BY <1>1, OneEntryOutcome
  <1>3. PlanOutcome(live, plan, NoSources) =
          IF good THEN [ok |-> TRUE, live |-> Committed(live, plan, staged.snapshots)] ELSE Refused(live)
    BY DEF PlanOutcome
  <1>4. IsStaging(start) /\ start.ok /\ start.snapshots = Snapshots(live)
    BY DEF IsStaging, Staging
  <1> HIDE DEF e, start
  <1>5. ASSUME good PROVE Admits(live, e)
    <2>1. \A b \in Named(e) : b \in DOMAIN live /\ live[b].version = 0
      BY <1>1, <1>5, StagedStartsAtZero DEF start
    <2> QED
      BY <1>1, <1>5, <2>1 DEF Admits
  <1>6. ASSUME Admits(live, e) PROVE good /\ Committed(live, plan, staged.snapshots) = Commits(live, e)
    <2>1. EntryValid(e) /\ Validate(plan)
      BY <1>1, <1>6 DEF Admits, EntryValid
    <2>2. RebasedSteps(e) = plan
      BY <2>1, AtZeroSteps DEF e
    <2>3. Written(plan) \subseteq DOMAIN live
      BY <1>1, <1>6 DEF Admits, Named
    <2> DEFINE alone == StartOf(live, e)
    <2>4. /\ IsStaging(alone) /\ alone.ok /\ DOMAIN alone.snapshots = Starts(e)
          /\ \A s \in Starts(e) : alone.snapshots[s] = live[s.buffer].content
      BY EntryStart
    <2> HIDE DEF alone
    <2>5. SameOn(Begins(e), alone, start)
      <3> SUFFICES ASSUME NEW b \in Named(e)
                   PROVE  LET s == State(b, e.starts[b])
                          IN  s \in DOMAIN alone.snapshots /\ s \in DOMAIN start.snapshots
                              /\ alone.snapshots[s] = start.snapshots[s]
        BY <1>1 DEF SameOn, Begins
      <3> DEFINE s == State(b, e.starts[b])
      <3>1. s \in Starts(e) /\ s.buffer = b
        BY <1>1 DEF Starts, State
      <3>2. b \in DOMAIN live /\ s = State(b, live[b].version)
        BY <1>1, <1>6 DEF Admits
      <3>3. s \in DOMAIN Snapshots(live) /\ Snapshots(live)[s] = live[s.buffer].content
        BY <3>2 DEF Snapshots
      <3> HIDE DEF s
      <3> QED
        BY <1>4, <2>4, <3>1, <3>3 DEF s
    <2>6. LET x == Stage(alone, RebasedSteps(e), e.sources)
              y == Stage(start, RebasedSteps(e), e.sources)
          IN  /\ Extends(WritesOf(e), alone, x) /\ Extends(WritesOf(e), start, y)
              /\ SameOn(WritesOf(e), x, y)
      BY <1>4, <2>1, <2>4, <2>5, EntryAgrees
    <2>7. Extends(WritesOf(e), start, staged) /\ SameOn(WritesOf(e), StagedOf(live, e), staged)
      BY <1>1, <2>2, <2>6 DEF StagedOf, alone
    <2> HIDE DEF staged
    <2>8. staged.ok
      BY <2>7 DEF Extends
    <2> DEFINE p == StagedOf(live, e)
    <2>9. ASSUME NEW b \in Written(plan)
          PROVE  staged.snapshots[FinalState(plan, b)] = p.snapshots[FinalState(plan, b)]
      <3>1. FinalState(plan, b) \in WritesOf(e)
        BY <1>1, <2>1, <2>2, FinalOfEntry
      <3> HIDE DEF p
      <3> QED
        BY <2>7, <3>1 DEF SameOn, p
    <2>10. Committed(live, plan, staged.snapshots) = Committed(live, plan, p.snapshots)
      <3> HIDE DEF p
      <3> QED
        BY <2>9 DEF Committed
    <2> QED
      BY <2>1, <2>2, <2>3, <2>8, <2>10 DEF Commits
  <1> HIDE DEF good
  <1>7. CASE good
    BY <1>2, <1>3, <1>5, <1>6, <1>7 DEF e
  <1>8. CASE ~good
    BY <1>2, <1>3, <1>6, <1>8 DEF e
  <1> QED
    BY <1>7, <1>8

(* A plan that is executed directly does what it does as a batch that starts
   at version zero, and is refused where that batch is: execute compares no
   versions, yet the states its steps name leave it no other start.  Only the
   empty plan differs, which execute accepts and execute_batch refuses. *)
THEOREM PlansAreBatches ==
    ASSUME <<>> \notin Plans
    PROVE  RuntimeSpec => []PlanIsBatchAtZero
  <1>1. ASSUME NEW plan \in Plans
        PROVE  PlanOutcome(Live, plan, NoSources) =
                 BatchOutcome(Live, <<[plan |-> plan, starts |-> [b \in Named([plan |-> plan]) |-> 0],
                                       sources |-> NoSources]>>)
    <2>1. plan \in Seq(Steps) /\ plan # <<>>
      BY EffectRuntimeAssumption
    <2>2. PlanOutcome(Live, plan, NoSources) = BatchOutcome(Live, <<AtZero(plan)>>)
      BY <2>1, PlanAtZero
    <2> QED
      BY <2>2, Zenon DEF AtZero
  <1>2. PlanIsBatchAtZero
    BY <1>1, Zenon DEF PlanIsBatchAtZero
  <1> QED
    BY <1>2, PTL
=============================================================================
