--------------------------- MODULE Serving_proofs ---------------------------
(***************************************************************************)
(* What the serving scheduler promises for any models, prompts, sampling,   *)
(* batch size, cache limits and any number of requests: a request           *)
(* generates what it would generate alone, the prefix cache is true,        *)
(* bounded and held by live requests only, and requests are served in turn. *)
(* A step is three folds over the selected requests; each is shown to be    *)
(* the run of its stages one after the other, and an invariant of the       *)
(* staged copies is carried along the runs.                                 *)
(***************************************************************************)
EXTENDS Serving, FiniteSetTheorems, SequenceTheorems, WellFoundedInduction, TLAPS

-----------------------------------------------------------------------------
(* Numbers and folds *)

(* Induction: a set that holds 0 and with every number the next one. *)
LEMMA CountUp ==
    ASSUME NEW G, 0 \in G, \A n \in Nat : n \in G => n + 1 \in G
    PROVE  \A n \in Nat : n \in G
  <1> DEFINE N == Nat \ G
  <1>1. SUFFICES ASSUME N # {} PROVE FALSE
    OBVIOUS
  <1>2. N \subseteq Nat
    OBVIOUS
  <1> HIDE DEF N
  <1>3. PICK n \in N : \A m \in N : ~(<<m, n>> \in OpToRel(<, Nat))
    BY <1>1, <1>2, NatLessThanWellFounded, WFMin
  <1>4. n \in Nat /\ n # 0
    BY <1>2 DEF N
  <1>5. n - 1 \in Nat /\ n - 1 \notin N
    <2>1. n - 1 \in Nat /\ n - 1 < n
      BY <1>4
    <2>2. <<n - 1, n>> \in OpToRel(<, Nat)
      BY <1>4, <2>1 DEF OpToRel
    <2> QED
      BY <1>3, <2>1, <2>2
  <1>6. n - 1 \in G /\ (n - 1) + 1 = n
    BY <1>4, <1>5 DEF N
  <1>7. n \in G
    BY <1>5, <1>6
  <1> QED
    BY <1>7 DEF N

(* The largest element of a set of positions. *)
LEMMA LargestPosition ==
    ASSUME NEW n \in Nat, NEW S \in SUBSET (1 .. n), S # {}
    PROVE  Max(S) \in S /\ \A x \in S : x <= Max(S)
  <1> DEFINE G == {k \in Nat : \A T \in SUBSET (1 .. k) : T # {} => \E m \in T : \A x \in T : x <= m}
  <1>1. 0 \in G
    <2>1. 1 .. 0 = {}
      OBVIOUS
    <2> QED
      BY <2>1
  <1>2. ASSUME NEW k \in Nat, k \in G PROVE k + 1 \in G
    <2> SUFFICES ASSUME NEW T \in SUBSET (1 .. k + 1), T # {}
                 PROVE  \E m \in T : \A x \in T : x <= m
      OBVIOUS
    <2>1. CASE k + 1 \in T
      BY <2>1
    <2>2. CASE k + 1 \notin T
      BY <1>2, <2>2
    <2> QED
      BY <2>1, <2>2
  <1> HIDE DEF G
  <1>3. n \in G
    BY <1>1, <1>2, CountUp
  <1>4. \E m \in S : \A x \in S : x <= m
    BY <1>3 DEF G
  <1>5. \E m \in S : \A x \in S : m >= x
    BY <1>4
  <1> QED
    BY <1>5 DEF Max

(* Removing the largest position of a set of positions. *)
LEMMA WithoutLargest ==
    ASSUME NEW n \in Nat, NEW t \in SUBSET (1 .. n + 1)
    PROVE  /\ n + 1 \in t => Max(t) = n + 1 /\ t \ {n + 1} \in SUBSET (1 .. n)
           /\ n + 1 \notin t => t \in SUBSET (1 .. n)
           /\ n + 1 \notin t /\ t # {} => Max(t) # n + 1 /\ t \ {Max(t)} \in SUBSET (1 .. n)
  <1> DEFINE m == n + 1
  <1>1. m \in Nat /\ t \in SUBSET (1 .. m) /\ (\A x \in 1 .. m : x # m => x \in 1 .. n)
    OBVIOUS
  <1> HIDE DEF m
  <1>2. t # {} => Max(t) \in t /\ \A x \in t : x <= Max(t)
    BY <1>1, LargestPosition
  <1>3. ASSUME m \in t PROVE Max(t) = m
    <2>1. Max(t) \in 1 .. m /\ m <= Max(t)
      BY <1>1, <1>2, <1>3
    <2> QED
      BY <1>1, <2>1
  <1>4. /\ m \in t => Max(t) = m /\ t \ {m} \in SUBSET (1 .. n)
        /\ m \notin t => t \in SUBSET (1 .. n)
        /\ m \notin t /\ t # {} => Max(t) # m /\ t \ {Max(t)} \in SUBSET (1 .. n)
    BY <1>1, <1>2, <1>3
  <1> QED
    BY <1>4 DEF m

(* An initial segment. *)
LEMMA Segment ==
    ASSUME NEW n \in Nat
    PROVE  /\ 1 .. 0 = {}
           /\ n # 0 => Max(1 .. n) = n /\ (1 .. n) \ {n} = 1 .. n - 1 /\ 1 .. n # {}
  <1>1. ASSUME n # 0 PROVE Max(1 .. n) = n
    <2>1. 1 .. n # {} /\ n \in 1 .. n /\ 1 .. n \in SUBSET (1 .. n)
      BY <1>1
    <2>2. Max(1 .. n) \in 1 .. n /\ n <= Max(1 .. n)
      BY <2>1, LargestPosition
    <2> QED
      BY <2>2
  <1> QED
    BY <1>1

(* What is kept of the first n elements, for every n. *)
RetainRun(run, n, acc, seq, S) ==
    /\ run[0] = acc
    /\ \A i \in 1 .. n : run[i] = (IF seq[i] \in S THEN Append(run[i - 1], seq[i]) ELSE run[i - 1])

(* Retain is the last of a run over its elements. *)
LEMMA RetainRuns ==
    ASSUME NEW acc, acc = <<>>, NEW seq, NEW S, NEW n \in Nat, DOMAIN seq = 1 .. n
    PROVE  \E run : RetainRun(run, n, acc, seq, S) /\ Retain(seq, S) = run[n]
  <1> DEFINE Value(it, t) == IF t = {} THEN acc
                             ELSE (IF seq[Max(t)] \in S THEN Append(it[t \ {Max(t)}], seq[Max(t)]) ELSE it[t \ {Max(t)}])
             Folds(it) == it = [t \in SUBSET (1 .. n) |-> Value(it, t)]
             G == {k \in Nat : \E it : \A t \in SUBSET (1 .. k) : it[t] = Value(it, t)}
  <1>1. Retain(seq, S) = (CHOOSE it : Folds(it))[1 .. n]
    BY DEF Retain, FoldLeft, MapThenFoldSet
  <1>2. 0 \in G
    <2> DEFINE it == [t \in SUBSET (1 .. 0) |-> acc]
    <2>1. \A t \in SUBSET (1 .. 0) : it[t] = Value(it, t)
      BY Segment
    <2> QED
      BY <2>1
  <1>3. ASSUME NEW k \in Nat, k \in G PROVE k + 1 \in G
    <2>1. PICK it : \A t \in SUBSET (1 .. k) : it[t] = Value(it, t)
      BY <1>3
    <2> DEFINE more == [t \in SUBSET (1 .. k + 1) |->
                          IF k + 1 \in t THEN (IF seq[k + 1] \in S THEN Append(it[t \ {k + 1}], seq[k + 1]) ELSE it[t \ {k + 1}])
                          ELSE it[t]]
    <2>2. \A t \in SUBSET (1 .. k) : more[t] = it[t] /\ t \in SUBSET (1 .. k + 1)
      OBVIOUS
    <2>3. ASSUME NEW t \in SUBSET (1 .. k + 1) PROVE more[t] = Value(more, t)
      <3>1. CASE k + 1 \in t
        <4>1. Max(t) = k + 1 /\ t \ {k + 1} \in SUBSET (1 .. k)
          BY <3>1, WithoutLargest
        <4>2. more[t] = (IF seq[k + 1] \in S THEN Append(it[t \ {k + 1}], seq[k + 1]) ELSE it[t \ {k + 1}])
          BY <3>1
        <4>3. more[t \ {k + 1}] = it[t \ {k + 1}]
          BY <2>2, <4>1
        <4> QED
          BY <3>1, <4>1, <4>2, <4>3
      <3>2. CASE k + 1 \notin t
        <4>1. t \in SUBSET (1 .. k) /\ (t # {} => t \ {Max(t)} \in SUBSET (1 .. k))
          BY <3>2, WithoutLargest
        <4>2. more[t] = it[t] /\ (t # {} => more[t \ {Max(t)}] = it[t \ {Max(t)}])
          BY <2>2, <4>1
        <4> QED
          BY <2>1, <4>1, <4>2
      <3> QED
        BY <3>1, <3>2
    <2> HIDE DEF more, Value
    <2>4. k + 1 \in Nat /\ \E all : \A t \in SUBSET (1 .. k + 1) : all[t] = Value(all, t)
      BY <2>3
    <2> QED
      BY <2>4
  <1>4. n \in G
    <2> HIDE DEF G
    <2> QED
      BY <1>2, <1>3, CountUp
  <1>5. PICK it : \A t \in SUBSET (1 .. n) : it[t] = Value(it, t)
    BY <1>4
  <1>6. \E all : Folds(all)
    <2> DEFINE all == [t \in SUBSET (1 .. n) |-> it[t]]
    <2>1. \A t \in SUBSET (1 .. n) : t # {} => t \ {Max(t)} \in SUBSET (1 .. n)
      OBVIOUS
    <2>2. \A t \in SUBSET (1 .. n) : Value(it, t) = Value(all, t)
      BY <2>1
    <2>3. Folds(all)
      BY <1>5, <2>2
    <2> QED
      BY <2>3
  <1> DEFINE fold == CHOOSE all : Folds(all)
  <1>7. Folds(fold)
    BY <1>6
  <1> HIDE DEF fold
  <1>8. \A t \in SUBSET (1 .. n) : fold[t] = Value(fold, t)
    BY <1>7
  <1> DEFINE run == [i \in 0 .. n |-> fold[1 .. i]]
  <1>9. run[0] = acc
    <2>1. 1 .. 0 = {} /\ {} \in SUBSET (1 .. n) /\ 0 \in 0 .. n
      BY Segment
    <2>2. fold[{}] = acc
      BY <1>8, <2>1
    <2> QED
      BY <2>1, <2>2
  <1>10. ASSUME NEW i \in 1 .. n PROVE run[i] = (IF seq[i] \in S THEN Append(run[i - 1], seq[i]) ELSE run[i - 1])
    <2>1. i \in Nat /\ i # 0 /\ 1 .. i \in SUBSET (1 .. n) /\ i - 1 \in 0 .. n /\ i \in 0 .. n
      OBVIOUS
    <2>2. Max(1 .. i) = i /\ (1 .. i) \ {i} = 1 .. i - 1 /\ 1 .. i # {}
      BY <2>1, Segment
    <2> QED
      BY <1>8, <2>1, <2>2
  <1>11. Retain(seq, S) = run[n]
    BY <1>1 DEF fold
  <1> QED
    BY <1>9, <1>10, <1>11 DEF RetainRun

(* The staged copies after the first n requests of a batch were begun. *)
BeginRun(run, n, acc, ids) ==
    /\ run[0] = acc
    /\ \A i \in 1 .. n : run[i] = Begin(run[i - 1], ids[i])

(* The fold of Begin is the last of a run over the batch. *)
LEMMA BeginRuns ==
    ASSUME NEW acc, NEW ids, NEW n \in Nat, DOMAIN ids = 1 .. n
    PROVE  \E run : BeginRun(run, n, acc, ids) /\ FoldLeft(Begin, acc, ids) = run[n]
  <1> DEFINE Value(it, t) == IF t = {} THEN acc
                             ELSE Begin(it[t \ {Max(t)}], ids[Max(t)])
             Folds(it) == it = [t \in SUBSET (1 .. n) |-> Value(it, t)]
             G == {k \in Nat : \E it : \A t \in SUBSET (1 .. k) : it[t] = Value(it, t)}
  <1>1. FoldLeft(Begin, acc, ids) = (CHOOSE it : Folds(it))[1 .. n]
    BY DEF FoldLeft, MapThenFoldSet
  <1>2. 0 \in G
    <2> DEFINE it == [t \in SUBSET (1 .. 0) |-> acc]
    <2>1. \A t \in SUBSET (1 .. 0) : it[t] = Value(it, t)
      BY Segment
    <2> QED
      BY <2>1
  <1>3. ASSUME NEW k \in Nat, k \in G PROVE k + 1 \in G
    <2>1. PICK it : \A t \in SUBSET (1 .. k) : it[t] = Value(it, t)
      BY <1>3
    <2> DEFINE more == [t \in SUBSET (1 .. k + 1) |->
                          IF k + 1 \in t THEN Begin(it[t \ {k + 1}], ids[k + 1])
                          ELSE it[t]]
    <2>2. \A t \in SUBSET (1 .. k) : more[t] = it[t] /\ t \in SUBSET (1 .. k + 1)
      OBVIOUS
    <2>3. ASSUME NEW t \in SUBSET (1 .. k + 1) PROVE more[t] = Value(more, t)
      <3>1. CASE k + 1 \in t
        <4>1. Max(t) = k + 1 /\ t \ {k + 1} \in SUBSET (1 .. k)
          BY <3>1, WithoutLargest
        <4>2. more[t] = Begin(it[t \ {k + 1}], ids[k + 1])
          BY <3>1
        <4>3. more[t \ {k + 1}] = it[t \ {k + 1}]
          BY <2>2, <4>1
        <4> QED
          BY <3>1, <4>1, <4>2, <4>3
      <3>2. CASE k + 1 \notin t
        <4>1. t \in SUBSET (1 .. k) /\ (t # {} => t \ {Max(t)} \in SUBSET (1 .. k))
          BY <3>2, WithoutLargest
        <4>2. more[t] = it[t] /\ (t # {} => more[t \ {Max(t)}] = it[t \ {Max(t)}])
          BY <2>2, <4>1
        <4> QED
          BY <2>1, <4>1, <4>2
      <3> QED
        BY <3>1, <3>2
    <2> HIDE DEF more, Value
    <2>4. k + 1 \in Nat /\ \E all : \A t \in SUBSET (1 .. k + 1) : all[t] = Value(all, t)
      BY <2>3
    <2> QED
      BY <2>4
  <1>4. n \in G
    <2> HIDE DEF G
    <2> QED
      BY <1>2, <1>3, CountUp
  <1>5. PICK it : \A t \in SUBSET (1 .. n) : it[t] = Value(it, t)
    BY <1>4
  <1>6. \E all : Folds(all)
    <2> DEFINE all == [t \in SUBSET (1 .. n) |-> it[t]]
    <2>1. \A t \in SUBSET (1 .. n) : t # {} => t \ {Max(t)} \in SUBSET (1 .. n)
      OBVIOUS
    <2>2. \A t \in SUBSET (1 .. n) : Value(it, t) = Value(all, t)
      BY <2>1
    <2>3. Folds(all)
      BY <1>5, <2>2
    <2> QED
      BY <2>3
  <1> DEFINE fold == CHOOSE all : Folds(all)
  <1>7. Folds(fold)
    BY <1>6
  <1> HIDE DEF fold
  <1>8. \A t \in SUBSET (1 .. n) : fold[t] = Value(fold, t)
    BY <1>7
  <1> DEFINE run == [i \in 0 .. n |-> fold[1 .. i]]
  <1>9. run[0] = acc
    <2>1. 1 .. 0 = {} /\ {} \in SUBSET (1 .. n) /\ 0 \in 0 .. n
      BY Segment
    <2>2. fold[{}] = acc
      BY <1>8, <2>1
    <2> QED
      BY <2>1, <2>2
  <1>10. ASSUME NEW i \in 1 .. n PROVE run[i] = Begin(run[i - 1], ids[i])
    <2>1. i \in Nat /\ i # 0 /\ 1 .. i \in SUBSET (1 .. n) /\ i - 1 \in 0 .. n /\ i \in 0 .. n
      OBVIOUS
    <2>2. Max(1 .. i) = i /\ (1 .. i) \ {i} = 1 .. i - 1 /\ 1 .. i # {}
      BY <2>1, Segment
    <2> QED
      BY <1>8, <2>1, <2>2
  <1>11. FoldLeft(Begin, acc, ids) = run[n]
    BY <1>1 DEF fold
  <1> QED
    BY <1>9, <1>10, <1>11 DEF BeginRun

(* The staged copies after the first n requests of a batch were computed. *)
ComputeRun(run, n, acc, ids) ==
    /\ run[0] = acc
    /\ \A i \in 1 .. n : run[i] = Compute(run[i - 1], ids[i])

(* The fold of Compute is the last of a run over the batch. *)
LEMMA ComputeRuns ==
    ASSUME NEW acc, NEW ids, NEW n \in Nat, DOMAIN ids = 1 .. n
    PROVE  \E run : ComputeRun(run, n, acc, ids) /\ FoldLeft(Compute, acc, ids) = run[n]
  <1> DEFINE Value(it, t) == IF t = {} THEN acc
                             ELSE Compute(it[t \ {Max(t)}], ids[Max(t)])
             Folds(it) == it = [t \in SUBSET (1 .. n) |-> Value(it, t)]
             G == {k \in Nat : \E it : \A t \in SUBSET (1 .. k) : it[t] = Value(it, t)}
  <1>1. FoldLeft(Compute, acc, ids) = (CHOOSE it : Folds(it))[1 .. n]
    BY DEF FoldLeft, MapThenFoldSet
  <1>2. 0 \in G
    <2> DEFINE it == [t \in SUBSET (1 .. 0) |-> acc]
    <2>1. \A t \in SUBSET (1 .. 0) : it[t] = Value(it, t)
      BY Segment
    <2> QED
      BY <2>1
  <1>3. ASSUME NEW k \in Nat, k \in G PROVE k + 1 \in G
    <2>1. PICK it : \A t \in SUBSET (1 .. k) : it[t] = Value(it, t)
      BY <1>3
    <2> DEFINE more == [t \in SUBSET (1 .. k + 1) |->
                          IF k + 1 \in t THEN Compute(it[t \ {k + 1}], ids[k + 1])
                          ELSE it[t]]
    <2>2. \A t \in SUBSET (1 .. k) : more[t] = it[t] /\ t \in SUBSET (1 .. k + 1)
      OBVIOUS
    <2>3. ASSUME NEW t \in SUBSET (1 .. k + 1) PROVE more[t] = Value(more, t)
      <3>1. CASE k + 1 \in t
        <4>1. Max(t) = k + 1 /\ t \ {k + 1} \in SUBSET (1 .. k)
          BY <3>1, WithoutLargest
        <4>2. more[t] = Compute(it[t \ {k + 1}], ids[k + 1])
          BY <3>1
        <4>3. more[t \ {k + 1}] = it[t \ {k + 1}]
          BY <2>2, <4>1
        <4> QED
          BY <3>1, <4>1, <4>2, <4>3
      <3>2. CASE k + 1 \notin t
        <4>1. t \in SUBSET (1 .. k) /\ (t # {} => t \ {Max(t)} \in SUBSET (1 .. k))
          BY <3>2, WithoutLargest
        <4>2. more[t] = it[t] /\ (t # {} => more[t \ {Max(t)}] = it[t \ {Max(t)}])
          BY <2>2, <4>1
        <4> QED
          BY <2>1, <4>1, <4>2
      <3> QED
        BY <3>1, <3>2
    <2> HIDE DEF more, Value
    <2>4. k + 1 \in Nat /\ \E all : \A t \in SUBSET (1 .. k + 1) : all[t] = Value(all, t)
      BY <2>3
    <2> QED
      BY <2>4
  <1>4. n \in G
    <2> HIDE DEF G
    <2> QED
      BY <1>2, <1>3, CountUp
  <1>5. PICK it : \A t \in SUBSET (1 .. n) : it[t] = Value(it, t)
    BY <1>4
  <1>6. \E all : Folds(all)
    <2> DEFINE all == [t \in SUBSET (1 .. n) |-> it[t]]
    <2>1. \A t \in SUBSET (1 .. n) : t # {} => t \ {Max(t)} \in SUBSET (1 .. n)
      OBVIOUS
    <2>2. \A t \in SUBSET (1 .. n) : Value(it, t) = Value(all, t)
      BY <2>1
    <2>3. Folds(all)
      BY <1>5, <2>2
    <2> QED
      BY <2>3
  <1> DEFINE fold == CHOOSE all : Folds(all)
  <1>7. Folds(fold)
    BY <1>6
  <1> HIDE DEF fold
  <1>8. \A t \in SUBSET (1 .. n) : fold[t] = Value(fold, t)
    BY <1>7
  <1> DEFINE run == [i \in 0 .. n |-> fold[1 .. i]]
  <1>9. run[0] = acc
    <2>1. 1 .. 0 = {} /\ {} \in SUBSET (1 .. n) /\ 0 \in 0 .. n
      BY Segment
    <2>2. fold[{}] = acc
      BY <1>8, <2>1
    <2> QED
      BY <2>1, <2>2
  <1>10. ASSUME NEW i \in 1 .. n PROVE run[i] = Compute(run[i - 1], ids[i])
    <2>1. i \in Nat /\ i # 0 /\ 1 .. i \in SUBSET (1 .. n) /\ i - 1 \in 0 .. n /\ i \in 0 .. n
      OBVIOUS
    <2>2. Max(1 .. i) = i /\ (1 .. i) \ {i} = 1 .. i - 1 /\ 1 .. i # {}
      BY <2>1, Segment
    <2> QED
      BY <1>8, <2>1, <2>2
  <1>11. FoldLeft(Compute, acc, ids) = run[n]
    BY <1>1 DEF fold
  <1> QED
    BY <1>9, <1>10, <1>11 DEF ComputeRun

(* The staged copies after the first n requests of a batch were advanced by a token. *)
EmitRun(run, n, acc, ids) ==
    /\ run[0] = acc
    /\ \A i \in 1 .. n : run[i] = Emit(run[i - 1], ids[i])

(* The fold of Emit is the last of a run over the batch. *)
LEMMA EmitRuns ==
    ASSUME NEW acc, NEW ids, NEW n \in Nat, DOMAIN ids = 1 .. n
    PROVE  \E run : EmitRun(run, n, acc, ids) /\ FoldLeft(Emit, acc, ids) = run[n]
  <1> DEFINE Value(it, t) == IF t = {} THEN acc
                             ELSE Emit(it[t \ {Max(t)}], ids[Max(t)])
             Folds(it) == it = [t \in SUBSET (1 .. n) |-> Value(it, t)]
             G == {k \in Nat : \E it : \A t \in SUBSET (1 .. k) : it[t] = Value(it, t)}
  <1>1. FoldLeft(Emit, acc, ids) = (CHOOSE it : Folds(it))[1 .. n]
    BY DEF FoldLeft, MapThenFoldSet
  <1>2. 0 \in G
    <2> DEFINE it == [t \in SUBSET (1 .. 0) |-> acc]
    <2>1. \A t \in SUBSET (1 .. 0) : it[t] = Value(it, t)
      BY Segment
    <2> QED
      BY <2>1
  <1>3. ASSUME NEW k \in Nat, k \in G PROVE k + 1 \in G
    <2>1. PICK it : \A t \in SUBSET (1 .. k) : it[t] = Value(it, t)
      BY <1>3
    <2> DEFINE more == [t \in SUBSET (1 .. k + 1) |->
                          IF k + 1 \in t THEN Emit(it[t \ {k + 1}], ids[k + 1])
                          ELSE it[t]]
    <2>2. \A t \in SUBSET (1 .. k) : more[t] = it[t] /\ t \in SUBSET (1 .. k + 1)
      OBVIOUS
    <2>3. ASSUME NEW t \in SUBSET (1 .. k + 1) PROVE more[t] = Value(more, t)
      <3>1. CASE k + 1 \in t
        <4>1. Max(t) = k + 1 /\ t \ {k + 1} \in SUBSET (1 .. k)
          BY <3>1, WithoutLargest
        <4>2. more[t] = Emit(it[t \ {k + 1}], ids[k + 1])
          BY <3>1
        <4>3. more[t \ {k + 1}] = it[t \ {k + 1}]
          BY <2>2, <4>1
        <4> QED
          BY <3>1, <4>1, <4>2, <4>3
      <3>2. CASE k + 1 \notin t
        <4>1. t \in SUBSET (1 .. k) /\ (t # {} => t \ {Max(t)} \in SUBSET (1 .. k))
          BY <3>2, WithoutLargest
        <4>2. more[t] = it[t] /\ (t # {} => more[t \ {Max(t)}] = it[t \ {Max(t)}])
          BY <2>2, <4>1
        <4> QED
          BY <2>1, <4>1, <4>2
      <3> QED
        BY <3>1, <3>2
    <2> HIDE DEF more, Value
    <2>4. k + 1 \in Nat /\ \E all : \A t \in SUBSET (1 .. k + 1) : all[t] = Value(all, t)
      BY <2>3
    <2> QED
      BY <2>4
  <1>4. n \in G
    <2> HIDE DEF G
    <2> QED
      BY <1>2, <1>3, CountUp
  <1>5. PICK it : \A t \in SUBSET (1 .. n) : it[t] = Value(it, t)
    BY <1>4
  <1>6. \E all : Folds(all)
    <2> DEFINE all == [t \in SUBSET (1 .. n) |-> it[t]]
    <2>1. \A t \in SUBSET (1 .. n) : t # {} => t \ {Max(t)} \in SUBSET (1 .. n)
      OBVIOUS
    <2>2. \A t \in SUBSET (1 .. n) : Value(it, t) = Value(all, t)
      BY <2>1
    <2>3. Folds(all)
      BY <1>5, <2>2
    <2> QED
      BY <2>3
  <1> DEFINE fold == CHOOSE all : Folds(all)
  <1>7. Folds(fold)
    BY <1>6
  <1> HIDE DEF fold
  <1>8. \A t \in SUBSET (1 .. n) : fold[t] = Value(fold, t)
    BY <1>7
  <1> DEFINE run == [i \in 0 .. n |-> fold[1 .. i]]
  <1>9. run[0] = acc
    <2>1. 1 .. 0 = {} /\ {} \in SUBSET (1 .. n) /\ 0 \in 0 .. n
      BY Segment
    <2>2. fold[{}] = acc
      BY <1>8, <2>1
    <2> QED
      BY <2>1, <2>2
  <1>10. ASSUME NEW i \in 1 .. n PROVE run[i] = Emit(run[i - 1], ids[i])
    <2>1. i \in Nat /\ i # 0 /\ 1 .. i \in SUBSET (1 .. n) /\ i - 1 \in 0 .. n /\ i \in 0 .. n
      OBVIOUS
    <2>2. Max(1 .. i) = i /\ (1 .. i) \ {i} = 1 .. i - 1 /\ 1 .. i # {}
      BY <2>1, Segment
    <2> QED
      BY <1>8, <2>1, <2>2
  <1>11. FoldLeft(Emit, acc, ids) = run[n]
    BY <1>1 DEF fold
  <1> QED
    BY <1>9, <1>10, <1>11 DEF EmitRun

(* Its size. *)
LEMMA FiniteSegment == ASSUME NEW n \in Nat PROVE IsFiniteSet(1 .. n) /\ Cardinality(1 .. n) = n
  <1>1. 1 \in Int /\ n \in Int
    OBVIOUS
  <1>2. IsFiniteSet(1 .. n) /\ Cardinality(1 .. n) = IF 1 > n THEN 0 ELSE n - 1 + 1
    BY <1>1, FS_Interval, Zenon
  <1> DEFINE c == Cardinality(1 .. n)
  <1>3. c = IF 1 > n THEN 0 ELSE n - 1 + 1
    BY <1>2
  <1> HIDE DEF c
  <1>4. c = n
    BY <1>3
  <1> QED
    BY <1>2, <1>4 DEF c

-----------------------------------------------------------------------------
(* What Retain returns *)

(* t is what is left of the first n elements of seq: place says where each of
   its elements comes from, in order, and nothing in S is missing. *)
LeftOf(t, place, seq, n, S) ==
    /\ place \in [1 .. Len(t) -> 1 .. n]
    /\ \A a, b \in 1 .. Len(t) : a < b => place[a] < place[b]
    /\ \A a \in 1 .. Len(t) : t[a] = seq[place[a]] /\ t[a] \in S
    /\ \A i \in 1 .. n : seq[i] \in S => \E a \in 1 .. Len(t) : place[a] = i

(* One more element is kept. *)
LEMMA LeftOfMore ==
    ASSUME NEW X, NEW t \in Seq(X), NEW seq \in Seq(X), NEW n \in Nat, n + 1 <= Len(seq), NEW S,
           NEW place, LeftOf(t, place, seq, n, S), seq[n + 1] \in S
    PROVE  \E more : LeftOf(Append(t, seq[n + 1]), more, seq, n + 1, S)
  <1> DEFINE u == Append(t, seq[n + 1])
             m == Len(t)
             more == [a \in 1 .. m + 1 |-> IF a = m + 1 THEN n + 1 ELSE place[a]]
  <1>1. seq[n + 1] \in X
    OBVIOUS
  <1>2. Len(u) = m + 1 /\ m \in Nat /\ u[m + 1] = seq[n + 1] /\ \A a \in 1 .. m : u[a] = t[a]
    BY <1>1
  <1>3. /\ place \in [1 .. m -> 1 .. n]
        /\ \A a, b \in 1 .. m : a < b => place[a] < place[b]
        /\ \A a \in 1 .. m : t[a] = seq[place[a]] /\ t[a] \in S
        /\ \A i \in 1 .. n : seq[i] \in S => \E a \in 1 .. m : place[a] = i
    BY DEF LeftOf
  <1> HIDE DEF u, m
  <1>4. /\ more[m + 1] = n + 1 /\ \A a \in 1 .. m : more[a] = place[a]
        /\ more \in [1 .. m + 1 -> 1 .. n + 1]
    BY <1>2, <1>3
  <1> HIDE DEF more
  <1>5. \A a \in 1 .. m + 1 : a = m + 1 \/ a \in 1 .. m
    BY <1>2
  <1>6. \A a, b \in 1 .. m + 1 : a < b => more[a] < more[b]
    <2> SUFFICES ASSUME NEW a \in 1 .. m + 1, NEW b \in 1 .. m + 1, a < b PROVE more[a] < more[b]
      OBVIOUS
    <2>4. a \in 1 .. m
      BY <1>2
    <2>1. more[a] = place[a] /\ place[a] \in 1 .. n
      <3>1. place \in [1 .. m -> 1 .. n]
        BY <1>3, Zenon
      <3> QED
        BY <1>4, <2>4, <3>1, Zenon
    <2>2. CASE b = m + 1
      <3>1. more[b] = n + 1
        BY <1>4, <2>2, Zenon
      <3> QED
        BY <2>1, <3>1
    <2>3. CASE b \in 1 .. m
      BY <1>3, <1>4, <2>1, <2>3, <2>4, Zenon
    <2> QED
      BY <1>5, <2>2, <2>3, Zenon
  <1>7. \A a \in 1 .. m + 1 : u[a] = seq[more[a]] /\ u[a] \in S
    BY <1>2, <1>3, <1>4, <1>5
  <1>8. \A i \in 1 .. n + 1 : seq[i] \in S => \E a \in 1 .. m + 1 : more[a] = i
    <2> SUFFICES ASSUME NEW i \in 1 .. n + 1, seq[i] \in S PROVE \E a \in 1 .. m + 1 : more[a] = i
      OBVIOUS
    <2>1. CASE i = n + 1
      BY <1>2, <1>4, <2>1
    <2>2. CASE i \in 1 .. n
      <3>1. PICK a \in 1 .. m : place[a] = i
        BY <1>3, <2>2
      <3> QED
        BY <1>2, <1>4, <3>1
    <2> QED
      BY <2>1, <2>2
  <1>9. LeftOf(u, more, seq, n + 1, S)
    BY <1>2, <1>4, <1>6, <1>7, <1>8 DEF LeftOf
  <1> QED
    BY <1>9 DEF u

(* Retain keeps the elements of the set, all of them and in their order. *)
LEMMA RetainLeft ==
    ASSUME NEW X, NEW seq \in Seq(X), NEW S
    PROVE  /\ Retain(seq, S) \in Seq(X)
           /\ \E place : LeftOf(Retain(seq, S), place, seq, Len(seq), S)
  <1> DEFINE n == Len(seq)
  <1>1. n \in Nat /\ DOMAIN seq = 1 .. n
    OBVIOUS
  <1>2. PICK run : RetainRun(run, n, <<>>, seq, S) /\ Retain(seq, S) = run[n]
    BY <1>1, RetainRuns
  <1>3. /\ run[0] = <<>>
        /\ \A i \in 1 .. n : run[i] = IF seq[i] \in S THEN Append(run[i - 1], seq[i]) ELSE run[i - 1]
    BY <1>2 DEF RetainRun
  <1> DEFINE G == {k \in Nat : k <= n =>
                     run[k] \in Seq(X) /\ \E place : LeftOf(run[k], place, seq, k, S)}
  <1> HIDE DEF n
  <1>4. 0 \in G
    <2> DEFINE place == [a \in 1 .. 0 |-> 0]
    <2>1. <<>> \in Seq(X) /\ Len(<<>>) = 0 /\ 1 .. 0 = {}
      OBVIOUS
    <2>2. LeftOf(<<>>, place, seq, 0, S)
      BY <2>1 DEF LeftOf
    <2> QED
      BY <1>3, <2>1, <2>2
  <1>5. ASSUME NEW k \in Nat, k \in G PROVE k + 1 \in G
    <2> SUFFICES ASSUME k + 1 <= n
                 PROVE  run[k + 1] \in Seq(X) /\ \E place : LeftOf(run[k + 1], place, seq, k + 1, S)
      OBVIOUS
    <2>1. k <= n /\ k + 1 \in 1 .. n /\ (k + 1) - 1 = k /\ k + 1 <= Len(seq)
      BY <1>1 DEF n
    <2>2. PICK place : run[k] \in Seq(X) /\ LeftOf(run[k], place, seq, k, S)
      BY <1>5, <2>1
    <2>3. run[k + 1] = IF seq[k + 1] \in S THEN Append(run[k], seq[k + 1]) ELSE run[k]
      BY <1>3, <2>1
    <2>4. seq[k + 1] \in X
      BY <2>1
    <2>5. CASE seq[k + 1] \in S
      <3>1. \E more : LeftOf(Append(run[k], seq[k + 1]), more, seq, k + 1, S)
        BY <2>1, <2>2, <2>5, LeftOfMore
      <3>2. Append(run[k], seq[k + 1]) \in Seq(X)
        BY <2>2, <2>4
      <3> QED
        BY <2>3, <2>5, <3>1, <3>2
    <2>6. CASE seq[k + 1] \notin S
      <3>1. LeftOf(run[k], place, seq, k + 1, S)
        BY <2>2, <2>6 DEF LeftOf
      <3> QED
        BY <2>2, <2>3, <2>6, <3>1
    <2> QED
      BY <2>5, <2>6
  <1> HIDE DEF G
  <1>6. n \in G
    BY <1>1, <1>4, <1>5, CountUp
  <1>7. run[n] \in Seq(X) /\ \E place : LeftOf(run[n], place, seq, n, S)
    BY <1>1, <1>6 DEF G
  <1> QED
    BY <1>2, <1>7 DEF n

(* Each place is taken once, and they are the places of the set. *)
OneToOne(t, place, seq, n, S) ==
    /\ \A a, b \in 1 .. Len(t) : place[a] = place[b] => a = b
    /\ {place[a] : a \in 1 .. Len(t)} = {i \in 1 .. n : seq[i] \in S}
    /\ Len(t) <= n

(* A place is taken once, and the places of the set are the ones taken. *)
LEMMA LeftOfInjective ==
    ASSUME NEW t, Len(t) \in Nat, NEW seq, NEW n \in Nat, NEW S, NEW place, LeftOf(t, place, seq, n, S)
    PROVE  OneToOne(t, place, seq, n, S)
  <1> DEFINE m == Len(t)
             I == {i \in 1 .. n : seq[i] \in S}
  <1>1. /\ place \in [1 .. m -> 1 .. n]
        /\ \A a, b \in 1 .. m : a < b => place[a] < place[b]
        /\ \A a \in 1 .. m : t[a] = seq[place[a]] /\ t[a] \in S
        /\ \A i \in 1 .. n : seq[i] \in S => \E a \in 1 .. m : place[a] = i
    BY DEF LeftOf
  <1>2. m \in Nat
    OBVIOUS
  <1> HIDE DEF m
  <1>3. \A a, b \in 1 .. m : place[a] = place[b] => a = b
    <2> SUFFICES ASSUME NEW a \in 1 .. m, NEW b \in 1 .. m, place[a] = place[b], a # b PROVE FALSE
      OBVIOUS
    <2>1. a \in Nat /\ b \in Nat /\ place[a] \in Nat /\ (a < b \/ b < a)
      BY <1>1, <1>2
    <2> QED
      BY <1>1, <2>1
  <1>4. {place[a] : a \in 1 .. m} = I
    BY <1>1
  <1>5. m <= n
    <2>1. IsFiniteSet(1 .. m) /\ Cardinality(1 .. m) = m /\ IsFiniteSet(1 .. n) /\ Cardinality(1 .. n) = n
      BY <1>2, FiniteSegment
    <2>2. place \in Injection(1 .. m, 1 .. n)
      BY <1>1, <1>3 DEF Injection, IsInjective
    <2>3. Cardinality(1 .. m) <= Cardinality(1 .. n)
      BY <2>1, <2>2, FS_Injection DEF ExistsInjection
    <2> QED
      BY <2>1, <2>3
  <1> QED
    BY <1>3, <1>4, <1>5 DEF m, OneToOne

-----------------------------------------------------------------------------
(* The inductive invariant *)

Position == Model \X Token

Entry == [model : Model, tokens : Seq(Token), snapshot : Seq(Position),
          bytes : Nat, generation : Nat, references : Nat]

Cache == [identity : Model, generation : Nat, bytes : Nat, entries : Seq(Entry)]

Request == [prompt : Seq(Token), max : Nat, by : Model,
            status : {"queued", "running", "complete"},
            generated : Seq(Token), stopped : BOOLEAN,
            snapshot : {None} \cup Seq(Position),
            reference : {None} \cup (Model \X Seq(Token)),
            logits : {None} \cup Seq(Position),
            pending : {None} \cup Token]

(* An entry of model m's cache holds the state of its tokens. *)
EntryTrue(e, m, generation) ==
    /\ e.model = m /\ e.generation = generation
    /\ Len(e.tokens) \in 1 .. MaxContext
    /\ e.snapshot = Computed(m, e.tokens)

EntriesTrue(entries, m, generation) ==
    /\ entries \in Seq(Entry)
    /\ \A i \in DOMAIN entries : EntryTrue(entries[i], m, generation)
    /\ \A i, j \in DOMAIN entries : Key(entries[i]) = Key(entries[j]) => i = j

CacheOK(pre, m) ==
    /\ pre \in Cache /\ pre.identity = m
    /\ EntriesTrue(pre.entries, m, pre.generation)
    /\ pre.bytes = EntryBytes(pre.entries)
    /\ pre.bytes <= MaxBytes /\ Len(pre.entries) <= MaxEntries

(* The requests that hold a key, and the counts of the entries. *)
HoldersOf(reqs, key) == {id \in DOMAIN reqs : reqs[id].reference = key}
Held(pre, reqs) ==
    \A i \in DOMAIN pre.entries :
        pre.entries[i].references <= Cardinality(HoldersOf(reqs, Key(pre.entries[i])))

TextOf(r) == r.prompt \o r.generated

(* A request's tokens are the ones its own model selects. *)
Own(r) ==
    /\ r \in Request
    /\ r.prompt # <<>> /\ Len(r.prompt) + r.max <= MaxContext
    /\ \A i \in DOMAIN r.generated :
         r.generated[i] = Sample(Computed(r.by, r.prompt \o SubSeq(r.generated, 1, i - 1)))

(* A request between steps. *)
Rests(r) ==
    /\ Own(r)
    /\ \A i \in DOMAIN r.generated :
         r.generated[i] \in Stop => i = Len(r.generated) /\ r.status = "complete"
    /\ r.status = "queued" =>
         /\ r.generated = <<>> /\ r.max > 0
         /\ r.snapshot = None /\ r.pending = None /\ r.reference = None
    /\ r.status = "running" =>
         /\ Len(r.generated) \in 1 .. r.max - 1
         /\ r.pending = r.generated[Len(r.generated)]
         /\ r.snapshot = Computed(r.by, SubSeq(TextOf(r), 1, Len(TextOf(r)) - 1))
    /\ r.status = "complete" =>
         /\ r.reference = None /\ r.pending = None
         /\ r.stopped \/ Len(r.generated) = r.max

InOrder ==
    /\ order \in Seq(DOMAIN requests)
    /\ \A i, j \in DOMAIN order : i < j => order[i] < order[j]

ServingInv ==
    /\ model \in Model /\ next \in Nat
    /\ DOMAIN requests \subseteq 0 .. next - 1
    /\ requests \in [DOMAIN requests -> Request]
    /\ \A id \in DOMAIN requests :
         Rests(requests[id]) /\ (requests[id].status # "complete" => requests[id].by = model)
    /\ CacheOK(prefixes, model)
    /\ Held(prefixes, requests)
    /\ InOrder /\ NoOvertaking

-----------------------------------------------------------------------------
(* The bytes of the cache *)

(* Induction over the subsets of a finite set: a family of subsets that holds
   every one of which it holds all that are one element smaller. *)
LEMMA SubsetInduction ==
    ASSUME NEW S, IsFiniteSet(S), NEW G,
           \A s \in SUBSET S : (\A x \in s : s \ {x} \in G) => s \in G
    PROVE  \A s \in SUBSET S : s \in G
  <1> DEFINE N == {n \in Nat : \E s \in SUBSET S : Cardinality(s) = n /\ s \notin G}
  <1>1. SUFFICES N = {}
    <2> SUFFICES ASSUME NEW s \in SUBSET S, s \notin G PROVE FALSE
      OBVIOUS
    <2>1. Cardinality(s) \in Nat
      BY FS_Subset, FS_CardinalityType
    <2> QED
      BY <1>1, <2>1
  <1>2. SUFFICES ASSUME N # {} PROVE FALSE
    OBVIOUS
  <1>3. N \subseteq Nat
    OBVIOUS
  <1> HIDE DEF N
  <1>4. PICK n \in N : \A m \in N : ~(<<m, n>> \in OpToRel(<, Nat))
    BY <1>2, <1>3, NatLessThanWellFounded, WFMin
  <1>5. \A m \in N : ~(m < n)
    <2> TAKE m \in N
    <2>1. m < n => <<m, n>> \in OpToRel(<, Nat)
      BY <1>3 DEF OpToRel
    <2> QED
      BY <1>4, <2>1, Zenon
  <1>6. PICK s \in SUBSET S : Cardinality(s) = n /\ s \notin G
    BY DEF N
  <1>7. \A x \in s : s \ {x} \in G
    <2> SUFFICES ASSUME NEW x \in s, s \ {x} \notin G PROVE FALSE
      OBVIOUS
    <2>1. IsFiniteSet(s) /\ s \ {x} \in SUBSET S
      BY FS_Subset
    <2>2. Cardinality(s \ {x}) = n - 1 /\ n \in Nat /\ n - 1 \in Nat
      <3>1. Cardinality(s \ {x}) = Cardinality(s) - 1
        BY <2>1, FS_RemoveElement
      <3>2. Cardinality(s \ {x}) \in Nat
        BY <2>1, FS_Subset, FS_CardinalityType
      <3> QED
        BY <1>3, <1>6, <3>1, <3>2
    <2>3. n - 1 \in N
      BY <2>1, <2>2 DEF N
    <2> QED
      BY <1>5, <2>2, <2>3
  <1> QED
    BY <1>6, <1>7

(* The numbers of an entry. *)
LEMMA EntryFields == \A e \in Entry : e.bytes \in Nat /\ e.references \in Nat /\ e.generation \in Nat
  BY DEF Entry

(* As many pairs for each place as its entry has bytes. *)
Units(entries, S) == {q \in S \X Nat : q[2] \in 1 .. entries[q[1]].bytes}

(* One element more or less. *)
LEMMA UnitsRemove ==
    ASSUME NEW S, NEW x \in S, NEW entries, entries[x].bytes \in Nat, IsFiniteSet(Units(entries, S \ {x}))
    PROVE  /\ IsFiniteSet(Units(entries, S))
           /\ Cardinality(Units(entries, S)) = entries[x].bytes + Cardinality(Units(entries, S \ {x}))
  <1> DEFINE X == {x} \X (1 .. entries[x].bytes)
             R == Units(entries, S \ {x})
  <1>1. Units(entries, S) = R \cup X
    BY DEF Units
  <1>2. R \cap X = {}
    BY DEF Units
  <1>3. IsFiniteSet(X) /\ Cardinality(X) = entries[x].bytes
    <2>1. IsFiniteSet({x}) /\ Cardinality({x}) = 1
      BY FS_Singleton
    <2>2. IsFiniteSet(1 .. entries[x].bytes) /\ Cardinality(1 .. entries[x].bytes) = entries[x].bytes
      BY FiniteSegment
    <2>3. IsFiniteSet(X) /\ Cardinality(X) = Cardinality({x}) * Cardinality(1 .. entries[x].bytes)
      BY <2>1, <2>2, FS_Product
    <2> QED
      BY <2>1, <2>2, <2>3
  <1> HIDE DEF X, R
  <1>4. IsFiniteSet(R)
    BY DEF R
  <1>5. IsFiniteSet(R \cup X)
        /\ Cardinality(R \cup X) = Cardinality(R) + Cardinality(X) - Cardinality(R \cap X)
    BY <1>3, <1>4, FS_Union
  <1>6. Cardinality(R \cap X) = 0 /\ Cardinality(R) \in Nat
    BY <1>2, <1>4, FS_EmptySet, FS_CardinalityType
  <1> QED
    BY <1>1, <1>3, <1>5, <1>6 DEF R

(* The bytes of the entries count their units. *)
LEMMA BytesAreUnits ==
    ASSUME NEW entries \in Seq(Entry)
    PROVE  /\ EntryBytes(entries) = Cardinality(Units(entries, DOMAIN entries))
           /\ \A I \in SUBSET DOMAIN entries : IsFiniteSet(Units(entries, I))
  <1> DEFINE S == DOMAIN entries
  <1>0. IsFiniteSet(S) /\ \A x \in S : entries[x].bytes \in Nat
    <2>1. Len(entries) \in Nat /\ S = 1 .. Len(entries)
      OBVIOUS
    <2>2. IsFiniteSet(S)
      BY <2>1, FiniteSegment
    <2>3. \A x \in S : entries[x] \in Entry
      BY <2>1
    <2> QED
      BY <2>2, <2>3, EntryFields
  <1> DEFINE pick(s) == CHOOSE x \in s : TRUE
             Folds(it) == it = [s \in SUBSET S |->
                                   IF s = {} THEN 0 ELSE entries[pick(s)].bytes + it[s \ {pick(s)}]]
             count == [s \in SUBSET S |-> Cardinality(Units(entries, s))]
  <1>1. EntryBytes(entries) = (CHOOSE it : Folds(it))[S]
    BY DEF EntryBytes, MapThenSumSet, MapThenFoldSet
  <1> HIDE DEF S
  <1>2. Units(entries, {}) = {} /\ IsFiniteSet({}) /\ Cardinality({}) = 0
    BY FS_EmptySet DEF Units
  <1>3. \A s \in SUBSET S : IsFiniteSet(Units(entries, s))
    <2> DEFINE G == {s \in SUBSET S : IsFiniteSet(Units(entries, s))}
    <2>1. ASSUME NEW s \in SUBSET S, \A x \in s : s \ {x} \in G PROVE s \in G
      <3>1. CASE s = {}
        BY <1>2, <3>1
      <3>2. CASE s # {}
        <4>1. PICK x \in s : TRUE
          BY <3>2
        <4> QED
          BY <1>0, <2>1, <4>1, UnitsRemove
      <3> QED
        BY <3>1, <3>2
    <2> HIDE DEF G
    <2>2. \A s \in SUBSET S : s \in G
      BY <1>0, <2>1, SubsetInduction
    <2> QED
      BY <2>2 DEF G
  <1>4. \A s \in SUBSET S : s # {} => pick(s) \in s /\ s \ {pick(s)} \in SUBSET S
    OBVIOUS
  <1> HIDE DEF pick
  <1>5. \A s \in SUBSET S : s # {} =>
          Cardinality(Units(entries, s)) = entries[pick(s)].bytes + Cardinality(Units(entries, s \ {pick(s)}))
    BY <1>0, <1>3, <1>4, UnitsRemove
  <1>6. Folds(count)
    <2>1. \A s \in SUBSET S :
            count[s] = IF s = {} THEN 0 ELSE entries[pick(s)].bytes + count[s \ {pick(s)}]
      BY <1>2, <1>4, <1>5
    <2> QED
      BY <2>1
  <1> DEFINE fold == CHOOSE it : Folds(it)
  <1>7. Folds(fold)
    BY <1>6
  <1> HIDE DEF fold, count
  <1>8. \A s \in SUBSET S : fold[s] = IF s = {} THEN 0 ELSE entries[pick(s)].bytes + fold[s \ {pick(s)}]
    BY <1>7
  <1> DEFINE H == {s \in SUBSET S : fold[s] = Cardinality(Units(entries, s))}
  <1>9. ASSUME NEW s \in SUBSET S, \A x \in s : s \ {x} \in H PROVE s \in H
    <2>1. CASE s = {}
      BY <1>2, <1>8, <2>1
    <2>2. CASE s # {}
      BY <1>4, <1>5, <1>8, <1>9, <2>2
    <2> QED
      BY <2>1, <2>2
  <1> HIDE DEF H
  <1>10. \A s \in SUBSET S : s \in H
    BY <1>0, <1>9, SubsetInduction
  <1> QED
    BY <1>1, <1>3, <1>10 DEF H, fold, S

(* The bytes do not depend on anything else of the entries. *)
LEMMA BytesSame ==
    ASSUME NEW s \in Seq(Entry), NEW t \in Seq(Entry), Len(s) = Len(t),
           \A i \in 1 .. Len(s) : s[i].bytes = t[i].bytes
    PROVE  EntryBytes(s) = EntryBytes(t)
  <1>1. DOMAIN s = 1 .. Len(s) /\ DOMAIN t = 1 .. Len(s)
    OBVIOUS
  <1>2. Units(s, DOMAIN s) = Units(t, DOMAIN t)
    BY <1>1 DEF Units
  <1> QED
    BY <1>2, BytesAreUnits

(* A number of bytes. *)
LEMMA BytesNat == ASSUME NEW s \in Seq(Entry) PROVE EntryBytes(s) \in Nat
  BY BytesAreUnits, FS_CardinalityType

(* No entries, no bytes. *)
LEMMA BytesEmpty == EntryBytes(<<>>) = 0
  <1>1. <<>> \in Seq(Entry) /\ DOMAIN <<>> = {}
    OBVIOUS
  <1>2. Units(<<>>, {}) = {}
    BY DEF Units
  <1> QED
    BY <1>1, <1>2, BytesAreUnits, FS_EmptySet

(* An entry more. *)
LEMMA BytesAppend ==
    ASSUME NEW s \in Seq(Entry), NEW e \in Entry
    PROVE  EntryBytes(Append(s, e)) = EntryBytes(s) + e.bytes
  <1> DEFINE t == Append(s, e)
             n == Len(s)
  <1>1. /\ t \in Seq(Entry) /\ n \in Nat /\ DOMAIN t = 1 .. n + 1 /\ DOMAIN s = 1 .. n
        /\ t[n + 1] = e /\ \A i \in 1 .. n : t[i] = s[i]
    OBVIOUS
  <1> HIDE DEF t, n
  <1>2. n + 1 \in 1 .. n + 1 /\ (1 .. n + 1) \ {n + 1} = 1 .. n /\ e.bytes \in Nat
    BY <1>1, EntryFields
  <1>3. Units(t, 1 .. n) = Units(s, 1 .. n)
    BY <1>1 DEF Units
  <1>4. /\ EntryBytes(s) = Cardinality(Units(s, 1 .. n)) /\ IsFiniteSet(Units(s, 1 .. n))
        /\ EntryBytes(t) = Cardinality(Units(t, 1 .. n + 1))
    BY <1>1, BytesAreUnits
  <1>5. Cardinality(Units(t, 1 .. n + 1)) = e.bytes + Cardinality(Units(t, 1 .. n))
    <2> DEFINE D == 1 .. n + 1
    <2>1. n + 1 \in D /\ D \ {n + 1} = 1 .. n /\ t[n + 1].bytes \in Nat /\ t[n + 1].bytes = e.bytes
      BY <1>1, <1>2
    <2>2. IsFiniteSet(Units(t, D \ {n + 1}))
      BY <1>3, <1>4, <2>1
    <2> HIDE DEF D
    <2>3. Cardinality(Units(t, D)) = t[n + 1].bytes + Cardinality(Units(t, D \ {n + 1}))
      BY <2>1, <2>2, UnitsRemove
    <2> QED
      BY <2>1, <2>3 DEF D
  <1>6. Cardinality(Units(s, 1 .. n)) \in Nat
    BY <1>4, FS_CardinalityType
  <1>7. EntryBytes(t) = EntryBytes(s) + e.bytes
    BY <1>2, <1>3, <1>4, <1>5, <1>6
  <1> QED
    BY <1>7 DEF t

(* What is left has the bytes of its places. *)
LEMMA BytesLeft ==
    ASSUME NEW s \in Seq(Entry), NEW t \in Seq(Entry), NEW S, NEW place,
           LeftOf(t, place, s, Len(s), S)
    PROVE  EntryBytes(t) = Cardinality(Units(s, {i \in 1 .. Len(s) : s[i] \in S}))
  <1> DEFINE I == {i \in 1 .. Len(s) : s[i] \in S}
             U == Units(t, DOMAIN t)
             V == Units(s, I)
             f == [q \in U |-> <<place[q[1]], q[2]>>]
  <1>1. DOMAIN t = 1 .. Len(t) /\ Len(t) \in Nat /\ Len(s) \in Nat
    OBVIOUS
  <1>2. /\ \A a, b \in 1 .. Len(t) : place[a] = place[b] => a = b
        /\ {place[a] : a \in 1 .. Len(t)} = I
    <2> DEFINE n == Len(s)
    <2>1. n \in Nat /\ Len(t) \in Nat /\ LeftOf(t, place, s, n, S)
      BY <1>1
    <2> HIDE DEF n
    <2>2. OneToOne(t, place, s, n, S)
      BY <2>1, LeftOfInjective
    <2> QED
      BY <2>2 DEF n, OneToOne
  <1>3. \A a \in 1 .. Len(t) : place[a] \in I /\ t[a] = s[place[a]]
    BY <1>2 DEF LeftOf
  <1>4. \A q \in U : q[1] \in 1 .. Len(t) /\ q[2] \in Nat /\ q[2] \in 1 .. t[q[1]].bytes /\ q = <<q[1], q[2]>>
    BY <1>1 DEF Units
  <1>5. \A i, k : <<i, k>> \in V <=> i \in I /\ k \in Nat /\ k \in 1 .. s[i].bytes
    BY DEF Units
  <1>6. \A a, k : <<a, k>> \in U <=> a \in 1 .. Len(t) /\ k \in Nat /\ k \in 1 .. t[a].bytes
    BY <1>1 DEF Units
  <1>7. \A q \in V : q = <<q[1], q[2]>>
    BY DEF Units
  <1> HIDE DEF U, V, I
  <1>8. f \in [U -> V]
    BY <1>3, <1>4, <1>5
  <1>9. \A p, q \in U : f[p] = f[q] => p = q
    BY <1>2, <1>4
  <1>10. \A v \in V : \E q \in U : f[q] = v
    <2> TAKE v \in V
    <2>1. v = <<v[1], v[2]>> /\ v[1] \in I /\ v[2] \in Nat /\ v[2] \in 1 .. s[v[1]].bytes
      BY <1>5, <1>7
    <2>2. PICK a \in 1 .. Len(t) : place[a] = v[1]
      BY <1>2, <2>1
    <2>3. <<a, v[2]>> \in U /\ f[<<a, v[2]>>] = v
      BY <1>3, <1>6, <2>1, <2>2
    <2> QED
      BY <2>3
  <1> HIDE DEF f
  <1>11. f \in Bijection(U, V)
    BY <1>8, <1>9, <1>10 DEF Bijection, Injection, Surjection, IsInjective
  <1>12. IsFiniteSet(U) /\ EntryBytes(t) = Cardinality(U)
    BY BytesAreUnits DEF U
  <1>13. Cardinality(V) = Cardinality(U)
    BY <1>11, <1>12, FS_Bijection DEF ExistsBijection
  <1> QED
    BY <1>12, <1>13 DEF V, I

(* What is left has no more bytes. *)
LEMMA BytesShrink ==
    ASSUME NEW s \in Seq(Entry), NEW t \in Seq(Entry), NEW S, NEW place,
           LeftOf(t, place, s, Len(s), S)
    PROVE  EntryBytes(t) <= EntryBytes(s)
  <1> DEFINE I == {i \in 1 .. Len(s) : s[i] \in S}
             V == Units(s, I)
             W == Units(s, DOMAIN s)
  <1>1. I \subseteq DOMAIN s /\ V \subseteq W
    BY DEF Units
  <1>2. EntryBytes(s) = Cardinality(W) /\ IsFiniteSet(W) /\ EntryBytes(t) = Cardinality(V)
    BY BytesAreUnits, BytesLeft
  <1> HIDE DEF V, W
  <1>3. Cardinality(V) <= Cardinality(W)
    BY <1>1, <1>2, FS_Subset
  <1> QED
    BY <1>2, <1>3

(* One entry is taken out. *)
LEMMA BytesWithoutOne ==
    ASSUME NEW s \in Seq(Entry), NEW t \in Seq(Entry), NEW S, NEW place,
           LeftOf(t, place, s, Len(s), S),
           NEW x \in 1 .. Len(s), \A i \in 1 .. Len(s) : s[i] \in S <=> i # x
    PROVE  EntryBytes(s) = EntryBytes(t) + s[x].bytes
  <1> DEFINE D == 1 .. Len(s)
  <1>1. {i \in 1 .. Len(s) : s[i] \in S} = D \ {x}
    OBVIOUS
  <1>2. D = DOMAIN s /\ D \ {x} \in SUBSET DOMAIN s /\ x \in D
    OBVIOUS
  <1>3. EntryBytes(t) = Cardinality(Units(s, D \ {x}))
    BY <1>1, BytesLeft
  <1>4. s[x].bytes \in Nat
    <2>1. s[x] \in Entry
      OBVIOUS
    <2> QED
      BY <2>1, EntryFields
  <1> HIDE DEF D
  <1>5. EntryBytes(s) = Cardinality(Units(s, D)) /\ IsFiniteSet(Units(s, D \ {x}))
    BY <1>2, BytesAreUnits
  <1>6. Cardinality(Units(s, D)) = s[x].bytes + Cardinality(Units(s, D \ {x}))
    BY <1>2, <1>4, <1>5, UnitsRemove
  <1>7. Cardinality(Units(s, D \ {x})) \in Nat
    BY <1>5, FS_CardinalityType
  <1> DEFINE c == Cardinality(Units(s, D \ {x}))
             all == EntryBytes(s)
             b == s[x].bytes
  <1>8. all = b + c /\ b \in Nat /\ c \in Nat
    BY <1>4, <1>5, <1>6, <1>7
  <1> HIDE DEF c, all, b
  <1>9. all = c + b
    BY <1>8
  <1> QED
    BY <1>3, <1>9 DEF c, all, b

-----------------------------------------------------------------------------
(* The operations of the cache keep it true and bounded *)

(* The fields of an entry with another count. *)
LEMMA EntryCounted ==
    ASSUME NEW e \in Entry, NEW n \in Nat
    PROVE  LET f == [e EXCEPT !.references = n]
           IN  /\ f \in Entry /\ f.references = n
               /\ f.model = e.model /\ f.tokens = e.tokens /\ f.snapshot = e.snapshot
               /\ f.bytes = e.bytes /\ f.generation = e.generation /\ Key(f) = Key(e)
  BY DEF Entry, Key

(* A key of the cache is not nothing. *)
LEMMA KeyIsSome ==
    ASSUME NEW e \in Entry, Len(e.tokens) \in 1 .. MaxContext
    PROVE  Key(e) \in Model \X Seq(Token) /\ Key(e) # None
  <1>1. e.model \in Model /\ e.tokens \in Seq(Token)
    BY DEF Entry
  <1> DEFINE n == Len(e.tokens)
  <1>2. e.tokens \in [1 .. n -> Token] /\ n \in 1 .. MaxContext
    BY <1>1
  <1> HIDE DEF n
  <1>3. <<e.model, e.tokens>> \in Model \X [1 .. n -> Token]
    BY <1>1, <1>2
  <1>4. None # <<e.model, e.tokens>>
    BY <1>2, <1>3, TokenAssumption, Zenon
  <1> QED
    BY <1>1, <1>4 DEF Key

(* Some of the entries of a true cache. *)
LEMMA PartTrue ==
    ASSUME NEW s, NEW t \in Seq(Entry), NEW S, NEW place, NEW m, NEW g,
           EntriesTrue(s, m, g), LeftOf(t, place, s, Len(s), S)
    PROVE  /\ EntriesTrue(t, m, g)
           /\ \A a \in DOMAIN t : \E i \in DOMAIN s : t[a] = s[i] /\ s[i] \in S
           /\ EntryBytes(t) <= EntryBytes(s) /\ Len(t) <= Len(s)
  <1>1. /\ s \in Seq(Entry) /\ DOMAIN s = 1 .. Len(s) /\ DOMAIN t = 1 .. Len(t)
        /\ Len(s) \in Nat /\ Len(t) \in Nat
    BY DEF EntriesTrue
  <1>2. EntryBytes(t) <= EntryBytes(s)
    BY <1>1, BytesShrink
  <1>3. /\ \A a, b \in 1 .. Len(t) : place[a] = place[b] => a = b
        /\ Len(t) <= Len(s)
    <2> DEFINE n == Len(s)
    <2>1. n \in Nat /\ Len(t) \in Nat /\ LeftOf(t, place, s, n, S)
      BY <1>1
    <2> HIDE DEF n
    <2>2. OneToOne(t, place, s, n, S)
      BY <2>1, LeftOfInjective
    <2> QED
      BY <2>2 DEF n, OneToOne
  <1>4. \A a \in DOMAIN t : place[a] \in DOMAIN s /\ t[a] = s[place[a]] /\ t[a] \in S
    BY <1>1 DEF LeftOf
  <1>5. EntriesTrue(t, m, g)
    BY <1>1, <1>3, <1>4 DEF EntriesTrue
  <1> QED
    BY <1>2, <1>3, <1>4, <1>5

(* t is what is left of s without some keys. *)
PartOf(t, s, gone, m, g) ==
    /\ EntriesTrue(t, m, g)
    /\ \A a \in DOMAIN t : Key(t[a]) \notin gone /\ \E i \in DOMAIN s : t[a] = s[i]
    /\ EntryBytes(t) <= EntryBytes(s) /\ Len(t) <= Len(s)

(* The entries whose keys are not taken out. *)
LEMMA ButKeysTrue ==
    ASSUME NEW s, NEW m, NEW g, EntriesTrue(s, m, g), NEW gone
    PROVE  PartOf(ButKeys(s, gone), s, gone, m, g)
  <1> DEFINE S == {e \in ToSet(s) : Key(e) \notin gone}
             t == Retain(s, S)
  <1>1. s \in Seq(Entry) /\ ButKeys(s, gone) = t
    BY DEF EntriesTrue, ButKeys
  <1>2. t \in Seq(Entry) /\ \E place : LeftOf(t, place, s, Len(s), S)
    BY <1>1, RetainLeft
  <1> HIDE DEF t
  <1>3. PICK place : LeftOf(t, place, s, Len(s), S)
    BY <1>2
  <1>4. /\ EntriesTrue(t, m, g)
        /\ \A a \in DOMAIN t : \E i \in DOMAIN s : t[a] = s[i] /\ s[i] \in S
        /\ EntryBytes(t) <= EntryBytes(s) /\ Len(t) <= Len(s)
    BY <1>2, <1>3, PartTrue
  <1>5. \A a \in DOMAIN t : Key(t[a]) \notin gone /\ \E i \in DOMAIN s : t[a] = s[i]
    BY <1>4
  <1> QED
    BY <1>1, <1>4, <1>5 DEF PartOf

(* Taking one entry out. *)
LEMMA ButOneTrue ==
    ASSUME NEW s, NEW m, NEW g, EntriesTrue(s, m, g), NEW x \in DOMAIN s
    PROVE  LET t == ButKeys(s, {Key(s[x])})
           IN  EntryBytes(s) = EntryBytes(t) + s[x].bytes /\ Len(t) + 1 <= Len(s)
  <1> DEFINE S == {e \in ToSet(s) : Key(e) \notin {Key(s[x])}}
             t == Retain(s, S)
             n == Len(s)
  <1>1. /\ s \in Seq(Entry) /\ ButKeys(s, {Key(s[x])}) = t /\ DOMAIN s = 1 .. n /\ n \in Nat
        /\ \A i, j \in DOMAIN s : Key(s[i]) = Key(s[j]) => i = j
    BY DEF EntriesTrue, ButKeys
  <1>2. t \in Seq(Entry) /\ \E place : LeftOf(t, place, s, n, S)
    BY <1>1, RetainLeft
  <1>3. \A i \in 1 .. n : s[i] \in S <=> i # x
    BY <1>1 DEF ToSet
  <1>4. x \in 1 .. n
    BY <1>1
  <1> HIDE DEF t, S
  <1>5. PICK place : LeftOf(t, place, s, n, S)
    BY <1>2
  <1>6. EntryBytes(s) = EntryBytes(t) + s[x].bytes
    BY <1>1, <1>2, <1>3, <1>4, <1>5, BytesWithoutOne
  <1> HIDE DEF n
  <1>7. Len(t) + 1 <= n
    <2> DEFINE k == Len(t)
    <2>1. k \in Nat
      BY <1>2
    <2>2. \A a, b \in 1 .. k : place[a] = place[b] => a = b
      <3>1. Len(t) \in Nat /\ n \in Nat
        BY <1>1, <2>1
      <3> HIDE DEF k
      <3>2. OneToOne(t, place, s, n, S)
        BY <1>5, <3>1, LeftOfInjective
      <3> QED
        BY <3>2 DEF k, OneToOne
    <2>3. place \in [1 .. k -> (1 .. n) \ {x}]
      BY <1>3, <1>5 DEF LeftOf
    <2> HIDE DEF k
    <2>4. IsFiniteSet(1 .. n) /\ Cardinality(1 .. n) = n /\ Cardinality(1 .. k) = k
      BY <1>1, <2>1, FiniteSegment
    <2>5. IsFiniteSet((1 .. n) \ {x}) /\ Cardinality((1 .. n) \ {x}) = Cardinality(1 .. n) - 1
      BY <1>4, <2>4, FS_RemoveElement
    <2>6. place \in Injection(1 .. k, (1 .. n) \ {x})
      BY <2>2, <2>3 DEF Injection, IsInjective
    <2>7. Cardinality(1 .. k) <= Cardinality((1 .. n) \ {x})
      BY <2>5, <2>6, FS_Injection
    <2>8. k <= n - 1
      BY <2>4, <2>5, <2>7
    <2>9. k + 1 <= n
      BY <1>1, <2>1, <2>8
    <2> QED
      BY <2>9 DEF k
  <1> QED
    BY <1>1, <1>6, <1>7 DEF n

(* An entry of a new key at the end. *)
LEMMA AppendTrue ==
    ASSUME NEW s, NEW m, NEW g, EntriesTrue(s, m, g), NEW e \in Entry, EntryTrue(e, m, g),
           \A i \in DOMAIN s : Key(s[i]) # Key(e)
    PROVE  /\ EntriesTrue(Append(s, e), m, g)
           /\ \A a \in DOMAIN Append(s, e) : Append(s, e)[a] = e \/ \E i \in DOMAIN s : Append(s, e)[a] = s[i]
           /\ EntryBytes(Append(s, e)) = EntryBytes(s) + e.bytes /\ Len(Append(s, e)) = Len(s) + 1
  <1> DEFINE t == Append(s, e)
             n == Len(s)
  <1>1. s \in Seq(Entry) /\ DOMAIN s = 1 .. n /\ n \in Nat
    BY DEF EntriesTrue
  <1>2. /\ t \in Seq(Entry) /\ DOMAIN t = 1 .. n + 1 /\ Len(t) = n + 1
        /\ t[n + 1] = e /\ \A i \in 1 .. n : t[i] = s[i]
    BY <1>1
  <1>3. EntryBytes(t) = EntryBytes(s) + e.bytes
    BY <1>1, BytesAppend
  <1> HIDE DEF t, n
  <1>4. \A a \in DOMAIN t : a = n + 1 \/ a \in DOMAIN s
    BY <1>1, <1>2
  <1>5. /\ \A i \in DOMAIN s : EntryTrue(s[i], m, g)
        /\ \A i, j \in DOMAIN s : Key(s[i]) = Key(s[j]) => i = j
    BY DEF EntriesTrue
  <1>6. \A i \in DOMAIN s : t[i] = s[i]
    BY <1>1, <1>2
  <1>7. \A i \in DOMAIN t : EntryTrue(t[i], m, g)
    BY <1>2, <1>4, <1>5, <1>6
  <1>8. \A i, j \in DOMAIN t : Key(t[i]) = Key(t[j]) => i = j
    BY <1>2, <1>4, <1>5, <1>6
  <1>9. EntriesTrue(t, m, g)
    BY <1>2, <1>7, <1>8 DEF EntriesTrue
  <1>10. \A a \in DOMAIN t : t[a] = e \/ \E i \in DOMAIN s : t[a] = s[i]
    BY <1>2, <1>4, <1>6
  <1> QED
    BY <1>2, <1>3, <1>9, <1>10 DEF t, n

(* The fields of a cache. *)
LEMMA CacheTypes == \A pre \in Cache : pre.identity \in Model /\ pre.generation \in Nat /\ pre.bytes \in Nat
  BY DEF Cache

(* A cache with other entries. *)
WithEntries(new, pre, s, b) ==
    /\ new.entries = s /\ new.identity = pre.identity
    /\ new.generation = pre.generation /\ new.bytes = b
    /\ s \in Seq(Entry) /\ b \in Nat => new \in Cache

(* The fields of a cache with other entries. *)
LEMMA CacheFields ==
    ASSUME NEW pre \in Cache, NEW s, NEW b, NEW new
    PROVE  /\ new = [pre EXCEPT !.entries = s] => WithEntries(new, pre, s, pre.bytes)
           /\ new = [pre EXCEPT !.entries = s, !.bytes = b] => WithEntries(new, pre, s, b)
  <1>1. ASSUME new = [pre EXCEPT !.entries = s] PROVE WithEntries(new, pre, s, pre.bytes)
    BY <1>1 DEF Cache, WithEntries
  <1>2. ASSUME new = [pre EXCEPT !.entries = s, !.bytes = b] PROVE WithEntries(new, pre, s, b)
    BY <1>2 DEF Cache, WithEntries
  <1> QED
    BY <1>1, <1>2

(* The entries after release. *)
Released(s, key) ==
    [i \in DOMAIN s |-> IF Key(s[i]) = key THEN LetGo(s[i]) ELSE s[i]]

(* A cache in which one count is lower. *)
Lowered(new, pre, key, m) ==
    /\ CacheOK(new, m)
    /\ DOMAIN new.entries = DOMAIN pre.entries
    /\ \A i \in DOMAIN pre.entries :
         /\ Key(new.entries[i]) = Key(pre.entries[i])
         /\ new.entries[i].references =
              IF Key(pre.entries[i]) = key THEN Saturating(pre.entries[i].references, 1)
              ELSE pre.entries[i].references

(* release only lowers a count. *)
LEMMA ReleaseOK ==
    ASSUME NEW pre, NEW m, CacheOK(pre, m), NEW key
    PROVE  Lowered(Release(pre, key), pre, key, m)
  <1> DEFINE new == Release(pre, key)
             s == pre.entries
             t == Released(s, key)
  <1>1. /\ pre \in Cache /\ pre.identity = m /\ EntriesTrue(s, m, pre.generation) /\ s \in Seq(Entry)
        /\ pre.bytes = EntryBytes(s) /\ pre.bytes <= MaxBytes /\ Len(s) <= MaxEntries
    BY DEF CacheOK, EntriesTrue
  <1>2. new = [pre EXCEPT !.entries = t]
    BY DEF Release, Released
  <1>3. new.entries = t /\ new.identity = m /\ new.generation = pre.generation
        /\ new.bytes = pre.bytes /\ (t \in Seq(Entry) => new \in Cache)
    <2>1. WithEntries(new, pre, t, pre.bytes)
        BY <1>1, <1>2, CacheFields, Zenon
    <2> QED
        BY <1>1, <2>1, CacheTypes DEF WithEntries
  <1> HIDE DEF new, s
  <1>4. ASSUME NEW i \in DOMAIN s
        PROVE  /\ t[i] \in Entry /\ t[i].bytes = s[i].bytes /\ Key(t[i]) = Key(s[i])
               /\ t[i].model = s[i].model /\ t[i].tokens = s[i].tokens
               /\ t[i].snapshot = s[i].snapshot /\ t[i].generation = s[i].generation
               /\ t[i].references = IF Key(s[i]) = key THEN Saturating(s[i].references, 1)
                                    ELSE s[i].references
    <2>1. s[i] \in Entry
      BY <1>1
    <2>2. Saturating(s[i].references, 1) \in Nat
      BY <2>1, EntryFields DEF Saturating
    <2>3. t[i] = IF Key(s[i]) = key THEN [s[i] EXCEPT !.references = Saturating(s[i].references, 1)] ELSE s[i]
      BY <2>1 DEF Released, LetGo
    <2> HIDE DEF t
    <2>4. CASE Key(s[i]) = key
      <3> DEFINE n == Saturating(s[i].references, 1)
                 f == [s[i] EXCEPT !.references = n]
      <3>1. n \in Nat /\ t[i] = f
        BY <2>2, <2>3, <2>4
      <3> HIDE DEF n
      <3>2. /\ f \in Entry /\ f.references = n
            /\ f.model = s[i].model /\ f.tokens = s[i].tokens /\ f.snapshot = s[i].snapshot
            /\ f.bytes = s[i].bytes /\ f.generation = s[i].generation /\ Key(f) = Key(s[i])
        BY <2>1, <3>1, EntryCounted
      <3> QED
        BY <2>4, <3>1, <3>2 DEF n
    <2>5. CASE Key(s[i]) # key
      BY <2>1, <2>3, <2>5
    <2> QED
      BY <2>4, <2>5
  <1>5. DOMAIN t = DOMAIN s /\ DOMAIN s = 1 .. Len(s) /\ Len(s) \in Nat
    BY <1>1 DEF Released
  <1>6. t \in Seq(Entry) /\ Len(t) = Len(s)
    <2>1. t = [i \in 1 .. Len(s) |-> t[i]]
      BY <1>5 DEF Released
    <2>2. \A i \in 1 .. Len(s) : t[i] \in Entry
      BY <1>4, <1>5
    <2>3. t \in [1 .. Len(s) -> Entry]
      BY <2>1, <2>2
    <2> HIDE DEF t
    <2> QED
      BY <1>5, <2>3
  <1> HIDE DEF t
  <1>7. EntryBytes(t) = EntryBytes(s)
    BY <1>1, <1>4, <1>5, <1>6, BytesSame
  <1>8. EntriesTrue(t, m, pre.generation)
    BY <1>1, <1>4, <1>5, <1>6 DEF EntriesTrue, EntryTrue
  <1>9. CacheOK(new, m)
    BY <1>1, <1>3, <1>6, <1>7, <1>8 DEF CacheOK
  <1> QED
    BY <1>3, <1>4, <1>5, <1>9 DEF new, s, Lowered

(* Dropping stale entries does nothing: there are none. *)
LEMMA LiveOK ==
    ASSUME NEW pre, NEW m, CacheOK(pre, m)
    PROVE  /\ CacheOK(Live(pre), m)
           /\ \A a \in DOMAIN Live(pre).entries : \E i \in DOMAIN pre.entries :
                Live(pre).entries[a] = pre.entries[i]
  <1> DEFINE s == pre.entries
             S == {e \in ToSet(s) : Current(pre, e)}
             t == Retain(s, S)
             n == Len(s)
             b == Saturating(pre.bytes, EntryBytes(s) - EntryBytes(t))
  <1>1. /\ pre \in Cache /\ pre.identity = m /\ EntriesTrue(s, m, pre.generation) /\ s \in Seq(Entry)
        /\ pre.bytes = EntryBytes(s) /\ pre.bytes <= MaxBytes /\ n <= MaxEntries
        /\ DOMAIN s = 1 .. n /\ n \in Nat
    BY DEF CacheOK, EntriesTrue
  <1>2. Live(pre) = [pre EXCEPT !.entries = t, !.bytes = b]
    BY DEF Live
  <1>3. \A i \in 1 .. n : s[i] \in S
    BY <1>1 DEF ToSet, Current, EntriesTrue, EntryTrue
  <1>4. t \in Seq(Entry) /\ \E place : LeftOf(t, place, s, Len(s), S)
    BY <1>1, RetainLeft
  <1>5. /\ Live(pre).entries = t /\ Live(pre).identity = m /\ Live(pre).generation = pre.generation
        /\ Live(pre).bytes = b /\ (b \in Nat => Live(pre) \in Cache)
    <2>1. WithEntries(Live(pre), pre, t, b)
        BY <1>1, <1>2, <1>4, CacheFields, Zenon
    <2> QED
        BY <1>1, <1>4, <2>1, CacheTypes DEF WithEntries
  <1> HIDE DEF s, S, t, b
  <1>6. PICK place : LeftOf(t, place, s, Len(s), S)
    BY <1>4
  <1>7. /\ EntriesTrue(t, m, pre.generation)
        /\ \A a \in DOMAIN t : \E i \in DOMAIN s : t[a] = s[i] /\ s[i] \in S
        /\ Len(t) <= Len(s)
    BY <1>1, <1>4, <1>6, PartTrue
  <1>8. EntryBytes(t) = EntryBytes(s)
    <2>1. {i \in 1 .. Len(s) : s[i] \in S} = DOMAIN s
      BY <1>1, <1>3
    <2>2. EntryBytes(t) = Cardinality(Units(s, DOMAIN s))
      BY <1>1, <1>4, <1>6, <2>1, BytesLeft
    <2> QED
      BY <1>1, <2>2, BytesAreUnits
  <1>9. b = EntryBytes(s) /\ b \in Nat
    <2>1. EntryBytes(s) \in Nat
      BY <1>1, BytesNat
    <2> DEFINE c == EntryBytes(s)
    <2>2. b = Saturating(c, c - c) /\ c \in Nat
      BY <1>1, <1>8, <2>1 DEF b
    <2> HIDE DEF c
    <2>3. b = c
      BY <2>2 DEF Saturating
    <2> QED
      BY <2>1, <2>3 DEF c
  <1>10. Len(t) <= MaxEntries
    BY <1>1, <1>4, <1>7, ConfigAssumption
  <1>11. CacheOK(Live(pre), m)
    BY <1>1, <1>5, <1>7, <1>8, <1>9, <1>10 DEF CacheOK
  <1> QED
    BY <1>5, <1>7, <1>11 DEF s

(* A cache in which one count is higher. *)
Raised(new, pre, x, m) ==
    /\ CacheOK(new, m)
    /\ \A a \in DOMAIN new.entries :
         \/ /\ Key(new.entries[a]) = Key(pre.entries[x])
            /\ new.entries[a].references = pre.entries[x].references + 1
         \/ /\ Key(new.entries[a]) # Key(pre.entries[x])
            /\ \E i \in DOMAIN pre.entries : new.entries[a] = pre.entries[i]

(* The entry that was found goes to the end, with its count one higher. *)
LEMMA TouchOK ==
    ASSUME NEW pre, NEW m, CacheOK(pre, m), NEW x \in DOMAIN pre.entries
    PROVE  Raised(Touch(pre, x), pre, x, m)
  <1> DEFINE s == pre.entries
             e == s[x]
             f == [e EXCEPT !.references = e.references + 1]
             t == ButKeys(s, {Key(e)})
             u == Append(t, f)
             new == Touch(pre, x)
  <1>1. /\ pre \in Cache /\ pre.identity = m /\ EntriesTrue(s, m, pre.generation) /\ s \in Seq(Entry)
        /\ pre.bytes = EntryBytes(s) /\ pre.bytes <= MaxBytes /\ Len(s) <= MaxEntries /\ Len(s) \in Nat
    BY DEF CacheOK, EntriesTrue
  <1>2. new = [pre EXCEPT !.entries = u]
    BY DEF Touch
  <1>3. e \in Entry /\ EntryTrue(e, m, pre.generation)
    BY <1>1 DEF EntriesTrue
  <1>4. e.references + 1 \in Nat /\ e.references \in Nat /\ e.bytes \in Nat
    BY <1>3, EntryFields
  <1> HIDE DEF e
  <1>5. /\ f \in Entry /\ f.references = e.references + 1
        /\ f.model = e.model /\ f.tokens = e.tokens /\ f.snapshot = e.snapshot
        /\ f.bytes = e.bytes /\ f.generation = e.generation /\ Key(f) = Key(e)
    BY <1>3, <1>4, EntryCounted
  <1> HIDE DEF f
  <1>6. EntryTrue(f, m, pre.generation)
    BY <1>3, <1>5 DEF EntryTrue
  <1>7. EntryBytes(s) = EntryBytes(t) + e.bytes /\ Len(t) + 1 <= Len(s)
    BY <1>1, ButOneTrue DEF e
  <1>8. /\ EntriesTrue(t, m, pre.generation)
        /\ \A a \in DOMAIN t : Key(t[a]) # Key(e) /\ \E i \in DOMAIN s : t[a] = s[i]
    <2>1. PartOf(t, s, {Key(e)}, m, pre.generation)
      BY <1>1, ButKeysTrue
    <2> HIDE DEF t
    <2> QED
      BY <2>1 DEF PartOf
  <1> HIDE DEF t
  <1>9. /\ EntriesTrue(u, m, pre.generation)
        /\ \A a \in DOMAIN u : u[a] = f \/ \E i \in DOMAIN t : u[a] = t[i]
        /\ EntryBytes(u) = EntryBytes(t) + f.bytes /\ Len(u) = Len(t) + 1
    BY <1>5, <1>6, <1>8, AppendTrue
  <1> HIDE DEF u
  <1>10. u \in Seq(Entry) /\ EntryBytes(u) = EntryBytes(s) /\ Len(u) <= MaxEntries
    BY <1>1, <1>5, <1>7, <1>9, ConfigAssumption DEF EntriesTrue
  <1>11. new.entries = u /\ new.identity = m /\ new.generation = pre.generation
         /\ new.bytes = pre.bytes /\ new \in Cache
    <2>1. WithEntries(new, pre, u, pre.bytes)
        BY <1>1, <1>2, <1>10, CacheFields, Zenon
    <2> QED
        BY <1>1, <1>10, <2>1, CacheTypes DEF WithEntries
  <1> HIDE DEF new, s
  <1>12. CacheOK(new, m)
    BY <1>1, <1>9, <1>10, <1>11 DEF CacheOK
  <1>13. \A a \in DOMAIN u :
           \/ Key(u[a]) = Key(e) /\ u[a].references = e.references + 1
           \/ Key(u[a]) # Key(e) /\ \E i \in DOMAIN s : u[a] = s[i]
    BY <1>5, <1>8, <1>9
  <1> QED
    BY <1>11, <1>12, <1>13 DEF new, s, e, Raised

(* A cache whose entries were there before, or are held by nobody. *)
Renewed(new, pre, m) ==
    /\ CacheOK(new, m)
    /\ \A a \in DOMAIN new.entries :
         \/ new.entries[a].references = 0
         \/ \E i \in DOMAIN pre.entries : new.entries[a] = pre.entries[i]

(* insert keeps the limits, whatever it evicts: what it leaves was there
   before or is held by nobody. *)
LEMMA InsertOK ==
    ASSUME NEW pre, NEW m, CacheOK(pre, m),
           NEW tokens \in Seq(Token), Len(tokens) \in 1 .. MaxContext,
           NEW snapshot \in Seq(Position), snapshot = Computed(m, tokens), NEW bytes \in Nat
    PROVE  Renewed(Insert(pre, tokens, snapshot, bytes), pre, m)
  <1> DEFINE s == pre.entries
             new == Insert(pre, tokens, snapshot, bytes)
             e == [model |-> pre.identity, tokens |-> tokens, snapshot |-> snapshot,
                   bytes |-> bytes, generation |-> pre.generation, references |-> 0]
             others == ButKeys(s, {Key(e)})
             left == Without(others, Evictions(others, bytes))
             used == pre.bytes - (EntryBytes(s) - EntryBytes(left))
  <1>1. /\ pre \in Cache /\ pre.identity = m /\ EntriesTrue(s, m, pre.generation) /\ s \in Seq(Entry)
        /\ pre.bytes = EntryBytes(s) /\ pre.bytes <= MaxBytes /\ Len(s) <= MaxEntries /\ Len(s) \in Nat
        /\ pre.generation \in Nat /\ m \in Model
    BY CacheTypes DEF CacheOK, EntriesTrue
  <1>2. CASE MaxEntries = 0 \/ bytes > MaxBytes
    <2>1. new = pre
      BY <1>2 DEF Insert
    <2> QED
      BY <2>1 DEF Renewed
  <1>3. CASE ~(MaxEntries = 0 \/ bytes > MaxBytes)
    <2>1. new = IF Fits(left, bytes)
                THEN [pre EXCEPT !.entries = Append(left, e), !.bytes = used + bytes]
                ELSE [pre EXCEPT !.entries = left, !.bytes = used]
      BY <1>3 DEF Insert
    <2>2. e \in Entry /\ EntryTrue(e, m, pre.generation) /\ e.bytes = bytes /\ e.references = 0
      BY <1>1 DEF Entry, EntryTrue
    <2> HIDE DEF e
    <2>3. /\ EntriesTrue(others, m, pre.generation)
          /\ \A a \in DOMAIN others : Key(others[a]) # Key(e) /\ \E i \in DOMAIN s : others[a] = s[i]
          /\ EntryBytes(others) <= EntryBytes(s) /\ Len(others) <= Len(s)
      <3>1. PartOf(others, s, {Key(e)}, m, pre.generation)
        BY <1>1, ButKeysTrue
      <3> HIDE DEF others
      <3> QED
        BY <3>1 DEF PartOf
    <2> HIDE DEF others
    <2>4. /\ EntriesTrue(left, m, pre.generation)
          /\ \A a \in DOMAIN left : \E i \in DOMAIN others : left[a] = others[i]
          /\ EntryBytes(left) <= EntryBytes(others) /\ Len(left) <= Len(others)
      <3>1. \A n : \E gone : Without(others, n) = ButKeys(others, gone)
        BY Zenon DEF Without
      <3>2. PICK gone : left = ButKeys(others, gone)
        BY <3>1
      <3>3. PartOf(left, others, gone, m, pre.generation)
        BY <2>3, <3>2, ButKeysTrue
      <3> HIDE DEF left
      <3> QED
        BY <3>3 DEF PartOf
    <2> HIDE DEF left
    <2>5. left \in Seq(Entry) /\ others \in Seq(Entry)
      BY <2>3, <2>4 DEF EntriesTrue
    <2>6. EntryBytes(left) \in Nat /\ EntryBytes(s) \in Nat /\ EntryBytes(others) \in Nat
      BY <1>1, <2>5, BytesNat
    <2>7. used = EntryBytes(left) /\ EntryBytes(left) <= MaxBytes
      <3> DEFINE l == EntryBytes(left)
                 o == EntryBytes(others)
                 a == EntryBytes(s)
      <3>1. l \in Nat /\ a \in Nat /\ o \in Nat /\ l <= o /\ o <= a /\ a <= MaxBytes /\ used = a - (a - l)
        BY <1>1, <2>3, <2>4, <2>6
      <3> HIDE DEF l, o, a, used
      <3>2. used = l /\ l <= MaxBytes
        BY <3>1, ConfigAssumption
      <3> QED
        BY <3>2 DEF l
    <2> HIDE DEF used
    <2>8. \A a \in DOMAIN left : Key(left[a]) # Key(e) /\ \E i \in DOMAIN s : left[a] = s[i]
      BY <2>3, <2>4
    <2>9. CASE ~Fits(left, bytes)
      <3>1. new.entries = left /\ new.identity = m /\ new.generation = pre.generation
            /\ new.bytes = used /\ new \in Cache
        <4>1. WithEntries(new, pre, left, used)
            BY <1>1, <2>1, <2>5, <2>6, <2>7, <2>9, CacheFields, Zenon
        <4> QED
            BY <1>1, <2>5, <2>6, <2>7, <4>1, CacheTypes DEF WithEntries
      <3>2. Len(left) <= MaxEntries
        BY <1>1, <2>3, <2>4, <2>5, ConfigAssumption
      <3>3. CacheOK(new, m)
        BY <2>4, <2>7, <3>1, <3>2 DEF CacheOK
      <3> QED
        BY <2>8, <3>1, <3>3 DEF Renewed
    <2>10. CASE Fits(left, bytes)
      <3> DEFINE u == Append(left, e)
      <3>1. /\ EntriesTrue(u, m, pre.generation)
            /\ \A a \in DOMAIN u : u[a] = e \/ \E i \in DOMAIN left : u[a] = left[i]
            /\ EntryBytes(u) = EntryBytes(left) + bytes /\ Len(u) = Len(left) + 1
        BY <2>2, <2>4, <2>8, AppendTrue
      <3>2. u \in Seq(Entry)
        BY <3>1 DEF EntriesTrue
      <3> HIDE DEF u
      <3>3. used + bytes \in Nat /\ EntryBytes(u) = used + bytes /\ used + bytes <= MaxBytes
        BY <2>6, <2>7, <2>10, <3>1 DEF Fits
      <3>4. Len(u) <= MaxEntries
        BY <2>5, <2>10, <3>1, ConfigAssumption DEF Fits
      <3>5. new = [pre EXCEPT !.entries = u, !.bytes = used + bytes]
        BY <2>1, <2>10 DEF u
      <3>6. new.entries = u /\ new.identity = m /\ new.generation = pre.generation
            /\ new.bytes = used + bytes /\ new \in Cache
        <4>1. WithEntries(new, pre, u, used + bytes)
            BY <1>1, <3>2, <3>3, <3>5, CacheFields, Zenon
        <4> QED
            BY <1>1, <3>2, <3>3, <4>1, CacheTypes DEF WithEntries
      <3> HIDE DEF new
      <3>7. CacheOK(new, m)
        BY <3>1, <3>3, <3>4, <3>6 DEF CacheOK
      <3>8. \A a \in DOMAIN u : u[a].references = 0 \/ \E i \in DOMAIN s : u[a] = s[i]
        BY <2>2, <2>8, <3>1
      <3> QED
        BY <3>6, <3>7, <3>8 DEF new, Renewed
    <2> QED
      BY <2>9, <2>10
  <1> QED
    BY <1>2, <1>3

-----------------------------------------------------------------------------
(* Who holds the entries *)

(* As many holders or more. *)
LEMMA MoreHolders ==
    ASSUME NEW H, NEW J, H \subseteq J, IsFiniteSet(J)
    PROVE  Cardinality(H) <= Cardinality(J) /\ Cardinality(H) \in Nat /\ Cardinality(J) \in Nat
  BY FS_Subset, FS_CardinalityType

(* The holders of a key are finitely many requests. *)
LEMMA FewHolders ==
    ASSUME NEW reqs, IsFiniteSet(DOMAIN reqs), NEW key
    PROVE  IsFiniteSet(HoldersOf(reqs, key))
  <1>1. HoldersOf(reqs, key) \subseteq DOMAIN reqs
    BY DEF HoldersOf
  <1> QED
    BY <1>1, FS_Subset

(* The entries of a true cache. *)
LEMMA CacheEntry ==
    ASSUME NEW pre, NEW m, CacheOK(pre, m), NEW i \in DOMAIN pre.entries
    PROVE  /\ pre.entries[i] \in Entry /\ EntryTrue(pre.entries[i], m, pre.generation)
           /\ pre.entries[i].references \in Nat
           /\ Key(pre.entries[i]) \in Model \X Seq(Token) /\ Key(pre.entries[i]) # None
  <1>1. pre.entries[i] \in Entry /\ EntryTrue(pre.entries[i], m, pre.generation)
    BY DEF CacheOK, EntriesTrue
  <1>2. Len(pre.entries[i].tokens) \in 1 .. MaxContext
    BY <1>1 DEF EntryTrue
  <1> QED
    BY <1>1, <1>2, KeyIsSome, EntryFields

(* Nothing is let go and no count rises. *)
LEMMA HeldStill ==
    ASSUME NEW pre, NEW m, CacheOK(pre, m), NEW reqs, Held(pre, reqs),
           NEW now, CacheOK(now, m), NEW more, IsFiniteSet(DOMAIN more),
           \A key : key # None => HoldersOf(reqs, key) \subseteq HoldersOf(more, key),
           \A a \in DOMAIN now.entries :
             \/ now.entries[a].references = 0
             \/ \E i \in DOMAIN pre.entries : now.entries[a] = pre.entries[i]
    PROVE  Held(now, more)
  <1> SUFFICES ASSUME NEW a \in DOMAIN now.entries
               PROVE  now.entries[a].references <= Cardinality(HoldersOf(more, Key(now.entries[a])))
    BY DEF Held
  <1> DEFINE e == now.entries[a]
             J == HoldersOf(more, Key(e))
  <1>1. IsFiniteSet(J) /\ Cardinality(J) \in Nat
    BY FewHolders, FS_CardinalityType
  <1>2. CASE e.references = 0
    BY <1>1, <1>2
  <1>3. ASSUME NEW i \in DOMAIN pre.entries, e = pre.entries[i] PROVE e.references <= Cardinality(J)
    <2> DEFINE H == HoldersOf(reqs, Key(e))
    <2>1. e.references <= Cardinality(H) /\ e.references \in Nat /\ Key(e) # None
      BY <1>3, CacheEntry DEF Held
    <2>2. H \subseteq J
      BY <2>1
    <2> HIDE DEF e, H, J
    <2>3. Cardinality(H) <= Cardinality(J) /\ Cardinality(H) \in Nat
      BY <1>1, <2>2, MoreHolders
    <2> QED
      BY <1>1, <2>1, <2>3
  <1> QED
    BY <1>2, <1>3

(* A request lets go of its entry. *)
LEMMA HeldReleased ==
    ASSUME NEW pre, NEW m, CacheOK(pre, m), NEW reqs, Held(pre, reqs), IsFiniteSet(DOMAIN reqs),
           NEW now, IsFiniteSet(DOMAIN now), NEW id, NEW key,
           \A k : k # None /\ k # key => HoldersOf(reqs, k) \subseteq HoldersOf(now, k),
           HoldersOf(reqs, key) \ {id} \subseteq HoldersOf(now, key), id \in HoldersOf(reqs, key)
    PROVE  Held(Release(pre, key), now)
  <1> DEFINE new == Release(pre, key)
  <1>1. /\ DOMAIN new.entries = DOMAIN pre.entries
        /\ \A i \in DOMAIN pre.entries :
             /\ Key(new.entries[i]) = Key(pre.entries[i])
             /\ new.entries[i].references =
                  IF Key(pre.entries[i]) = key THEN Saturating(pre.entries[i].references, 1)
                  ELSE pre.entries[i].references
    <2>1. Lowered(new, pre, key, m)
      BY ReleaseOK
    <2> QED
      BY <2>1 DEF Lowered
  <1> HIDE DEF new
  <1> SUFFICES ASSUME NEW i \in DOMAIN pre.entries
               PROVE  new.entries[i].references <= Cardinality(HoldersOf(now, Key(new.entries[i])))
    BY <1>1 DEF Held, new
  <1> DEFINE k == Key(pre.entries[i])
             H == HoldersOf(reqs, k)
             J == HoldersOf(now, k)
             n == pre.entries[i].references
  <1>2. n \in Nat /\ k # None /\ n <= Cardinality(H)
    BY CacheEntry DEF Held
  <1>3. IsFiniteSet(H) /\ IsFiniteSet(J)
    BY FewHolders
  <1>4. Key(new.entries[i]) = k /\ new.entries[i].references = IF k = key THEN Saturating(n, 1) ELSE n
    BY <1>1
  <1>5. CASE k # key
    <2>1. H \subseteq J
      BY <1>2, <1>5
    <2> HIDE DEF H, J, k, n
    <2>2. Cardinality(H) <= Cardinality(J) /\ Cardinality(H) \in Nat /\ Cardinality(J) \in Nat
      BY <1>3, <2>1, MoreHolders
    <2>3. n <= Cardinality(J)
      BY <1>2, <2>2
    <2> QED
      BY <1>4, <1>5, <2>3 DEF J
  <1>6. CASE k = key
    <2>1. H \ {id} \subseteq J /\ id \in H
      BY <1>6
    <2> HIDE DEF H, J, k, n
    <2>2. IsFiniteSet(H \ {id}) /\ Cardinality(H \ {id}) = Cardinality(H) - 1
      BY <1>3, <2>1, FS_RemoveElement
    <2>3. Cardinality(H \ {id}) <= Cardinality(J) /\ Cardinality(J) \in Nat /\ Cardinality(H) \in Nat
      BY <1>3, <2>1, MoreHolders, FS_CardinalityType
    <2>4. Saturating(n, 1) <= Cardinality(J)
      BY <1>2, <2>2, <2>3 DEF Saturating
    <2> QED
      BY <1>4, <1>6, <2>4 DEF J
  <1> QED
    BY <1>5, <1>6

(* A request takes hold of the entry it found. *)
LEMMA HeldTouched ==
    ASSUME NEW pre, NEW m, CacheOK(pre, m), NEW reqs, Held(pre, reqs), IsFiniteSet(DOMAIN reqs),
           NEW x \in DOMAIN pre.entries,
           NEW now, IsFiniteSet(DOMAIN now), NEW id, id \notin HoldersOf(reqs, Key(pre.entries[x])),
           \A k : k # None => HoldersOf(reqs, k) \subseteq HoldersOf(now, k),
           id \in HoldersOf(now, Key(pre.entries[x]))
    PROVE  Held(Touch(pre, x), now)
  <1> DEFINE new == Touch(pre, x)
             key == Key(pre.entries[x])
  <1>1. \A a \in DOMAIN new.entries :
          \/ Key(new.entries[a]) = key /\ new.entries[a].references = pre.entries[x].references + 1
          \/ Key(new.entries[a]) # key /\ \E i \in DOMAIN pre.entries : new.entries[a] = pre.entries[i]
    <2>1. Raised(new, pre, x, m)
      BY TouchOK
    <2> QED
      BY <2>1 DEF Raised
  <1> HIDE DEF new
  <1> SUFFICES ASSUME NEW a \in DOMAIN new.entries
               PROVE  new.entries[a].references <= Cardinality(HoldersOf(now, Key(new.entries[a])))
    BY DEF Held, new
  <1>2. ASSUME NEW i \in DOMAIN pre.entries
        PROVE  /\ pre.entries[i].references \in Nat
               /\ pre.entries[i].references <= Cardinality(HoldersOf(reqs, Key(pre.entries[i])))
               /\ HoldersOf(reqs, Key(pre.entries[i])) \subseteq HoldersOf(now, Key(pre.entries[i]))
    BY CacheEntry DEF Held
  <1>3. \A k : IsFiniteSet(HoldersOf(reqs, k)) /\ IsFiniteSet(HoldersOf(now, k))
    BY FewHolders
  <1>4. CASE Key(new.entries[a]) = key /\ new.entries[a].references = pre.entries[x].references + 1
    <2> DEFINE H == HoldersOf(reqs, key)
               J == HoldersOf(now, key)
               n == pre.entries[x].references
    <2>1. n \in Nat /\ n <= Cardinality(H) /\ H \cup {id} \subseteq J /\ id \notin H
          /\ IsFiniteSet(H) /\ IsFiniteSet(J)
      BY <1>2, <1>3
    <2> HIDE DEF H, J, n
    <2>2. Cardinality(H \cup {id}) = Cardinality(H) + 1 /\ Cardinality(H) \in Nat
      BY <2>1, FS_AddElement, FS_CardinalityType
    <2>3. Cardinality(H \cup {id}) <= Cardinality(J) /\ Cardinality(J) \in Nat
      BY <2>1, MoreHolders
    <2>4. n + 1 <= Cardinality(J)
      BY <2>1, <2>2, <2>3
    <2> QED
      BY <1>4, <2>4 DEF J, n
  <1>5. CASE Key(new.entries[a]) # key /\ \E i \in DOMAIN pre.entries : new.entries[a] = pre.entries[i]
    <2>1. PICK i \in DOMAIN pre.entries : new.entries[a] = pre.entries[i]
      BY <1>5
    <2> DEFINE H == HoldersOf(reqs, Key(pre.entries[i]))
               J == HoldersOf(now, Key(pre.entries[i]))
               n == pre.entries[i].references
    <2>2. n \in Nat /\ n <= Cardinality(H) /\ H \subseteq J /\ IsFiniteSet(J)
      BY <1>2, <1>3
    <2> HIDE DEF H, J, n
    <2>3. Cardinality(H) <= Cardinality(J) /\ Cardinality(H) \in Nat /\ Cardinality(J) \in Nat
      BY <2>2, MoreHolders
    <2>4. n <= Cardinality(J)
      BY <2>2, <2>3
    <2> QED
      BY <2>1, <2>4 DEF J, n
  <1> QED
    BY <1>1, <1>4, <1>5

-----------------------------------------------------------------------------
(* Tokens and the states computed for them *)

(* Sequences that agree everywhere are equal. *)
LEMMA SameSeq ==
    ASSUME NEW X, NEW s \in Seq(X), NEW t \in Seq(X), Len(s) = Len(t),
           \A i \in 1 .. Len(s) : s[i] = t[i]
    PROVE  s = t
  OBVIOUS

(* The state of some tokens. *)
LEMMA ComputedSeq ==
    ASSUME NEW m \in Model, NEW t \in Seq(Token)
    PROVE  /\ Computed(m, t) \in Seq(Position) /\ Len(Computed(m, t)) = Len(t)
           /\ \A i \in 1 .. Len(t) : Computed(m, t)[i] = <<m, t[i]>>
  <1> DEFINE c == Computed(m, t)
             n == Len(t)
  <1>1. n \in Nat /\ DOMAIN t = 1 .. n /\ \A i \in 1 .. n : t[i] \in Token
    OBVIOUS
  <1>2. c = [i \in 1 .. n |-> <<m, t[i]>>]
    BY <1>1 DEF Computed
  <1>3. \A i \in 1 .. n : <<m, t[i]>> \in Position
    BY <1>1 DEF Position
  <1> HIDE DEF c, n
  <1>4. c \in [1 .. n -> Position] /\ \A i \in 1 .. n : c[i] = <<m, t[i]>>
    BY <1>2, <1>3
  <1>5. c \in Seq(Position) /\ Len(c) = n
    BY <1>1, <1>4
  <1> QED
    BY <1>4, <1>5 DEF c, n

(* The state of some tokens followed by others. *)
LEMMA ComputedConcat ==
    ASSUME NEW m \in Model, NEW s \in Seq(Token), NEW t \in Seq(Token)
    PROVE  Computed(m, s \o t) = Computed(m, s) \o Computed(m, t)
  <1> DEFINE a == Computed(m, s)
             b == Computed(m, t)
             c == Computed(m, s \o t)
             k == Len(s)
             l == Len(t)
  <1>1. /\ k \in Nat /\ l \in Nat /\ s \o t \in Seq(Token) /\ Len(s \o t) = k + l
        /\ \A i \in 1 .. k + l : (s \o t)[i] = IF i <= k THEN s[i] ELSE t[i - k]
    OBVIOUS
  <1>2. /\ a \in Seq(Position) /\ Len(a) = k /\ \A i \in 1 .. k : a[i] = <<m, s[i]>>
        /\ b \in Seq(Position) /\ Len(b) = l /\ \A i \in 1 .. l : b[i] = <<m, t[i]>>
    BY ComputedSeq
  <1>3. c \in Seq(Position) /\ Len(c) = k + l /\ \A i \in 1 .. k + l : c[i] = <<m, (s \o t)[i]>>
    BY <1>1, ComputedSeq
  <1> HIDE DEF a, b, c, k, l
  <1>4. /\ a \o b \in Seq(Position) /\ Len(a \o b) = k + l
        /\ \A i \in 1 .. k + l : (a \o b)[i] = IF i <= k THEN a[i] ELSE b[i - k]
    BY <1>2
  <1>5. ASSUME NEW i \in 1 .. k + l PROVE c[i] = (a \o b)[i]
    <2>1. CASE i <= k
      <3>1. i \in 1 .. k
        BY <1>1, <2>1
      <3> QED
        <4>1. (s \o t)[i] = s[i] /\ (a \o b)[i] = a[i]
          BY <1>1, <1>4, <2>1
        <4>2. c[i] = <<m, (s \o t)[i]>> /\ a[i] = <<m, s[i]>>
          BY <1>2, <1>3, <3>1
        <4> QED
          BY <4>1, <4>2
    <2>2. CASE ~(i <= k)
      <3>1. i - k \in 1 .. l
        BY <1>1, <2>2
      <3> QED
        BY <1>1, <1>2, <1>3, <1>4, <2>2, <3>1
    <2> QED
      BY <2>1, <2>2
  <1>6. c = a \o b
    BY <1>3, <1>4, <1>5, SameSeq
  <1> QED
    BY <1>6 DEF a, b, c

(* A state that the context has room for is not nothing, and selects a token. *)
LEMMA StateIsSome ==
    ASSUME NEW m \in Model, NEW t \in Seq(Token), Len(t) \in 1 .. MaxContext
    PROVE  Computed(m, t) # None /\ Sample(Computed(m, t)) \in Token
  <1> DEFINE c == Computed(m, t)
             n == Len(t)
  <1>1. c \in Seq(Position) /\ Len(c) = n
    BY ComputedSeq
  <1>2. n \in 1 .. MaxContext
    OBVIOUS
  <1> HIDE DEF c, n
  <1>3. c \in [1 .. n -> Model \X Token]
    BY <1>1 DEF Position
  <1>4. Sample(c) \in Token /\ None # c
    BY <1>2, <1>3, TokenAssumption, Zenon
  <1> QED
    BY <1>4 DEF c

(* A prompt is a cached prefix of it and the rest. *)
LEMMA PrefixAndRest ==
    ASSUME NEW s \in Seq(Token), NEW t \in Seq(Token), IsPrefix(s, t)
    PROVE  /\ Len(s) <= Len(t)
           /\ SubSeq(t, Len(s) + 1, Len(t)) \in Seq(Token)
           /\ t = s \o SubSeq(t, Len(s) + 1, Len(t))
           /\ Len(SubSeq(t, Len(s) + 1, Len(t))) = Len(t) - Len(s)
  <1> DEFINE k == Len(s)
             n == Len(t)
             u == SubSeq(t, k + 1, n)
  <1>1. k \in Nat /\ n \in Nat /\ k <= n /\ SubSeq(s, 1, k) = SubSeq(t, 1, k)
    BY DEF IsPrefix
  <1>2. \A i \in 1 .. k : s[i] = t[i]
    <2> TAKE i \in 1 .. k
    <2>1. SubSeq(s, 1, k)[i] = s[i] /\ SubSeq(t, 1, k)[i] = t[i]
      BY <1>1
    <2> QED
      BY <1>1, <2>1
  <1>3. u \in Seq(Token) /\ Len(u) = n - k /\ \A i \in 1 .. n - k : u[i] = t[k + i]
    BY <1>1
  <1> HIDE DEF u
  <1>4. /\ s \o u \in Seq(Token) /\ Len(s \o u) = n
        /\ \A i \in 1 .. n : (s \o u)[i] = IF i <= k THEN s[i] ELSE u[i - k]
    BY <1>1, <1>3
  <1>5. ASSUME NEW i \in 1 .. n PROVE t[i] = (s \o u)[i]
    <2>1. CASE i <= k
      <3>1. i \in 1 .. k
        BY <1>1, <2>1
      <3> QED
        BY <1>2, <1>4, <2>1, <3>1
    <2>2. CASE ~(i <= k)
      <3>1. i - k \in 1 .. n - k /\ k + (i - k) = i
        BY <1>1, <2>2
      <3>2. u[i - k] = t[i]
        BY <1>3, <3>1
      <3> QED
        BY <1>4, <2>2, <3>2
    <2> QED
      BY <2>1, <2>2
  <1>6. t = s \o u
    BY <1>4, <1>5, SameSeq
  <1> QED
    BY <1>1, <1>3, <1>6 DEF u

(* A text with its last token apart. *)
LastApart(text, front, s, g) ==
    /\ text \in Seq(Token) /\ Len(text) = Len(s) + Len(g)
    /\ front \in Seq(Token) /\ Len(front) = Len(text) - 1
    /\ g[Len(g)] \in Token
    /\ text = front \o <<g[Len(g)]>>

(* A text is all of it but the last token, and the last token. *)
LEMMA AllButLast ==
    ASSUME NEW s \in Seq(Token), NEW g \in Seq(Token), Len(g) > 0,
           NEW text, text = s \o g, NEW front, front = SubSeq(text, 1, Len(text) - 1)
    PROVE  LastApart(text, front, s, g)
  <1> DEFINE n == Len(s) + Len(g)
             x == g[Len(g)]
  <1>1. /\ text \in Seq(Token) /\ Len(text) = n /\ n \in Nat /\ n > 0 /\ x \in Token
        /\ text[n] = x
    OBVIOUS
  <1> HIDE DEF x, n
  <1>2. front \in Seq(Token) /\ Len(front) = n - 1 /\ \A i \in 1 .. n - 1 : front[i] = text[i]
    BY <1>1
  <1>3. <<x>> \in Seq(Token) /\ Len(<<x>>) = 1 /\ <<x>>[1] = x
    BY <1>1
  <1>4. /\ front \o <<x>> \in Seq(Token) /\ Len(front \o <<x>>) = n
        /\ \A i \in 1 .. n : (front \o <<x>>)[i] = IF i <= n - 1 THEN front[i] ELSE <<x>>[i - (n - 1)]
    BY <1>1, <1>2, <1>3
  <1>5. ASSUME NEW i \in 1 .. n PROVE text[i] = (front \o <<x>>)[i]
    <2>1. CASE i = n
      <3>1. i - (n - 1) = 1 /\ ~(i <= n - 1)
        BY <1>1, <2>1
      <3> QED
        BY <1>1, <1>3, <1>4, <2>1, <3>1
    <2>2. CASE i # n
      <3>1. i \in 1 .. n - 1 /\ i <= n - 1
        BY <1>1, <2>2
      <3> QED
        BY <1>2, <1>4, <3>1
    <2> QED
      BY <2>1, <2>2
  <1>6. text = front \o <<x>>
    BY <1>1, <1>4, <1>5, SameSeq
  <1> QED
    BY <1>1, <1>2, <1>6 DEF n, x, LastApart

(* h is g with a token more, after s. *)
TokenMore(h, g, x, s) ==
    /\ h \in Seq(Token) /\ Len(h) = Len(g) + 1 /\ h[Len(h)] = x
    /\ \A i \in 1 .. Len(g) : h[i] = g[i]
    /\ \A i \in 1 .. Len(g) + 1 : SubSeq(h, 1, i - 1) = SubSeq(g, 1, i - 1)
    /\ SubSeq(g, 1, Len(g)) = g
    /\ SubSeq(s \o h, 1, Len(s \o h) - 1) = s \o g

(* A token more. *)
LEMMA OneMore ==
    ASSUME NEW s \in Seq(Token), NEW g \in Seq(Token), NEW x \in Token, NEW h, h = Append(g, x)
    PROVE  TokenMore(h, g, x, s)
  <1> DEFINE n == Len(g)
             k == Len(s)
  <1>1. /\ h \in Seq(Token) /\ Len(h) = n + 1 /\ h[n + 1] = x /\ n \in Nat /\ k \in Nat
        /\ \A i \in 1 .. n : h[i] = g[i]
    OBVIOUS
  <1>2. ASSUME NEW i \in 1 .. n + 1 PROVE SubSeq(h, 1, i - 1) = SubSeq(g, 1, i - 1)
    <2>1. /\ SubSeq(h, 1, i - 1) \in Seq(Token) /\ Len(SubSeq(h, 1, i - 1)) = i - 1
          /\ \A j \in 1 .. i - 1 : SubSeq(h, 1, i - 1)[j] = h[j]
      BY <1>1
    <2>2. /\ SubSeq(g, 1, i - 1) \in Seq(Token) /\ Len(SubSeq(g, 1, i - 1)) = i - 1
          /\ \A j \in 1 .. i - 1 : SubSeq(g, 1, i - 1)[j] = g[j]
      BY <1>1
    <2>3. \A j \in 1 .. i - 1 : SubSeq(h, 1, i - 1)[j] = SubSeq(g, 1, i - 1)[j]
      BY <1>1, <2>1, <2>2
    <2> QED
      BY <2>1, <2>2, <2>3, SameSeq
  <1>3. SubSeq(g, 1, n) = g
    BY <1>1
  <1>4. SubSeq(s \o h, 1, Len(s \o h) - 1) = s \o g
    <2> DEFINE u == SubSeq(s \o h, 1, k + n)
               v == s \o g
    <2>1. /\ s \o h \in Seq(Token) /\ Len(s \o h) = k + n + 1
          /\ \A i \in 1 .. k + n + 1 : (s \o h)[i] = IF i <= k THEN s[i] ELSE h[i - k]
      BY <1>1
    <2>2. u \in Seq(Token) /\ Len(u) = k + n /\ \A i \in 1 .. k + n : u[i] = (s \o h)[i]
      BY <1>1, <2>1
    <2>3. /\ v \in Seq(Token) /\ Len(v) = k + n
          /\ \A i \in 1 .. k + n : v[i] = IF i <= k THEN s[i] ELSE g[i - k]
      OBVIOUS
    <2> HIDE DEF u, v
    <2>4. ASSUME NEW i \in 1 .. k + n PROVE u[i] = v[i]
      <3>1. i \in 1 .. k + n + 1 /\ (~(i <= k) => i - k \in 1 .. n)
        BY <1>1
      <3> QED
        BY <1>1, <2>1, <2>2, <2>3, <3>1
    <2>5. u = v
      BY <2>2, <2>3, <2>4, SameSeq
    <2>6. Len(s \o h) - 1 = k + n
      BY <1>1, <2>1
    <2> QED
      BY <2>5, <2>6 DEF u, v
  <1> QED
    BY <1>1, <1>2, <1>3, <1>4 DEF TokenMore

-----------------------------------------------------------------------------
(* A request through the three stages of a step *)

Past(r) == IF r.snapshot = None THEN <<>> ELSE r.snapshot

(* A request in a batch: it has no token to continue with yet. *)
Works(r, m) ==
    /\ Own(r) /\ r.by = m /\ r.status = "running" /\ r.pending = None
    /\ Len(r.generated) < r.max
    /\ \A i \in DOMAIN r.generated : r.generated[i] \notin Stop

(* Its state and the chunk that is to be computed make up its tokens. *)
Begun(r, chunk, m) ==
    /\ Works(r, m) /\ chunk \in Seq(Token)
    /\ Past(r) \o Computed(m, chunk) = Computed(m, TextOf(r))
    /\ chunk = <<>> => r.snapshot = Computed(m, TextOf(r)) /\ r.logits = Computed(m, TextOf(r))

(* Its state and logits are those of its tokens. *)
Ready(r, m) ==
    /\ Works(r, m)
    /\ r.snapshot = Computed(m, TextOf(r)) /\ r.logits = Computed(m, TextOf(r))

(* It has a token more. *)
Took(r, m) == Rests(r) /\ r.by = m /\ r.status # "queued"

(* The fields of a request, and of its text. *)
LEMMA RequestFields ==
    ASSUME NEW r, Own(r)
    PROVE  /\ r \in Request /\ r.prompt \in Seq(Token) /\ r.generated \in Seq(Token)
           /\ r.max \in Nat /\ r.by \in Model
           /\ Len(r.prompt) \in Nat /\ Len(r.prompt) > 0 /\ Len(r.generated) \in Nat
           /\ Len(r.prompt) + r.max <= MaxContext /\ MaxContext \in Nat
           /\ TextOf(r) \in Seq(Token) /\ Len(TextOf(r)) = Len(r.prompt) + Len(r.generated)
  <1>1. /\ r \in Request /\ r.prompt \in Seq(Token) /\ r.generated \in Seq(Token)
        /\ r.max \in Nat /\ r.by \in Model /\ r.prompt # <<>> /\ Len(r.prompt) + r.max <= MaxContext
    BY DEF Own, Request
  <1>2. Len(r.prompt) \in Nat /\ Len(r.prompt) > 0 /\ Len(r.generated) \in Nat
    BY <1>1
  <1>3. TextOf(r) \in Seq(Token) /\ Len(TextOf(r)) = Len(r.prompt) + Len(r.generated)
    BY <1>1 DEF TextOf
  <1> QED
    BY <1>1, <1>2, <1>3, ConfigAssumption

(* The same request, as far as its tokens are concerned. *)
Same(r, old) ==
    /\ r \in Request
    /\ r.prompt = old.prompt /\ r.max = old.max /\ r.by = old.by /\ r.generated = old.generated

(* What it generated is its own still. *)
LEMMA SameOwn ==
    ASSUME NEW r, NEW old, Own(old), Same(r, old)
    PROVE  Own(r) /\ TextOf(r) = TextOf(old)
  <1>1. TextOf(r) = TextOf(old)
    BY DEF Same, TextOf
  <1>2. Own(r)
    BY DEF Same, Own
  <1> QED
    BY <1>1, <1>2

(* A request has a token to continue with when it is running. *)
LEMMA PendingMeansRunning ==
    ASSUME NEW r, Rests(r), r.status # "complete"
    PROVE  /\ r.pending # None <=> r.status = "running"
           /\ r.status = "running" => r.pending \in Token
           /\ r.status # "running" => r.status = "queued" /\ r.pending = None
           /\ Len(r.generated) < r.max
           /\ \A i \in DOMAIN r.generated : r.generated[i] \notin Stop
  <1>1. Own(r)
    BY DEF Rests
  <1>2. /\ r.generated \in Seq(Token) /\ r.max \in Nat /\ r.status \in {"queued", "running", "complete"}
        /\ Len(r.generated) \in Nat
    <2>1. r \in Request /\ r.generated \in Seq(Token) /\ r.max \in Nat /\ Len(r.generated) \in Nat
      BY <1>1, RequestFields
    <2> QED
      BY <2>1 DEF Request
  <1>3. CASE r.status = "running"
    <2>1. Len(r.generated) \in 1 .. r.max - 1 /\ r.pending = r.generated[Len(r.generated)]
      BY <1>3 DEF Rests
    <2>2. r.pending \in Token /\ Len(r.generated) < r.max
      BY <1>2, <2>1
    <2>3. r.pending # None
      BY <2>2, TokenAssumption
    <2>4. \A i \in DOMAIN r.generated : r.generated[i] \notin Stop
      BY <1>3 DEF Rests
    <2> QED
      BY <1>3, <2>2, <2>3, <2>4
  <1>4. CASE r.status = "queued"
    <2>1. r.generated = <<>> /\ r.max > 0 /\ r.pending = None
      BY <1>4 DEF Rests
    <2> QED
      BY <1>2, <1>4, <2>1
  <1> QED
    BY <1>2, <1>3, <1>4

(* The beginning of a request that continues. *)
LEMMA ContinueBegun ==
    ASSUME NEW m \in Model, NEW old, Rests(old), old.by = m, old.status = "running",
           NEW r, r = [[old EXCEPT !.status = "running"] EXCEPT !.pending = None]
    PROVE  Begun(r, <<old.pending>>, m) /\ r.reference = old.reference
  <1> DEFINE text == TextOf(old)
             front == SubSeq(text, 1, Len(text) - 1)
             x == old.pending
  <1>1. Own(old)
    BY DEF Rests
  <1>2. /\ old \in Request /\ old.prompt \in Seq(Token) /\ old.generated \in Seq(Token)
        /\ Len(old.prompt) \in Nat /\ Len(old.prompt) > 0 /\ Len(old.generated) \in Nat /\ old.max \in Nat
        /\ Len(old.prompt) + old.max <= MaxContext /\ MaxContext \in Nat
    BY <1>1, RequestFields
  <1>3. Same(r, old) /\ r.status = "running" /\ r.pending = None /\ r.snapshot = old.snapshot
        /\ r.reference = old.reference
    BY <1>2 DEF Same, Request
  <1>4. Own(r) /\ TextOf(r) = text
    BY <1>1, <1>3, SameOwn
  <1>5. /\ Len(old.generated) \in 1 .. old.max - 1 /\ x = old.generated[Len(old.generated)]
        /\ old.snapshot = Computed(m, front)
    BY DEF Rests
  <1>6. /\ text \in Seq(Token) /\ Len(text) = Len(old.prompt) + Len(old.generated)
        /\ front \in Seq(Token) /\ Len(front) = Len(text) - 1 /\ x \in Token /\ text = front \o <<x>>
    <2>1. text = old.prompt \o old.generated /\ Len(old.generated) > 0
      BY <1>5 DEF TextOf
    <2>2. front = SubSeq(text, 1, Len(text) - 1)
      OBVIOUS
    <2> DEFINE g == old.generated
               q == old.prompt
    <2>4. q \in Seq(Token) /\ g \in Seq(Token) /\ Len(g) > 0 /\ text = q \o g
      BY <1>2, <2>1
    <2> HIDE DEF text, front, g, q
    <2>3. LastApart(text, front, q, g)
      BY <2>2, <2>4, AllButLast
    <2> QED
      BY <1>5, <2>3 DEF g, q, LastApart
  <1>7. Works(r, m)
    BY <1>3, <1>4, PendingMeansRunning DEF Works, Same
  <1> HIDE DEF front, x, text
  <1>8. Len(front) \in 1 .. MaxContext
    <2> DEFINE a == Len(old.prompt)
               b == Len(old.generated)
               c == Len(front)
               k == old.max
    <2>1. c = a + b - 1 /\ a \in Nat /\ a > 0 /\ b \in 1 .. k - 1 /\ k \in Nat
          /\ a + k <= MaxContext /\ MaxContext \in Nat
      BY <1>2, <1>5, <1>6
    <2> HIDE DEF a, b, c, k
    <2>2. c \in 1 .. MaxContext
      BY <2>1
    <2> QED
      BY <2>2 DEF c
  <1>9. Computed(m, front) # None /\ Past(r) = Computed(m, front)
    BY <1>3, <1>5, <1>6, <1>8, StateIsSome DEF Past
  <1>10. <<x>> \in Seq(Token) /\ <<x>> # <<>>
    BY <1>6
  <1>11. Computed(m, front) \o Computed(m, <<x>>) = Computed(m, text)
    BY <1>6, <1>10, ComputedConcat
  <1>12. Begun(r, <<x>>, m)
    BY <1>4, <1>7, <1>9, <1>10, <1>11 DEF Begun
  <1> QED
    BY <1>3, <1>12 DEF x

(* The beginning of a request whose prompt is not cached. *)
LEMMA MissBegun ==
    ASSUME NEW m \in Model, NEW old, Rests(old), old.by = m, old.status = "queued",
           NEW r, r = [old EXCEPT !.status = "running"]
    PROVE  Begun(r, r.prompt, m) /\ r.reference = old.reference
  <1>1. Own(old)
    BY DEF Rests
  <1>2. /\ old \in Request /\ old.prompt \in Seq(Token) /\ old.generated \in Seq(Token)
        /\ Len(old.prompt) \in Nat /\ Len(old.prompt) > 0
    BY <1>1, RequestFields
  <1>3. old.generated = <<>> /\ old.snapshot = None /\ old.pending = None
    BY DEF Rests
  <1>4. Same(r, old) /\ r.status = "running" /\ r.pending = None /\ r.snapshot = None
        /\ r.reference = old.reference
    BY <1>2, <1>3 DEF Same, Request
  <1>5. Own(r) /\ TextOf(r) = TextOf(old) /\ TextOf(old) = old.prompt
    <2>1. Own(r) /\ TextOf(r) = TextOf(old)
      BY <1>1, <1>4, SameOwn
    <2>2. TextOf(old) = old.prompt
      BY <1>2, <1>3 DEF TextOf
    <2> QED
      BY <2>1, <2>2
  <1>6. Works(r, m)
    BY <1>3, <1>4, <1>5, PendingMeansRunning DEF Works, Same
  <1>7. Computed(m, old.prompt) \in Seq(Position)
    BY <1>2, ComputedSeq
  <1>8. Past(r) = <<>> /\ <<>> \o Computed(m, old.prompt) = Computed(m, old.prompt)
    BY <1>4, <1>7 DEF Past
  <1>9. r.prompt = old.prompt /\ old.prompt # <<>>
    BY <1>2, <1>4 DEF Same
  <1> QED
    BY <1>2, <1>4, <1>5, <1>6, <1>8, <1>9 DEF Begun

(* A request that starts from a state that was found, and what is left of its
   prompt. *)
FromPrefix(old, key, found) ==
    LET r0 == [old EXCEPT !.status = "running"]
    IN  [r0 EXCEPT !.reference = key, !.snapshot = found,
                   !.logits = IF Len(found) = Len(old.prompt) THEN found ELSE None]
RestOf(old, found) == SubSeq(old.prompt, Len(found) + 1, Len(old.prompt))

(* The state of a prefix of the prompt was found. *)
Finds(old, tokens, key, found, m) ==
    /\ Rests(old) /\ old.by = m /\ old.status = "queued"
    /\ tokens \in Seq(Token) /\ Len(tokens) \in 1 .. MaxContext /\ IsPrefix(tokens, old.prompt)
    /\ key \in Model \X Seq(Token) /\ found = Computed(m, tokens)

(* The beginning of a request with a cached prefix. *)
LEMMA HitBegun ==
    ASSUME NEW m \in Model, NEW old, NEW tokens, NEW key, NEW found, Finds(old, tokens, key, found, m)
    PROVE  /\ Begun(FromPrefix(old, key, found), RestOf(old, found), m)
           /\ FromPrefix(old, key, found).reference = key
  <1> DEFINE r0 == [old EXCEPT !.status = "running"]
             lg == IF Len(found) = Len(old.prompt) THEN found ELSE None
             r == FromPrefix(old, key, found)
  <1>0. /\ Rests(old) /\ old.by = m /\ old.status = "queued"
        /\ tokens \in Seq(Token) /\ Len(tokens) \in 1 .. MaxContext /\ IsPrefix(tokens, old.prompt)
        /\ key \in Model \X Seq(Token) /\ found = Computed(m, tokens)
    BY DEF Finds
  <1>20. r = [r0 EXCEPT !.reference = key, !.snapshot = found, !.logits = lg]
    BY DEF FromPrefix
  <1> HIDE DEF r
  <1> DEFINE rest == SubSeq(old.prompt, Len(found) + 1, Len(old.prompt))
  <1>1. Own(old)
    BY <1>0 DEF Rests
  <1>2. /\ old \in Request /\ old.prompt \in Seq(Token) /\ old.generated \in Seq(Token)
        /\ Len(old.prompt) \in Nat /\ Len(old.prompt) > 0
    BY <1>1, RequestFields
  <1>3. old.generated = <<>> /\ old.pending = None
    BY <1>0 DEF Rests
  <1>4. found \in Seq(Position) /\ Len(found) = Len(tokens) /\ found # None
    BY <1>0, ComputedSeq, StateIsSome
  <1>5. lg \in {None} \cup Seq(Position)
    BY <1>4
  <1>6. Same(r, old) /\ r.status = "running" /\ r.pending = None /\ r.snapshot = found
        /\ r.reference = key /\ r.logits = lg
    BY <1>0, <1>20, <1>2, <1>3, <1>4, <1>5 DEF Same, Request
  <1>7. Own(r) /\ TextOf(r) = TextOf(old) /\ TextOf(old) = old.prompt
    <2>1. Own(r) /\ TextOf(r) = TextOf(old)
      BY <1>1, <1>6, SameOwn
    <2>2. TextOf(old) = old.prompt
      BY <1>2, <1>3 DEF TextOf
    <2> QED
      BY <2>1, <2>2
  <1>8. Works(r, m)
    BY <1>0, <1>3, <1>6, <1>7, PendingMeansRunning DEF Works, Same
  <1>9. /\ rest \in Seq(Token) /\ old.prompt = tokens \o rest
        /\ Len(rest) = Len(old.prompt) - Len(tokens) /\ Len(tokens) \in Nat
    BY <1>0, <1>2, <1>4, PrefixAndRest
  <1>10. Past(r) = found
    BY <1>4, <1>6 DEF Past
  <1> HIDE DEF rest
  <1>11. found \o Computed(m, rest) = Computed(m, old.prompt)
    <2>1. Computed(m, tokens \o rest) = Computed(m, tokens) \o Computed(m, rest)
      BY <1>0, <1>9, ComputedConcat
    <2> QED
      BY <1>0, <1>9, <2>1, Zenon
  <1>12. ASSUME rest = <<>> PROVE found = Computed(m, old.prompt) /\ lg = found
    <2>1. Len(tokens) = Len(old.prompt) /\ tokens \o rest = tokens
      BY <1>2, <1>9, <1>12
    <2>2. old.prompt = tokens
      BY <1>0, <1>9, <2>1, Zenon
    <2> QED
      BY <1>0, <1>4, <2>1, <2>2
  <1>13. Begun(r, rest, m)
    BY <1>6, <1>7, <1>8, <1>9, <1>10, <1>11, <1>12 DEF Begun
  <1> QED
    BY <1>6, <1>13 DEF rest, r, RestOf

(* The smaller of two equal numbers. *)
LEMMA MinOfSame == ASSUME NEW n \in Nat PROVE Min({n, n}) = n
  BY DEF Min

(* A request r with the state of its text, which the cache may have. *)
HasState(r, old, snapshot, m) ==
    /\ Ready(r, m) /\ r.reference = None
    /\ snapshot = Computed(m, TextOf(old)) /\ snapshot \in Seq(Position) /\ Len(snapshot) \in Nat
    /\ CachedTokens(old, snapshot) = TextOf(old)
    /\ TextOf(old) \in Seq(Token) /\ Len(TextOf(old)) \in 1 .. MaxContext

(* A computed request is ready, and is offered to the cache under its text. *)
LEMMA ComputeReady ==
    ASSUME NEW m \in Model, NEW old, NEW chunk, Begun(old, chunk, m),
           NEW snapshot, snapshot = Past(old) \o Computed(m, chunk),
           NEW r, r = [old EXCEPT !.reference = None, !.snapshot = snapshot, !.logits = snapshot]
    PROVE  HasState(r, old, snapshot, m)
  <1> DEFINE text == TextOf(old)
  <1>1. Works(old, m) /\ Own(old) /\ snapshot = Computed(m, text)
    BY DEF Begun, Works
  <1>2. /\ old \in Request /\ text \in Seq(Token) /\ Len(text) = Len(old.prompt) + Len(old.generated)
        /\ Len(old.prompt) \in Nat /\ Len(old.prompt) > 0 /\ Len(old.generated) \in Nat /\ old.max \in Nat
        /\ Len(old.prompt) + old.max <= MaxContext /\ MaxContext \in Nat
    BY <1>1, RequestFields
  <1>3. snapshot \in Seq(Position) /\ Len(snapshot) = Len(text)
    BY <1>1, <1>2, ComputedSeq
  <1>4. Len(text) \in 1 .. MaxContext
    <2> DEFINE a == Len(old.prompt)
               b == Len(old.generated)
               c == Len(text)
               k == old.max
    <2>1. b < k
      BY <1>1 DEF Works
    <2>2. c = a + b /\ a \in Nat /\ a > 0 /\ b \in Nat /\ k \in Nat /\ a + k <= MaxContext /\ MaxContext \in Nat
      BY <1>2
    <2> HIDE DEF a, b, c, k
    <2>3. c \in 1 .. MaxContext
      BY <2>1, <2>2
    <2> QED
      BY <2>3 DEF c
  <1>5. CachedTokens(old, snapshot) = text
    <2>0. text = old.prompt \o old.generated
      BY DEF TextOf
    <2>1. text = old.prompt \o old.generated /\ Len(text) \in Nat
      <3> DEFINE c == Len(text)
      <3>1. c \in 1 .. MaxContext
        BY <1>4
      <3> HIDE DEF c
      <3>2. c \in Nat
        BY <3>1, ConfigAssumption
      <3> QED
        BY <2>0, <3>2, Zenon DEF c
    <2>2. CachedTokens(old, snapshot) = SubSeq(text, 1, Min({Len(text), Len(text)}))
      BY <1>3, <2>1 DEF CachedTokens
    <2>3. Min({Len(text), Len(text)}) = Len(text)
      BY <2>1, MinOfSame
    <2> HIDE DEF text
    <2>4. SubSeq(text, 1, Len(text)) = text
      BY <1>2
    <2> QED
      BY <2>2, <2>3, <2>4
  <1>6. /\ Same(r, old) /\ r.status = old.status /\ r.pending = old.pending
        /\ r.reference = None /\ r.snapshot = snapshot /\ r.logits = snapshot
    BY <1>2, <1>3 DEF Same, Request
  <1>7. Own(r) /\ TextOf(r) = text
    BY <1>1, <1>6, SameOwn
  <1>8. Works(r, m)
    BY <1>1, <1>6, <1>7 DEF Works, Same
  <1>9. Ready(r, m)
    BY <1>1, <1>6, <1>7, <1>8 DEF Ready
  <1>10. Len(snapshot) \in Nat
    BY <1>3
  <1> HIDE DEF text
  <1>11. text = TextOf(old)
    BY DEF text
  <1> QED
    BY <1>1, <1>2, <1>3, <1>4, <1>5, <1>6, <1>9, <1>10, <1>11, Zenon DEF HasState

(* A request that has nothing to compute is ready. *)
LEMMA NothingToCompute ==
    ASSUME NEW m, NEW r, Begun(r, <<>>, m)
    PROVE  Ready(r, m)
  BY DEF Begun, Ready

(* The request after a token was selected for it. *)
Advanced(r) ==
    LET token == Sample(r.logits)
        generated == Append(r.generated, token)
        stopped == token \in Stop
        done == stopped \/ Len(generated) = r.max
    IN  [r EXCEPT !.generated = generated, !.stopped = stopped, !.logits = None,
                  !.status = IF done THEN "complete" ELSE @,
                  !.snapshot = IF done THEN None ELSE @,
                  !.pending = IF done THEN None ELSE token,
                  !.reference = IF done THEN None ELSE @]
Done(r) == Sample(r.logits) \in Stop \/ Len(Append(r.generated, Sample(r.logits))) = r.max

(* The token that is selected is the request's own. *)
LEMMA EmitTook ==
    ASSUME NEW m \in Model, NEW old, Ready(old, m), NEW r, r = Advanced(old)
    PROVE  /\ Took(r, m)
           /\ Done(old) => r.reference = None
           /\ ~Done(old) => r.reference = old.reference
  <1> DEFINE text == TextOf(old)
             x == Sample(old.logits)
             g == old.generated
             h == Append(g, x)
  <1>1. Works(old, m) /\ Own(old) /\ old.logits = Computed(m, text) /\ old.snapshot = Computed(m, text)
        /\ old.by = m /\ old.status = "running" /\ Len(g) < old.max
    BY DEF Ready, Works
  <1>2. /\ old \in Request /\ text \in Seq(Token) /\ Len(text) = Len(old.prompt) + Len(g)
        /\ Len(old.prompt) \in Nat /\ Len(old.prompt) > 0 /\ Len(g) \in Nat /\ old.max \in Nat
        /\ Len(old.prompt) + old.max <= MaxContext /\ MaxContext \in Nat
        /\ g \in Seq(Token) /\ old.prompt \in Seq(Token)
    BY <1>1, RequestFields
  <1>3. Len(text) \in 1 .. MaxContext
    <2> DEFINE a == Len(old.prompt)
               b == Len(g)
               c == Len(text)
               k == old.max
    <2>1. c = a + b /\ a \in Nat /\ a > 0 /\ b \in Nat /\ k \in Nat /\ a + k <= MaxContext /\ MaxContext \in Nat
          /\ b < k
      BY <1>1, <1>2
    <2> HIDE DEF a, b, c, k
    <2>2. c \in 1 .. MaxContext
      BY <2>1
    <2> QED
      BY <2>2 DEF c
  <1>4. x \in Token /\ x = Sample(Computed(m, text)) /\ x # None
    <2>1. x = Sample(Computed(m, text))
      BY <1>1
    <2>2. Sample(Computed(m, text)) \in Token
      BY <1>2, <1>3, StateIsSome
    <2> QED
      BY <2>1, <2>2, TokenAssumption
  <1> DEFINE stopped == x \in Stop
             done == stopped \/ Len(h) = old.max
  <1> HIDE DEF x
  <1>5. TokenMore(h, g, x, old.prompt)
    <2> DEFINE q == old.prompt
    <2>1. q \in Seq(Token) /\ g \in Seq(Token) /\ x \in Token
      BY <1>2, <1>4
    <2> HIDE DEF g, q
    <2>2. TokenMore(h, g, x, q)
      BY <2>1, OneMore
    <2> QED
      BY <2>2 DEF g, q
  <1>6. r = [old EXCEPT !.generated = h, !.stopped = stopped, !.logits = None,
                        !.status = IF done THEN "complete" ELSE old.status,
                        !.snapshot = IF done THEN None ELSE old.snapshot,
                        !.pending = IF done THEN None ELSE x,
                        !.reference = IF done THEN None ELSE old.reference]
    BY DEF Advanced, x
  <1>7. h \in Seq(Token) /\ stopped \in BOOLEAN /\ done = Done(old)
    BY <1>5 DEF TokenMore, Done, x
  <1>8. done \in BOOLEAN
    OBVIOUS
  <1> HIDE DEF h, stopped, done
  <1>9. /\ r \in Request /\ r.generated = h /\ r.stopped = stopped
        /\ r.prompt = old.prompt /\ r.max = old.max /\ r.by = old.by
        /\ r.status = (IF done THEN "complete" ELSE old.status)
        /\ r.snapshot = (IF done THEN None ELSE old.snapshot)
        /\ r.pending = (IF done THEN None ELSE x)
        /\ r.reference = (IF done THEN None ELSE old.reference)
    <2>1. CASE done
      BY <1>2, <1>4, <1>6, <1>7, <2>1 DEF Request
    <2>2. CASE ~done
      BY <1>2, <1>4, <1>6, <1>7, <2>2 DEF Request
    <2> QED
      BY <2>1, <2>2
  <1>10. /\ DOMAIN h = 1 .. Len(g) + 1 /\ Len(h) = Len(g) + 1 /\ h[Len(g) + 1] = x
         /\ DOMAIN g = 1 .. Len(g)
         /\ \A i \in 1 .. Len(g) : h[i] = g[i] /\ SubSeq(h, 1, i - 1) = SubSeq(g, 1, i - 1)
         /\ SubSeq(h, 1, Len(g)) = g
         /\ SubSeq(old.prompt \o h, 1, Len(old.prompt \o h) - 1) = text
    <2>1. /\ h \in Seq(Token) /\ Len(h) = Len(g) + 1 /\ h[Len(h)] = x
          /\ \A i \in 1 .. Len(g) : h[i] = g[i]
          /\ \A i \in 1 .. Len(g) + 1 : SubSeq(h, 1, i - 1) = SubSeq(g, 1, i - 1)
          /\ SubSeq(g, 1, Len(g)) = g
          /\ SubSeq(old.prompt \o h, 1, Len(old.prompt \o h) - 1) = old.prompt \o g
      BY <1>5 DEF TokenMore
    <2>2. Len(g) + 1 \in 1 .. Len(g) + 1 /\ (Len(g) + 1) - 1 = Len(g)
          /\ \A i \in 1 .. Len(g) : i \in 1 .. Len(g) + 1
      BY <1>2
    <2>3. SubSeq(h, 1, Len(g)) = g
      BY <2>1, <2>2
    <2>4. text = old.prompt \o g
      BY DEF TextOf
    <2> HIDE DEF text, g
    <2>5. DOMAIN h = 1 .. Len(h) /\ DOMAIN g = 1 .. Len(g)
      BY <1>2, <2>1
    <2>6. DOMAIN h = 1 .. Len(g) + 1 /\ Len(h) = Len(g) + 1 /\ h[Len(g) + 1] = x
      BY <2>1, <2>5, Zenon
    <2>7. \A i \in 1 .. Len(g) : h[i] = g[i] /\ SubSeq(h, 1, i - 1) = SubSeq(g, 1, i - 1)
      BY <2>1, <2>2, Zenon
    <2>8. SubSeq(old.prompt \o h, 1, Len(old.prompt \o h) - 1) = text
      BY <2>1, <2>4, Zenon
    <2> QED
      BY <2>3, <2>5, <2>6, <2>7, <2>8, Zenon
  <1>11. \A i \in 1 .. Len(g) + 1 : i \in 1 .. Len(g) \/ i = Len(g) + 1
    BY <1>2
  <1>12. \A i \in DOMAIN h : h[i] = Sample(Computed(m, old.prompt \o SubSeq(h, 1, i - 1)))
    <2> SUFFICES ASSUME NEW i \in 1 .. Len(g) + 1
                 PROVE  h[i] = Sample(Computed(m, old.prompt \o SubSeq(h, 1, i - 1)))
      BY <1>10
    <2>1. CASE i \in 1 .. Len(g)
      <3>1. g[i] = Sample(Computed(m, old.prompt \o SubSeq(g, 1, i - 1)))
        BY <1>1, <1>10, <2>1 DEF Own
      <3> QED
        BY <1>10, <2>1, <3>1
    <2>2. CASE i = Len(g) + 1
      <3>1. i - 1 = Len(g) /\ SubSeq(h, 1, i - 1) = g /\ h[i] = x
        BY <1>2, <1>10, <2>2
      <3> QED
        BY <1>4, <3>1 DEF TextOf
    <2> QED
      BY <1>11, <2>1, <2>2
  <1>13. Own(r)
    BY <1>1, <1>9, <1>12 DEF Own
  <1>14. \A i \in DOMAIN h : h[i] \in Stop => i = Len(h) /\ done
    <2> SUFFICES ASSUME NEW i \in 1 .. Len(g) + 1, h[i] \in Stop PROVE i = Len(h) /\ done
      BY <1>10
    <2>1. i \notin 1 .. Len(g)
      BY <1>1, <1>10 DEF Works
    <2>2. i = Len(g) + 1 /\ x \in Stop
      BY <1>10, <1>11, <2>1
    <2> QED
      BY <1>10, <2>2 DEF done, stopped
  <1>15. ASSUME done PROVE Rests(r) /\ r.status = "complete"
    <2>1. r.stopped \/ Len(r.generated) = r.max
      BY <1>9, <1>15 DEF done
    <2> QED
      BY <1>9, <1>13, <1>14, <1>15, <2>1 DEF Rests
  <1>16. ASSUME ~done PROVE Rests(r) /\ r.status = "running"
    <2>1. Len(h) # old.max /\ Len(h) = Len(g) + 1 /\ Len(g) < old.max
      BY <1>1, <1>10, <1>16 DEF done
    <2>2. Len(h) \in 1 .. old.max - 1
      BY <1>2, <2>1
    <2>3. TextOf(r) = old.prompt \o h
      BY <1>9 DEF TextOf
    <2>4. r.snapshot = Computed(m, SubSeq(TextOf(r), 1, Len(TextOf(r)) - 1))
      BY <1>1, <1>9, <1>10, <1>16, <2>3
    <2>5. r.pending = r.generated[Len(r.generated)]
      BY <1>9, <1>10, <1>16
    <2> QED
      BY <1>1, <1>9, <1>13, <1>14, <1>16, <2>2, <2>4, <2>5 DEF Rests
  <1> QED
    BY <1>1, <1>7, <1>9, <1>15, <1>16 DEF Took

-----------------------------------------------------------------------------
(* The stages of a step *)

(* The search finds the longest entry. *)
LEMMA BestHit ==
    ASSUME NEW pre, NEW m, CacheOK(pre, m), NEW prompt \in Seq(Token), Hits(pre, prompt) # {}
    PROVE  Best(pre, prompt) \in Hits(pre, prompt)
  <1> DEFINE H == Hits(pre, prompt)
             size(i) == Len(pre.entries[i].tokens)
             L == {size(i) : i \in H}
             n == Len(prompt)
  <1>1. n \in Nat
    OBVIOUS
  <1>2. \A i \in H : size(i) \in 1 .. n
    <2> SUFFICES ASSUME NEW i \in H PROVE size(i) \in 1 .. n
      OBVIOUS
    <2>1. i \in DOMAIN pre.entries /\ IsPrefix(pre.entries[i].tokens, prompt)
      BY DEF Hits
    <2>2. pre.entries[i] \in Entry /\ EntryTrue(pre.entries[i], m, pre.generation)
      BY <2>1, CacheEntry
    <2>3. pre.entries[i].tokens \in Seq(Token) /\ size(i) \in 1 .. MaxContext
      BY <2>2 DEF Entry, EntryTrue
    <2>4. size(i) <= n
      BY <2>1, <2>3, PrefixAndRest
    <2> DEFINE c == size(i)
    <2>5. c \in 1 .. MaxContext /\ c <= n
      BY <2>3, <2>4
    <2> HIDE DEF c, n
    <2>6. c \in 1 .. n
      BY <1>1, <2>5, ConfigAssumption
    <2> QED
      BY <2>6 DEF c
  <1> HIDE DEF H, size, n
  <1>3. L \in SUBSET (1 .. n) /\ L # {}
    BY <1>2 DEF H
  <1>4. Max(L) \in L /\ \A x \in L : x <= Max(L)
    BY <1>1, <1>3, LargestPosition
  <1>5. PICK i \in H : size(i) = Max(L)
    BY <1>4
  <1>6. \A j \in H : size(j) <= size(i)
    BY <1>4, <1>5
  <1>7. \E k \in H : \A j \in H : size(j) <= size(k)
    BY <1>6
  <1>8. Best(pre, prompt) = CHOOSE k \in H : \A j \in H : size(j) <= size(k)
    BY DEF Best, H, size
  <1> QED
    BY <1>7, <1>8 DEF H

(* The staged copies for the requests in D. *)
Stage(D) == [requests : [D -> Request], prefixes : Cache, chunks : [D -> Seq(Token)]]

(* The copies for one request and the cache are others. *)
Replaced(new, st, id, r, pre, chunk, D) ==
    /\ new \in Stage(D)
    /\ new.requests = [st.requests EXCEPT ![id] = r] /\ new.prefixes = pre
    /\ new.requests[id] = r /\ new.chunks[id] = chunk
    /\ \A i \in D \ {id} : new.requests[i] = st.requests[i] /\ new.chunks[i] = st.chunks[i]

(* What the stages write. *)
LEMMA StageFields ==
    ASSUME NEW D, NEW st \in Stage(D), NEW id \in D, NEW r \in Request, NEW pre \in Cache,
           NEW chunk \in Seq(Token), NEW new
    PROVE  /\ new = [st EXCEPT !.requests[id] = r, !.chunks[id] = chunk] =>
                Replaced(new, st, id, r, st.prefixes, chunk, D)
           /\ new = [st EXCEPT !.requests[id] = r, !.prefixes = pre, !.chunks[id] = chunk] =>
                Replaced(new, st, id, r, pre, chunk, D)
           /\ new = [st EXCEPT !.requests[id] = r, !.prefixes = pre] =>
                Replaced(new, st, id, r, pre, st.chunks[id], D)
  <1>1. ASSUME new = [st EXCEPT !.requests[id] = r, !.chunks[id] = chunk]
        PROVE  Replaced(new, st, id, r, st.prefixes, chunk, D)
    BY <1>1 DEF Stage, Replaced
  <1>2. ASSUME new = [st EXCEPT !.requests[id] = r, !.prefixes = pre, !.chunks[id] = chunk]
        PROVE  Replaced(new, st, id, r, pre, chunk, D)
    BY <1>2 DEF Stage, Replaced
  <1>3. ASSUME new = [st EXCEPT !.requests[id] = r, !.prefixes = pre]
        PROVE  Replaced(new, st, id, r, pre, st.chunks[id], D)
    BY <1>3 DEF Stage, Replaced
  <1> QED
    BY <1>1, <1>2, <1>3

(* The holders when one request changed. *)
LEMMA ReplacedHolders ==
    ASSUME NEW D, NEW reqs \in [D -> Request], NEW id \in D, NEW r \in Request,
           NEW now, now = [reqs EXCEPT ![id] = r], NEW key
    PROVE  /\ DOMAIN now = D /\ DOMAIN reqs = D
           /\ HoldersOf(reqs, key) \ {id} \subseteq HoldersOf(now, key)
           /\ reqs[id].reference = r.reference => HoldersOf(reqs, key) \subseteq HoldersOf(now, key)
           /\ id \in HoldersOf(reqs, key) <=> reqs[id].reference = key
           /\ id \in HoldersOf(now, key) <=> r.reference = key
  BY DEF HoldersOf

(* The copies are in order. *)
Fine(st, D, m) ==
    st \in Stage(D) /\ CacheOK(st.prefixes, m) /\ Held(st.prefixes, st.requests)

(* A stage was run for one request. *)
Moved(new, st, id, D, m) ==
    /\ Fine(new, D, m)
    /\ \A i \in D \ {id} : new.requests[i] = st.requests[i] /\ new.chunks[i] = st.chunks[i]

(* A selected request before it is begun. *)
Open(r, m) == Rests(r) /\ r.by = m /\ r.status # "complete"

(* Beginning a request. *)
LEMMA BeginOK ==
    ASSUME NEW m \in Model, NEW D, IsFiniteSet(D), NEW st, Fine(st, D, m), NEW id \in D,
           Open(st.requests[id], m)
    PROVE  Moved(Begin(st, id), st, id, D, m)
           /\ Begun(Begin(st, id).requests[id], Begin(st, id).chunks[id], m)
  <1> DEFINE old == st.requests[id]
             r0 == [old EXCEPT !.status = "running"]
             pre == Live(st.prefixes)
             hit == Hits(pre, r0.prompt) # {}
             x == Best(pre, r0.prompt)
             found == pre.entries[x].snapshot
             lg == IF Len(found) = Len(r0.prompt) THEN found ELSE None
             new == Begin(st, id)
  <1>1. /\ st \in Stage(D) /\ CacheOK(st.prefixes, m) /\ Held(st.prefixes, st.requests)
        /\ st.prefixes \in Cache /\ st.requests \in [D -> Request] /\ old \in Request
    BY DEF Fine, Stage
  <1>2. Rests(old) /\ old.by = m /\ old.status # "complete" /\ Own(old)
    BY DEF Open, Rests
  <1>3. /\ old.pending # None <=> old.status = "running"
        /\ old.status = "running" => old.pending \in Token
        /\ old.status # "running" => old.status = "queued" /\ old.pending = None
    BY <1>2, PendingMeansRunning
  <1>4. r0.prompt = old.prompt /\ r0.pending = old.pending /\ old.prompt \in Seq(Token)
    BY <1>1 DEF Request
  <1>5. CacheOK(pre, m) /\ pre \in Cache
        /\ \A a \in DOMAIN pre.entries : \E i \in DOMAIN st.prefixes.entries :
             pre.entries[a] = st.prefixes.entries[i]
    <2>1. CacheOK(pre, m)
          /\ \A a \in DOMAIN pre.entries : \E i \in DOMAIN st.prefixes.entries :
               pre.entries[a] = st.prefixes.entries[i]
      BY <1>1, LiveOK
    <2> QED
      BY <2>1 DEF CacheOK
  <1>6. new = CASE r0.pending # None ->
                     [st EXCEPT !.requests[id] = [r0 EXCEPT !.pending = None],
                                !.chunks[id] = <<r0.pending>>]
                [] r0.pending = None /\ ~hit ->
                     [st EXCEPT !.requests[id] = r0, !.prefixes = pre, !.chunks[id] = r0.prompt]
                [] r0.pending = None /\ hit ->
                     [st EXCEPT !.requests[id] = [r0 EXCEPT !.reference = Key(pre.entries[x]),
                                                            !.snapshot = found, !.logits = lg],
                                !.prefixes = Touch(pre, x),
                                !.chunks[id] = SubSeq(r0.prompt, Len(found) + 1, Len(r0.prompt))]
    BY DEF Begin
  <1> HIDE DEF pre, hit, x, new
  <1>7. CASE old.status = "running"
    <2> DEFINE r == [r0 EXCEPT !.pending = None]
               chunk == <<old.pending>>
    <2>1. new = [st EXCEPT !.requests[id] = r, !.chunks[id] = chunk]
      <3>1. r0.pending # None
        BY <1>3, <1>4, <1>7
      <3> HIDE DEF r0, found, lg
      <3> QED
        BY <1>4, <1>6, <3>1
    <2>2. Begun(r, chunk, m) /\ r.reference = old.reference
      BY <1>2, <1>7, ContinueBegun
    <2> HIDE DEF r, chunk
    <2>3. r \in Request /\ chunk \in Seq(Token)
      BY <2>2 DEF Begun, Works, Own
    <2>4. Replaced(new, st, id, r, st.prefixes, chunk, D)
      BY <1>1, <2>1, <2>3, StageFields
    <2>5. /\ new \in Stage(D) /\ new.requests = [st.requests EXCEPT ![id] = r] /\ new.prefixes = st.prefixes
          /\ new.requests[id] = r /\ new.chunks[id] = chunk
          /\ \A i \in D \ {id} : new.requests[i] = st.requests[i] /\ new.chunks[i] = st.chunks[i]
      BY <2>4 DEF Replaced
    <2>6. /\ DOMAIN new.requests = D
          /\ \A key : HoldersOf(st.requests, key) \subseteq HoldersOf(new.requests, key)
      BY <1>1, <2>2, <2>3, <2>5, ReplacedHolders
    <2>7. Held(new.prefixes, new.requests)
      BY <1>1, <2>5, <2>6, HeldStill
    <2> QED
      BY <1>1, <2>2, <2>5, <2>7 DEF Moved, Fine, new
  <1>8. CASE old.status = "queued" /\ ~hit
    <2>1. new = [st EXCEPT !.requests[id] = r0, !.prefixes = pre, !.chunks[id] = r0.prompt]
      <3>1. r0.pending = None
        BY <1>3, <1>4, <1>8
      <3> HIDE DEF r0, found, lg
      <3> QED
        BY <1>6, <1>8, <3>1
    <2>2. Begun(r0, r0.prompt, m) /\ r0.reference = old.reference
      BY <1>2, <1>8, MissBegun
    <2> HIDE DEF r0
    <2>3. r0 \in Request /\ r0.prompt \in Seq(Token)
      BY <2>2 DEF Begun, Works, Own
    <2>4. Replaced(new, st, id, r0, pre, r0.prompt, D)
      BY <1>1, <1>5, <2>1, <2>3, StageFields
    <2>5. /\ new \in Stage(D) /\ new.requests = [st.requests EXCEPT ![id] = r0] /\ new.prefixes = pre
          /\ new.requests[id] = r0 /\ new.chunks[id] = r0.prompt
          /\ \A i \in D \ {id} : new.requests[i] = st.requests[i] /\ new.chunks[i] = st.chunks[i]
      BY <2>4 DEF Replaced
    <2>6. /\ DOMAIN new.requests = D
          /\ \A key : HoldersOf(st.requests, key) \subseteq HoldersOf(new.requests, key)
      BY <1>1, <2>2, <2>3, <2>5, ReplacedHolders
    <2>7. Held(new.prefixes, new.requests)
      BY <1>1, <1>5, <2>5, <2>6, HeldStill
    <2> QED
      BY <1>1, <1>5, <2>2, <2>5, <2>7 DEF Moved, Fine, new
  <1>9. CASE old.status = "queued" /\ hit
    <2> DEFINE key == Key(pre.entries[x])
               tokens == pre.entries[x].tokens
               r == [r0 EXCEPT !.reference = key, !.snapshot = found, !.logits = lg]
               chunk == SubSeq(old.prompt, Len(found) + 1, Len(old.prompt))
               touched == Touch(pre, x)
    <2>1. new = [st EXCEPT !.requests[id] = r, !.prefixes = touched, !.chunks[id] = chunk]
      <3>1. r0.pending = None
        BY <1>3, <1>4, <1>9
      <3>2. SubSeq(r0.prompt, Len(found) + 1, Len(r0.prompt)) = chunk
        BY <1>4
      <3> HIDE DEF r0, found, lg, chunk
      <3> QED
        BY <1>6, <1>9, <3>1, <3>2
    <2>2. x \in DOMAIN pre.entries /\ IsPrefix(tokens, old.prompt)
      <3>1. x \in Hits(pre, r0.prompt)
        <4> HIDE DEF r0
        <4> QED
          BY <1>4, <1>5, <1>9, BestHit DEF hit, x
      <3> QED
        BY <1>4, <3>1 DEF Hits
    <2>3. /\ pre.entries[x] \in Entry /\ EntryTrue(pre.entries[x], m, pre.generation)
          /\ key \in Model \X Seq(Token) /\ key # None
      BY <1>5, <2>2, CacheEntry
    <2>4. tokens \in Seq(Token) /\ Len(tokens) \in 1 .. MaxContext /\ found = Computed(m, tokens)
      BY <2>3 DEF Entry, EntryTrue
    <2> HIDE DEF key, tokens, found
    <2>5. Begun(r, chunk, m) /\ r.reference = key
      <3>1. r = FromPrefix(old, key, found)
        BY <1>4 DEF FromPrefix
      <3>2. chunk = RestOf(old, found)
        BY DEF RestOf
      <3>3. Finds(old, tokens, key, found, m)
        BY <1>2, <1>9, <2>2, <2>3, <2>4 DEF Finds
      <3> HIDE DEF r, chunk, old
      <3> QED
        BY <3>1, <3>2, <3>3, HitBegun
    <2> HIDE DEF r, chunk
    <2>6. r \in Request /\ chunk \in Seq(Token)
      BY <2>5 DEF Begun, Works, Own
    <2>7. CacheOK(touched, m) /\ touched \in Cache
      <3>1. Raised(touched, pre, x, m)
        BY <1>5, <2>2, TouchOK
      <3> QED
        BY <3>1 DEF Raised, CacheOK
    <2> HIDE DEF touched
    <2>8. Replaced(new, st, id, r, touched, chunk, D)
      BY <1>1, <2>1, <2>6, <2>7, StageFields
    <2>9. /\ new \in Stage(D) /\ new.requests = [st.requests EXCEPT ![id] = r] /\ new.prefixes = touched
          /\ new.requests[id] = r /\ new.chunks[id] = chunk
          /\ \A i \in D \ {id} : new.requests[i] = st.requests[i] /\ new.chunks[i] = st.chunks[i]
      BY <2>8 DEF Replaced
    <2>10. DOMAIN st.requests = D /\ Held(pre, st.requests)
      <3>1. DOMAIN st.requests = D /\ \A k : HoldersOf(st.requests, k) \subseteq HoldersOf(st.requests, k)
        BY <1>1
      <3> QED
        BY <1>1, <1>5, <3>1, HeldStill
    <2>11. old.reference = None
      BY <1>2, <1>9 DEF Rests
    <2>12. DOMAIN new.requests = D /\ \A k : k # None => HoldersOf(st.requests, k) \subseteq HoldersOf(new.requests, k)
      <3> SUFFICES ASSUME NEW k, k # None
                   PROVE  DOMAIN new.requests = D /\ HoldersOf(st.requests, k) \subseteq HoldersOf(new.requests, k)
        BY <2>3
      <3>1. /\ DOMAIN new.requests = D
            /\ HoldersOf(st.requests, k) \ {id} \subseteq HoldersOf(new.requests, k)
            /\ id \in HoldersOf(st.requests, k) <=> old.reference = k
        BY <1>1, <2>6, <2>9, ReplacedHolders
      <3> QED
        BY <2>11, <3>1
    <2>13. id \notin HoldersOf(st.requests, key) /\ id \in HoldersOf(new.requests, key)
      <3>1. /\ id \in HoldersOf(st.requests, key) <=> old.reference = key
            /\ id \in HoldersOf(new.requests, key) <=> r.reference = key
        BY <1>1, <2>6, <2>9, ReplacedHolders
      <3> QED
        BY <2>3, <2>5, <2>11, <3>1
    <2>14. Held(touched, new.requests)
      BY <1>5, <2>2, <2>10, <2>12, <2>13, HeldTouched DEF touched, key
    <2> QED
      BY <2>5, <2>7, <2>9, <2>14 DEF Moved, Fine, new
  <1> QED
    BY <1>3, <1>7, <1>8, <1>9

(* The cache after a request let go of what it held. *)
AfterRelease(pre, key) == IF key = None THEN pre ELSE Release(pre, key)

(* Letting go. *)
LEMMA LetsGo ==
    ASSUME NEW m, NEW D, IsFiniteSet(D), NEW pre, CacheOK(pre, m), NEW reqs \in [D -> Request],
           Held(pre, reqs), NEW id \in D, NEW r \in Request, r.reference = None,
           NEW now, now = [reqs EXCEPT ![id] = r]
    PROVE  CacheOK(AfterRelease(pre, reqs[id].reference), m)
           /\ Held(AfterRelease(pre, reqs[id].reference), now)
  <1> DEFINE key == reqs[id].reference
  <1>1. /\ DOMAIN now = D /\ DOMAIN reqs = D
        /\ \A k : /\ HoldersOf(reqs, k) \ {id} \subseteq HoldersOf(now, k)
                  /\ key = r.reference => HoldersOf(reqs, k) \subseteq HoldersOf(now, k)
                  /\ id \in HoldersOf(reqs, k) <=> key = k
    <2>1. DOMAIN now = D /\ DOMAIN reqs = D
      OBVIOUS
    <2>2. ASSUME NEW k
          PROVE  /\ HoldersOf(reqs, k) \ {id} \subseteq HoldersOf(now, k)
                 /\ key = r.reference => HoldersOf(reqs, k) \subseteq HoldersOf(now, k)
                 /\ id \in HoldersOf(reqs, k) <=> key = k
      BY DEF HoldersOf
    <2> QED
      BY <2>1, <2>2
  <1>2. CASE key = None
    <2>1. AfterRelease(pre, key) = pre
      BY <1>2 DEF AfterRelease
    <2>2. \A k : HoldersOf(reqs, k) \subseteq HoldersOf(now, k)
      BY <1>1, <1>2
    <2>3. Held(pre, now)
      BY <1>1, <2>2, HeldStill
    <2> QED
      BY <2>1, <2>3
  <1>3. CASE key # None
    <2>1. AfterRelease(pre, key) = Release(pre, key)
      BY <1>3 DEF AfterRelease
    <2>2. Lowered(Release(pre, key), pre, key, m)
      BY ReleaseOK
    <2>3. CacheOK(Release(pre, key), m)
      BY <2>2 DEF Lowered
    <2> HIDE DEF key
    <2>4. /\ \A k : k # None /\ k # key => HoldersOf(reqs, k) \subseteq HoldersOf(now, k)
          /\ HoldersOf(reqs, key) \ {id} \subseteq HoldersOf(now, key) /\ id \in HoldersOf(reqs, key)
      <3>1. \A k : k # key => id \notin HoldersOf(reqs, k)
        BY <1>1
      <3> QED
        BY <1>1, <3>1
    <2>5. Held(Release(pre, key), now)
      BY <1>1, <2>4, HeldReleased
    <2> QED
      BY <2>1, <2>3, <2>5 DEF key
  <1> QED
    BY <1>2, <1>3

(* The batch has computed a request. *)
LEMMA ComputeOK ==
    ASSUME NEW m \in Model, m = model, NEW D, IsFiniteSet(D), NEW st, Fine(st, D, m), NEW id \in D,
           Begun(st.requests[id], st.chunks[id], m)
    PROVE  Moved(Compute(st, id), st, id, D, m) /\ Ready(Compute(st, id).requests[id], m)
  <1> DEFINE old == st.requests[id]
             chunk == st.chunks[id]
             new == Compute(st, id)
             snap == Past(old) \o Computed(m, chunk)
             r == [old EXCEPT !.reference = None, !.snapshot = snap, !.logits = snap]
             text == TextOf(old)
             bytes == Len(snap) + Len(chunk)
             pre == AfterRelease(st.prefixes, old.reference)
             into == Insert(pre, text, snap, bytes)
  <1>1. /\ st \in Stage(D) /\ CacheOK(st.prefixes, m) /\ Held(st.prefixes, st.requests)
        /\ st.prefixes \in Cache /\ st.requests \in [D -> Request] /\ old \in Request
        /\ chunk \in Seq(Token) /\ Len(chunk) \in Nat
    BY DEF Fine, Stage
  <1>2. CASE chunk = <<>>
    <2>1. new = st
      BY <1>2 DEF Compute
    <2>2. Begun(old, <<>>, m)
      BY <1>2
    <2> HIDE DEF old, new
    <2>3. Ready(old, m)
      BY <2>2, NothingToCompute
    <2> QED
      BY <2>1, <2>3 DEF Moved, new, old
  <1>3. CASE chunk # <<>>
    <2>1. /\ Ready(r, m) /\ r.reference = None
          /\ snap = Computed(m, text) /\ snap \in Seq(Position) /\ Len(snap) \in Nat
          /\ CachedTokens(old, snap) = text
          /\ text \in Seq(Token) /\ Len(text) \in 1 .. MaxContext
      <3>1. Begun(old, chunk, m) /\ snap = Past(old) \o Computed(m, chunk)
            /\ r = [old EXCEPT !.reference = None, !.snapshot = snap, !.logits = snap]
        OBVIOUS
      <3> HIDE DEF old, chunk, snap, r
      <3>2. HasState(r, old, snap, m)
        BY <3>1, ComputeReady
      <3> QED
        BY <3>2 DEF HasState, text
    <2>2. new = [st EXCEPT !.requests[id] = r, !.prefixes = Insert(pre, CachedTokens(old, snap), snap, bytes)]
      BY <1>3 DEF Compute, Past, AfterRelease
    <2>3. new = [st EXCEPT !.requests[id] = r, !.prefixes = into]
      <3> HIDE DEF new, r, snap, bytes, pre
      <3> QED
        BY <2>1, <2>2
    <2>4. r \in Request /\ bytes \in Nat
      <3>1. bytes \in Nat
        <4> HIDE DEF snap, chunk
        <4> QED
          BY <1>1, <2>1
      <3> QED
        BY <2>1, <3>1 DEF Ready, Works, Own
    <2> DEFINE now == [st.requests EXCEPT ![id] = r]
    <2>5. CacheOK(pre, m) /\ Held(pre, now)
      <3>1. now = [st.requests EXCEPT ![id] = r]
        OBVIOUS
      <3> HIDE DEF r, now
      <3> QED
        BY <1>1, <2>1, <2>4, <3>1, LetsGo
    <2> HIDE DEF r, new, snap, text, bytes, pre, now
    <2>6. Renewed(into, pre, m)
      BY <2>1, <2>4, <2>5, InsertOK
    <2>7. CacheOK(into, m) /\ into \in Cache
          /\ \A a \in DOMAIN into.entries :
                \/ into.entries[a].references = 0
                \/ \E i \in DOMAIN pre.entries : into.entries[a] = pre.entries[i]
      BY <2>6 DEF Renewed, CacheOK
    <2> HIDE DEF into
    <2>8. DOMAIN now = D /\ \A k : HoldersOf(now, k) \subseteq HoldersOf(now, k)
      BY <1>1 DEF now
    <2>9. Held(into, now)
      BY <2>5, <2>7, <2>8, HeldStill
    <2>10. Replaced(new, st, id, r, into, chunk, D)
      BY <1>1, <2>3, <2>4, <2>7, StageFields
    <2>11. /\ new \in Stage(D) /\ new.requests = now /\ new.prefixes = into /\ new.requests[id] = r
           /\ \A i \in D \ {id} : new.requests[i] = st.requests[i] /\ new.chunks[i] = st.chunks[i]
      BY <2>10 DEF Replaced, now
    <2> QED
      BY <2>1, <2>7, <2>9, <2>11 DEF Moved, Fine, new
  <1> QED
    BY <1>2, <1>3

(* A token was selected for a request. *)
LEMMA EmitOK ==
    ASSUME NEW m \in Model, NEW D, IsFiniteSet(D), NEW st, Fine(st, D, m), NEW id \in D,
           Ready(st.requests[id], m)
    PROVE  Moved(Emit(st, id), st, id, D, m) /\ Took(Emit(st, id).requests[id], m)
  <1> DEFINE old == st.requests[id]
             new == Emit(st, id)
             r == Advanced(old)
             held == Done(old) /\ old.reference # None
             pre == IF held THEN Release(st.prefixes, old.reference) ELSE st.prefixes
             now == [st.requests EXCEPT ![id] = r]
  <1>1. /\ st \in Stage(D) /\ CacheOK(st.prefixes, m) /\ Held(st.prefixes, st.requests)
        /\ st.prefixes \in Cache /\ st.requests \in [D -> Request] /\ old \in Request
        /\ st.chunks[id] \in Seq(Token)
    BY DEF Fine, Stage
  <1>2. new = [st EXCEPT !.requests[id] = r, !.prefixes = pre]
    BY DEF Emit, Advanced, Done
  <1>3. /\ Took(r, m)
        /\ Done(old) => r.reference = None
        /\ ~Done(old) => r.reference = old.reference
    <2>1. Ready(old, m) /\ r = Advanced(old)
      OBVIOUS
    <2> HIDE DEF old, r
    <2> QED
      BY <2>1, EmitTook
  <1>4. r \in Request
    BY <1>3 DEF Took, Rests, Own
  <1>5. CacheOK(pre, m) /\ Held(pre, now) /\ pre \in Cache
    <2>1. CASE Done(old)
      <3>1. pre = AfterRelease(st.prefixes, old.reference)
        BY <2>1 DEF AfterRelease
      <3>2. r.reference = None /\ now = [st.requests EXCEPT ![id] = r]
        BY <1>3, <2>1
      <3> HIDE DEF r, now, pre
      <3>3. CacheOK(AfterRelease(st.prefixes, old.reference), m)
            /\ Held(AfterRelease(st.prefixes, old.reference), now)
        BY <1>1, <1>4, <3>2, LetsGo
      <3> QED
        BY <3>1, <3>3 DEF CacheOK
    <2>2. CASE ~Done(old)
      <3>1. pre = st.prefixes
        BY <2>2
      <3>2. r.reference = old.reference /\ now = [st.requests EXCEPT ![id] = r]
        BY <1>3, <2>2
      <3> HIDE DEF r, now, pre
      <3>3. DOMAIN now = D /\ \A key : HoldersOf(st.requests, key) \subseteq HoldersOf(now, key)
        <4>1. DOMAIN now = D
          BY <1>1, <3>2
        <4>2. ASSUME NEW key PROVE HoldersOf(st.requests, key) \subseteq HoldersOf(now, key)
          BY <1>1, <1>4, <3>2, ReplacedHolders
        <4> QED
          BY <4>1, <4>2
      <3>4. Held(pre, now)
        BY <1>1, <3>1, <3>3, HeldStill
      <3> QED
        BY <1>1, <3>1, <3>4
    <2> QED
      BY <2>1, <2>2
  <1> HIDE DEF r, pre, new, now
  <1>6. Replaced(new, st, id, r, pre, st.chunks[id], D)
    BY <1>1, <1>2, <1>4, <1>5, StageFields
  <1>7. /\ new \in Stage(D) /\ new.requests = now /\ new.prefixes = pre /\ new.requests[id] = r
        /\ \A i \in D \ {id} : new.requests[i] = st.requests[i] /\ new.chunks[i] = st.chunks[i]
    BY <1>6 DEF Replaced, now
  <1> QED
    BY <1>3, <1>5, <1>7 DEF Moved, Fine, new

-----------------------------------------------------------------------------
(* A whole step *)

(* The copies for one request. *)
At(st, id) == <<st.requests[id], st.chunks[id]>>

(* A stage was run for the first k of the selected requests: their copies are
   in Q and the others are as they were. *)
Swept(new, st, ids, k, Q, D, m) ==
    /\ Fine(new, D, m)
    /\ \A i \in 1 .. k : At(new, ids[i]) \in Q
    /\ \A x \in D : (\A i \in 1 .. k : ids[i] # x) => At(new, x) = At(st, x)

(* A stage that takes the copies of each request from P to Q, run for all of
   them: none of the selected requests disturbs another. *)
LEMMA Along ==
    ASSUME NEW m, NEW D, NEW n \in Nat, NEW ids \in [1 .. n -> D],
           \A i, j \in 1 .. n : ids[i] = ids[j] => i = j,
           NEW P, NEW Q, NEW run, Fine(run[0], D, m),
           \A i \in 1 .. n : At(run[0], ids[i]) \in P,
           \A i \in 1 .. n : Fine(run[i - 1], D, m) /\ At(run[i - 1], ids[i]) \in P =>
               Moved(run[i], run[i - 1], ids[i], D, m) /\ At(run[i], ids[i]) \in Q
    PROVE  Swept(run[n], run[0], ids, n, Q, D, m)
  <1> DEFINE G == {k \in Nat : k <= n => Swept(run[k], run[0], ids, k, Q, D, m)}
  <1>1. 0 \in G
    <2>1. 1 .. 0 = {}
      OBVIOUS
    <2>2. Swept(run[0], run[0], ids, 0, Q, D, m)
      BY <2>1 DEF Swept
    <2> QED
      BY <2>2
  <1>2. ASSUME NEW k \in Nat, k \in G PROVE k + 1 \in G
    <2> SUFFICES ASSUME k + 1 <= n PROVE Swept(run[k + 1], run[0], ids, k + 1, Q, D, m)
      OBVIOUS
    <2> DEFINE j == k + 1
               x == ids[j]
    <2>1. /\ k <= n /\ j \in 1 .. n /\ j - 1 = k /\ x \in D /\ j \in 1 .. j
          /\ \A i \in 1 .. k : i \in 1 .. n /\ i # j /\ i \in 1 .. j
          /\ \A i \in 1 .. j : i \in 1 .. k \/ i = j
      OBVIOUS
    <2>2. Swept(run[k], run[0], ids, k, Q, D, m)
      BY <1>2, <2>1
    <2>3. \A i \in 1 .. k : ids[i] # x /\ ids[i] \in D
      BY <2>1
    <2> HIDE DEF j, x
    <2>4. Fine(run[k], D, m) /\ At(run[k], x) \in P
      <3>1. At(run[k], x) = At(run[0], x)
        BY <2>1, <2>2, <2>3 DEF Swept
      <3>2. At(run[0], x) \in P
        BY <2>1 DEF x
      <3> QED
        BY <2>2, <3>1, <3>2 DEF Swept
    <2>5. Moved(run[j], run[k], x, D, m) /\ At(run[j], x) \in Q
      BY <2>1, <2>4 DEF x
    <2>6. \A y \in D : y # x => At(run[j], y) = At(run[k], y)
      BY <2>5 DEF Moved, At
    <2>7. \A i \in 1 .. j : At(run[j], ids[i]) \in Q
      <3> SUFFICES ASSUME NEW i \in 1 .. j PROVE At(run[j], ids[i]) \in Q
        OBVIOUS
      <3>1. CASE i \in 1 .. k
        BY <2>2, <2>3, <2>6, <3>1 DEF Swept
      <3>2. CASE i = j
        BY <2>5, <3>2 DEF x
      <3> QED
        BY <2>1, <3>1, <3>2
    <2>8. ASSUME NEW y \in D, \A i \in 1 .. j : ids[i] # y PROVE At(run[j], y) = At(run[0], y)
      <3>1. y # x /\ \A i \in 1 .. k : ids[i] # y
        BY <2>1, <2>8 DEF x
      <3> QED
        BY <2>2, <2>6, <3>1 DEF Swept
    <2>9. Fine(run[j], D, m)
      BY <2>5 DEF Moved
    <2>10. Swept(run[j], run[0], ids, j, Q, D, m)
      BY <2>7, <2>8, <2>9 DEF Swept
    <2> QED
      BY <2>10 DEF j
  <1> HIDE DEF G
  <1>3. n \in G
    BY <1>1, <1>2, CountUp
  <1> QED
    BY <1>3 DEF G

(* The copies of requests before, between and after the stages. *)
Opens(m) == {q \in Request \X Seq(Token) : Open(q[1], m)}
Begins(m) == {q \in Request \X Seq(Token) : Begun(q[1], q[2], m)}
Readies(m) == {q \in Request \X Seq(Token) : Ready(q[1], m)}
Takes(m) == {q \in Request \X Seq(Token) : Took(q[1], m)}

(* The copies of a request are of their types. *)
LEMMA AtTypes ==
    ASSUME NEW D, NEW m, NEW st, Fine(st, D, m), NEW id \in D
    PROVE  /\ At(st, id) \in Request \X Seq(Token)
           /\ At(st, id)[1] = st.requests[id] /\ At(st, id)[2] = st.chunks[id]
  BY DEF Fine, Stage, At

(* The batch that is selected. *)
Batch(ids, n, D) ==
    /\ n \in Nat /\ ids \in Seq(D) /\ Len(ids) = n /\ ids \in [1 .. n -> D] /\ DOMAIN ids = 1 .. n
    /\ \A i, j \in 1 .. n : ids[i] = ids[j] => i = j

(* All requests of a batch are begun. *)
LEMMA AllBegun ==
    ASSUME NEW m \in Model, NEW D, IsFiniteSet(D), NEW ids, NEW n, Batch(ids, n, D),
           NEW st, Fine(st, D, m), \A i \in 1 .. n : At(st, ids[i]) \in Opens(m)
    PROVE  Swept(FoldLeft(Begin, st, ids), st, ids, n, Begins(m), D, m)
  <1>1. n \in Nat /\ ids \in [1 .. n -> D] /\ DOMAIN ids = 1 .. n
        /\ \A i, j \in 1 .. n : ids[i] = ids[j] => i = j
    BY DEF Batch
  <1>2. PICK run : BeginRun(run, n, st, ids) /\ FoldLeft(Begin, st, ids) = run[n]
    BY <1>1, BeginRuns
  <1>3. run[0] = st /\ \A i \in 1 .. n : run[i] = Begin(run[i - 1], ids[i])
    BY <1>2 DEF BeginRun
  <1>4. ASSUME NEW i \in 1 .. n, Fine(run[i - 1], D, m), At(run[i - 1], ids[i]) \in Opens(m)
        PROVE  Moved(run[i], run[i - 1], ids[i], D, m) /\ At(run[i], ids[i]) \in Begins(m)
    <2> DEFINE pr == run[i - 1]
               id == ids[i]
               new == Begin(pr, id)
    <2>1. id \in D /\ run[i] = new
      BY <1>1, <1>3
    <2>2. Fine(pr, D, m) /\ At(pr, id) \in Opens(m)
      BY <1>4
    <2> HIDE DEF pr, id, new
    <2>3. Open(pr.requests[id], m)
      BY <2>1, <2>2, AtTypes DEF Opens
    <2>4. Moved(new, pr, id, D, m) /\ Begun(new.requests[id], new.chunks[id], m)
      BY <2>1, <2>2, <2>3, BeginOK DEF new
    <2>5. Fine(new, D, m)
      BY <2>4 DEF Moved
    <2>6. At(new, id) \in Begins(m)
      BY <2>1, <2>4, <2>5, AtTypes DEF Begins
    <2> QED
      BY <2>1, <2>4, <2>6 DEF pr, id
  <1>5. Swept(run[n], run[0], ids, n, Begins(m), D, m)
    BY <1>1, <1>3, <1>4, Along
  <1> QED
    BY <1>2, <1>3, <1>5

(* All of them are computed. *)
LEMMA AllComputed ==
    ASSUME NEW m \in Model, m = model, NEW D, IsFiniteSet(D), NEW ids, NEW n, Batch(ids, n, D),
           NEW st, Fine(st, D, m), \A i \in 1 .. n : At(st, ids[i]) \in Begins(m)
    PROVE  Swept(FoldLeft(Compute, st, ids), st, ids, n, Readies(m), D, m)
  <1>1. n \in Nat /\ ids \in [1 .. n -> D] /\ DOMAIN ids = 1 .. n
        /\ \A i, j \in 1 .. n : ids[i] = ids[j] => i = j
    BY DEF Batch
  <1>2. PICK run : ComputeRun(run, n, st, ids) /\ FoldLeft(Compute, st, ids) = run[n]
    BY <1>1, ComputeRuns
  <1>3. run[0] = st /\ \A i \in 1 .. n : run[i] = Compute(run[i - 1], ids[i])
    BY <1>2 DEF ComputeRun
  <1>4. ASSUME NEW i \in 1 .. n, Fine(run[i - 1], D, m), At(run[i - 1], ids[i]) \in Begins(m)
        PROVE  Moved(run[i], run[i - 1], ids[i], D, m) /\ At(run[i], ids[i]) \in Readies(m)
    <2> DEFINE pr == run[i - 1]
               id == ids[i]
               new == Compute(pr, id)
    <2>1. id \in D /\ run[i] = new
      BY <1>1, <1>3
    <2>2. Fine(pr, D, m) /\ At(pr, id) \in Begins(m)
      BY <1>4
    <2> HIDE DEF pr, id, new
    <2>3. Begun(pr.requests[id], pr.chunks[id], m)
      BY <2>1, <2>2, AtTypes DEF Begins
    <2>4. Moved(new, pr, id, D, m) /\ Ready(new.requests[id], m)
      BY <2>1, <2>2, <2>3, ComputeOK DEF new
    <2>5. Fine(new, D, m)
      BY <2>4 DEF Moved
    <2>6. At(new, id) \in Readies(m)
      BY <2>1, <2>4, <2>5, AtTypes DEF Readies
    <2> QED
      BY <2>1, <2>4, <2>6 DEF pr, id
  <1>5. Swept(run[n], run[0], ids, n, Readies(m), D, m)
    BY <1>1, <1>3, <1>4, Along
  <1> QED
    BY <1>2, <1>3, <1>5

(* All of them have a token more. *)
LEMMA AllTook ==
    ASSUME NEW m \in Model, NEW D, IsFiniteSet(D), NEW ids, NEW n, Batch(ids, n, D),
           NEW st, Fine(st, D, m), \A i \in 1 .. n : At(st, ids[i]) \in Readies(m)
    PROVE  Swept(FoldLeft(Emit, st, ids), st, ids, n, Takes(m), D, m)
  <1>1. n \in Nat /\ ids \in [1 .. n -> D] /\ DOMAIN ids = 1 .. n
        /\ \A i, j \in 1 .. n : ids[i] = ids[j] => i = j
    BY DEF Batch
  <1>2. PICK run : EmitRun(run, n, st, ids) /\ FoldLeft(Emit, st, ids) = run[n]
    BY <1>1, EmitRuns
  <1>3. run[0] = st /\ \A i \in 1 .. n : run[i] = Emit(run[i - 1], ids[i])
    BY <1>2 DEF EmitRun
  <1>4. ASSUME NEW i \in 1 .. n, Fine(run[i - 1], D, m), At(run[i - 1], ids[i]) \in Readies(m)
        PROVE  Moved(run[i], run[i - 1], ids[i], D, m) /\ At(run[i], ids[i]) \in Takes(m)
    <2> DEFINE pr == run[i - 1]
               id == ids[i]
               new == Emit(pr, id)
    <2>1. id \in D /\ run[i] = new
      BY <1>1, <1>3
    <2>2. Fine(pr, D, m) /\ At(pr, id) \in Readies(m)
      BY <1>4
    <2> HIDE DEF pr, id, new
    <2>3. Ready(pr.requests[id], m)
      BY <2>1, <2>2, AtTypes DEF Readies
    <2>4. Moved(new, pr, id, D, m) /\ Took(new.requests[id], m)
      BY <2>1, <2>2, <2>3, EmitOK DEF new
    <2>5. Fine(new, D, m)
      BY <2>4 DEF Moved
    <2>6. At(new, id) \in Takes(m)
      BY <2>1, <2>4, <2>5, AtTypes DEF Takes
    <2> QED
      BY <2>1, <2>4, <2>6 DEF pr, id
  <1>5. Swept(run[n], run[0], ids, n, Takes(m), D, m)
    BY <1>1, <1>3, <1>4, Along
  <1> QED
    BY <1>2, <1>3, <1>5

(* The smaller of two numbers. *)
LEMMA MinOfTwo ==
    ASSUME NEW a \in Nat, NEW b \in Nat
    PROVE  Min({a, b}) \in {a, b} /\ Min({a, b}) <= a /\ Min({a, b}) <= b
  <1>1. \E x \in {a, b} : \A y \in {a, b} : x <= y
    OBVIOUS
  <1> QED
    BY <1>1 DEF Min

(* What is smaller is another. *)
LEMMA OrderedDiffer == ASSUME NEW a \in Nat, NEW b, a < b, b = a PROVE FALSE
  OBVIOUS

(* The requests of a batch are unfinished, and they are the first of those. *)
Picks(ids, n) ==
    /\ Batch(ids, n, DOMAIN requests)
    /\ \A k \in 1 .. n : ids[k] \in Pending
    /\ \A i, j \in DOMAIN order :
         /\ i < j /\ order[i] \in Pending
         /\ \E k \in 1 .. n : ids[k] = order[j]
         => \E k \in 1 .. n : ids[k] = order[i]

(* Selection takes the first unfinished requests. *)
LEMMA SelectedPicks ==
    ASSUME InOrder, DOMAIN requests \subseteq Nat
    PROVE  Picks(Selected, Len(Selected))
  <1> DEFINE D == DOMAIN requests
             open == Retain(order, Pending)
             c == Min({BatchSize, Len(open)})
             N == Len(order)
             M == Len(open)
  <1>1. /\ order \in Seq(D) /\ N \in Nat /\ DOMAIN order = 1 .. N
        /\ \A i, j \in 1 .. N : i < j => order[i] < order[j]
        /\ \A i \in 1 .. N : order[i] \in Nat
    BY DEF InOrder
  <1>2. open \in Seq(D) /\ \E place : LeftOf(open, place, order, N, Pending)
    BY <1>1, RetainLeft
  <1>3. Selected = SubSeq(open, 1, c)
    BY DEF Selected
  <1> HIDE DEF open
  <1>4. PICK place : LeftOf(open, place, order, N, Pending)
    BY <1>2
  <1>5. /\ place \in [1 .. M -> 1 .. N] /\ M \in Nat
        /\ \A a, b \in 1 .. M : a < b => place[a] < place[b]
        /\ \A a \in 1 .. M : open[a] = order[place[a]] /\ open[a] \in Pending
        /\ \A i \in 1 .. N : order[i] \in Pending => \E a \in 1 .. M : place[a] = i
    BY <1>2, <1>4 DEF LeftOf
  <1>6. c \in Nat /\ c <= M
    BY <1>5, MinOfTwo, ConfigAssumption
  <1> DEFINE s == SubSeq(open, 1, c)
  <1> HIDE DEF c, M
  <1>7. s \in Seq(D) /\ Len(s) = c /\ \A k \in 1 .. c : s[k] = open[k] /\ k \in 1 .. M
    BY <1>2, <1>5, <1>6 DEF M
  <1> HIDE DEF s
  <1>8. s \in [1 .. c -> D] /\ DOMAIN s = 1 .. c
    BY <1>7
  <1>9. ASSUME NEW i \in 1 .. c, NEW j \in 1 .. c, i < j PROVE s[i] # s[j]
    <2>1. i \in 1 .. M /\ j \in 1 .. M /\ s[i] = open[i] /\ s[j] = open[j]
      BY <1>7
    <2>2. place[i] < place[j] /\ place[i] \in 1 .. N /\ place[j] \in 1 .. N
      BY <1>5, <1>9, <2>1
    <2>3. order[place[i]] < order[place[j]]
      BY <1>1, <2>2
    <2>4. s[i] < s[j] /\ s[i] \in Nat
      BY <1>1, <1>5, <2>1, <2>2, <2>3
    <2> QED
      BY <2>4, OrderedDiffer
  <1>10. \A i, j \in 1 .. c : s[i] = s[j] => i = j
    <2>1. \A i, j \in 1 .. c : i = j \/ i < j \/ j < i
      BY <1>6
    <2> QED
      BY <1>9, <2>1
  <1>11. \A k \in 1 .. c : s[k] \in Pending
    BY <1>5, <1>7
  <1>12. ASSUME NEW i \in 1 .. N, NEW j \in 1 .. N, i < j, order[i] \in Pending,
                NEW k \in 1 .. c, s[k] = order[j]
         PROVE  \E h \in 1 .. c : s[h] = order[i]
    <2>1. k \in 1 .. M /\ place[k] \in 1 .. N /\ order[place[k]] = order[j]
      BY <1>5, <1>7, <1>12
    <2>2. place[k] = j
      <3> DEFINE b == place[k]
      <3>1. b \in 1 .. N /\ order[b] = order[j]
        BY <2>1
      <3> HIDE DEF b
      <3>2. CASE b < j
        <4>1. order[b] < order[j] /\ order[b] = order[j] /\ order[b] \in Nat
          BY <1>1, <3>1, <3>2
        <4> QED
          BY <4>1, OrderedDiffer
      <3>3. CASE j < b
        <4>1. order[j] < order[b] /\ order[b] = order[j] /\ order[j] \in Nat
          BY <1>1, <3>1, <3>3
        <4> QED
          BY <4>1, OrderedDiffer
      <3> QED
        BY <3>1, <3>2, <3>3 DEF b
    <2>3. PICK a \in 1 .. M : place[a] = i
      BY <1>5, <1>12
    <2>4. a \in 1 .. c
      <3>1. a < k
        <4> SUFFICES ASSUME k <= a PROVE FALSE
          BY <1>5, <2>1
        <4>1. k = a \/ place[k] < place[a]
          BY <1>5, <2>1
        <4> QED
          BY <1>12, <2>2, <2>3, <4>1
      <3> QED
        BY <1>6, <3>1
    <2>5. s[a] = order[i]
      BY <1>5, <1>7, <2>3, <2>4
    <2> QED
      BY <2>4, <2>5
  <1>13. Batch(s, c, D)
    BY <1>6, <1>7, <1>8, <1>10 DEF Batch
  <1>14. Picks(s, c)
    BY <1>1, <1>11, <1>12, <1>13 DEF Picks
  <1> QED
    BY <1>3, <1>7, <1>14 DEF s

(* What is staged is in order. *)
LEMMA StagedFine ==
    ASSUME ServingInv
    PROVE  Fine(Staged, DOMAIN requests, model) /\ IsFiniteSet(DOMAIN requests)
  <1> DEFINE D == DOMAIN requests
  <1>1. /\ D \subseteq 0 .. next - 1 /\ next \in Nat /\ requests \in [D -> Request]
        /\ CacheOK(prefixes, model) /\ Held(prefixes, requests) /\ prefixes \in Cache
    BY DEF ServingInv, CacheOK
  <1>2. IsFiniteSet(D)
    <2>1. IsFiniteSet(0 .. next - 1)
      <3>1. 0 \in Int /\ next - 1 \in Int
        BY <1>1
      <3> QED
        BY <3>1, FS_Interval
    <2> QED
      BY <1>1, <2>1, FS_Subset
  <1>3. <<>> \in Seq(Token)
    OBVIOUS
  <1>4. Staged \in Stage(D) /\ Staged.requests = requests /\ Staged.prefixes = prefixes
    BY <1>1, <1>3 DEF Staged, Stage
  <1> QED
    BY <1>1, <1>2, <1>4 DEF Fine

(* What a step changes: every selected request has a token more, no other is
   touched, and the cache is in order. *)
StepDone(new, ids, n, D) ==
    /\ Fine(new, D, model)
    /\ \A i \in 1 .. n : Took(new.requests[ids[i]], model)
    /\ \A x \in D : (\A i \in 1 .. n : ids[i] # x) => new.requests[x] = requests[x]

(* The three stages of a step. *)
LEMMA StepStages ==
    ASSUME ServingInv
    PROVE  StepDone(Stepped, Selected, Len(Selected), DOMAIN requests)
  <1> DEFINE D == DOMAIN requests
             ids == Selected
             n == Len(ids)
             m == model
             S0 == Staged
             S1 == FoldLeft(Begin, S0, ids)
             S2 == FoldLeft(Compute, S1, ids)
             S3 == FoldLeft(Emit, S2, ids)
  <1>1. m \in Model /\ InOrder
    BY DEF ServingInv
  <1>2. Picks(ids, n)
    <2>1. D \subseteq Nat
      BY DEF ServingInv
    <2> QED
      BY <1>1, <2>1, SelectedPicks
  <1>3. Batch(ids, n, D) /\ \A i \in 1 .. n : ids[i] \in D /\ ids[i] \in Pending
    BY <1>2 DEF Picks, Pending
  <1>4. Fine(S0, D, m) /\ IsFiniteSet(D) /\ S0.requests = requests
    BY StagedFine DEF Staged
  <1>5. Stepped = S3
    BY DEF Stepped
  <1> HIDE DEF ids, n, S0, S1, S2, S3
  <1>6. \A i \in 1 .. n : At(S0, ids[i]) \in Opens(m)
    <2> SUFFICES ASSUME NEW i \in 1 .. n PROVE At(S0, ids[i]) \in Opens(m)
      OBVIOUS
    <2>1. Open(requests[ids[i]], m)
      BY <1>3 DEF ServingInv, Pending, Open
    <2> QED
      BY <1>3, <1>4, <2>1, AtTypes DEF Opens
  <1>7. Swept(S1, S0, ids, n, Begins(m), D, m)
    BY <1>1, <1>3, <1>4, <1>6, AllBegun DEF S1
  <1>8. Fine(S1, D, m) /\ \A i \in 1 .. n : At(S1, ids[i]) \in Begins(m)
    BY <1>7 DEF Swept
  <1>9. Swept(S2, S1, ids, n, Readies(m), D, m)
    BY <1>1, <1>3, <1>4, <1>8, AllComputed DEF S2
  <1>10. Fine(S2, D, m) /\ \A i \in 1 .. n : At(S2, ids[i]) \in Readies(m)
    BY <1>9 DEF Swept
  <1>11. Swept(S3, S2, ids, n, Takes(m), D, m)
    BY <1>1, <1>3, <1>4, <1>10, AllTook DEF S3
  <1>12. Fine(S3, D, m)
    BY <1>11 DEF Swept
  <1>13. ASSUME NEW i \in 1 .. n PROVE Took(S3.requests[ids[i]], m)
    <2>1. At(S3, ids[i]) \in Takes(m)
      BY <1>11 DEF Swept
    <2> QED
      BY <1>3, <1>12, <2>1, AtTypes DEF Takes
  <1>14. ASSUME NEW x \in D, \A i \in 1 .. n : ids[i] # x PROVE S3.requests[x] = requests[x]
    <2>1. At(S3, x) = At(S2, x) /\ At(S2, x) = At(S1, x) /\ At(S1, x) = At(S0, x)
      BY <1>7, <1>9, <1>11, <1>14 DEF Swept
    <2> QED
      BY <1>4, <1>12, <2>1, AtTypes
  <1> QED
    BY <1>5, <1>12, <1>13, <1>14 DEF StepDone, ids, n

-----------------------------------------------------------------------------
(* The steps of the scheduler keep the invariant *)

(* The parts of the invariant. *)
LEMMA InvParts ==
    ASSUME ServingInv
    PROVE  /\ model \in Model /\ next \in Nat /\ DOMAIN requests \subseteq 0 .. next - 1
           /\ DOMAIN requests \subseteq Nat /\ IsFiniteSet(DOMAIN requests)
           /\ requests \in [DOMAIN requests -> Request]
           /\ CacheOK(prefixes, model) /\ Held(prefixes, requests) /\ InOrder /\ NoOvertaking
           /\ order \in Seq(DOMAIN requests) /\ Len(order) \in Nat /\ DOMAIN order = 1 .. Len(order)
           /\ \A i \in DOMAIN order : order[i] \in DOMAIN requests
           /\ \A i, j \in DOMAIN order : i < j => order[i] < order[j]
  <1>1. /\ model \in Model /\ next \in Nat /\ DOMAIN requests \subseteq 0 .. next - 1
        /\ requests \in [DOMAIN requests -> Request]
        /\ CacheOK(prefixes, model) /\ Held(prefixes, requests) /\ InOrder /\ NoOvertaking
    BY DEF ServingInv
  <1>2. IsFiniteSet(DOMAIN requests)
    BY StagedFine
  <1>3. DOMAIN requests \subseteq Nat
    BY <1>1
  <1>4. order \in Seq(DOMAIN requests) /\ \A i, j \in DOMAIN order : i < j => order[i] < order[j]
    BY <1>1 DEF InOrder
  <1>5. Len(order) \in Nat /\ DOMAIN order = 1 .. Len(order)
        /\ \A i \in DOMAIN order : order[i] \in DOMAIN requests
    BY <1>4
  <1> QED
    BY <1>1, <1>2, <1>3, <1>4, <1>5

(* A step. *)
LEMMA StepKeeps ==
    ASSUME ServingInv, Step
    PROVE  ServingInv'
  <1> DEFINE D == DOMAIN requests
             ids == Selected
             n == Len(ids)
  <1>1. /\ requests' = Stepped.requests /\ prefixes' = Stepped.prefixes
        /\ UNCHANGED <<model, next, order>>
    BY DEF Step
  <1>2. /\ model \in Model /\ next \in Nat /\ D \subseteq 0 .. next - 1 /\ D \subseteq Nat
        /\ InOrder /\ NoOvertaking /\ \A i \in DOMAIN order : order[i] \in D
    BY InvParts
  <1>3. StepDone(Stepped, ids, n, D)
    BY StepStages
  <1>4. Picks(ids, n)
    BY <1>2, SelectedPicks
  <1> HIDE DEF ids, n
  <1>5. /\ Fine(Stepped, D, model)
        /\ \A i \in 1 .. n : Took(requests'[ids[i]], model)
        /\ \A x \in D : (\A i \in 1 .. n : ids[i] # x) => requests'[x] = requests[x]
    BY <1>1, <1>3 DEF StepDone
  <1>6. /\ requests' \in [D -> Request] /\ DOMAIN requests' = D
        /\ CacheOK(prefixes', model) /\ Held(prefixes', requests')
    BY <1>1, <1>5 DEF Fine, Stage
  <1>7. ASSUME NEW x \in D
        PROVE  Rests(requests'[x]) /\ (requests'[x].status # "complete" => requests'[x].by = model)
    <2>1. CASE \E i \in 1 .. n : ids[i] = x
      BY <1>5, <2>1 DEF Took
    <2>2. CASE \A i \in 1 .. n : ids[i] # x
      <3>1. requests'[x] = requests[x]
        BY <1>5, <2>2
      <3> QED
        BY <3>1 DEF ServingInv
    <2> QED
      BY <2>1, <2>2
  <1>8. InOrder'
    BY <1>1, <1>2, <1>6 DEF InOrder
  <1>9. NoOvertaking'
    <2> SUFFICES ASSUME NEW i \in DOMAIN order, NEW j \in DOMAIN order, i < j,
                        requests'[order[i]].status = "queued"
                 PROVE  requests'[order[j]].generated = <<>>
      BY <1>1 DEF NoOvertaking
    <2> DEFINE x == order[i]
               y == order[j]
    <2>1. x \in D /\ y \in D
      BY <1>2
    <2>2. \A k \in 1 .. n : ids[k] # x
      BY <1>5 DEF Took
    <2>3. requests'[x] = requests[x] /\ requests[x].status = "queued" /\ x \in Pending
      BY <1>5, <2>1, <2>2 DEF Pending
    <2>4. \A k \in 1 .. n : ids[k] # y
      BY <1>4, <2>2, <2>3 DEF Picks
    <2>5. requests'[y] = requests[y] /\ requests[y].generated = <<>>
      BY <1>2, <1>5, <2>1, <2>3, <2>4 DEF NoOvertaking
    <2> QED
      BY <2>5
  <1> QED
    BY <1>1, <1>2, <1>6, <1>7, <1>8, <1>9 DEF ServingInv

(* A request that was just submitted. *)
LEMMA SubmitRests ==
    ASSUME NEW m \in Model, NEW prompt \in Prompt, NEW max \in MaxNew, ValidRequest(prompt, max),
           NEW r, r = [prompt |-> prompt, max |-> max, by |-> m,
                       status |-> IF max = 0 THEN "complete" ELSE "queued",
                       generated |-> <<>>, stopped |-> FALSE, snapshot |-> None,
                       reference |-> None, logits |-> None, pending |-> None]
    PROVE  Rests(r) /\ r.by = m /\ r.generated = <<>>
  <1>1. prompt \in Seq(Token) /\ max \in Nat /\ <<>> \in Seq(Token)
    BY TokenAssumption
  <1>2. prompt # <<>> /\ Len(prompt) + max <= MaxContext
    BY DEF ValidRequest
  <1>3. /\ r \in Request /\ r.prompt = prompt /\ r.max = max /\ r.by = m /\ r.generated = <<>>
        /\ r.status = (IF max = 0 THEN "complete" ELSE "queued")
        /\ r.snapshot = None /\ r.reference = None /\ r.pending = None
    BY <1>1 DEF Request
  <1>4. DOMAIN r.generated = {} /\ Len(r.generated) = 0
    BY <1>3
  <1>5. Own(r)
    BY <1>2, <1>3, <1>4 DEF Own
  <1>6. max # 0 => r.max > 0
    BY <1>1, <1>3
  <1> QED
    BY <1>3, <1>4, <1>5, <1>6 DEF Rests

(* A submission. *)
LEMMA SubmitKeeps ==
    ASSUME ServingInv, NEW prompt \in Prompt, NEW max \in MaxNew, SubmitIds(prompt, max)
    PROVE  ServingInv'
  <1> DEFINE D == DOMAIN requests
             E == D \cup {next}
             r == [prompt |-> prompt, max |-> max, by |-> model,
                   status |-> IF max = 0 THEN "complete" ELSE "queued",
                   generated |-> <<>>, stopped |-> FALSE, snapshot |-> None,
                   reference |-> None, logits |-> None, pending |-> None]
             N == Len(order)
  <1>1. /\ ValidRequest(prompt, max) /\ next' = next + 1 /\ order' = Append(order, next)
        /\ requests' = [id \in E |-> IF id # next THEN requests[id] ELSE r]
        /\ UNCHANGED <<model, prefixes>>
    BY DEF SubmitIds
  <1>2. /\ model \in Model /\ next \in Nat /\ D \subseteq 0 .. next - 1 /\ D \subseteq Nat
        /\ IsFiniteSet(D) /\ requests \in [D -> Request]
        /\ CacheOK(prefixes, model) /\ Held(prefixes, requests) /\ NoOvertaking
        /\ order \in Seq(D) /\ N \in Nat /\ DOMAIN order = 1 .. N
        /\ \A i \in DOMAIN order : order[i] \in D
        /\ \A i, j \in DOMAIN order : i < j => order[i] < order[j]
    BY InvParts
  <1>3. Rests(r) /\ r.by = model /\ r.generated = <<>>
    <2>1. r = [prompt |-> prompt, max |-> max, by |-> model,
               status |-> IF max = 0 THEN "complete" ELSE "queued",
               generated |-> <<>>, stopped |-> FALSE, snapshot |-> None,
               reference |-> None, logits |-> None, pending |-> None]
      OBVIOUS
    <2> HIDE DEF r
    <2> QED
      BY <1>1, <1>2, <2>1, SubmitRests
  <1> HIDE DEF r
  <1>4. next \notin D /\ \A x \in D : x # next /\ x < next
    BY <1>2
  <1>5. r \in Request
    BY <1>3 DEF Rests, Own
  <1>6. /\ DOMAIN requests' = E /\ requests' \in [E -> Request] /\ requests'[next] = r
        /\ \A x \in D : requests'[x] = requests[x]
    BY <1>1, <1>2, <1>4, <1>5
  <1>7. E \subseteq 0 .. next' - 1 /\ next' \in Nat
    BY <1>1, <1>2
  <1>8. ASSUME NEW x \in E
        PROVE  Rests(requests'[x]) /\ (requests'[x].status # "complete" => requests'[x].by = model)
    <2>1. CASE x \in D
      BY <1>6, <2>1 DEF ServingInv
    <2>2. CASE x = next
      BY <1>3, <1>6, <2>2
    <2> QED
      BY <2>1, <2>2
  <1>9. Held(prefixes, requests')
    <2>1. IsFiniteSet(E)
      BY <1>2, FS_AddElement
    <2>2. \A k : HoldersOf(requests, k) \subseteq HoldersOf(requests', k)
      BY <1>6 DEF HoldersOf
    <2> QED
      BY <1>2, <1>6, <2>1, <2>2, HeldStill
  <1>10. /\ order' \in Seq(E) /\ Len(order') = N + 1 /\ DOMAIN order' = 1 .. N + 1
         /\ order'[N + 1] = next /\ \A i \in 1 .. N : order'[i] = order[i]
    <2>1. order \in Seq(E) /\ next \in E
      BY <1>2
    <2> QED
      BY <1>1, <1>2, <2>1
  <1>11. \A i, j \in 1 .. N + 1 : i < j => i \in 1 .. N /\ (j \in 1 .. N \/ j = N + 1)
    BY <1>2
  <1>12. InOrder'
    <2>1. ASSUME NEW i \in 1 .. N + 1, NEW j \in 1 .. N + 1, i < j PROVE order'[i] < order'[j]
      <3>1. CASE j \in 1 .. N
        BY <1>2, <1>10, <1>11, <2>1, <3>1
      <3>2. CASE j = N + 1
        <4>1. i \in 1 .. N /\ order[i] \in D
          BY <1>2, <1>11, <2>1
        <4> QED
          BY <1>4, <1>10, <3>2, <4>1
      <3> QED
        BY <1>11, <2>1, <3>1, <3>2
    <2> QED
      BY <1>6, <1>10, <2>1 DEF InOrder
  <1>13. NoOvertaking'
    <2>1. ASSUME NEW i \in 1 .. N + 1, NEW j \in 1 .. N + 1, i < j,
                 requests'[order'[i]].status = "queued"
          PROVE  requests'[order'[j]].generated = <<>>
      <3>1. i \in 1 .. N /\ order'[i] = order[i] /\ order[i] \in D /\ requests'[order[i]] = requests[order[i]]
        BY <1>2, <1>6, <1>10, <1>11, <2>1
      <3>2. CASE j \in 1 .. N
        <4>1. order'[j] = order[j] /\ order[j] \in D /\ requests'[order[j]] = requests[order[j]]
          BY <1>2, <1>6, <1>10, <3>2
        <4> QED
          BY <1>2, <2>1, <3>1, <3>2, <4>1 DEF NoOvertaking
      <3>3. CASE j = N + 1
        BY <1>3, <1>6, <1>10, <3>3
      <3> QED
        BY <1>11, <2>1, <3>2, <3>3
    <2> QED
      BY <1>10, <2>1 DEF NoOvertaking
  <1> QED
    BY <1>1, <1>2, <1>6, <1>7, <1>8, <1>9, <1>12, <1>13 DEF ServingInv

(* A removal: what the request held is let go. *)
LEMMA RemoveKeeps ==
    ASSUME ServingInv, NEW id, RemoveRequest(id)
    PROVE  ServingInv'
  <1> DEFINE D == DOMAIN requests
             E == D \ {id}
             key == requests[id].reference
             t == Retain(order, E)
             N == Len(order)
             M == Len(t)
  <1>1. /\ id \in D /\ requests' = [i \in E |-> requests[i]] /\ order' = t
        /\ prefixes' = Unhold(requests[id]) /\ UNCHANGED <<model, next>>
    BY DEF RemoveRequest
  <1>2. /\ model \in Model /\ next \in Nat /\ D \subseteq 0 .. next - 1 /\ D \subseteq Nat
        /\ IsFiniteSet(D) /\ requests \in [D -> Request]
        /\ CacheOK(prefixes, model) /\ Held(prefixes, requests) /\ NoOvertaking
        /\ order \in Seq(D) /\ N \in Nat /\ DOMAIN order = 1 .. N
        /\ \A i \in DOMAIN order : order[i] \in D
        /\ \A i, j \in DOMAIN order : i < j => order[i] < order[j]
    BY InvParts
  <1>3. t \in Seq(D) /\ \E place : LeftOf(t, place, order, N, E)
    BY <1>2, RetainLeft
  <1> HIDE DEF t
  <1>4. PICK place : LeftOf(t, place, order, N, E)
    BY <1>3
  <1>5. /\ M \in Nat /\ place \in [1 .. M -> 1 .. N] /\ DOMAIN t = 1 .. M
        /\ \A a, b \in 1 .. M : a < b => place[a] < place[b]
        /\ \A a \in 1 .. M : t[a] = order[place[a]] /\ t[a] \in E
    BY <1>3, <1>4 DEF LeftOf
  <1>6. t \in Seq(E)
    <2> HIDE DEF E
    <2> QED
      BY <1>3, <1>5
  <1>7. /\ DOMAIN requests' = E /\ requests' \in [E -> Request] /\ E \subseteq 0 .. next - 1
        /\ \A x \in E : requests'[x] = requests[x]
    BY <1>1, <1>2
  <1>8. ASSUME NEW x \in E
        PROVE  Rests(requests'[x]) /\ (requests'[x].status # "complete" => requests'[x].by = model)
    BY <1>7 DEF ServingInv
  <1>9. IsFiniteSet(E)
    BY <1>2, FS_Subset
  <1>10. /\ \A k : HoldersOf(requests, k) \ {id} \subseteq HoldersOf(requests', k)
         /\ \A k : k # key => HoldersOf(requests, k) \subseteq HoldersOf(requests', k)
         /\ id \in HoldersOf(requests, key)
    BY <1>1, <1>7 DEF HoldersOf
  <1>11. CacheOK(prefixes', model) /\ Held(prefixes', requests')
    <2>1. CASE key = None
      <3>1. prefixes' = prefixes
        BY <1>1, <2>1 DEF Unhold
      <3>2. \A k : k # None => HoldersOf(requests, k) \subseteq HoldersOf(requests', k)
        BY <1>10, <2>1
      <3> HIDE DEF key, E
      <3>3. Held(prefixes, requests')
        BY <1>2, <1>7, <1>9, <3>2, HeldStill
      <3> QED
        BY <1>2, <3>1, <3>3
    <2>2. CASE key # None
      <3>1. prefixes' = Release(prefixes, key)
        BY <1>1, <2>2 DEF Unhold
      <3> HIDE DEF key, E
      <3>2. Lowered(Release(prefixes, key), prefixes, key, model)
        BY <1>2, ReleaseOK
      <3>3. CacheOK(Release(prefixes, key), model)
        BY <3>2 DEF Lowered
      <3>4. Held(Release(prefixes, key), requests')
        BY <1>2, <1>7, <1>9, <1>10, HeldReleased
      <3> QED
        BY <3>1, <3>3, <3>4
    <2> QED
      BY <2>1, <2>2
  <1>12. ASSUME NEW a \in 1 .. M, NEW b \in 1 .. M, a < b
         PROVE  /\ t[a] < t[b]
                /\ requests'[t[a]].status = "queued" => requests'[t[b]].generated = <<>>
    <2> DEFINE i == place[a]
               j == place[b]
    <2>1. i \in 1 .. N /\ j \in 1 .. N /\ i < j /\ t[a] = order[i] /\ t[b] = order[j]
          /\ t[a] \in E /\ t[b] \in E
      BY <1>5, <1>12
    <2> HIDE DEF i, j
    <2>2. order[i] < order[j]
      BY <1>2, <2>1
    <2>3. requests[order[i]].status = "queued" => requests[order[j]].generated = <<>>
      BY <1>2, <2>1 DEF NoOvertaking
    <2> QED
      BY <1>7, <2>1, <2>2, <2>3
  <1>13. InOrder' /\ NoOvertaking'
    <2>1. DOMAIN order' = 1 .. M /\ order' = t /\ order' \in Seq(DOMAIN requests')
      BY <1>1, <1>5, <1>6, <1>7
    <2> HIDE DEF M, E
    <2> QED
      BY <1>12, <2>1 DEF InOrder, NoOvertaking
  <1> QED
    BY <1>1, <1>2, <1>7, <1>8, <1>11, <1>13 DEF ServingInv

(* A new cache. *)
LEMMA EmptyOK ==
    ASSUME NEW m \in Model, NEW generation \in Nat, NEW reqs
    PROVE  CacheOK(EmptyCache(m, generation), m) /\ Held(EmptyCache(m, generation), reqs)
  <1> DEFINE new == EmptyCache(m, generation)
  <1>1. /\ new \in Cache /\ new.identity = m /\ new.entries = <<>> /\ new.bytes = 0
        /\ new.generation = generation
    BY DEF EmptyCache, Cache
  <1>2. DOMAIN new.entries = {} /\ Len(new.entries) = 0 /\ new.entries \in Seq(Entry)
    BY <1>1
  <1> HIDE DEF new
  <1>3. EntriesTrue(new.entries, m, generation)
    BY <1>2 DEF EntriesTrue
  <1>4. Held(new, reqs)
    BY <1>2 DEF Held
  <1>5. CacheOK(new, m)
    BY <1>1, <1>2, <1>3, BytesEmpty, ConfigAssumption DEF CacheOK
  <1> QED
    BY <1>4, <1>5 DEF new

(* A request that holds nothing any more. *)
LEMMA Unreferenced ==
    ASSUME NEW r, Rests(r), NEW new, new = [r EXCEPT !.reference = None]
    PROVE  /\ Rests(new) /\ new.by = r.by /\ new.status = r.status /\ new.generated = r.generated
           /\ new \in Request
  <1>1. Own(r) /\ r \in Request
    BY DEF Rests, Own
  <1>2. /\ Same(new, r) /\ new.status = r.status /\ new.reference = None /\ new.pending = r.pending
        /\ new.snapshot = r.snapshot /\ new.stopped = r.stopped
    BY <1>1 DEF Same, Request
  <1>3. Own(new) /\ TextOf(new) = TextOf(r)
    BY <1>1, <1>2, SameOwn
  <1>4. new.prompt = r.prompt /\ new.max = r.max /\ new.by = r.by /\ new.generated = r.generated
        /\ new \in Request
    BY <1>2 DEF Same
  <1>5. Rests(new)
    BY <1>2, <1>3, <1>4 DEF Rests
  <1> QED
    BY <1>2, <1>4, <1>5

(* The cache is emptied. *)
LEMMA InvalidateKeeps ==
    ASSUME ServingInv, InvalidatePrefixCache
    PROVE  ServingInv'
  <1> DEFINE D == DOMAIN requests
  <1>1. /\ prefixes' = EmptyCache(prefixes.identity, prefixes.generation + 1)
        /\ requests' = [id \in D |-> [requests[id] EXCEPT !.reference = None]]
        /\ UNCHANGED <<model, next, order>>
    BY DEF InvalidatePrefixCache, Invalidated
  <1>2. /\ model \in Model /\ next \in Nat /\ D \subseteq 0 .. next - 1
        /\ CacheOK(prefixes, model) /\ InOrder /\ NoOvertaking
        /\ \A i \in DOMAIN order : order[i] \in D
    BY InvParts
  <1>3. prefixes.identity = model /\ prefixes.generation + 1 \in Nat
    <2>1. prefixes \in Cache /\ prefixes.identity = model
      BY <1>2 DEF CacheOK
    <2> QED
      BY <2>1, CacheTypes
  <1>4. CacheOK(prefixes', model) /\ Held(prefixes', requests')
    BY <1>1, <1>2, <1>3, EmptyOK
  <1>5. ASSUME NEW x \in D
        PROVE  /\ Rests(requests'[x]) /\ (requests'[x].status # "complete" => requests'[x].by = model)
               /\ requests'[x].status = requests[x].status
               /\ requests'[x].generated = requests[x].generated /\ requests'[x] \in Request
    <2>1. Rests(requests[x]) /\ (requests[x].status # "complete" => requests[x].by = model)
      BY DEF ServingInv
    <2>2. requests'[x] = [requests[x] EXCEPT !.reference = None]
      BY <1>1
    <2> DEFINE r == requests[x]
               new == requests'[x]
    <2>3. Rests(r) /\ new = [r EXCEPT !.reference = None]
      BY <2>1, <2>2
    <2> HIDE DEF r, new
    <2>4. Rests(new) /\ new.by = r.by /\ new.status = r.status /\ new.generated = r.generated
          /\ new \in Request
      BY <2>3, Unreferenced
    <2> QED
      BY <2>1, <2>4 DEF r, new
  <1>6. DOMAIN requests' = D
    BY <1>1
  <1>7. requests' \in [D -> Request]
    <2> DEFINE v(id) == [requests[id] EXCEPT !.reference = None]
    <2>1. requests' = [id \in D |-> v(id)]
      BY <1>1
    <2>2. \A id \in D : v(id) \in Request
      BY <1>5, <2>1
    <2> HIDE DEF v
    <2> QED
      BY <2>1, <2>2
  <1>8. InOrder' /\ NoOvertaking'
    <2>1. InOrder'
      BY <1>1, <1>2, <1>6 DEF InOrder
    <2>2. NoOvertaking'
      BY <1>1, <1>2, <1>5 DEF NoOvertaking
    <2> QED
      BY <2>1, <2>2
  <1> QED
    BY <1>1, <1>2, <1>4, <1>5, <1>6, <1>7, <1>8 DEF ServingInv

(* Another model. *)
LEMMA RebindKeeps ==
    ASSUME ServingInv, NEW m \in Model, Rebind(m)
    PROVE  ServingInv'
  <1> DEFINE D == DOMAIN requests
  <1>1. /\ Pending = {} /\ model' = m /\ prefixes' = Rebound(m) /\ UNCHANGED <<next, order, requests>>
    BY DEF Rebind
  <1>2. /\ model \in Model /\ next \in Nat /\ D \subseteq 0 .. next - 1 /\ requests \in [D -> Request]
        /\ CacheOK(prefixes, model) /\ Held(prefixes, requests) /\ InOrder /\ NoOvertaking
    BY InvParts
  <1>3. CacheOK(prefixes', m) /\ Held(prefixes', requests)
    <2>1. CASE m = model
      BY <1>1, <1>2, <2>1 DEF Rebound
    <2>2. CASE m # model
      <3>1. prefixes' = EmptyCache(m, prefixes.generation + 1)
        BY <1>1, <2>2 DEF Rebound, Invalidated
      <3>2. prefixes.generation + 1 \in Nat
        <4>1. prefixes \in Cache
          BY <1>2 DEF CacheOK
        <4> QED
          BY <4>1, CacheTypes
      <3> QED
        BY <3>1, <3>2, EmptyOK
    <2> QED
      BY <2>1, <2>2
  <1>4. \A x \in D : Rests(requests[x]) /\ requests[x].status = "complete"
    BY <1>1 DEF ServingInv, Pending
  <1>5. InOrder' /\ NoOvertaking'
    BY <1>1, <1>2 DEF InOrder, NoOvertaking
  <1> QED
    BY <1>1, <1>2, <1>3, <1>4, <1>5 DEF ServingInv

-----------------------------------------------------------------------------
(* The theorems *)

(* The inductive invariant: everything the scheduler keeps between its calls. *)
THEOREM ServingInvariance == Spec => []ServingInv
  <1>1. Init => ServingInv
    <2> SUFFICES ASSUME Init PROVE ServingInv
      OBVIOUS
    <2>1. /\ model \in Model /\ next = 0 /\ order = <<>> /\ requests = [id \in {} |-> None]
          /\ prefixes = EmptyCache(model, 0)
      BY DEF Init
    <2>2. DOMAIN requests = {} /\ requests \in [{} -> Request] /\ DOMAIN order = {} /\ order \in Seq({})
      BY <2>1
    <2>3. CacheOK(prefixes, model) /\ Held(prefixes, requests)
      BY <2>1, EmptyOK
    <2>4. InOrder /\ NoOvertaking
      BY <2>2 DEF InOrder, NoOvertaking
    <2> QED
      BY <2>1, <2>2, <2>3, <2>4 DEF ServingInv
  <1>2. ServingInv /\ [Next]_vars => ServingInv'
    <2> SUFFICES ASSUME ServingInv, [Next]_vars PROVE ServingInv'
      OBVIOUS
    <2>1. CASE \E prompt \in Prompt, max \in MaxNew : SubmitIds(prompt, max)
      BY <2>1, SubmitKeeps
    <2>2. CASE \E id \in 0 .. MaxRequests - 1 : RemoveRequest(id)
      BY <2>2, RemoveKeeps
    <2>3. CASE InvalidatePrefixCache
      BY <2>3, InvalidateKeeps
    <2>4. CASE \E m \in Model : Rebind(m)
      BY <2>4, RebindKeeps
    <2>5. CASE Step
      BY <2>5, StepKeeps
    <2>6. CASE UNCHANGED <<model, next, order, requests, prefixes>>
      BY <2>6 DEF ServingInv, InOrder, NoOvertaking
    <2>7. CASE StepFails \/ UNCHANGED vars
      BY <2>6, <2>7 DEF StepFails, vars
    <2> QED
      BY <2>1, <2>2, <2>3, <2>4, <2>5, <2>7 DEF Next
  <1> QED
    BY <1>1, <1>2, PTL DEF Spec

(* Whatever else is served, cached, evicted, removed or fails: each token of a
   request is the one its model selects after its prompt and the tokens before
   it, and a complete request stopped or reached its limit. *)
THEOREM OutputsAreIndependent == Spec => []OutputIsIndependent
  <1>1. ServingInv => OutputIsIndependent
    <2> SUFFICES ASSUME ServingInv, NEW id \in DOMAIN requests
                 PROVE  LET r == requests[id]
                        IN  /\ \A i \in DOMAIN r.generated :
                                 /\ r.generated[i] =
                                      Sample(Computed(r.by, r.prompt \o SubSeq(r.generated, 1, i - 1)))
                                 /\ r.generated[i] \in Stop => i = Len(r.generated) /\ r.status = "complete"
                            /\ r.status = "complete" => r.stopped \/ Len(r.generated) = r.max
      BY DEF OutputIsIndependent
    <2> DEFINE r == requests[id]
    <2>1. Rests(r)
      BY DEF ServingInv
    <2> HIDE DEF r
    <2>2. \A i \in DOMAIN r.generated :
            /\ r.generated[i] = Sample(Computed(r.by, r.prompt \o SubSeq(r.generated, 1, i - 1)))
            /\ r.generated[i] \in Stop => i = Len(r.generated) /\ r.status = "complete"
      BY <2>1 DEF Rests, Own
    <2>3. r.status = "complete" => r.stopped \/ Len(r.generated) = r.max
      BY <2>1 DEF Rests
    <2> QED
      BY <2>2, <2>3 DEF r
  <1> QED
    BY <1>1, ServingInvariance, PTL

(* As many keys as positions when no two positions have the same. *)
LEMMA KeysCounted ==
    ASSUME NEW s \in Seq(Entry), \A i, j \in DOMAIN s : Key(s[i]) = Key(s[j]) => i = j
    PROVE  Cardinality({Key(s[i]) : i \in DOMAIN s}) = Len(s)
  <1> DEFINE n == Len(s)
             S == 1 .. n
             T == {Key(s[i]) : i \in DOMAIN s}
             f == [i \in S |-> Key(s[i])]
  <1>1. n \in Nat /\ DOMAIN s = S
    OBVIOUS
  <1>2. IsFiniteSet(S) /\ Cardinality(S) = n
    BY <1>1, FiniteSegment
  <1>3. f \in Bijection(S, T)
    BY <1>1 DEF Bijection, Injection, Surjection, IsInjective
  <1>4. Cardinality(T) = Cardinality(S)
    <2> HIDE DEF f, S, T
    <2>1. ExistsBijection(S, T)
      BY <1>3 DEF ExistsBijection
    <2> QED
      BY <1>2, <2>1, FS_Bijection
  <1> QED
    BY <1>2, <1>4

(* The prefix cache holds, under the model it is bound to, the state of the
   tokens of its keys and nothing else, whatever replaced, evicted, emptied or
   rebound it, and no key twice. *)
THEOREM CacheStaysTrue == Spec => []CacheIsTrue
  <1>1. ServingInv => CacheIsTrue
    <2> SUFFICES ASSUME ServingInv PROVE CacheIsTrue
      OBVIOUS
    <2>1. /\ prefixes.identity = model /\ prefixes.entries \in Seq(Entry)
          /\ \A i \in DOMAIN prefixes.entries : EntryTrue(prefixes.entries[i], model, prefixes.generation)
          /\ \A i, j \in DOMAIN prefixes.entries :
               Key(prefixes.entries[i]) = Key(prefixes.entries[j]) => i = j
      BY DEF ServingInv, CacheOK, EntriesTrue
    <2>2. Cardinality({Key(prefixes.entries[i]) : i \in DOMAIN prefixes.entries}) = Len(prefixes.entries)
      BY <2>1, KeysCounted
    <2>3. \A i \in DOMAIN prefixes.entries :
            LET e == prefixes.entries[i]
            IN  Current(prefixes, e) /\ e.snapshot = Computed(model, e.tokens)
      BY <2>1 DEF EntryTrue, Current
    <2> QED
      BY <2>2, <2>3 DEF CacheIsTrue
  <1> QED
    BY <1>1, ServingInvariance, PTL

(* The cache keeps its limits of bytes and entries, and an entry is held by no
   more requests than are unfinished and started from it. *)
THEOREM CacheStaysHeld == Spec => []CacheIsHeld
  <1>1. ServingInv => CacheIsHeld
    <2> SUFFICES ASSUME ServingInv PROVE CacheIsHeld
      OBVIOUS
    <2>1. CacheOK(prefixes, model) /\ Held(prefixes, requests)
      BY DEF ServingInv
    <2>2. HeldByRequests
      BY <2>1 DEF HeldByRequests, Held, Holders, HoldersOf
    <2>3. CacheIsBounded
      BY <2>1 DEF CacheIsBounded, CacheOK
    <2> QED
      BY <2>2, <2>3 DEF CacheIsHeld
  <1> QED
    BY <1>1, ServingInvariance, PTL

(* Every unfinished request fits another step, with the state of all its
   tokens but the one it continues with, and requests are served in turn. *)
THEOREM ScheduleStaysSound == Spec => []ScheduleIsSound
  <1>1. ServingInv => ScheduleIsSound
    <2> SUFFICES ASSUME ServingInv PROVE ScheduleIsSound
      OBVIOUS
    <2>1. NextStepFits
      <3> SUFFICES ASSUME NEW id \in Pending
                   PROVE  LET r == requests[id]
                              tokens == r.prompt \o r.generated
                          IN  /\ r.pending # None =>
                                   r.snapshot = Computed(r.by, SubSeq(tokens, 1, Len(tokens) - 1))
                              /\ r.pending # None <=> r.status = "running"
                              /\ Len(tokens) < MaxContext
        BY DEF NextStepFits
      <3> DEFINE r == requests[id]
      <3>1. Rests(r) /\ r.status # "complete" /\ Own(r)
        BY DEF ServingInv, Pending, Rests
      <3> HIDE DEF r
      <3>2. (r.pending # None <=> r.status = "running") /\ Len(r.generated) < r.max
        BY <3>1, PendingMeansRunning
      <3>3. r.status = "running" => r.snapshot = Computed(r.by, SubSeq(TextOf(r), 1, Len(TextOf(r)) - 1))
        BY <3>1 DEF Rests
      <3>4. Len(TextOf(r)) < MaxContext
        <4> DEFINE a == Len(r.prompt)
                   b == Len(r.generated)
                   c == Len(TextOf(r))
                   k == r.max
        <4>1. c = a + b /\ a \in Nat /\ b \in Nat /\ k \in Nat /\ a + k <= MaxContext /\ MaxContext \in Nat
              /\ b < k
          BY <3>1, <3>2, RequestFields
        <4> HIDE DEF a, b, c, k
        <4>2. c < MaxContext
          BY <4>1
        <4> QED
          BY <4>2 DEF c
      <3> QED
        BY <3>2, <3>3, <3>4 DEF r, TextOf
    <2>2. NoOvertaking
      BY DEF ServingInv
    <2> QED
      BY <2>1, <2>2 DEF ScheduleIsSound
  <1> QED
    BY <1>1, ServingInvariance, PTL
=============================================================================
