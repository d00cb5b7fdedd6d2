----------------------------- MODULE Cuda_proofs -----------------------------
(***************************************************************************)
(* What the CUDA runtime promises for any number of contexts, groups,       *)
(* blocks, fences and threads: peer mappings live as long as they are       *)
(* needed, the pool of a primary context never loses, shares or reuses a    *)
(* block too early, both caches of linked code are single flight, whichever *)
(* loads fail or panic, an all-reduce is all or nothing, and the plan of a  *)
(* collective delivers what its kind says.                                  *)
(***************************************************************************)
EXTENDS CudaAllocator, PeerAccess, LinkedCache, Collective, FiniteSetTheorems, WellFoundedInduction, TLAPS

-----------------------------------------------------------------------------
(* Peer mappings *)

Stage == {"idle", "setup", "run", "unwind", "gone"}

PeerTypeOK ==
    /\ enabled \subseteq Pair /\ stuck \subseteq Pair
    /\ peers \in [Group -> SUBSET Pair]
    /\ acquired \in [Group -> SUBSET Pair]
    /\ dropping \in [Group -> SUBSET Pair]
    /\ stage \in [Group -> Stage]
    /\ moving \in [Group -> Pair \cup {None}]

(* What a group holds belongs to its plan and is either cached, acquired or
   being dropped; a transfer runs over a cached handle. *)
GroupOK(g) ==
    /\ peers[g] \cup acquired[g] \cup dropping[g] \subseteq ToSet(Required[g])
    /\ peers[g] \cap acquired[g] = {}
    /\ (peers[g] \cup acquired[g]) \cap dropping[g] = {}
    /\ stage[g] \notin {"unwind", "gone"} => dropping[g] = {}
    /\ stage[g] # "setup" => acquired[g] = {}
    /\ stage[g] = "run" => ToSet(Required[g]) \subseteq peers[g]
    /\ stage[g] = "gone" => peers[g] = {}
    /\ moving[g] # None => stage[g] = "run" /\ moving[g] \in ToSet(Required[g])

(* No two groups transfer over the same pair of contexts. *)
Disjoint ==
    \A g, h \in Group : g # h => ToSet(Required[g]) \cap ToSet(Required[h]) = {}

(* The handles of a group that it does not give back name enabled mappings. *)
HandlesAreLive == \A g \in Group : peers[g] \cup acquired[g] \subseteq enabled

(* The inductive invariant, without and with groups that share no pair. *)
PeerInv == PeerTypeOK /\ (\A g \in Group : GroupOK(g)) /\ EnabledIsOwned
PeerLiveInv == PeerInv /\ HandlesAreLive

(* The initial states. *)
LEMMA PeerInitInv == PeerInit => PeerLiveInv
  BY DEF PeerInit, PeerLiveInv, PeerInv, PeerTypeOK, GroupOK, EnabledIsOwned, HandlesAreLive, Stage

(* A step of group g that keeps what everybody holds, or moves it. *)
LEMMA PeerStep ==
    ASSUME PeerInv, NEW g \in Group, PeerTypeOK', GroupOK(g)',
           \A h \in Group : h # g =>
               /\ peers'[h] = peers[h] /\ acquired'[h] = acquired[h] /\ dropping'[h] = dropping[h]
               /\ stage'[h] = stage[h] /\ moving'[h] = moving[h],
           \A p \in enabled' \ stuck' :
               \/ p \in peers'[g] \cup acquired'[g] \cup dropping'[g]
               \/ /\ p \in enabled \ stuck
                  /\ p \notin peers[g] \cup acquired[g] \cup dropping[g]
    PROVE  PeerInv'
  <1>1. \A h \in Group : h # g => GroupOK(h)'
    BY DEF PeerInv, GroupOK
  <1>2. EnabledIsOwned'
    <2> SUFFICES ASSUME NEW p \in enabled' \ stuck'
                 PROVE  \E h \in Group : p \in peers'[h] \cup acquired'[h] \cup dropping'[h]
      BY DEF EnabledIsOwned
    <2>1. CASE p \in peers'[g] \cup acquired'[g] \cup dropping'[g]
      BY <2>1
    <2>2. CASE p \in enabled \ stuck /\ p \notin peers[g] \cup acquired[g] \cup dropping[g]
      BY <2>2 DEF PeerInv, EnabledIsOwned
    <2> QED
      BY <2>1, <2>2
  <1> QED
    BY <1>1, <1>2 DEF PeerInv

(* Every pair of a plan is a pair. *)
LEMMA RequiredPairs == \A g \in Group : ToSet(Required[g]) \subseteq Pair
  BY DEF Pair

(* Every step of PeerAccess and ensure_peers preserves the invariant, and what
   is live stays live when groups share no pair. *)
LEMMA PeerNextInv ==
    ASSUME PeerInv, PeerNext
    PROVE  PeerInv' /\ (Disjoint /\ HandlesAreLive => HandlesAreLive')
  <1> USE RequiredPairs
  <1>1. PICK g \in Group :
          \/ BeginSetup(g) \/ Acquire(g) \/ AcquireFails(g) \/ PublishPeers(g)
          \/ Close(g) \/ Unwound(g)
          \/ \E p \in Pair : Submit(g, p)
          \/ Wait(g) \/ Finish(g) \/ DropGroup(g)
    BY DEF PeerNext
  <1>2. PeerTypeOK /\ GroupOK(g)
    BY DEF PeerInv
  <1>3. CASE BeginSetup(g)
    <2>1. PeerTypeOK' /\ GroupOK(g)'
      BY <1>2, <1>3 DEF BeginSetup, Turn, handles, PeerTypeOK, GroupOK, Stage
    <2> QED
      BY <1>2, <1>3, <2>1, PeerStep DEF BeginSetup, Turn, handles, PeerTypeOK, HandlesAreLive
  <1>4. CASE Acquire(g)
    <2>1. PICK i \in Missing(g) :
            /\ acquired' = [acquired EXCEPT ![g] = @ \cup {Required[g][i]}]
            /\ enabled' = enabled \cup {Required[g][i]}
      BY <1>4 DEF Acquire
    <2> DEFINE p == Required[g][i]
    <2>2. p \in ToSet(Required[g]) /\ p \notin peers[g] /\ p \in Pair /\ stage[g] = "setup"
      BY <1>4 DEF Missing, ToSet, Acquire
    <2>3. UNCHANGED <<peers, dropping, stage, moving, stuck>>
      BY <1>4 DEF Acquire
    <2>4. /\ acquired'[g] = acquired[g] \cup {p}
          /\ \A h \in Group : h # g => acquired'[h] = acquired[h]
      BY <1>2, <2>1 DEF PeerTypeOK
    <2> HIDE DEF p
    <2>5. PeerTypeOK'
      BY <1>2, <2>1, <2>2, <2>3 DEF PeerTypeOK, p
    <2>6. GroupOK(g)'
      BY <1>2, <2>2, <2>3, <2>4 DEF GroupOK
    <2>7. enabled' = enabled \cup {p}
      BY <2>1 DEF p
    <2> QED
      BY <2>3, <2>4, <2>5, <2>6, <2>7, PeerStep DEF HandlesAreLive
  <1>5. CASE AcquireFails(g)
    <2>1. /\ dropping'[g] = acquired[g] /\ acquired'[g] = {} /\ stage'[g] = "unwind"
          /\ \A h \in Group : h # g => /\ dropping'[h] = dropping[h] /\ acquired'[h] = acquired[h]
                                       /\ stage'[h] = stage[h]
          /\ UNCHANGED <<enabled, peers, moving, stuck>> /\ stage[g] = "setup"
      BY <1>2, <1>5 DEF AcquireFails, Turn, PeerTypeOK
    <2>2. PeerTypeOK'
      BY <1>2, <1>5 DEF AcquireFails, Turn, PeerTypeOK, Stage
    <2>3. GroupOK(g)'
      BY <1>2, <2>1 DEF GroupOK
    <2> QED
      BY <1>2, <2>1, <2>2, <2>3, PeerStep DEF HandlesAreLive, GroupOK
  <1>6. CASE PublishPeers(g)
    <2>1. /\ peers'[g] = peers[g] \cup acquired[g] /\ acquired'[g] = {} /\ stage'[g] = "run"
          /\ \A h \in Group : h # g => /\ peers'[h] = peers[h] /\ acquired'[h] = acquired[h]
                                       /\ stage'[h] = stage[h]
          /\ UNCHANGED <<enabled, dropping, moving, stuck>> /\ stage[g] = "setup"
      BY <1>2, <1>6 DEF PublishPeers, Turn, PeerTypeOK
    <2>2. ToSet(Required[g]) \subseteq peers[g] \cup acquired[g]
      BY <1>6 DEF PublishPeers, Missing, ToSet
    <2>3. PeerTypeOK'
      BY <1>2, <1>6 DEF PublishPeers, Turn, PeerTypeOK, Stage
    <2>4. GroupOK(g)'
      BY <1>2, <2>1, <2>2 DEF GroupOK
    <2> QED
      BY <2>1, <2>3, <2>4, PeerStep DEF HandlesAreLive
  <1>7. CASE Close(g)
    <2>1. PICK p \in dropping[g] :
            /\ dropping' = [dropping EXCEPT ![g] = @ \ {p}]
            /\ \/ enabled' = enabled \ {p} /\ UNCHANGED stuck
               \/ stuck' = stuck \cup {p} /\ UNCHANGED enabled
      BY <1>7 DEF Close
    <2>2. UNCHANGED <<peers, acquired, stage, moving>>
      BY <1>7 DEF Close
    <2>3. /\ dropping'[g] = dropping[g] \ {p} /\ p \in ToSet(Required[g])
          /\ \A h \in Group : h # g => dropping'[h] = dropping[h]
      BY <1>2, <2>1 DEF PeerTypeOK, GroupOK
    <2>4. PeerTypeOK'
      BY <1>2, <2>1, <2>2, <2>3 DEF PeerTypeOK
    <2>5. GroupOK(g)'
      BY <1>2, <2>2, <2>3 DEF GroupOK
    <2>6. PeerInv'
      BY <2>1, <2>2, <2>3, <2>4, <2>5, PeerStep
    <2>7. ASSUME Disjoint, HandlesAreLive PROVE HandlesAreLive'
      <3> SUFFICES ASSUME NEW h \in Group, NEW q \in peers[h] \cup acquired[h]
                   PROVE  q \in enabled'
        BY <2>2 DEF HandlesAreLive
      <3>1. q \in enabled /\ q \in ToSet(Required[h])
        BY <2>7 DEF HandlesAreLive, PeerInv, GroupOK
      <3>2. q # p
        BY <1>2, <2>1, <2>3, <2>7, <3>1 DEF Disjoint, GroupOK
      <3> QED
        BY <2>1, <3>1, <3>2
    <2> QED
      BY <2>6, <2>7
  <1>8. CASE Unwound(g)
    <2>1. PeerTypeOK' /\ GroupOK(g)'
      BY <1>2, <1>8 DEF Unwound, Turn, handles, PeerTypeOK, GroupOK, Stage
    <2> QED
      BY <1>2, <1>8, <2>1, PeerStep DEF Unwound, Turn, handles, PeerTypeOK, HandlesAreLive
  <1>9. ASSUME NEW p \in Pair, Submit(g, p)
        PROVE  PeerInv' /\ (HandlesAreLive => HandlesAreLive')
    <2>1. PeerTypeOK' /\ GroupOK(g)'
      BY <1>2, <1>9 DEF Submit, handles, PeerTypeOK, GroupOK
    <2> QED
      BY <1>2, <1>9, <2>1, PeerStep DEF Submit, handles, PeerTypeOK, HandlesAreLive
  <1>10. CASE Wait(g)
    <2>1. PeerTypeOK' /\ GroupOK(g)'
      BY <1>2, <1>10 DEF Wait, handles, PeerTypeOK, GroupOK
    <2> QED
      BY <1>2, <1>10, <2>1, PeerStep DEF Wait, handles, PeerTypeOK, HandlesAreLive
  <1>11. CASE Finish(g)
    <2>1. PeerTypeOK' /\ GroupOK(g)'
      BY <1>2, <1>11 DEF Finish, Turn, handles, PeerTypeOK, GroupOK, Stage
    <2> QED
      BY <1>2, <1>11, <2>1, PeerStep DEF Finish, Turn, handles, PeerTypeOK, HandlesAreLive
  <1>12. CASE DropGroup(g)
    <2>1. /\ dropping'[g] = peers[g] /\ peers'[g] = {} /\ stage'[g] = "gone" /\ stage[g] = "idle"
          /\ \A h \in Group : h # g => /\ dropping'[h] = dropping[h] /\ peers'[h] = peers[h]
                                       /\ stage'[h] = stage[h]
          /\ UNCHANGED <<enabled, acquired, moving, stuck>>
      BY <1>2, <1>12 DEF DropGroup, Turn, PeerTypeOK
    <2>2. PeerTypeOK'
      BY <1>2, <1>12 DEF DropGroup, Turn, PeerTypeOK, Stage
    <2>3. GroupOK(g)'
      BY <1>2, <2>1 DEF GroupOK
    <2> QED
      BY <1>2, <2>1, <2>2, <2>3, PeerStep DEF HandlesAreLive, GroupOK
  <1> QED
    BY <1>1, <1>3, <1>4, <1>5, <1>6, <1>7, <1>8, <1>9, <1>10, <1>11, <1>12

(* No mapping outlives the handles for it, unless the driver refused to
   disable it, also when groups share contexts: a failed setup gives back what
   it had acquired. *)
THEOREM MappingsStayOwned == PeerSpec => []EnabledIsOwned
  <1>1. PeerInit => PeerInv
    BY PeerInitInv DEF PeerLiveInv
  <1>2. PeerInv /\ [PeerNext]_peerVars => PeerInv'
    <2>1. PeerInv /\ PeerNext => PeerInv'
      BY PeerNextInv
    <2>2. PeerInv /\ UNCHANGED peerVars => PeerInv'
      BY DEF peerVars, handles, PeerInv, PeerTypeOK, GroupOK, EnabledIsOwned
    <2> QED
      BY <2>1, <2>2
  <1>3. PeerInv => EnabledIsOwned
    BY DEF PeerInv
  <1> QED
    BY <1>1, <1>2, <1>3, PTL DEF PeerSpec

(* Mappings live exactly as long as somebody needs them, for groups that share
   no pair of contexts: no transfer loses its mapping while its token is held. *)
THEOREM PeersStayOwned == ASSUME Disjoint PROVE PeerSpec => []PeersAreOwned
  <1>1. PeerInit => PeerLiveInv
    BY PeerInitInv
  <1>2. PeerLiveInv /\ [PeerNext]_peerVars => PeerLiveInv'
    <2>1. PeerLiveInv /\ PeerNext => PeerLiveInv'
      BY PeerNextInv DEF PeerLiveInv
    <2>2. PeerLiveInv /\ UNCHANGED peerVars => PeerLiveInv'
      BY DEF peerVars, handles, PeerLiveInv, PeerInv, PeerTypeOK, GroupOK, EnabledIsOwned, HandlesAreLive
    <2> QED
      BY <2>1, <2>2
  <1>3. PeerLiveInv => PeersAreOwned
    BY DEF PeerLiveInv, PeerInv, PeersAreOwned, GroupOK, HandlesAreLive, MappingIsLive
  <1> QED
    BY <1>1, <1>2, <1>3, PTL DEF PeerSpec

-----------------------------------------------------------------------------
(* Sums over finite sets *)

(* Induction over the subsets of a finite set: a family of subsets that holds
   every one of which it holds all that are one element smaller. *)
LEMMA SubsetInduction ==
    ASSUME NEW S, IsFiniteSet(S), NEW G,
           \A s \in SUBSET S : (\A x \in s : s \ {x} \in G) => s \in G
    PROVE  \A s \in SUBSET S : s \in G
  <1> DEFINE N == {n \in Nat : \E s \in SUBSET S : Cardinality(s) = n /\ s \notin G}
  <1>1. SUFFICES N = {}
    <2> SUFFICES ASSUME NEW s \in SUBSET S, s \notin G PROVE FALSE
      OBVIOUS
    <2>1. Cardinality(s) \in Nat
      BY FS_Subset, FS_CardinalityType
    <2> QED
      BY <1>1, <2>1
  <1>2. SUFFICES ASSUME N # {} PROVE FALSE
    OBVIOUS
  <1>3. N \subseteq Nat
    OBVIOUS
  <1> HIDE DEF N
  <1>4. PICK n \in N : \A m \in N : ~(<<m, n>> \in OpToRel(<, Nat))
    BY <1>2, <1>3, NatLessThanWellFounded, WFMin
  <1>5. \A m \in N : ~(m < n)
    <2> TAKE m \in N
    <2>1. m < n => <<m, n>> \in OpToRel(<, Nat)
      BY <1>3 DEF OpToRel
    <2> QED
      BY <1>4, <2>1, Zenon
  <1>6. PICK s \in SUBSET S : Cardinality(s) = n /\ s \notin G
    BY DEF N
  <1>7. \A x \in s : s \ {x} \in G
    <2> SUFFICES ASSUME NEW x \in s, s \ {x} \notin G PROVE FALSE
      OBVIOUS
    <2>1. IsFiniteSet(s) /\ s \ {x} \in SUBSET S
      BY FS_Subset
    <2>2. Cardinality(s \ {x}) = n - 1 /\ n \in Nat /\ n - 1 \in Nat
      <3>1. Cardinality(s \ {x}) = Cardinality(s) - 1
        BY <2>1, FS_RemoveElement
      <3>2. Cardinality(s \ {x}) \in Nat
        BY <2>1, FS_Subset, FS_CardinalityType
      <3> QED
        BY <1>3, <1>6, <3>1, <3>2
    <2>3. n - 1 \in N
      BY <2>1, <2>2 DEF N
    <2> QED
      BY <1>5, <2>2, <2>3
  <1> QED
    BY <1>6, <1>7

(* As many pairs for each element as the function says. *)
Units(f, S) == {q \in S \X Nat : q[2] \in 1 .. f[q[1]]}

(* One element more or less. *)
LEMMA UnitsRemove ==
    ASSUME NEW S, NEW x \in S, NEW f, f[x] \in Nat, IsFiniteSet(Units(f, S \ {x}))
    PROVE  /\ IsFiniteSet(Units(f, S))
           /\ Cardinality(Units(f, S)) = f[x] + Cardinality(Units(f, S \ {x}))
  <1> DEFINE X == {x} \X (1 .. f[x])
             R == Units(f, S \ {x})
  <1>1. Units(f, S) = R \cup X
    BY DEF Units
  <1>2. R \cap X = {}
    BY DEF Units
  <1>3. IsFiniteSet(X) /\ Cardinality(X) = f[x]
    <2>1. IsFiniteSet({x}) /\ Cardinality({x}) = 1
      BY FS_Singleton
    <2>2. IsFiniteSet(1 .. f[x]) /\ Cardinality(1 .. f[x]) = f[x]
      BY FS_Interval
    <2>3. IsFiniteSet(X) /\ Cardinality(X) = Cardinality({x}) * Cardinality(1 .. f[x])
      BY <2>1, <2>2, FS_Product
    <2> QED
      BY <2>1, <2>2, <2>3
  <1> HIDE DEF X, R
  <1>4. IsFiniteSet(R)
    BY DEF R
  <1>5. IsFiniteSet(R \cup X)
        /\ Cardinality(R \cup X) = Cardinality(R) + Cardinality(X) - Cardinality(R \cap X)
    BY <1>3, <1>4, FS_Union
  <1>6. Cardinality(R \cap X) = 0 /\ Cardinality(R) \in Nat
    BY <1>2, <1>4, FS_EmptySet, FS_CardinalityType
  <1> QED
    BY <1>1, <1>3, <1>5, <1>6 DEF R

(* A sum counts units: the fold of the community modules computes it. *)
LEMMA SumIsCount ==
    ASSUME NEW S, IsFiniteSet(S), NEW f, \A x \in S : f[x] \in Nat
    PROVE  SumOf(f, S) = Cardinality(Units(f, S)) /\ IsFiniteSet(Units(f, S))
  <1> DEFINE pick(s) == CHOOSE x \in s : TRUE
             Folds(it) == it = [s \in SUBSET S |->
                                   IF s = {} THEN 0 ELSE f[pick(s)] + it[s \ {pick(s)}]]
             count == [s \in SUBSET S |-> Cardinality(Units(f, s))]
  <1>1. SumOf(f, S) = (CHOOSE it : Folds(it))[S]
    BY DEF SumOf, MapThenSumSet, MapThenFoldSet
  <1>2. Units(f, {}) = {} /\ IsFiniteSet({}) /\ Cardinality({}) = 0
    BY FS_EmptySet DEF Units
  <1>3. \A s \in SUBSET S : IsFiniteSet(Units(f, s))
    <2> DEFINE G == {s \in SUBSET S : IsFiniteSet(Units(f, s))}
    <2>1. ASSUME NEW s \in SUBSET S, \A x \in s : s \ {x} \in G PROVE s \in G
      <3>1. CASE s = {}
        BY <1>2, <3>1
      <3>2. CASE s # {}
        <4>1. PICK x \in s : TRUE
          BY <3>2
        <4> QED
          BY <2>1, <4>1, UnitsRemove
      <3> QED
        BY <3>1, <3>2
    <2> HIDE DEF G
    <2>2. \A s \in SUBSET S : s \in G
      BY <2>1, SubsetInduction
    <2> QED
      BY <2>2 DEF G
  <1>4. \A s \in SUBSET S : s # {} => pick(s) \in s /\ s \ {pick(s)} \in SUBSET S
    OBVIOUS
  <1> HIDE DEF pick
  <1>5. \A s \in SUBSET S : s # {} =>
          Cardinality(Units(f, s)) = f[pick(s)] + Cardinality(Units(f, s \ {pick(s)}))
    BY <1>3, <1>4, UnitsRemove
  <1>6. Folds(count)
    <2>1. \A s \in SUBSET S :
            count[s] = IF s = {} THEN 0 ELSE f[pick(s)] + count[s \ {pick(s)}]
      BY <1>2, <1>4, <1>5
    <2> QED
      BY <2>1
  <1> DEFINE fold == CHOOSE it : Folds(it)
  <1>7. Folds(fold)
    BY <1>6
  <1> HIDE DEF fold, count
  <1>8. \A s \in SUBSET S : fold[s] = IF s = {} THEN 0 ELSE f[pick(s)] + fold[s \ {pick(s)}]
    BY <1>7
  <1> DEFINE H == {s \in SUBSET S : fold[s] = Cardinality(Units(f, s))}
  <1>9. ASSUME NEW s \in SUBSET S, \A x \in s : s \ {x} \in H PROVE s \in H
    <2>1. CASE s = {}
      BY <1>2, <1>8, <2>1
    <2>2. CASE s # {}
      BY <1>4, <1>5, <1>8, <1>9, <2>2
    <2> QED
      BY <2>1, <2>2
  <1> HIDE DEF H
  <1>10. \A s \in SUBSET S : s \in H
    BY <1>9, SubsetInduction
  <1> QED
    BY <1>1, <1>3, <1>10 DEF H, fold

(* The sum over nothing. *)
LEMMA SumOfEmpty == ASSUME NEW f PROVE SumOf(f, {}) = 0
  <1>1. Units(f, {}) = {} /\ IsFiniteSet({}) /\ Cardinality({}) = 0
    BY FS_EmptySet DEF Units
  <1> QED
    BY <1>1, SumIsCount

(* A sum is a natural number. *)
LEMMA SumOfNat ==
    ASSUME NEW S, IsFiniteSet(S), NEW f, \A x \in S : f[x] \in Nat
    PROVE  SumOf(f, S) \in Nat
  BY SumIsCount, FS_CardinalityType

(* It depends on the values of the set's elements only. *)
LEMMA SumOfSame ==
    ASSUME NEW S, IsFiniteSet(S), NEW f, NEW g, \A x \in S : f[x] \in Nat /\ g[x] = f[x]
    PROVE  SumOf(g, S) = SumOf(f, S)
  <1>1. Units(g, S) = Units(f, S)
    BY DEF Units
  <1>2. SumOf(f, S) = Cardinality(Units(f, S)) /\ SumOf(g, S) = Cardinality(Units(g, S))
    BY SumIsCount
  <1> QED
    BY <1>1, <1>2

(* The sum over two sets that have nothing in common. *)
LEMMA SumOfUnion ==
    ASSUME NEW S, NEW T, IsFiniteSet(S), IsFiniteSet(T), S \cap T = {},
           NEW f, \A x \in S \cup T : f[x] \in Nat
    PROVE  SumOf(f, S \cup T) = SumOf(f, S) + SumOf(f, T)
  <1> DEFINE U == Units(f, S)
             V == Units(f, T)
             W == Units(f, S \cup T)
  <1>1. W = U \cup V /\ U \cap V = {}
    BY DEF Units
  <1>2. IsFiniteSet(S \cup T)
    BY FS_Union
  <1>3. /\ IsFiniteSet(U) /\ SumOf(f, S) = Cardinality(U)
        /\ IsFiniteSet(V) /\ SumOf(f, T) = Cardinality(V)
        /\ SumOf(f, S \cup T) = Cardinality(W)
    BY <1>2, SumIsCount
  <1> HIDE DEF U, V, W
  <1>4. Cardinality(U \cup V) = Cardinality(U) + Cardinality(V) - Cardinality(U \cap V)
    BY <1>3, FS_Union
  <1>5. Cardinality(U \cap V) = 0 /\ Cardinality(U) \in Nat /\ Cardinality(V) \in Nat
    BY <1>1, <1>3, FS_EmptySet, FS_CardinalityType
  <1>6. Cardinality(W) = Cardinality(U) + Cardinality(V)
    BY <1>1, <1>4, <1>5
  <1> QED
    BY <1>3, <1>6

(* The sum over a part of a set. *)
LEMMA SumOfPart ==
    ASSUME NEW S, NEW T, T \subseteq S, IsFiniteSet(S), NEW f, \A x \in S : f[x] \in Nat
    PROVE  /\ SumOf(f, S \ T) = SumOf(f, S) - SumOf(f, T)
           /\ SumOf(f, T) \in Nat /\ SumOf(f, S) \in Nat /\ SumOf(f, S \ T) \in Nat
  <1>1. IsFiniteSet(T) /\ IsFiniteSet(S \ T)
    BY FS_Subset
  <1>2. S = (S \ T) \cup T /\ (S \ T) \cap T = {}
    OBVIOUS
  <1>3. SumOf(f, (S \ T) \cup T) = SumOf(f, S \ T) + SumOf(f, T)
    BY <1>1, <1>2, SumOfUnion
  <1>4. SumOf(f, T) \in Nat /\ SumOf(f, S) \in Nat /\ SumOf(f, S \ T) \in Nat
    BY <1>1, SumOfNat
  <1>5. SumOf(f, S) = SumOf(f, S \ T) + SumOf(f, T)
    BY <1>2, <1>3, Zenon
  <1> DEFINE all == SumOf(f, S)
             part == SumOf(f, T)
             rest == SumOf(f, S \ T)
  <1>6. all = rest + part /\ all \in Nat /\ part \in Nat /\ rest \in Nat
    BY <1>4, <1>5
  <1> HIDE DEF all, part, rest
  <1>7. rest = all - part
    BY <1>6
  <1> QED
    BY <1>6, <1>7 DEF all, part, rest

(* The sum with one element more. *)
LEMMA SumOfMore ==
    ASSUME NEW S, IsFiniteSet(S), NEW x, x \notin S, NEW f, \A y \in S \cup {x} : f[y] \in Nat
    PROVE  SumOf(f, S \cup {x}) = SumOf(f, S) + f[x]
  <1>1. IsFiniteSet({x})
    BY FS_Singleton
  <1>2. SumOf(f, S \cup {x}) = SumOf(f, S) + SumOf(f, {x})
    BY <1>1, SumOfUnion
  <1>3. SumOf(f, {x}) = f[x]
    <2>1. {x} \ {x} = {} /\ Units(f, {}) = {} /\ IsFiniteSet({}) /\ Cardinality({}) = 0
      BY FS_EmptySet DEF Units
    <2>2. Cardinality(Units(f, {x})) = f[x] + Cardinality(Units(f, {x} \ {x}))
      <3>1. x \in {x} /\ f[x] \in Nat
        OBVIOUS
      <3>2. IsFiniteSet(Units(f, {x} \ {x}))
        BY <2>1
      <3> QED
        BY <3>1, <3>2, UnitsRemove
    <2>3. SumOf(f, {x}) = Cardinality(Units(f, {x}))
      BY <1>1, SumIsCount
    <2> QED
      BY <2>1, <2>2, <2>3
  <1> QED
    BY <1>2, <1>3

-----------------------------------------------------------------------------
(* The pool of a primary context: the inductive invariant *)

ThreadStates == {"idle", "driver", "retry", "reused", "fresh", "collect", "wait",
                 "close_drain", "close_snapshot", "close_wait", "close_done",
                 "close_drain_again", "close_trim", "close_uncertain", "close_reopen"}

PoolTypes ==
    /\ lifecycle \in {"Open", "Closing", "Closed"}
    /\ cached \subseteq Block /\ quarantined \subseteq Block
    /\ live \subseteq used /\ used \subseteq Block /\ recycled \subseteq used
    /\ retained \subseteq Block /\ unknown \subseteq Block
    /\ deferred \subseteq DeferredEntry
    /\ cap \in [Block -> Nat] /\ gen \in [Block -> Nat]
    /\ marked \in [Block -> BOOLEAN]
    /\ lease \in [Block -> Lease \cup {None}]
    /\ fence \in [Fence -> {"free", "pending", "done"}]
    /\ busy \in [Block -> SUBSET Fence]
    /\ got \in [Thread -> Block \cup {None}]
    /\ want \in [Thread -> Request \cup {0}]
    /\ collecting \in [Thread -> SUBSET DeferredEntry]
    /\ ready \in [Thread -> SUBSET PromotionKey]
    /\ pc \in [Thread -> ThreadStates]

(* The flag says which blocks are quarantined. *)
MarksOK == \A b \in live : marked[b] <=> b \in quarantined \cup retained

(* A thread has a block in its hands between the two critical sections of its
   allocation only. *)
ThreadsOK ==
    \A t \in Thread :
        /\ got[t] # None <=> pc[t] \in {"reused", "fresh"}
        /\ t \in Allocating => want[t] \in Request

CountsOK == inUseBlocks = Cardinality(Leased) /\ pending = Cardinality(Allocating)

(* One thread closes at a time, nothing is leased meanwhile, and its wait
   leaves nothing deferred and nothing in quarantine. *)
CloserOK(t) ==
    /\ pc[t] \in {"close_snapshot", "close_wait", "close_done", "close_uncertain"} => quarantined = {}
    /\ pc[t] = "close_wait" =>
         \A e \in deferred : e \in collecting[t] \/ <<e.block, e.gen>> \in ready[t]
    /\ pc[t] = "close_done" => deferred = {}

CloseOK ==
    /\ lifecycle # "Open" => Leased = {} /\ Allocating = {}
    /\ lifecycle = "Closing" <=> Closing # {}
    /\ Emptying # {} => lifecycle = "Closed"
    /\ \A t, u \in Closing \cup Emptying : t = u
    /\ \A t \in Thread : CloserOK(t)
    /\ lifecycle = "Closed" => deferred = {} /\ quarantined = {}
    /\ lifecycle = "Closed" /\ Emptying = {} => cached = {}

(* What collectors have copied, and what they have found complete. *)
Seen == UNION {collecting[t] : t \in Thread}
Found == UNION {ready[t] : t \in Thread}

(* The device works on a block only while fences of its lease or of its
   deferred entry are pending, or when it is in quarantine. *)
DeviceOK ==
    /\ \A b \in Block : \A f \in busy[b] : fence[f] = "pending"
    /\ \A b \in live : b \in unknown => marked[b]
    /\ \A b \in Leased : lease[b].gen = gen[b]
    /\ \A e \in deferred : e.gen = gen[e.block]
    /\ \A e \in Seen : e.block \in used
    /\ \A r \in Found : r[1] \in used

(* At an address that has held one block only, a generation is leased once, so
   that what a collector found out about it cannot be about a later lease. *)
BlockOK(b) ==
    /\ \A e \in Seen : e.block = b => e.gen <= gen[b] /\ (b \in Leased => e.gen < gen[b])
    /\ \A r \in Found : r[1] = b => r[2] <= gen[b] /\ (b \in Leased => r[2] < gen[b])
    /\ b \in Leased => busy[b] \subseteq lease[b].fences
    /\ b \in cached \cup InHand => busy[b] = {}
    /\ \A e \in deferred : e.block = b =>
         /\ busy[b] \subseteq e.fences
         /\ <<b, e.gen>> \in Found => busy[b] = {}
         /\ \A o \in Seen : o.block = b /\ o.gen = e.gen => o = e

WorkOK == DeviceOK /\ \A b \in used \ recycled : BlockOK(b)

PoolInv ==
    PoolTypes /\ OnePlace /\ MarksOK /\ ThreadsOK /\ CountsOK /\ CloseOK /\ Accounting /\ WorkOK

-----------------------------------------------------------------------------
(* Types *)

(* Sets of blocks are finite. *)
LEMMA FiniteBlocks == \A S : S \subseteq Block => IsFiniteSet(S)
  BY FiniteAssumption, FS_Subset

(* The types of the steps of an allocation. *)
LEMMA AllocTypes ==
    ASSUME PoolTypes, ThreadsOK, NEW t \in Thread, AllocStep(t)
    PROVE  PoolTypes'
  <1> USE RequestAssumption, SizeAssumption
  <1>1. ASSUME NEW bytes \in Request, AllocBegin(t, bytes) PROVE PoolTypes'
    BY <1>1 DEF AllocBegin, FreeList, PoolTypes, ThreadStates, blocks, device
  <1>2. CASE AllocFresh(t)
    <2>1. want[t] \in Request /\ SizeClass(want[t]) \in Nat
      BY <1>2 DEF AllocFresh, ThreadsOK, Allocating
    <2>2. PICK b \in Vacant :
        /\ live' = live \cup {b}
        /\ used' = used \cup {b}
        /\ recycled' = recycled \cup ({b} \cap used)
        /\ cap' = [cap EXCEPT ![b] = SizeClass(want[t])]
        /\ gen' = [gen EXCEPT ![b] = 0]
        /\ marked' = [marked EXCEPT ![b] = FALSE]
        /\ got' = [got EXCEPT ![t] = b]
        /\ busy' = [busy EXCEPT ![b] = {}]
        /\ unknown' = unknown \ {b}
      BY <1>2 DEF AllocFresh
    <2>3. UNCHANGED <<pool, lease, retained, fence, collecting, ready, want>>
          /\ pc' = [pc EXCEPT ![t] = "fresh"]
      BY <1>2 DEF AllocFresh
    <2> QED
      BY <2>1, <2>2, <2>3 DEF PoolTypes, ThreadStates, Vacant, pool
  <1>3. CASE AllocOutOfMemory(t)
    BY <1>3 DEF AllocOutOfMemory, Trimmed, PoolTypes, ThreadStates, device
  <1>4. CASE AllocFails(t)
    BY <1>4 DEF AllocFails, PoolTypes, ThreadStates, device, blocks
  <1>5. CASE AllocFinish(t)
    <2> DEFINE b == got[t]
    <2>1. b \in Block /\ want[t] \in Request /\ gen[b] + 1 \in Nat
      BY <1>5 DEF AllocFinish, ThreadsOK, Allocating, PoolTypes
    <2>2. [gen |-> gen[b] + 1, bytes |-> want[t], fences |-> {}] \in Lease
      BY <2>1 DEF Lease
    <2> QED
      BY <1>5, <2>1, <2>2 DEF AllocFinish, PoolTypes, ThreadStates, device
  <1> QED
    BY <1>1, <1>2, <1>3, <1>4, <1>5 DEF AllocStep

(* The types of the steps of leases and of the device. *)
LEMMA LeaseTypes ==
    ASSUME PoolTypes, LeaseStep \/ DeviceStep
    PROVE  PoolTypes'
  <1>1. ASSUME NEW touched \in SUBSET Block, NEW f \in Fence, Launch(touched, f) PROVE PoolTypes'
    <2>1. \A b \in touched : [lease[b] EXCEPT !.fences = @ \cup {f}] \in Lease
      BY <1>1 DEF Launch, Leased, PoolTypes, Lease
    <2>2. lease' \in [Block -> Lease \cup {None}] /\ busy' \in [Block -> SUBSET Fence]
      BY <1>1, <2>1 DEF Launch, PoolTypes
    <2> QED
      BY <1>1, <2>2 DEF Launch, PoolTypes, pool, blocks, threads
  <1>2. ASSUME NEW b \in Block, LaunchUncertain(b) PROVE PoolTypes'
    BY <1>2 DEF LaunchUncertain, Quarantined, PoolTypes, threads
  <1>3. ASSUME NEW b \in Block, ReturnBlock(b) PROVE PoolTypes'
    <2>1. lease[b] \in Lease
      BY <1>3 DEF ReturnBlock, Leased, PoolTypes
    <2>2. [block |-> b, gen |-> lease[b].gen, fences |-> lease[b].fences] \in DeferredEntry
      BY <2>1 DEF Lease, DeferredEntry
    <2>3. live' \subseteq live /\ marked' \in [Block -> BOOLEAN] /\ retained' \subseteq Block
      BY <1>3 DEF ReturnBlock, Expelled, PoolTypes
    <2>4. cached' \subseteq Block /\ deferred' \subseteq DeferredEntry
      BY <1>3, <2>2 DEF ReturnBlock, Returned, PoolTypes
    <2> QED
      BY <1>3, <2>3, <2>4 DEF ReturnBlock, PoolTypes, device, threads
  <1>4. ASSUME NEW f \in Fence, DeviceCompletes(f) PROVE PoolTypes'
    BY <1>4 DEF DeviceCompletes, PoolTypes, pool, blocks, threads
  <1>5. ASSUME NEW f \in Fence, FenceDropped(f) PROVE PoolTypes'
    BY <1>5 DEF FenceDropped, PoolTypes, pool, blocks, threads
  <1> QED
    BY <1>1, <1>2, <1>3, <1>4, <1>5 DEF LeaseStep, DeviceStep

(* The types of the steps of collectors. *)
LEMMA CollectTypes ==
    ASSUME PoolTypes, NEW t \in Thread, CollectStep(t)
    PROVE  PoolTypes'
  <1>1. ASSUME NEW from, NEW to \in ThreadStates, TakeSnapshot(t, from, to) PROVE PoolTypes'
    BY <1>1 DEF TakeSnapshot, PoolTypes, pool, blocks, device
  <1>2. ASSUME NEW e \in collecting[t], QueryEntry(t, e) \/ WaitEntry(t, e) PROVE PoolTypes'
    <2>1. <<e.block, e.gen>> \in PromotionKey
      BY DEF PoolTypes, DeferredEntry, PromotionKey
    <2> QED
      BY <1>2, <2>1 DEF QueryEntry, WaitEntry, PoolTypes, pool, blocks, device
  <1>3. CASE FenceFails(t)
    BY <1>3 DEF FenceFails, PoolTypes, ThreadStates, pool, blocks, device
  <1>4. CASE PromoteDeferred(t)
    <2>1. {e.block : e \in Promotable(t)} \subseteq Block
      <3>1. Promotable(t) \subseteq deferred
        BY DEF Promotable
      <3> QED
        BY <3>1 DEF PoolTypes, DeferredEntry
    <2> QED
      BY <1>4, <2>1 DEF PromoteDeferred, PoolTypes, ThreadStates, blocks, device
  <1>5. CASE Trim(t)
    BY <1>5 DEF Trim, Trimmed, PoolTypes, device, threads
  <1> QED
    BY <1>1, <1>2, <1>3, <1>4, <1>5 DEF CollectStep, ThreadStates

(* The types of the steps of a close. *)
LEMMA CloseTypes ==
    ASSUME PoolTypes, NEW t \in Thread, CloseStep(t)
    PROVE  PoolTypes'
  <1>1. CASE CloseBegin(t)
    BY <1>1 DEF CloseBegin, PoolTypes, ThreadStates, blocks, device
  <1>2. CASE CloseDrain(t)
    BY <1>2 DEF CloseDrain, PoolTypes, ThreadStates, blocks, device
  <1>3. CASE TakeSnapshot(t, "close_snapshot", "close_wait")
    BY <1>3 DEF TakeSnapshot, PoolTypes, ThreadStates, pool, blocks, device
  <1>4. CASE CloseDrainUncertain(t)
    <2>1. {e.block : e \in deferred} \subseteq Block
      BY DEF PoolTypes, DeferredEntry
    <2> QED
      BY <1>4, <2>1 DEF CloseDrainUncertain, PoolTypes, ThreadStates, device
  <1>5. CASE CloseSettle(t)
    BY <1>5 DEF CloseSettle, PoolTypes, ThreadStates, blocks, device
  <1>6. CASE CloseTrim(t)
    BY <1>6 DEF CloseTrim, Trimmed, PoolTypes, ThreadStates, device
  <1> QED
    BY <1>1, <1>2, <1>3, <1>4, <1>5, <1>6 DEF CloseStep

(* Every step keeps the types. *)
LEMMA TypesStep ==
    ASSUME PoolInv, AllocatorNext
    PROVE  PoolTypes'
  BY AllocTypes, LeaseTypes, CollectTypes, CloseTypes DEF AllocatorNext, PoolInv

-----------------------------------------------------------------------------
(* Places *)

Places(all, free, waiting, leased, hands, lost, kept) ==
    /\ all = free \cup waiting \cup leased \cup hands \cup lost \cup kept
    /\ free \cap (waiting \cup leased \cup hands \cup lost \cup kept) = {}
    /\ waiting \cap (leased \cup hands \cup lost \cup kept) = {}
    /\ leased \cap (hands \cup kept) = {}
    /\ hands \cap (lost \cup kept) = {}
    /\ lost \cap kept = {}

OneEntry == \A e, o \in deferred : e.block = o.block => e = o
OneHand == \A t, u \in Thread : got[t] = got[u] /\ got[t] # None => t = u

(* OnePlace, with the quarantined blocks that are still leased counted among
   the quarantined ones too. *)
LEMMA OnePlaceIs ==
    /\ OnePlace <=> /\ Places(live, cached, DeferredBlocks, Leased, InHand, quarantined, retained)
                    /\ OneEntry /\ OneHand
    /\ OnePlace' <=> /\ Places(live', cached', DeferredBlocks', Leased', InHand', quarantined', retained')
                     /\ OneEntry' /\ OneHand'
  <1>1. ASSUME NEW L, NEW C, NEW D, NEW S, NEW H, NEW Q, NEW R
        PROVE  (LET idle == Q \ S IN
                 /\ L = C \cup D \cup S \cup H \cup idle \cup R
                 /\ C \cap (D \cup S \cup H \cup idle \cup R) = {}
                 /\ D \cap (S \cup H \cup idle \cup R) = {}
                 /\ S \cap (H \cup R) = {}
                 /\ H \cap (idle \cup R) = {}
                 /\ idle \cap R = {}) <=> Places(L, C, D, S, H, Q, R)
    BY DEF Places
  <1>2. OnePlace <=> /\ Places(live, cached, DeferredBlocks, Leased, InHand, quarantined, retained)
                     /\ OneEntry /\ OneHand
    BY <1>1 DEF OnePlace, OneEntry, OneHand
  <1>3. OnePlace' <=> /\ Places(live', cached', DeferredBlocks', Leased', InHand', quarantined', retained')
                      /\ OneEntry' /\ OneHand'
    BY <1>1 DEF OnePlace, OneEntry, OneHand
  <1> QED
    BY <1>2, <1>3

(* The sets of blocks. *)
LEMMA BlockSets ==
    ASSUME PoolTypes
    PROVE  /\ DeferredBlocks \subseteq Block /\ Leased \subseteq Block /\ InHand \subseteq Block
           /\ \A b : b \in InHand <=> b # None /\ \E t \in Thread : got[t] = b
           /\ \A b : b \in DeferredBlocks <=> \E e \in deferred : e.block = b
           /\ \A b : b \in Leased <=> b \in Block /\ lease[b] # None
  BY DEF PoolTypes, DeferredBlocks, Leased, InHand, DeferredEntry

(* A thread takes a block into its hands. *)
LEMMA HandsTake ==
    ASSUME PoolInv, NEW t \in Thread, pc[t] \notin {"reused", "fresh"}, NEW b \in Block, b \notin InHand,
           got' = [got EXCEPT ![t] = b]
    PROVE  InHand' = InHand \cup {b} /\ OneHand'
  <1>1. got[t] = None /\ None \notin Block
    BY NoneAssumption DEF PoolInv, ThreadsOK
  <1>2. got'[t] = b /\ \A u \in Thread : u # t => got'[u] = got[u]
    BY DEF PoolInv, PoolTypes
  <1>3. OneHand
    BY OnePlaceIs DEF PoolInv
  <1>4. \A x : x \in InHand' <=> x \in InHand \cup {b}
    <2> TAKE x
    <2>1. x \in InHand' <=> x # None /\ \E u \in Thread : got'[u] = x
      BY DEF InHand
    <2>2. x \in InHand <=> x # None /\ \E u \in Thread : got[u] = x
      BY DEF InHand
    <2> QED
      BY <1>1, <1>2, <2>1, <2>2
  <1>5. OneHand'
    BY <1>1, <1>2, <1>3 DEF OneHand, InHand
  <1> QED
    BY <1>4, <1>5

(* It leases the block. *)
LEMMA HandsGive ==
    ASSUME PoolInv, NEW t \in Thread, got[t] # None, got' = [got EXCEPT ![t] = None]
    PROVE  InHand' = InHand \ {got[t]} /\ OneHand'
  <1>1. got'[t] = None /\ \A u \in Thread : u # t => got'[u] = got[u]
    BY DEF PoolInv, PoolTypes
  <1>2. OneHand
    BY OnePlaceIs DEF PoolInv
  <1>3. \A x : x \in InHand' <=> x \in InHand \ {got[t]}
    <2> TAKE x
    <2>1. x \in InHand' <=> x # None /\ \E u \in Thread : got'[u] = x
      BY DEF InHand
    <2>2. x \in InHand <=> x # None /\ \E u \in Thread : got[u] = x
      BY DEF InHand
    <2> QED
      BY <1>1, <1>2, <2>1, <2>2 DEF OneHand
  <1>4. OneHand'
    BY <1>1, <1>2 DEF OneHand
  <1> QED
    BY <1>3, <1>4

(* Steps that move no block. *)
LEMMA NoMove ==
    ASSUME PoolInv, UNCHANGED <<live, cached, deferred, got, quarantined, retained, marked>>,
           Leased' = Leased
    PROVE  OnePlace' /\ MarksOK' /\ DeferredBlocks' = DeferredBlocks /\ InHand' = InHand
  <1>1. DeferredBlocks' = DeferredBlocks /\ InHand' = InHand
    BY DEF DeferredBlocks, InHand
  <1>2. OneEntry' /\ OneHand'
    BY OnePlaceIs DEF PoolInv, OneEntry, OneHand
  <1>3. MarksOK'
    BY DEF PoolInv, MarksOK
  <1> QED
    BY <1>1, <1>2, <1>3, OnePlaceIs DEF PoolInv

(* allocate pops a cached block. *)
LEMMA PopPlaces ==
    ASSUME PoolInv, NEW t \in Thread, pc[t] \notin {"reused", "fresh"}, NEW b \in cached,
           cached' = cached \ {b}, got' = [got EXCEPT ![t] = b],
           UNCHANGED <<live, deferred, quarantined, retained, marked, lease>>
    PROVE  /\ OnePlace' /\ MarksOK'
           /\ Leased' = Leased /\ DeferredBlocks' = DeferredBlocks /\ InHand' = InHand \cup {b}
  <1>1. Places(live, cached, DeferredBlocks, Leased, InHand, quarantined, retained) /\ OneEntry
    BY OnePlaceIs DEF PoolInv
  <1>2. b \in Block /\ b \notin InHand
    BY <1>1 DEF PoolInv, PoolTypes, Places
  <1>3. InHand' = InHand \cup {b} /\ OneHand'
    BY <1>2, HandsTake
  <1>4. Leased' = Leased /\ DeferredBlocks' = DeferredBlocks /\ OneEntry'
    BY <1>1 DEF Leased, DeferredBlocks, OneEntry
  <1>5. Places(live', cached', DeferredBlocks', Leased', InHand', quarantined', retained')
    BY <1>1, <1>3, <1>4 DEF Places
  <1>6. MarksOK'
    BY DEF PoolInv, MarksOK
  <1> QED
    BY <1>3, <1>4, <1>5, <1>6, OnePlaceIs

(* The driver gives a new block. *)
LEMMA FreshPlaces ==
    ASSUME PoolInv, NEW t \in Thread, pc[t] \notin {"reused", "fresh"}, NEW b \in Vacant,
           live' = live \cup {b}, marked' = [marked EXCEPT ![b] = FALSE],
           got' = [got EXCEPT ![t] = b],
           UNCHANGED <<cached, deferred, quarantined, retained, lease>>
    PROVE  /\ OnePlace' /\ MarksOK'
           /\ Leased' = Leased /\ DeferredBlocks' = DeferredBlocks /\ InHand' = InHand \cup {b}
  <1>1. Places(live, cached, DeferredBlocks, Leased, InHand, quarantined, retained) /\ OneEntry
    BY OnePlaceIs DEF PoolInv
  <1>2. b \in Block /\ b \notin live /\ b \notin InHand
    BY <1>1 DEF Vacant, Places
  <1>3. InHand' = InHand \cup {b} /\ OneHand'
    BY <1>2, HandsTake
  <1>4. Leased' = Leased /\ DeferredBlocks' = DeferredBlocks /\ OneEntry'
    BY <1>1 DEF Leased, DeferredBlocks, OneEntry
  <1>5. Places(live', cached', DeferredBlocks', Leased', InHand', quarantined', retained')
    BY <1>1, <1>2, <1>3, <1>4 DEF Places
  <1>6. MarksOK'
    BY <1>1, <1>2 DEF PoolInv, PoolTypes, MarksOK, Places
  <1> QED
    BY <1>3, <1>4, <1>5, <1>6, OnePlaceIs

(* allocate issues the lease. *)
LEMMA LeasePlaces ==
    ASSUME PoolInv, NEW t \in Thread, pc[t] \in {"reused", "fresh"}, NEW l \in Lease,
           lease' = [lease EXCEPT ![got[t]] = l], got' = [got EXCEPT ![t] = None],
           UNCHANGED <<live, cached, deferred, quarantined, retained, marked>>
    PROVE  /\ OnePlace' /\ MarksOK' /\ got[t] \in InHand /\ got[t] \in Block
           /\ Leased' = Leased \cup {got[t]} /\ DeferredBlocks' = DeferredBlocks
           /\ InHand' = InHand \ {got[t]}
  <1>1. Places(live, cached, DeferredBlocks, Leased, InHand, quarantined, retained) /\ OneEntry
    BY OnePlaceIs DEF PoolInv
  <1>2. got[t] # None /\ got[t] \in Block /\ got[t] \in InHand
    BY DEF PoolInv, PoolTypes, ThreadsOK, InHand
  <1>3. InHand' = InHand \ {got[t]} /\ OneHand'
    BY <1>2, HandsGive
  <1>4. DeferredBlocks' = DeferredBlocks /\ OneEntry'
    BY <1>1 DEF DeferredBlocks, OneEntry
  <1>5. Leased' = Leased \cup {got[t]}
    BY <1>2, LeaseAssumption DEF PoolInv, PoolTypes, Leased
  <1>6. Places(live', cached', DeferredBlocks', Leased', InHand', quarantined', retained')
    BY <1>1, <1>2, <1>3, <1>4, <1>5 DEF Places
  <1>7. MarksOK'
    BY DEF PoolInv, MarksOK
  <1> QED
    BY <1>2, <1>3, <1>4, <1>5, <1>6, <1>7, OnePlaceIs

(* The cached blocks are freed. *)
LEMMA TrimPlaces ==
    ASSUME PoolInv, Trimmed, got' = got
    PROVE  /\ OnePlace' /\ MarksOK'
           /\ Leased' = Leased /\ DeferredBlocks' = DeferredBlocks /\ InHand' = InHand
  <1>1. Places(live, cached, DeferredBlocks, Leased, InHand, quarantined, retained) /\ OneEntry /\ OneHand
    BY OnePlaceIs DEF PoolInv
  <1>2. /\ cached' = {} /\ live' = live \ cached
        /\ UNCHANGED <<deferred, quarantined, retained, marked, lease>>
    BY DEF Trimmed
  <1>3. Leased' = Leased /\ DeferredBlocks' = DeferredBlocks /\ InHand' = InHand /\ OneEntry' /\ OneHand'
    BY <1>1, <1>2 DEF Leased, DeferredBlocks, InHand, OneEntry, OneHand
  <1>4. Places(live', cached', DeferredBlocks', Leased', InHand', quarantined', retained')
    BY <1>1, <1>2, <1>3 DEF Places
  <1>5. MarksOK'
    BY <1>2 DEF PoolInv, MarksOK
  <1> QED
    BY <1>3, <1>4, <1>5, OnePlaceIs

(* A pool with a lease or an allocation under way is open. *)
LEMMA LeasedIsOpen ==
    ASSUME PoolInv, NEW b \in Leased
    PROVE  lifecycle = "Open" /\ Closing = {} /\ Emptying = {}
  BY DEF PoolInv, CloseOK

(* A leased block is quarantined. *)
LEMMA UncertainPlaces ==
    ASSUME PoolInv, NEW b \in Block, LaunchUncertain(b)
    PROVE  /\ OnePlace' /\ MarksOK' /\ b \in Leased
           /\ quarantined' = quarantined \cup {b} /\ retained' = retained /\ reserved' = reserved
           /\ Leased' = Leased /\ DeferredBlocks' = DeferredBlocks /\ InHand' = InHand
  <1>1. Places(live, cached, DeferredBlocks, Leased, InHand, quarantined, retained) /\ OneEntry /\ OneHand
    BY OnePlaceIs DEF PoolInv
  <1>2. b \in Leased /\ lifecycle = "Open"
    BY LeasedIsOpen DEF LaunchUncertain, Quarantined
  <1>3. b \in live /\ b \notin retained /\ (marked[b] <=> b \in quarantined)
    BY <1>1, <1>2 DEF Places, PoolInv, MarksOK
  <1>4. /\ quarantined' = quarantined \cup {b} /\ retained' = retained /\ reserved' = reserved
        /\ marked' = [marked EXCEPT ![b] = TRUE]
        /\ UNCHANGED <<live, cached, deferred, lease, got>>
    BY <1>2, <1>3 DEF LaunchUncertain, Quarantined, threads
  <1>5. Leased' = Leased /\ DeferredBlocks' = DeferredBlocks /\ InHand' = InHand /\ OneEntry' /\ OneHand'
    BY <1>1, <1>4 DEF Leased, DeferredBlocks, InHand, OneEntry, OneHand
  <1>6. Places(live', cached', DeferredBlocks', Leased', InHand', quarantined', retained')
    BY <1>1, <1>2, <1>4, <1>5 DEF Places
  <1>7. MarksOK'
    BY <1>4 DEF PoolInv, PoolTypes, MarksOK
  <1> QED
    BY <1>2, <1>4, <1>5, <1>6, <1>7, OnePlaceIs

(* A lease comes back: its block is cached, deferred or stays in quarantine. *)
LEMMA ReturnPlaces ==
    ASSUME PoolInv, NEW b \in Block, ReturnBlock(b)
    PROVE  /\ OnePlace' /\ MarksOK' /\ b \in Leased /\ lifecycle = "Open"
           /\ UNCHANGED <<lifecycle, quarantined, retained, reserved, live, marked, got>>
           /\ Leased' = Leased \ {b} /\ InHand' = InHand
           /\ \/ /\ b \in quarantined
                 /\ UNCHANGED <<cached, deferred, cachedBytes, deferredBytes>>
                 /\ DeferredBlocks' = DeferredBlocks
              \/ /\ b \notin quarantined /\ lease[b].fences = {}
                 /\ cached' = cached \cup {b} /\ cachedBytes' = cachedBytes + cap[b]
                 /\ UNCHANGED <<deferred, deferredBytes>>
                 /\ DeferredBlocks' = DeferredBlocks
              \/ /\ b \notin quarantined
                 /\ deferred' = deferred \cup
                      {[block |-> b, gen |-> lease[b].gen, fences |-> lease[b].fences]}
                 /\ deferredBytes' = deferredBytes + cap[b]
                 /\ DeferredBlocks' = DeferredBlocks \cup {b}
                 /\ UNCHANGED <<cached, cachedBytes>>
  <1>1. Places(live, cached, DeferredBlocks, Leased, InHand, quarantined, retained) /\ OneEntry /\ OneHand
    BY OnePlaceIs DEF PoolInv
  <1>2. b \in Leased /\ lifecycle = "Open"
    BY LeasedIsOpen DEF ReturnBlock
  <1>3. b \in live /\ (marked[b] <=> b \in quarantined)
    BY <1>1, <1>2 DEF Places, PoolInv, MarksOK
  <1>4. UNCHANGED <<lifecycle, quarantined, retained, reserved, live, marked, got>>
    BY <1>2 DEF ReturnBlock, threads
  <1>5. Leased' = Leased \ {b} /\ InHand' = InHand /\ OneHand'
    <2>1. lease' = [lease EXCEPT ![b] = None]
      BY DEF ReturnBlock
    <2> QED
      BY <1>1, <1>4, <2>1 DEF PoolInv, PoolTypes, Leased, InHand, OneHand
  <1>6. MarksOK'
    BY <1>4 DEF PoolInv, MarksOK
  <1>7. CASE marked[b]
    <2>1. UNCHANGED <<cached, deferred, cachedBytes, deferredBytes>>
      BY <1>7 DEF ReturnBlock
    <2>2. DeferredBlocks' = DeferredBlocks /\ OneEntry'
      BY <1>1, <2>1 DEF DeferredBlocks, OneEntry
    <2>3. Places(live', cached', DeferredBlocks', Leased', InHand', quarantined', retained')
      BY <1>1, <1>3, <1>4, <1>5, <1>7, <2>1, <2>2 DEF Places
    <2> QED
      BY <1>2, <1>3, <1>4, <1>5, <1>6, <1>7, <2>1, <2>2, <2>3, OnePlaceIs
  <1>8. CASE ~marked[b] /\ lease[b].fences = {}
    <2>1. /\ cached' = cached \cup {b} /\ cachedBytes' = cachedBytes + cap[b]
          /\ UNCHANGED <<deferred, deferredBytes>>
      BY <1>2, <1>8 DEF ReturnBlock, Returned
    <2>2. DeferredBlocks' = DeferredBlocks /\ OneEntry'
      BY <1>1, <2>1 DEF DeferredBlocks, OneEntry
    <2>3. Places(live', cached', DeferredBlocks', Leased', InHand', quarantined', retained')
      BY <1>1, <1>2, <1>3, <1>4, <1>5, <1>8, <2>1, <2>2 DEF Places
    <2> QED
      BY <1>2, <1>3, <1>4, <1>5, <1>6, <1>8, <2>1, <2>2, <2>3, OnePlaceIs
  <1>9. CASE ~marked[b] /\ lease[b].fences # {}
    <2> DEFINE n == [block |-> b, gen |-> lease[b].gen, fences |-> lease[b].fences]
    <2>1. /\ deferred' = deferred \cup {n} /\ deferredBytes' = deferredBytes + cap[b]
          /\ UNCHANGED <<cached, cachedBytes>>
      BY <1>2, <1>9 DEF ReturnBlock, Returned
    <2>2. n.block = b /\ b \notin DeferredBlocks
      BY <1>1, <1>2 DEF Places
    <2> HIDE DEF n
    <2>3. DeferredBlocks' = DeferredBlocks \cup {b} /\ OneEntry'
      BY <1>1, <2>1, <2>2 DEF DeferredBlocks, OneEntry
    <2>4. Places(live', cached', DeferredBlocks', Leased', InHand', quarantined', retained')
      BY <1>1, <1>2, <1>3, <1>4, <1>5, <1>9, <2>1, <2>3 DEF Places
    <2> QED
      BY <1>2, <1>3, <1>4, <1>5, <1>6, <1>9, <2>1, <2>3, <2>4, OnePlaceIs DEF n
  <1> QED
    BY <1>7, <1>8, <1>9

(* promote_deferred moves entries to the free lists. *)
LEMMA PromotePlaces ==
    ASSUME PoolInv, NEW t \in Thread, PromoteDeferred(t), NEW moved,
           moved = {e.block : e \in Promotable(t)}
    PROVE  /\ OnePlace' /\ MarksOK' /\ moved \subseteq DeferredBlocks
           /\ cached' = cached \cup moved /\ DeferredBlocks' = DeferredBlocks \ moved
           /\ Leased' = Leased /\ InHand' = InHand
  <1>1. Places(live, cached, DeferredBlocks, Leased, InHand, quarantined, retained) /\ OneEntry /\ OneHand
    BY OnePlaceIs DEF PoolInv
  <1>2. /\ deferred' = deferred \ Promotable(t) /\ cached' = cached \cup moved
        /\ UNCHANGED <<live, quarantined, retained, marked, lease, got>>
    BY DEF PromoteDeferred, blocks
  <1>3. Promotable(t) \subseteq deferred
    BY DEF Promotable
  <1>4. moved \subseteq DeferredBlocks
    BY <1>3 DEF DeferredBlocks
  <1>5. DeferredBlocks' = DeferredBlocks \ moved
    <2>1. ASSUME NEW e \in deferred PROVE e \in Promotable(t) <=> e.block \in moved
      BY <1>1, <1>3, <2>1 DEF OneEntry
    <2>2. \A x : x \in DeferredBlocks' <=> x \in DeferredBlocks \ moved
      BY <1>2, <2>1 DEF DeferredBlocks
    <2> QED
      BY <2>2
  <1>6. Leased' = Leased /\ InHand' = InHand /\ OneEntry' /\ OneHand'
    BY <1>1, <1>2 DEF Leased, InHand, OneEntry, OneHand
  <1>7. Places(live', cached', DeferredBlocks', Leased', InHand', quarantined', retained')
    BY <1>1, <1>2, <1>4, <1>5, <1>6 DEF Places
  <1>8. MarksOK'
    BY <1>2 DEF PoolInv, MarksOK
  <1> QED
    BY <1>2, <1>4, <1>5, <1>6, <1>7, <1>8, OnePlaceIs

(* A closing thread hands the quarantined blocks to the process. *)
LEMMA DrainPlaces ==
    ASSUME PoolInv, NEW t \in Thread, CloseDrain(t)
    PROVE  /\ OnePlace' /\ MarksOK' /\ Leased = {}
           /\ Leased' = Leased /\ DeferredBlocks' = DeferredBlocks /\ InHand' = InHand
  <1>1. Places(live, cached, DeferredBlocks, Leased, InHand, quarantined, retained) /\ OneEntry /\ OneHand
    BY OnePlaceIs DEF PoolInv
  <1>2. Leased = {}
    BY DEF CloseDrain, PoolInv, CloseOK, Closing, Emptying
  <1>3. /\ quarantined' = {} /\ retained' = retained \cup quarantined
        /\ UNCHANGED <<live, cached, deferred, marked, lease, got>>
    BY DEF CloseDrain, blocks
  <1>4. Leased' = Leased /\ DeferredBlocks' = DeferredBlocks /\ InHand' = InHand /\ OneEntry' /\ OneHand'
    BY <1>1, <1>3 DEF Leased, DeferredBlocks, InHand, OneEntry, OneHand
  <1>5. Places(live', cached', DeferredBlocks', Leased', InHand', quarantined', retained')
    BY <1>1, <1>2, <1>3, <1>4 DEF Places
  <1>6. MarksOK'
    BY <1>3 DEF PoolInv, MarksOK
  <1> QED
    BY <1>2, <1>4, <1>5, <1>6, OnePlaceIs

(* After a wait that failed, the deferred blocks too. *)
LEMMA UncertainDrainPlaces ==
    ASSUME PoolInv, NEW t \in Thread, CloseDrainUncertain(t)
    PROVE  /\ OnePlace' /\ MarksOK' /\ Leased = {}
           /\ Leased' = Leased /\ DeferredBlocks' = {} /\ InHand' = InHand
  <1>1. Places(live, cached, DeferredBlocks, Leased, InHand, quarantined, retained) /\ OneEntry /\ OneHand
    BY OnePlaceIs DEF PoolInv
  <1>2. Leased = {}
    BY DEF CloseDrainUncertain, PoolInv, CloseOK, Closing
  <1>3. /\ quarantined' = {} /\ deferred' = {}
        /\ retained' = retained \cup quarantined \cup DeferredBlocks
        /\ marked' = [b \in Block |-> marked[b] \/ b \in quarantined \cup DeferredBlocks]
        /\ UNCHANGED <<live, cached, lease, got>>
    BY DEF CloseDrainUncertain, DeferredBlocks
  <1>4. Leased' = Leased /\ DeferredBlocks' = {} /\ InHand' = InHand /\ OneEntry' /\ OneHand'
    BY <1>1, <1>3 DEF Leased, DeferredBlocks, InHand, OneEntry, OneHand
  <1>5. Places(live', cached', DeferredBlocks', Leased', InHand', quarantined', retained')
    BY <1>1, <1>2, <1>3, <1>4 DEF Places
  <1>6. MarksOK'
    <2>1. live \subseteq Block
      BY DEF PoolInv, PoolTypes
    <2> QED
      BY <1>3, <2>1 DEF PoolInv, MarksOK
  <1> QED
    BY <1>2, <1>4, <1>5, <1>6, OnePlaceIs

(* A launch changes no lease's existence. *)
LEMMA LaunchPlaces ==
    ASSUME PoolInv, NEW touched \in SUBSET Block, NEW f \in Fence, Launch(touched, f)
    PROVE  /\ OnePlace' /\ MarksOK' /\ Leased' = Leased
           /\ DeferredBlocks' = DeferredBlocks /\ InHand' = InHand
           /\ \A b \in Leased : lease'[b].bytes = lease[b].bytes /\ lease'[b].gen = lease[b].gen
  <1>1. \A b \in touched : /\ lease[b] \in Lease
                           /\ [lease[b] EXCEPT !.fences = @ \cup {f}] \in Lease
                           /\ [lease[b] EXCEPT !.fences = @ \cup {f}].bytes = lease[b].bytes
                           /\ [lease[b] EXCEPT !.fences = @ \cup {f}].gen = lease[b].gen
    BY DEF Launch, Leased, PoolInv, PoolTypes, Lease
  <1>2. \A b \in Block : lease'[b] = IF b \in touched THEN [lease[b] EXCEPT !.fences = @ \cup {f}]
                                     ELSE lease[b]
    BY DEF Launch
  <1>3. Leased' = Leased
    <2>1. \A b \in Block : lease'[b] # None <=> lease[b] # None
      BY <1>1, <1>2, LeaseAssumption
    <2> QED
      BY <2>1 DEF Leased
  <1>4. \A b \in Leased : lease'[b].bytes = lease[b].bytes /\ lease'[b].gen = lease[b].gen
    BY <1>1, <1>2 DEF Leased
  <1>5. UNCHANGED <<live, cached, deferred, got, quarantined, retained, marked>>
    BY DEF Launch, pool, blocks, threads
  <1> QED
    BY <1>3, <1>4, <1>5, NoMove

-----------------------------------------------------------------------------
(* Threads, counters and closing *)

AllocStates == {"driver", "retry", "reused", "fresh"}
CloseStates == {"close_drain", "close_snapshot", "close_wait", "close_done",
                "close_uncertain", "close_reopen"}
EmptyStates == {"close_drain_again", "close_trim"}

Reused == {got[t] : t \in {u \in Thread : pc[u] = "reused"}}
Owned == cached \cup DeferredBlocks \cup Leased \cup quarantined \cup Reused

(* A thread goes from one state to another. *)
LEMMA PcSets ==
    ASSUME PoolTypes, NEW t \in Thread, NEW next, pc' = [pc EXCEPT ![t] = next]
    PROVE  /\ pc'[t] = next /\ \A u \in Thread : u # t => pc'[u] = pc[u]
           /\ Allocating' = IF next \in AllocStates THEN Allocating \cup {t} ELSE Allocating \ {t}
           /\ Closing' = IF next \in CloseStates THEN Closing \cup {t} ELSE Closing \ {t}
           /\ Emptying' = IF next \in EmptyStates THEN Emptying \cup {t} ELSE Emptying \ {t}
           /\ t \in Allocating <=> pc[t] \in AllocStates
           /\ t \in Closing <=> pc[t] \in CloseStates
           /\ t \in Emptying <=> pc[t] \in EmptyStates
  <1>1. pc'[t] = next /\ \A u \in Thread : u # t => pc'[u] = pc[u]
    BY DEF PoolTypes
  <1> QED
    BY <1>1 DEF Allocating, Closing, Emptying, AllocStates, CloseStates, EmptyStates

IdleStates == {"idle", "collect", "wait"}

(* A thread that goes on with what it does. *)
LEMMA KeepsKind ==
    ASSUME PoolTypes, NEW t \in Thread, NEW next, pc' = [pc EXCEPT ![t] = next],
           \/ pc[t] \in AllocStates /\ next \in AllocStates
           \/ pc[t] \in CloseStates /\ next \in CloseStates
           \/ pc[t] \in EmptyStates /\ next \in EmptyStates
           \/ pc[t] \in IdleStates /\ next \in IdleStates
    PROVE  /\ pc'[t] = next /\ \A u \in Thread : u # t => pc'[u] = pc[u]
           /\ Allocating' = Allocating /\ Closing' = Closing /\ Emptying' = Emptying
  <1>1. pc'[t] = next /\ \A u \in Thread : u # t => pc'[u] = pc[u]
    BY DEF PoolTypes
  <1>2. /\ AllocStates \cap CloseStates = {} /\ AllocStates \cap EmptyStates = {}
        /\ AllocStates \cap IdleStates = {} /\ CloseStates \cap EmptyStates = {}
        /\ CloseStates \cap IdleStates = {} /\ EmptyStates \cap IdleStates = {}
    BY DEF AllocStates, CloseStates, EmptyStates, IdleStates
  <1>3. /\ next \in AllocStates <=> pc[t] \in AllocStates
        /\ next \in CloseStates <=> pc[t] \in CloseStates
        /\ next \in EmptyStates <=> pc[t] \in EmptyStates
    BY <1>2
  <1>4. /\ Allocating = {u \in Thread : pc[u] \in AllocStates}
        /\ Closing = {u \in Thread : pc[u] \in CloseStates}
        /\ Emptying = {u \in Thread : pc[u] \in EmptyStates}
        /\ Allocating' = {u \in Thread : pc'[u] \in AllocStates}
        /\ Closing' = {u \in Thread : pc'[u] \in CloseStates}
        /\ Emptying' = {u \in Thread : pc'[u] \in EmptyStates}
    BY DEF Allocating, Closing, Emptying, AllocStates, CloseStates, EmptyStates
  <1>5. \A u \in Thread : /\ pc'[u] \in AllocStates <=> pc[u] \in AllocStates
                          /\ pc'[u] \in CloseStates <=> pc[u] \in CloseStates
                          /\ pc'[u] \in EmptyStates <=> pc[u] \in EmptyStates
    BY <1>1, <1>3
  <1> QED
    BY <1>1, <1>4, <1>5

(* One allocation more or less. *)
LEMMA Counting ==
    /\ \A S, x : IsFiniteSet(S) /\ x \notin S => Cardinality(S \cup {x}) = Cardinality(S) + 1
    /\ \A S, x : IsFiniteSet(S) /\ x \in S => Cardinality(S \ {x}) = Cardinality(S) - 1
    /\ IsFiniteSet(Allocating) /\ (PoolTypes => IsFiniteSet(Leased))
  <1>1. \A S, x : IsFiniteSet(S) /\ x \notin S => Cardinality(S \cup {x}) = Cardinality(S) + 1
    BY FS_AddElement
  <1>2. \A S, x : IsFiniteSet(S) /\ x \in S => Cardinality(S \ {x}) = Cardinality(S) - 1
    BY FS_RemoveElement
  <1>3. IsFiniteSet(Allocating)
    <2>1. Allocating \subseteq Thread
      BY DEF Allocating
    <2> QED
      BY <2>1, FiniteAssumption, FS_Subset
  <1>4. PoolTypes => IsFiniteSet(Leased)
    BY BlockSets, FiniteBlocks
  <1> QED
    BY <1>1, <1>2, <1>3, <1>4

(* Steps beside a close, if there is one: they take nothing from what the
   closing thread has still to find. *)
LEMMA CloseStays ==
    ASSUME PoolInv, lifecycle' = lifecycle, Closing' = Closing, Emptying' = Emptying,
           lifecycle # "Open" =>
               /\ Leased' = {} /\ Allocating' = {}
               /\ deferred' \subseteq deferred /\ quarantined' \subseteq quarantined,
           lifecycle = "Closed" /\ Emptying = {} => cached' = {},
           \A u \in Closing : /\ pc'[u] = pc[u]
                              /\ pc[u] = "close_wait" =>
                                   collecting[u] = collecting'[u] /\ ready[u] = ready'[u]
    PROVE  CloseOK'
  <1>1. ASSUME NEW u \in Thread PROVE CloserOK(u)'
    <2>1. CASE lifecycle = "Open"
      <3>1. u \notin Closing'
        BY <2>1 DEF PoolInv, CloseOK
      <3>2. pc'[u] \notin CloseStates
        BY <3>1 DEF Closing, CloseStates
      <3> QED
        BY <3>2 DEF CloserOK, CloseStates
    <2>2. CASE lifecycle # "Open" /\ u \in Closing
      <3>1. CloserOK(u)
        BY DEF PoolInv, CloseOK
      <3> QED
        BY <2>2, <3>1 DEF CloserOK
    <2>3. CASE u \notin Closing
      <3>1. u \notin Closing'
        BY <2>3
      <3>2. pc'[u] \notin CloseStates
        BY <3>1 DEF Closing, CloseStates
      <3> QED
        BY <3>2 DEF CloserOK, CloseStates
    <2> QED
      BY <2>1, <2>2, <2>3
  <1>2. lifecycle' # "Open" => Leased' = {} /\ Allocating' = {}
    OBVIOUS
  <1>3. (lifecycle' = "Closing" <=> Closing' # {}) /\ (Emptying' # {} => lifecycle' = "Closed")
        /\ \A t, u \in Closing' \cup Emptying' : t = u
    BY DEF PoolInv, CloseOK
  <1>4. lifecycle' = "Closed" => deferred' = {} /\ quarantined' = {}
    BY DEF PoolInv, CloseOK
  <1> QED
    BY <1>1, <1>2, <1>3, <1>4 DEF CloseOK

(* The accounts, with one name for what the pool owns. *)
LEMMA AccountingIs ==
    /\ Accounting <=>
         /\ cachedBytes = SumOf(cap, cached)
         /\ deferredBytes = SumOf(cap, DeferredBlocks)
         /\ inUse = SumOf([b \in Leased |-> lease[b].bytes], Leased)
         /\ reserved = SumOf(cap, Owned)
    /\ Accounting' <=>
         /\ cachedBytes' = SumOf(cap', cached')
         /\ deferredBytes' = SumOf(cap', DeferredBlocks')
         /\ inUse' = SumOf([b \in Leased' |-> lease'[b].bytes], Leased')
         /\ reserved' = SumOf(cap', Owned')
  BY DEF Accounting, Bytes, Owned, Reused

(* The sets that are added up are finite, and what is added are numbers. *)
LEMMA Addable ==
    ASSUME PoolTypes, ThreadsOK
    PROVE  /\ Reused \subseteq InHand /\ Owned \subseteq Block
           /\ IsFiniteSet(cached) /\ IsFiniteSet(DeferredBlocks) /\ IsFiniteSet(Leased)
           /\ IsFiniteSet(Owned) /\ IsFiniteSet(Reused) /\ IsFiniteSet(quarantined)
           /\ \A b \in Block : cap[b] \in Nat
           /\ \A b \in Leased : lease[b] \in Lease /\ lease[b].bytes \in Nat
  <1>1. Reused \subseteq InHand
    BY DEF Reused, InHand, ThreadsOK
  <1>2. DeferredBlocks \subseteq Block /\ Leased \subseteq Block /\ InHand \subseteq Block
    BY BlockSets
  <1>3. cached \subseteq Block /\ quarantined \subseteq Block
    BY DEF PoolTypes
  <1>4. Owned \subseteq Block /\ Reused \subseteq Block
    BY <1>1, <1>2, <1>3 DEF Owned
  <1>5. \A b \in Block : cap[b] \in Nat
    BY DEF PoolTypes
  <1>6. \A b \in Leased : lease[b] \in Lease /\ lease[b].bytes \in Nat
    BY RequestAssumption DEF Leased, PoolTypes, Lease
  <1> QED
    BY <1>1, <1>2, <1>3, <1>4, <1>5, <1>6, FiniteBlocks

(* Steps that neither move blocks nor change accounts. *)
LEMMA AccountStays ==
    ASSUME PoolInv, UNCHANGED <<cap, cached, quarantined, cachedBytes, deferredBytes, inUse, reserved>>,
           DeferredBlocks' = DeferredBlocks, Leased' = Leased, Reused' = Reused,
           \A b \in Leased : lease'[b].bytes = lease[b].bytes
    PROVE  Accounting'
  <1>1. Owned' = Owned
    BY DEF Owned
  <1>2. [b \in Leased' |-> lease'[b].bytes] = [b \in Leased |-> lease[b].bytes]
    OBVIOUS
  <1>3. Accounting
    BY DEF PoolInv
  <1> QED
    BY <1>1, <1>2, <1>3, AccountingIs

(* The blocks that threads reuse are the same when no such thread moves. *)
LEMMA ReusedStays ==
    ASSUME PoolTypes, NEW t \in Thread, pc[t] # "reused", pc'[t] # "reused",
           \A u \in Thread : u # t => pc'[u] = pc[u] /\ got'[u] = got[u]
    PROVE  Reused' = Reused
  <1>1. \A x : x \in Reused' <=> x \in Reused
    <2> TAKE x
    <2>1. x \in Reused' <=> \E u \in Thread : pc'[u] = "reused" /\ got'[u] = x
      BY DEF Reused
    <2>2. x \in Reused <=> \E u \in Thread : pc[u] = "reused" /\ got[u] = x
      BY DEF Reused
    <2> QED
      BY <2>1, <2>2
  <1> QED
    BY <1>1

(* The sum with one element less. *)
LEMMA SumOfLess ==
    ASSUME NEW S, IsFiniteSet(S), NEW x \in S, NEW f, \A y \in S : f[y] \in Nat
    PROVE  SumOf(f, S \ {x}) = SumOf(f, S) - f[x] /\ SumOf(f, S) \in Nat
  <1>1. IsFiniteSet(S \ {x}) /\ S = (S \ {x}) \cup {x} /\ x \notin S \ {x}
    BY FS_Subset
  <1>2. SumOf(f, (S \ {x}) \cup {x}) = SumOf(f, S \ {x}) + f[x]
    BY <1>1, SumOfMore
  <1>3. SumOf(f, S \ {x}) \in Nat /\ f[x] \in Nat /\ SumOf(f, S) \in Nat
    BY <1>1, SumOfNat
  <1>4. SumOf(f, S) = SumOf(f, S \ {x}) + f[x]
    BY <1>1, <1>2, Zenon
  <1> DEFINE all == SumOf(f, S)
             rest == SumOf(f, S \ {x})
             one == f[x]
  <1>5. all = rest + one /\ all \in Nat /\ rest \in Nat /\ one \in Nat
    BY <1>3, <1>4
  <1> HIDE DEF all, rest, one
  <1>6. rest = all - one
    BY <1>5
  <1> QED
    BY <1>5, <1>6 DEF all, rest, one

Books == ThreadsOK /\ CountsOK /\ CloseOK /\ Accounting

(* A pool in which a thread allocates is open. *)
LEMMA AllocatingIsOpen ==
    ASSUME PoolInv, NEW t \in Allocating
    PROVE  lifecycle = "Open" /\ Closing = {} /\ Emptying = {}
  BY DEF PoolInv, CloseOK

(* The first critical section of allocate. *)
LEMMA AllocBeginBooks ==
    ASSUME PoolInv, PoolTypes', NEW t \in Thread, NEW bytes \in Request, AllocBegin(t, bytes)
    PROVE  Books' /\ OnePlace' /\ MarksOK'
  <1>1. /\ pc[t] = "idle" /\ lifecycle = "Open" /\ pending' = pending + 1
        /\ want' = [want EXCEPT ![t] = bytes]
        /\ UNCHANGED <<lifecycle, deferred, deferredBytes, quarantined, inUse, inUseBlocks,
                       reserved, live, cap, gen, marked, used, recycled, lease, retained, collecting, ready>>
    BY DEF AllocBegin, blocks
  <1>2. PoolTypes /\ ThreadsOK /\ CountsOK /\ Accounting
    BY DEF PoolInv
  <1>3. Closing = {} /\ Emptying = {} /\ t \notin Allocating
    BY <1>1 DEF PoolInv, CloseOK, Allocating
  <1>4. ASSUME NEW next \in {"driver", "reused"}, pc' = [pc EXCEPT ![t] = next]
        PROVE  CountsOK' /\ CloseOK'
    <2>1. /\ Allocating' = Allocating \cup {t} /\ Closing' = Closing /\ Emptying' = Emptying
      BY <1>2, <1>3, <1>4, PcSets DEF AllocStates, CloseStates, EmptyStates
    <2>2. Leased' = Leased
      BY <1>1 DEF Leased
    <2>3. CountsOK'
      BY <1>1, <1>2, <1>3, <2>1, <2>2, Counting DEF CountsOK
    <2>4. CloseOK'
      BY <1>1, <1>3, <2>1, CloseStays
    <2> QED
      BY <2>3, <2>4
  <1>5. CASE pc' = [pc EXCEPT ![t] = "driver"] /\ UNCHANGED <<cached, cachedBytes, got>>
    <2>1. pc'[t] = "driver" /\ \A u \in Thread : u # t => pc'[u] = pc[u]
      BY <1>2, <1>5, PcSets
    <2>2. ThreadsOK'
      BY <1>1, <1>2, <1>5, <2>1 DEF ThreadsOK, PoolTypes, Allocating
    <2>3. Leased' = Leased /\ DeferredBlocks' = DeferredBlocks
      BY <1>1 DEF Leased, DeferredBlocks
    <2>4. Reused' = Reused
      BY <1>1, <1>2, <1>5, <2>1, ReusedStays
    <2>5. Accounting'
      BY <1>1, <1>5, <2>3, <2>4, AccountStays
    <2>6. OnePlace' /\ MarksOK'
      BY <1>1, <1>5, <2>3, NoMove
    <2> QED
      BY <1>4, <1>5, <2>2, <2>5, <2>6 DEF Books
  <1>6. ASSUME NEW b \in cached, cached' = cached \ {b}, cachedBytes' = cachedBytes - cap[b],
               got' = [got EXCEPT ![t] = b], pc' = [pc EXCEPT ![t] = "reused"]
        PROVE  Books' /\ OnePlace' /\ MarksOK'
    <2>1. /\ pc'[t] = "reused" /\ got'[t] = b
          /\ \A u \in Thread : u # t => pc'[u] = pc[u] /\ got'[u] = got[u]
      BY <1>2, <1>6, PcSets DEF PoolTypes
    <2>2. ThreadsOK'
      <3>1. b # None
        BY <1>2, NoneAssumption DEF PoolTypes
      <3> QED
        BY <1>1, <1>2, <2>1, <3>1 DEF ThreadsOK, PoolTypes, Allocating
    <2>3. /\ OnePlace' /\ MarksOK'
          /\ Leased' = Leased /\ DeferredBlocks' = DeferredBlocks
      BY <1>1, <1>6, PopPlaces
    <2>4. Reused' = Reused \cup {b}
      <3>1. \A x : x \in Reused' <=> x \in Reused \cup {b}
        <4> TAKE x
        <4>1. x \in Reused' <=> \E u \in Thread : pc'[u] = "reused" /\ got'[u] = x
          BY DEF Reused
        <4>2. x \in Reused <=> \E u \in Thread : pc[u] = "reused" /\ got[u] = x
          BY DEF Reused
        <4> QED
          BY <1>1, <2>1, <4>1, <4>2
      <3> QED
        BY <3>1
    <2>5. Owned' = Owned
      BY <1>1, <1>6, <2>3, <2>4 DEF Owned
    <2>6. SumOf(cap, cached \ {b}) = SumOf(cap, cached) - cap[b]
      BY <1>2, Addable, SumOfLess DEF PoolTypes
    <2>7. Accounting'
      BY <1>1, <1>2, <1>6, <2>3, <2>5, <2>6, AccountingIs
    <2> QED
      BY <1>4, <1>6, <2>2, <2>3, <2>7 DEF Books
  <1> QED
    <2>1. FreeList(SizeClass(bytes)) \subseteq cached
      BY DEF FreeList
    <2> QED
      BY <1>5, <1>6, <2>1 DEF AllocBegin

(* The driver gives a new block. *)
LEMMA AllocFreshBooks ==
    ASSUME PoolInv, PoolTypes', NEW t \in Thread, AllocFresh(t)
    PROVE  Books' /\ OnePlace' /\ MarksOK'
  <1>1. PoolTypes /\ ThreadsOK /\ CountsOK /\ Accounting
    BY DEF PoolInv
  <1>2. PICK b \in Vacant :
        /\ live' = live \cup {b}
        /\ cap' = [cap EXCEPT ![b] = SizeClass(want[t])]
        /\ marked' = [marked EXCEPT ![b] = FALSE]
        /\ got' = [got EXCEPT ![t] = b]
    BY DEF AllocFresh
  <1>3. /\ pc[t] \in {"driver", "retry"} /\ pc' = [pc EXCEPT ![t] = "fresh"]
        /\ UNCHANGED <<lifecycle, cached, cachedBytes, deferred, deferredBytes, quarantined, inUse,
                       inUseBlocks, reserved, pending, lease, retained, collecting, ready, want>>
    BY DEF AllocFresh, pool
  <1>4. t \in Allocating /\ lifecycle = "Open" /\ Closing = {} /\ Emptying = {}
    BY <1>3, AllocatingIsOpen DEF Allocating
  <1>5. /\ OnePlace' /\ MarksOK'
        /\ Leased' = Leased /\ DeferredBlocks' = DeferredBlocks
    BY <1>2, <1>3, FreshPlaces
  <1>6. /\ pc'[t] = "fresh" /\ got'[t] = b
        /\ \A u \in Thread : u # t => pc'[u] = pc[u] /\ got'[u] = got[u]
        /\ Allocating' = Allocating /\ Closing' = Closing /\ Emptying' = Emptying
    BY <1>1, <1>2, <1>3, <1>4, KeepsKind DEF PoolTypes, AllocStates
  <1>7. ThreadsOK'
    <2>1. b # None
      BY NoneAssumption DEF Vacant
    <2> QED
      BY <1>1, <1>3, <1>6, <2>1 DEF ThreadsOK, Allocating
  <1>8. CountsOK' /\ CloseOK'
    <2>1. CountsOK'
      BY <1>1, <1>3, <1>5, <1>6 DEF CountsOK
    <2> QED
      BY <1>3, <1>4, <1>6, <2>1, CloseStays
  <1>9. Accounting'
    <2>1. Reused' = Reused
      BY <1>1, <1>3, <1>6, ReusedStays
    <2>2. Owned' = Owned
      BY <1>3, <1>5, <2>1 DEF Owned
    <2>3. Owned \subseteq live /\ cached \subseteq live /\ DeferredBlocks \subseteq live
      <3>1. Places(live, cached, DeferredBlocks, Leased, InHand, quarantined, retained)
        BY OnePlaceIs DEF PoolInv
      <3> QED
        BY <1>1, <3>1, Addable DEF Places, Owned
    <2>4. \A x \in live : x \in Block /\ cap[x] \in Nat /\ cap'[x] = cap[x]
      BY <1>1, <1>2 DEF Vacant, PoolTypes
    <2>5. /\ SumOf(cap', Owned) = SumOf(cap, Owned) /\ SumOf(cap', cached) = SumOf(cap, cached)
          /\ SumOf(cap', DeferredBlocks) = SumOf(cap, DeferredBlocks)
      <3>1. IsFiniteSet(Owned) /\ IsFiniteSet(cached) /\ IsFiniteSet(DeferredBlocks)
        BY <1>1, Addable
      <3>2. SumOf(cap', Owned) = SumOf(cap, Owned)
        BY <2>3, <2>4, <3>1, SumOfSame
      <3>3. SumOf(cap', cached) = SumOf(cap, cached)
        BY <2>3, <2>4, <3>1, SumOfSame
      <3>4. SumOf(cap', DeferredBlocks) = SumOf(cap, DeferredBlocks)
        BY <2>3, <2>4, <3>1, SumOfSame
      <3> QED
        BY <3>2, <3>3, <3>4
    <2> QED
      BY <1>1, <1>3, <1>5, <2>2, <2>5, AccountingIs
  <1> QED
    BY <1>5, <1>7, <1>8, <1>9 DEF Books

(* The accounts after a trim. *)
LEMMA TrimAccounts ==
    ASSUME PoolInv, Trimmed, got' = got, Reused' = Reused
    PROVE  Accounting' /\ OnePlace' /\ MarksOK' /\ Leased' = Leased /\ inUseBlocks' = inUseBlocks
           /\ pending' = pending /\ lifecycle' = lifecycle /\ deferred' = deferred
           /\ quarantined' = quarantined /\ cached' = {}
  <1>1. PoolTypes /\ ThreadsOK /\ Accounting
    BY DEF PoolInv
  <1>2. /\ cached' = {} /\ cachedBytes' = 0 /\ reserved' = reserved - cachedBytes
        /\ UNCHANGED <<lifecycle, deferred, deferredBytes, quarantined, inUse, inUseBlocks, pending,
                       cap, lease>>
    BY DEF Trimmed
  <1>3. /\ OnePlace' /\ MarksOK' /\ Leased' = Leased /\ DeferredBlocks' = DeferredBlocks
    BY TrimPlaces
  <1>4. Owned' = Owned \ cached /\ cached \subseteq Owned
    <2>1. Places(live, cached, DeferredBlocks, Leased, InHand, quarantined, retained)
      BY OnePlaceIs DEF PoolInv
    <2>2. Reused \subseteq InHand
      BY <1>1, Addable
    <2> QED
      BY <1>2, <1>3, <2>1, <2>2 DEF Owned, Places
  <1>5. SumOf(cap, Owned \ cached) = SumOf(cap, Owned) - SumOf(cap, cached)
    BY <1>1, <1>4, Addable, SumOfPart
  <1>6. SumOf(cap, {}) = 0
    BY SumOfEmpty
  <1> QED
    BY <1>1, <1>2, <1>3, <1>4, <1>5, <1>6, AccountingIs

(* Out of memory: the pool is trimmed. *)
LEMMA OutOfMemoryBooks ==
    ASSUME PoolInv, PoolTypes', NEW t \in Thread, AllocOutOfMemory(t)
    PROVE  Books' /\ OnePlace' /\ MarksOK'
  <1>1. /\ pc[t] = "driver" /\ pc' = [pc EXCEPT ![t] = "retry"] /\ Trimmed
        /\ UNCHANGED <<collecting, ready, got, want>>
    BY DEF AllocOutOfMemory
  <1>2. PoolTypes /\ ThreadsOK /\ CountsOK
    BY DEF PoolInv
  <1>3. t \in Allocating /\ lifecycle = "Open" /\ Closing = {} /\ Emptying = {}
    BY <1>1, AllocatingIsOpen DEF Allocating
  <1>4. /\ pc'[t] = "retry" /\ \A u \in Thread : u # t => pc'[u] = pc[u]
        /\ Allocating' = Allocating /\ Closing' = Closing /\ Emptying' = Emptying
    BY <1>1, <1>2, <1>3, KeepsKind DEF AllocStates
  <1>5. Reused' = Reused
    BY <1>1, <1>2, <1>4, ReusedStays
  <1>6. Accounting' /\ OnePlace' /\ MarksOK' /\ Leased' = Leased /\ inUseBlocks' = inUseBlocks
        /\ pending' = pending /\ lifecycle' = lifecycle
    BY <1>1, <1>5, TrimAccounts
  <1>7. ThreadsOK'
    BY <1>1, <1>2, <1>4 DEF ThreadsOK, Allocating
  <1>8. CountsOK'
    BY <1>2, <1>4, <1>6 DEF CountsOK
  <1>9. CloseOK'
    BY <1>3, <1>4, <1>6, CloseStays
  <1> QED
    BY <1>6, <1>7, <1>8, <1>9 DEF Books

(* The driver refuses. *)
LEMMA AllocFailsBooks ==
    ASSUME PoolInv, PoolTypes', NEW t \in Thread, AllocFails(t)
    PROVE  Books' /\ OnePlace' /\ MarksOK'
  <1>1. /\ pc[t] \in {"driver", "retry"} /\ pc' = [pc EXCEPT ![t] = "idle"] /\ pending' = pending - 1
        /\ want' = [want EXCEPT ![t] = 0]
        /\ UNCHANGED <<lifecycle, cached, cachedBytes, deferred, deferredBytes, quarantined, inUse,
                       inUseBlocks, reserved, live, cap, marked, lease, retained, collecting, ready, got>>
    BY DEF AllocFails, blocks
  <1>2. PoolTypes /\ ThreadsOK /\ CountsOK
    BY DEF PoolInv
  <1>3. t \in Allocating /\ lifecycle = "Open" /\ Closing = {} /\ Emptying = {}
    BY <1>1, AllocatingIsOpen DEF Allocating
  <1>4. /\ pc'[t] = "idle" /\ \A u \in Thread : u # t => pc'[u] = pc[u]
        /\ Allocating' = Allocating \ {t} /\ Closing' = Closing /\ Emptying' = Emptying
    BY <1>1, <1>2, <1>3, PcSets DEF AllocStates, CloseStates, EmptyStates
  <1>5. Reused' = Reused
    BY <1>1, <1>2, <1>4, ReusedStays
  <1>6. Leased' = Leased /\ DeferredBlocks' = DeferredBlocks
    BY <1>1 DEF Leased, DeferredBlocks
  <1>7. ThreadsOK'
    BY <1>1, <1>2, <1>4 DEF ThreadsOK, PoolTypes, Allocating
  <1>8. CountsOK'
    BY <1>1, <1>2, <1>3, <1>4, <1>6, Counting DEF CountsOK
  <1>9. CloseOK'
    BY <1>1, <1>3, <1>4, CloseStays
  <1>10. Accounting'
    BY <1>1, <1>5, <1>6, AccountStays
  <1>11. OnePlace' /\ MarksOK'
    BY <1>1, <1>6, NoMove
  <1> QED
    BY <1>7, <1>8, <1>9, <1>10, <1>11 DEF Books

(* The lease is issued. *)
LEMMA AllocFinishBooks ==
    ASSUME PoolInv, PoolTypes', NEW t \in Thread, AllocFinish(t)
    PROVE  Books' /\ OnePlace' /\ MarksOK'
  <1> DEFINE b == got[t]
             l == [gen |-> gen[b] + 1, bytes |-> want[t], fences |-> {}]
             paid == [x \in Leased |-> lease[x].bytes]
             owed == [x \in Leased' |-> lease'[x].bytes]
  <1>1. /\ pc[t] \in {"reused", "fresh"} /\ pc' = [pc EXCEPT ![t] = "idle"] /\ pending' = pending - 1
        /\ lease' = [lease EXCEPT ![b] = l]
        /\ reserved' = reserved + (IF pc[t] = "reused" THEN 0 ELSE cap[b])
        /\ inUse' = inUse + want[t] /\ inUseBlocks' = inUseBlocks + 1
        /\ got' = [got EXCEPT ![t] = None] /\ want' = [want EXCEPT ![t] = 0]
        /\ UNCHANGED <<lifecycle, cached, cachedBytes, deferred, deferredBytes, quarantined,
                       live, cap, marked, retained, collecting, ready>>
    BY DEF AllocFinish
  <1>2. PoolTypes /\ ThreadsOK /\ CountsOK /\ Accounting
    BY DEF PoolInv
  <1>3. t \in Allocating /\ lifecycle = "Open" /\ Closing = {} /\ Emptying = {}
    BY <1>1, AllocatingIsOpen DEF Allocating
  <1>4. want[t] \in Request /\ b \in Block /\ l \in Lease /\ want[t] \in Nat
    <2>1. want[t] \in Request /\ b \in Block
      BY <1>1, <1>2, <1>3 DEF ThreadsOK, PoolTypes
    <2>2. gen[b] \in Nat
      BY <1>2, <2>1 DEF PoolTypes
    <2>3. gen[b] + 1 \in Nat
      BY <2>2
    <2>4. want[t] \in Nat
      BY <2>1, RequestAssumption
    <2> QED
      BY <2>1, <2>3, <2>4 DEF Lease
  <1>5. l.bytes = want[t]
    OBVIOUS
  <1> HIDE DEF l
  <1>6. /\ OnePlace' /\ MarksOK' /\ b \in InHand
        /\ Leased' = Leased \cup {b} /\ DeferredBlocks' = DeferredBlocks
    BY <1>1, <1>4, LeasePlaces
  <1>7. Places(live, cached, DeferredBlocks, Leased, InHand, quarantined, retained) /\ OneHand
    BY OnePlaceIs DEF PoolInv
  <1>8. b \notin Leased /\ b \notin cached /\ b \notin DeferredBlocks /\ b \notin quarantined
    BY <1>6, <1>7 DEF Places
  <1>9. /\ pc'[t] = "idle" /\ got'[t] = None
        /\ \A u \in Thread : u # t => pc'[u] = pc[u] /\ got'[u] = got[u]
        /\ Allocating' = Allocating \ {t} /\ Closing' = Closing /\ Emptying' = Emptying
    BY <1>1, <1>2, <1>3, PcSets DEF PoolTypes, AllocStates, CloseStates, EmptyStates
  <1>10. ThreadsOK'
    BY <1>1, <1>2, <1>9 DEF ThreadsOK, PoolTypes, Allocating
  <1>11. CountsOK'
    BY <1>1, <1>2, <1>3, <1>6, <1>8, <1>9, Counting DEF CountsOK
  <1>12. CloseOK'
    BY <1>1, <1>3, <1>9, CloseStays
  <1>13. SumOf(owed, Leased') = SumOf(paid, Leased) + want[t]
    <2>1. \A x \in Leased : paid[x] \in Nat /\ owed[x] = paid[x]
      BY <1>1, <1>2, <1>4, <1>6, <1>8, Addable DEF PoolTypes, Leased
    <2>2. owed[b] = want[t]
      BY <1>1, <1>2, <1>4, <1>5, <1>6 DEF PoolTypes
    <2>3. IsFiniteSet(Leased)
      BY <1>2, Addable
    <2> HIDE DEF owed, paid, b
    <2>4. SumOf(owed, Leased) = SumOf(paid, Leased)
      BY <2>1, <2>3, SumOfSame
    <2>5. SumOf(owed, Leased \cup {b}) = SumOf(owed, Leased) + owed[b]
      BY <1>4, <1>8, <2>1, <2>2, <2>3, SumOfMore
    <2> QED
      BY <1>6, <2>2, <2>4, <2>5
  <1>14. reserved' = SumOf(cap, Owned')
    <2>1. CASE pc[t] = "reused"
      <3>1. Reused' \cup {b} = Reused
        <4>1. \A x : x \in Reused' \cup {b} <=> x \in Reused
          <5> TAKE x
          <5>1. x \in Reused' <=> \E u \in Thread : pc'[u] = "reused" /\ got'[u] = x
            BY DEF Reused
          <5>2. x \in Reused <=> \E u \in Thread : pc[u] = "reused" /\ got[u] = x
            BY DEF Reused
          <5> QED
            BY <1>9, <2>1, <5>1, <5>2
        <4> QED
          BY <4>1
      <3>2. Owned' = Owned
        BY <1>1, <1>6, <3>1 DEF Owned
      <3>3. SumOf(cap, Owned) \in Nat
        BY <1>2, Addable, SumOfNat
      <3> QED
        BY <1>1, <1>2, <2>1, <3>2, <3>3, AccountingIs
    <2>2. CASE pc[t] = "fresh"
      <3>1. Reused' = Reused
        BY <1>2, <1>9, <2>2, ReusedStays
      <3>2. b \notin Reused
        BY <1>4, <1>7, <2>2, NoneAssumption DEF OneHand, Reused
      <3>3. Owned' = Owned \cup {b} /\ b \notin Owned
        BY <1>1, <1>6, <1>8, <3>1, <3>2 DEF Owned
      <3>4. SumOf(cap, Owned \cup {b}) = SumOf(cap, Owned) + cap[b]
        BY <1>2, <1>4, <3>3, Addable, SumOfMore
      <3> QED
        BY <1>1, <1>2, <2>2, <3>3, <3>4, AccountingIs
    <2> QED
      BY <1>1, <2>1, <2>2
  <1>15. Accounting'
    BY <1>1, <1>2, <1>6, <1>13, <1>14, AccountingIs
  <1> QED
    BY <1>6, <1>10, <1>11, <1>12, <1>15 DEF Books

(* Steps in which no thread moves. *)
LEMMA ThreadsStay ==
    ASSUME PoolInv, UNCHANGED <<pc, got, want>>
    PROVE  /\ ThreadsOK' /\ Reused' = Reused
           /\ Allocating' = Allocating /\ Closing' = Closing /\ Emptying' = Emptying
  BY DEF PoolInv, ThreadsOK, Reused, Allocating, Closing, Emptying

(* Work is launched on leases. *)
LEMMA LaunchBooks ==
    ASSUME PoolInv, PoolTypes', NEW touched \in SUBSET Block, NEW f \in Fence, Launch(touched, f)
    PROVE  Books' /\ OnePlace' /\ MarksOK'
  <1>1. /\ OnePlace' /\ MarksOK' /\ Leased' = Leased /\ DeferredBlocks' = DeferredBlocks
        /\ \A b \in Leased : lease'[b].bytes = lease[b].bytes
    BY LaunchPlaces
  <1>2. UNCHANGED <<lifecycle, cached, cachedBytes, deferred, deferredBytes, quarantined, inUse,
                    inUseBlocks, reserved, pending, cap, pc, got, want, collecting, ready>>
    BY DEF Launch, pool, blocks, threads
  <1>3. /\ ThreadsOK' /\ Reused' = Reused
        /\ Allocating' = Allocating /\ Closing' = Closing /\ Emptying' = Emptying
    BY <1>2, ThreadsStay
  <1>4. Accounting'
    BY <1>1, <1>2, <1>3, AccountStays
  <1>5. CountsOK'
    BY <1>1, <1>2, <1>3 DEF PoolInv, CountsOK
  <1>6. CloseOK'
    <2>1. lifecycle # "Open" => Leased = {} /\ Allocating = {}
      BY DEF PoolInv, CloseOK
    <2>2. lifecycle = "Closed" /\ Emptying = {} => cached = {}
      BY DEF PoolInv, CloseOK
    <2> QED
      BY <1>1, <1>2, <1>3, <2>1, <2>2, CloseStays
  <1> QED
    BY <1>1, <1>3, <1>4, <1>5, <1>6 DEF Books

(* A leased block is quarantined. *)
LEMMA UncertainBooks ==
    ASSUME PoolInv, PoolTypes', NEW b \in Block, LaunchUncertain(b)
    PROVE  Books' /\ OnePlace' /\ MarksOK'
  <1>1. /\ OnePlace' /\ MarksOK' /\ Leased' = Leased /\ DeferredBlocks' = DeferredBlocks
        /\ b \in Leased /\ quarantined' = quarantined \cup {b} /\ reserved' = reserved
    BY UncertainPlaces
  <1>2. UNCHANGED <<lifecycle, cached, cachedBytes, deferred, deferredBytes, inUse, lease,
                    inUseBlocks, pending, cap, pc, got, want, collecting, ready>>
    BY DEF LaunchUncertain, threads
  <1>3. /\ ThreadsOK' /\ Reused' = Reused
        /\ Allocating' = Allocating /\ Closing' = Closing /\ Emptying' = Emptying
    BY <1>2, ThreadsStay
  <1>4. Accounting'
    <2>1. Owned' = Owned
      BY <1>1, <1>2, <1>3 DEF Owned
    <2>2. Accounting
      BY DEF PoolInv
    <2> QED
      BY <1>1, <1>2, <2>1, <2>2, AccountingIs
  <1>5. CountsOK'
    BY <1>1, <1>2, <1>3 DEF PoolInv, CountsOK
  <1>6. CloseOK'
    BY <1>1, <1>2, <1>3, LeasedIsOpen, CloseStays
  <1> QED
    BY <1>1, <1>3, <1>4, <1>5, <1>6 DEF Books

(* A lease comes back. *)
LEMMA ReturnBooks ==
    ASSUME PoolInv, PoolTypes', NEW b \in Block, ReturnBlock(b)
    PROVE  Books' /\ OnePlace' /\ MarksOK'
  <1> DEFINE paid == [x \in Leased |-> lease[x].bytes]
             owed == [x \in Leased' |-> lease'[x].bytes]
  <1>1. /\ OnePlace' /\ MarksOK' /\ b \in Leased /\ lifecycle = "Open"
        /\ UNCHANGED <<lifecycle, quarantined, reserved>>
        /\ Leased' = Leased \ {b}
        /\ \/ /\ b \in quarantined
              /\ UNCHANGED <<cached, deferred, cachedBytes, deferredBytes>>
              /\ DeferredBlocks' = DeferredBlocks
           \/ /\ b \notin quarantined
              /\ cached' = cached \cup {b} /\ cachedBytes' = cachedBytes + cap[b]
              /\ UNCHANGED <<deferred, deferredBytes>>
              /\ DeferredBlocks' = DeferredBlocks
           \/ /\ b \notin quarantined
              /\ deferredBytes' = deferredBytes + cap[b]
              /\ DeferredBlocks' = DeferredBlocks \cup {b}
              /\ UNCHANGED <<cached, cachedBytes>>
    BY ReturnPlaces
  <1>2. /\ UNCHANGED <<pending, cap, pc, got, want, collecting, ready>>
        /\ inUse' = inUse - lease[b].bytes /\ inUseBlocks' = inUseBlocks - 1
        /\ lease' = [lease EXCEPT ![b] = None]
    BY DEF ReturnBlock, threads
  <1>3. /\ ThreadsOK' /\ Reused' = Reused
        /\ Allocating' = Allocating /\ Closing' = Closing /\ Emptying' = Emptying
    BY <1>2, ThreadsStay
  <1>4. Places(live, cached, DeferredBlocks, Leased, InHand, quarantined, retained)
    BY OnePlaceIs DEF PoolInv
  <1>5. PoolTypes /\ ThreadsOK /\ CountsOK /\ Accounting
    BY DEF PoolInv
  <1>6. Owned' = Owned
    BY <1>1, <1>3 DEF Owned
  <1>7. SumOf(owed, Leased') = SumOf(paid, Leased) - lease[b].bytes
    <2>1. \A x \in Leased : paid[x] \in Nat /\ paid[x] = lease[x].bytes
      BY <1>5, Addable
    <2>2. \A x \in Leased \ {b} : owed[x] = paid[x]
      BY <1>1, <1>2, <1>5 DEF PoolTypes, Leased
    <2>3. IsFiniteSet(Leased) /\ IsFiniteSet(Leased \ {b})
      BY <1>5, Addable, FS_Subset
    <2> HIDE DEF owed, paid
    <2>4. SumOf(owed, Leased \ {b}) = SumOf(paid, Leased \ {b})
      BY <2>1, <2>2, <2>3, SumOfSame
    <2>5. SumOf(paid, Leased \ {b}) = SumOf(paid, Leased) - paid[b]
      BY <1>1, <2>1, <2>3, SumOfLess
    <2> QED
      BY <1>1, <2>1, <2>4, <2>5
  <1>8. cachedBytes' = SumOf(cap, cached') /\ deferredBytes' = SumOf(cap, DeferredBlocks')
    <2>1. b \notin cached /\ b \notin DeferredBlocks
      BY <1>1, <1>4 DEF Places
    <2>2. SumOf(cap, cached \cup {b}) = SumOf(cap, cached) + cap[b]
      BY <1>5, <2>1, Addable, SumOfMore DEF PoolTypes
    <2>3. SumOf(cap, DeferredBlocks \cup {b}) = SumOf(cap, DeferredBlocks) + cap[b]
      BY <1>5, <2>1, Addable, BlockSets, SumOfMore
    <2> QED
      BY <1>1, <1>5, <2>2, <2>3, AccountingIs
  <1>9. Accounting'
    BY <1>1, <1>2, <1>5, <1>6, <1>7, <1>8, AccountingIs
  <1>10. CountsOK'
    BY <1>1, <1>2, <1>3, <1>5, Counting DEF CountsOK
  <1>11. CloseOK'
    BY <1>1, <1>2, <1>3, LeasedIsOpen, CloseStays
  <1> QED
    BY <1>1, <1>3, <1>9, <1>10, <1>11 DEF Books

(* Steps that leave what close relies on, seen from the closing thread. *)
LEMMA CloseGoesOn ==
    ASSUME PoolInv, lifecycle' = lifecycle, Closing' = Closing, Emptying' = Emptying,
           lifecycle # "Open" =>
               /\ Leased' = {} /\ Allocating' = {}
               /\ deferred' \subseteq deferred /\ quarantined' \subseteq quarantined,
           lifecycle = "Closed" /\ Emptying = {} => cached' = {},
           \A u \in Thread : CloserOK(u)'
    PROVE  CloseOK'
  <1>1. (lifecycle' = "Closing" <=> Closing' # {}) /\ (Emptying' # {} => lifecycle' = "Closed")
        /\ \A t, u \in Closing' \cup Emptying' : t = u
    BY DEF PoolInv, CloseOK
  <1>2. lifecycle' = "Closed" => deferred' = {} /\ quarantined' = {}
    BY DEF PoolInv, CloseOK
  <1> QED
    BY <1>1, <1>2 DEF CloseOK

(* Steps of a thread that is not in an allocation and leaves the pool alone. *)
LEMMA CollectorBooks ==
    ASSUME PoolInv, NEW t \in Thread, pc[t] \notin AllocStates, pc'[t] \notin AllocStates,
           UNCHANGED <<pool, blocks, lease, retained, got, want>>,
           Allocating' = Allocating, Closing' = Closing, Emptying' = Emptying,
           \A u \in Thread : u # t =>
               pc'[u] = pc[u] /\ collecting'[u] = collecting[u] /\ ready'[u] = ready[u],
           CloserOK(t)'
    PROVE  Books' /\ OnePlace' /\ MarksOK'
  <1>1. UNCHANGED <<lifecycle, cached, cachedBytes, deferred, deferredBytes, quarantined, inUse,
                    inUseBlocks, reserved, pending, live, cap, marked>>
    BY DEF pool, blocks
  <1>2. Leased' = Leased
    BY DEF Leased
  <1>3. OnePlace' /\ MarksOK' /\ DeferredBlocks' = DeferredBlocks
    BY <1>1, <1>2, NoMove
  <1>4. Reused' = Reused
    BY ReusedStays DEF AllocStates, PoolInv
  <1>5. Accounting'
    BY <1>1, <1>2, <1>3, <1>4, AccountStays
  <1>6. CountsOK'
    BY <1>1, <1>2 DEF PoolInv, CountsOK
  <1>7. ThreadsOK'
    BY DEF PoolInv, ThreadsOK, AllocStates, Allocating
  <1>8. CloseOK'
    <2>1. ASSUME NEW u \in Thread PROVE CloserOK(u)'
      <3>1. CloserOK(u)
        BY DEF PoolInv, CloseOK
      <3>2. CASE u # t
        BY <1>1, <3>1, <3>2 DEF CloserOK
      <3> QED
        BY <3>2
    <2>2. lifecycle # "Open" => Leased' = {} /\ Allocating' = {}
      BY <1>2 DEF PoolInv, CloseOK
    <2>3. lifecycle = "Closed" /\ Emptying = {} => cached' = {}
      BY <1>1 DEF PoolInv, CloseOK
    <2> QED
      BY <1>1, <2>1, <2>2, <2>3, CloseGoesOn
  <1> QED
    BY <1>3, <1>5, <1>6, <1>7, <1>8 DEF Books

(* The deferred entries are copied. *)
LEMMA SnapshotBooks ==
    ASSUME PoolInv, PoolTypes', NEW t \in Thread, NEW from, NEW to, TakeSnapshot(t, from, to),
           \/ from = "idle" /\ to \in {"collect", "wait"}
           \/ from = "close_snapshot" /\ to = "close_wait"
    PROVE  Books' /\ OnePlace' /\ MarksOK'
  <1>1. /\ pc[t] = from /\ pc' = [pc EXCEPT ![t] = to]
        /\ collecting' = [collecting EXCEPT ![t] = deferred]
        /\ UNCHANGED <<pool, blocks, lease, retained, got, want, ready>>
    BY DEF TakeSnapshot
  <1>2. PoolTypes /\ CloserOK(t)
    BY DEF PoolInv, CloseOK
  <1>3. /\ pc'[t] = to /\ \A u \in Thread : u # t => pc'[u] = pc[u]
        /\ Allocating' = Allocating /\ Closing' = Closing /\ Emptying' = Emptying
    BY <1>1, <1>2, KeepsKind DEF IdleStates, CloseStates
  <1>4. /\ collecting'[t] = deferred
        /\ \A u \in Thread : u # t => collecting'[u] = collecting[u] /\ ready'[u] = ready[u]
    BY <1>1, <1>2 DEF PoolTypes
  <1>5. deferred' = deferred /\ quarantined' = quarantined
    BY <1>1 DEF pool
  <1>6. CloserOK(t)'
    BY <1>1, <1>2, <1>3, <1>4, <1>5 DEF CloserOK
  <1> QED
    BY <1>1, <1>3, <1>4, <1>6, CollectorBooks DEF AllocStates

(* An entry's fences are queried or waited for. *)
LEMMA EntryBooks ==
    ASSUME PoolInv, PoolTypes', NEW t \in Thread, NEW e, QueryEntry(t, e) \/ WaitEntry(t, e)
    PROVE  Books' /\ OnePlace' /\ MarksOK'
  <1>1. /\ pc[t] \in {"collect", "wait", "close_wait"}
        /\ collecting' = [collecting EXCEPT ![t] = @ \ {e}]
        /\ UNCHANGED <<pool, blocks, lease, retained, got, want, pc>>
        /\ ready' = [ready EXCEPT ![t] = IF Complete(e) THEN @ \cup {<<e.block, e.gen>>} ELSE @]
        /\ pc[t] = "close_wait" => Complete(e)
    BY DEF QueryEntry, WaitEntry
  <1>2. PoolTypes /\ CloserOK(t)
    BY DEF PoolInv, CloseOK
  <1>3. Allocating' = Allocating /\ Closing' = Closing /\ Emptying' = Emptying
    BY <1>1 DEF Allocating, Closing, Emptying
  <1>4. /\ collecting'[t] = collecting[t] \ {e}
        /\ ready'[t] = IF Complete(e) THEN ready[t] \cup {<<e.block, e.gen>>} ELSE ready[t]
        /\ \A u \in Thread : u # t => collecting'[u] = collecting[u] /\ ready'[u] = ready[u]
    BY <1>1, <1>2 DEF PoolTypes
  <1>5. deferred' = deferred /\ quarantined' = quarantined
    BY <1>1 DEF pool
  <1>6. CloserOK(t)'
    BY <1>1, <1>2, <1>4, <1>5 DEF CloserOK
  <1> QED
    BY <1>1, <1>3, <1>4, <1>6, CollectorBooks DEF AllocStates

(* The driver reports an error. *)
LEMMA FenceFailsBooks ==
    ASSUME PoolInv, PoolTypes', NEW t \in Thread, FenceFails(t)
    PROVE  Books' /\ OnePlace' /\ MarksOK'
  <1> DEFINE next == IF pc[t] = "close_wait" THEN "close_uncertain" ELSE "idle"
  <1>1. /\ pc[t] \in {"collect", "wait", "close_wait"}
        /\ collecting' = [collecting EXCEPT ![t] = {}]
        /\ ready' = [ready EXCEPT ![t] = {}]
        /\ pc' = [pc EXCEPT ![t] = next]
        /\ UNCHANGED <<pool, blocks, lease, retained, got, want>>
    BY DEF FenceFails
  <1>2. PoolTypes /\ CloserOK(t)
    BY DEF PoolInv, CloseOK
  <1>3. /\ pc'[t] = next /\ \A u \in Thread : u # t => pc'[u] = pc[u]
        /\ Allocating' = Allocating /\ Closing' = Closing /\ Emptying' = Emptying
    BY <1>1, <1>2, KeepsKind DEF IdleStates, CloseStates
  <1>4. \A u \in Thread : u # t => collecting'[u] = collecting[u] /\ ready'[u] = ready[u]
    BY <1>1, <1>2 DEF PoolTypes
  <1>5. deferred' = deferred /\ quarantined' = quarantined
    BY <1>1 DEF pool
  <1>6. CloserOK(t)'
    BY <1>1, <1>2, <1>3, <1>5 DEF CloserOK
  <1> QED
    BY <1>1, <1>3, <1>4, <1>6, CollectorBooks DEF AllocStates

(* Completed entries become cached blocks. *)
LEMMA PromoteBooks ==
    ASSUME PoolInv, PoolTypes', NEW t \in Thread, PromoteDeferred(t)
    PROVE  Books' /\ OnePlace' /\ MarksOK'
  <1> DEFINE moved == {e.block : e \in Promotable(t)}
             next == IF pc[t] = "close_wait" THEN "close_done" ELSE "idle"
  <1>1. /\ pc[t] \in {"collect", "wait", "close_wait"} /\ collecting[t] = {}
        /\ deferred' = deferred \ Promotable(t)
        /\ deferredBytes' = deferredBytes - SumOf(cap, moved)
        /\ cachedBytes' = cachedBytes + SumOf(cap, moved)
        /\ ready' = [ready EXCEPT ![t] = {}]
        /\ pc' = [pc EXCEPT ![t] = next]
        /\ UNCHANGED <<lifecycle, quarantined, inUse, inUseBlocks, reserved, pending, cap, lease, collecting,
                       got, want>>
    BY DEF PromoteDeferred, Bytes, blocks
  <1>2. PoolTypes /\ ThreadsOK /\ CountsOK /\ CloseOK /\ Accounting
    BY DEF PoolInv
  <1>3. /\ pc'[t] = next /\ \A u \in Thread : u # t => pc'[u] = pc[u]
        /\ Allocating' = Allocating /\ Closing' = Closing /\ Emptying' = Emptying
    BY <1>1, <1>2, KeepsKind DEF IdleStates, CloseStates
  <1>4. \A u \in Thread : u # t => ready'[u] = ready[u]
    BY <1>1, <1>2 DEF PoolTypes
  <1>5. /\ OnePlace' /\ MarksOK' /\ moved \subseteq DeferredBlocks
        /\ cached' = cached \cup moved /\ DeferredBlocks' = DeferredBlocks \ moved
        /\ Leased' = Leased
    BY PromotePlaces
  <1> HIDE DEF moved
  <1>6. ThreadsOK'
    BY <1>1, <1>2, <1>3 DEF ThreadsOK, Allocating
  <1>7. CountsOK'
    BY <1>1, <1>2, <1>3, <1>5 DEF CountsOK
  <1>8. CloseOK'
    <2>1. ASSUME NEW u \in Thread PROVE CloserOK(u)'
      <3>1. CloserOK(u)
        BY <1>2 DEF CloseOK
      <3>2. CASE u # t
        BY <1>1, <1>3, <1>4, <3>1, <3>2 DEF CloserOK
      <3>3. CASE u = t /\ pc[t] # "close_wait"
        BY <1>3, <3>3 DEF CloserOK
      <3>4. CASE u = t /\ pc[t] = "close_wait"
        <4>1. lifecycle = "Closing"
          BY <1>2, <3>4 DEF CloseOK, Closing
        <4>2. \A e \in deferred : gen[e.block] = e.gen /\ <<e.block, e.gen>> \in ready[t]
          BY <1>1, <3>1, <3>4 DEF CloserOK, PoolInv, WorkOK, DeviceOK
        <4>3. deferred' = {}
          BY <1>1, <4>1, <4>2 DEF Promotable
        <4> QED
          BY <1>1, <1>3, <3>1, <3>4, <4>3 DEF CloserOK
      <3> QED
        BY <3>2, <3>3, <3>4
    <2>2. lifecycle = "Closed" => DeferredBlocks = {}
      BY <1>2 DEF CloseOK, DeferredBlocks
    <2>3. lifecycle = "Closed" /\ Emptying = {} => cached' = {}
      BY <1>2, <1>5, <2>2 DEF CloseOK
    <2>4. lifecycle # "Open" => Leased' = {} /\ Allocating' = {}
      BY <1>2, <1>3, <1>5 DEF CloseOK
    <2> QED
      BY <1>1, <1>3, <2>1, <2>3, <2>4, CloseGoesOn
  <1>9. Accounting'
    <2>1. Reused' = Reused
      BY <1>1, <1>2, <1>3, ReusedStays
    <2>2. Owned' = Owned
      BY <1>1, <1>5, <2>1 DEF Owned
    <2>3. moved \subseteq Block /\ IsFiniteSet(moved) /\ cached \cap moved = {}
      <3>1. Places(live, cached, DeferredBlocks, Leased, InHand, quarantined, retained)
        BY OnePlaceIs DEF PoolInv
      <3> QED
        BY <1>2, <1>5, <3>1, BlockSets, FiniteBlocks DEF Places
    <2>4. SumOf(cap, cached \cup moved) = SumOf(cap, cached) + SumOf(cap, moved)
      BY <1>2, <2>3, Addable, SumOfUnion DEF PoolTypes
    <2>5. SumOf(cap, DeferredBlocks \ moved) = SumOf(cap, DeferredBlocks) - SumOf(cap, moved)
      BY <1>2, <1>5, Addable, BlockSets, SumOfPart
    <2> QED
      BY <1>1, <1>2, <1>5, <2>2, <2>4, <2>5, AccountingIs
  <1> QED
    BY <1>5, <1>6, <1>7, <1>8, <1>9 DEF Books

(* The pool is trimmed. *)
LEMMA TrimBooks ==
    ASSUME PoolInv, PoolTypes', NEW t \in Thread, Trim(t)
    PROVE  Books' /\ OnePlace' /\ MarksOK'
  <1>1. Trimmed /\ UNCHANGED <<pc, collecting, ready, got, want>>
    BY DEF Trim, threads
  <1>2. /\ ThreadsOK' /\ Reused' = Reused
        /\ Allocating' = Allocating /\ Closing' = Closing /\ Emptying' = Emptying
    BY <1>1, ThreadsStay
  <1>3. Accounting' /\ OnePlace' /\ MarksOK' /\ Leased' = Leased /\ inUseBlocks' = inUseBlocks
        /\ pending' = pending /\ lifecycle' = lifecycle /\ deferred' = deferred
        /\ quarantined' = quarantined /\ cached' = {}
    BY <1>1, <1>2, TrimAccounts
  <1>4. CountsOK'
    BY <1>2, <1>3 DEF PoolInv, CountsOK
  <1>5. CloseOK'
    <2>1. lifecycle # "Open" => Leased = {} /\ Allocating = {}
      BY DEF PoolInv, CloseOK
    <2> QED
      BY <1>1, <1>2, <1>3, <2>1, CloseStays
  <1> QED
    BY <1>2, <1>3, <1>4, <1>5 DEF Books

(* close begins. *)
LEMMA CloseBeginBooks ==
    ASSUME PoolInv, PoolTypes', NEW t \in Thread, CloseBegin(t)
    PROVE  Books' /\ OnePlace' /\ MarksOK'
  <1>1. /\ pc[t] = "idle" /\ lifecycle = "Open" /\ inUseBlocks = 0 /\ pending = 0
        /\ lifecycle' = "Closing" /\ pc' = [pc EXCEPT ![t] = "close_drain"]
        /\ UNCHANGED <<cached, cachedBytes, deferred, deferredBytes, quarantined, inUse, inUseBlocks,
                       reserved, pending, live, cap, marked, lease, retained, got, want>>
    BY DEF CloseBegin, blocks
  <1>2. PoolTypes /\ ThreadsOK /\ CountsOK /\ CloseOK
    BY DEF PoolInv
  <1>3. Leased = {} /\ Allocating = {} /\ Closing = {} /\ Emptying = {}
    BY <1>1, <1>2, Counting, FS_EmptySet DEF CountsOK, CloseOK
  <1>4. /\ pc'[t] = "close_drain" /\ \A u \in Thread : u # t => pc'[u] = pc[u]
        /\ Allocating' = {} /\ Closing' = {t} /\ Emptying' = {}
    BY <1>1, <1>2, <1>3, PcSets DEF AllocStates, CloseStates, EmptyStates
  <1>5. Leased' = Leased
    BY <1>1 DEF Leased
  <1>6. OnePlace' /\ MarksOK' /\ DeferredBlocks' = DeferredBlocks
    BY <1>1, <1>5, NoMove
  <1>7. Reused' = Reused
    BY <1>1, <1>2, <1>4, ReusedStays
  <1>8. Accounting'
    BY <1>1, <1>5, <1>6, <1>7, AccountStays
  <1>9. CountsOK'
    BY <1>1, <1>2, <1>3, <1>4, <1>5 DEF CountsOK
  <1>10. ThreadsOK'
    BY <1>1, <1>2, <1>4 DEF ThreadsOK, Allocating
  <1>11. CloseOK'
    <2>1. ASSUME NEW u \in Thread PROVE CloserOK(u)'
      <3>1. u # t => pc'[u] \notin CloseStates
        BY <1>4 DEF Closing, CloseStates
      <3> QED
        BY <1>4, <3>1 DEF CloserOK, CloseStates
    <2> QED
      BY <1>1, <1>3, <1>4, <1>5, <2>1 DEF CloseOK
  <1> QED
    BY <1>6, <1>8, <1>9, <1>10, <1>11 DEF Books

(* What holds while a thread closes. *)
LEMMA CloserAlone ==
    ASSUME PoolInv, NEW t \in Closing \cup Emptying
    PROVE  /\ lifecycle # "Open" /\ Leased = {} /\ Allocating = {} /\ Closing \cup Emptying = {t}
           /\ t \in Closing => lifecycle = "Closing" /\ Closing = {t} /\ Emptying = {}
           /\ t \in Emptying => lifecycle = "Closed" /\ Emptying = {t} /\ Closing = {}
  <1>1. CloseOK
    BY DEF PoolInv
  <1>2. \A u \in Closing \cup Emptying : u = t
    BY <1>1 DEF CloseOK
  <1>3. lifecycle # "Open" /\ (t \in Closing => lifecycle = "Closing") /\ (t \in Emptying => lifecycle = "Closed")
    BY <1>1 DEF CloseOK
  <1>4. (t \in Closing => Emptying = {}) /\ (t \in Emptying => Closing = {})
    BY <1>1, <1>3 DEF CloseOK
  <1> QED
    BY <1>1, <1>2, <1>3, <1>4 DEF CloseOK

(* The quarantined blocks are handed to the process. *)
LEMMA DrainBooks ==
    ASSUME PoolInv, PoolTypes', NEW t \in Thread, CloseDrain(t)
    PROVE  Books' /\ OnePlace' /\ MarksOK'
  <1> DEFINE next == IF pc[t] = "close_drain" THEN "close_snapshot" ELSE "close_trim"
  <1>1. /\ pc[t] \in {"close_drain", "close_drain_again"} /\ pc' = [pc EXCEPT ![t] = next]
        /\ quarantined' = {} /\ reserved' = reserved - SumOf(cap, quarantined)
        /\ UNCHANGED <<lifecycle, cached, cachedBytes, deferred, deferredBytes, inUse, inUseBlocks,
                       pending, cap, lease, collecting, ready, got, want>>
    BY DEF CloseDrain, blocks, Bytes
  <1>2. PoolTypes /\ ThreadsOK /\ CountsOK /\ CloseOK /\ Accounting
    BY DEF PoolInv
  <1>3. /\ pc'[t] = next /\ \A u \in Thread : u # t => pc'[u] = pc[u]
        /\ Allocating' = Allocating /\ Closing' = Closing /\ Emptying' = Emptying
    BY <1>1, <1>2, KeepsKind DEF EmptyStates, CloseStates
  <1>4. OnePlace' /\ MarksOK' /\ Leased = {} /\ Leased' = Leased /\ DeferredBlocks' = DeferredBlocks
    BY DrainPlaces
  <1>5. ThreadsOK'
    BY <1>1, <1>2, <1>3 DEF ThreadsOK, Allocating
  <1>6. CountsOK'
    BY <1>1, <1>2, <1>3, <1>4 DEF CountsOK
  <1>7. CloseOK'
    <2>1. ASSUME NEW u \in Thread PROVE CloserOK(u)'
      <3>1. CloserOK(u)
        BY <1>2 DEF CloseOK
      <3> QED
        BY <1>1, <1>3, <3>1 DEF CloserOK
    <2>2. lifecycle # "Open" => Leased' = {} /\ Allocating' = {}
      BY <1>2, <1>3, <1>4 DEF CloseOK
    <2>3. lifecycle = "Closed" /\ Emptying = {} => cached' = {}
      BY <1>1, <1>2 DEF CloseOK
    <2> QED
      BY <1>1, <1>3, <2>1, <2>2, <2>3, CloseGoesOn
  <1>8. Accounting'
    <2>1. Reused' = Reused
      BY <1>1, <1>2, <1>3, ReusedStays
    <2>2. Owned' = Owned \ quarantined /\ quarantined \subseteq Owned
      <3>1. Places(live, cached, DeferredBlocks, Leased, InHand, quarantined, retained)
        BY OnePlaceIs DEF PoolInv
      <3>2. Reused \subseteq InHand
        BY <1>2, Addable
      <3> QED
        BY <1>1, <1>4, <2>1, <3>1, <3>2 DEF Owned, Places
    <2>3. SumOf(cap, Owned \ quarantined) = SumOf(cap, Owned) - SumOf(cap, quarantined)
      BY <1>2, <2>2, Addable, SumOfPart
    <2> QED
      BY <1>1, <1>2, <1>4, <2>2, <2>3, AccountingIs
  <1> QED
    BY <1>4, <1>5, <1>6, <1>7, <1>8 DEF Books

(* The wait failed: the deferred blocks are given up too. *)
LEMMA UncertainDrainBooks ==
    ASSUME PoolInv, PoolTypes', NEW t \in Thread, CloseDrainUncertain(t)
    PROVE  Books' /\ OnePlace' /\ MarksOK'
  <1> DEFINE lost == quarantined \cup DeferredBlocks
  <1>1. /\ pc[t] = "close_uncertain" /\ pc' = [pc EXCEPT ![t] = "close_reopen"]
        /\ quarantined' = {} /\ deferred' = {} /\ deferredBytes' = 0
        /\ reserved' = reserved - SumOf(cap, lost)
        /\ UNCHANGED <<lifecycle, cached, cachedBytes, inUse, inUseBlocks,
                       pending, cap, lease, collecting, ready, got, want>>
    BY DEF CloseDrainUncertain, Bytes, DeferredBlocks
  <1>2. PoolTypes /\ ThreadsOK /\ CountsOK /\ CloseOK /\ Accounting
    BY DEF PoolInv
  <1>3. /\ pc'[t] = "close_reopen" /\ \A u \in Thread : u # t => pc'[u] = pc[u]
        /\ Allocating' = Allocating /\ Closing' = Closing /\ Emptying' = Emptying
    BY <1>1, <1>2, KeepsKind DEF CloseStates
  <1>4. OnePlace' /\ MarksOK' /\ Leased = {} /\ Leased' = Leased /\ DeferredBlocks' = {}
    BY UncertainDrainPlaces
  <1>5. ThreadsOK'
    BY <1>1, <1>2, <1>3 DEF ThreadsOK, Allocating
  <1>6. CountsOK'
    BY <1>1, <1>2, <1>3, <1>4 DEF CountsOK
  <1>7. CloseOK'
    <2>1. ASSUME NEW u \in Thread PROVE CloserOK(u)'
      BY <1>1 DEF CloserOK
    <2>2. lifecycle # "Open" => Leased' = {} /\ Allocating' = {}
      BY <1>2, <1>3, <1>4 DEF CloseOK
    <2>3. lifecycle = "Closed" /\ Emptying = {} => cached' = {}
      BY <1>1, <1>2 DEF CloseOK
    <2> QED
      BY <1>1, <1>3, <2>1, <2>2, <2>3, CloseGoesOn
  <1>8. Accounting'
    <2>1. Reused' = Reused
      BY <1>1, <1>2, <1>3, ReusedStays
    <2>2. Owned' = Owned \ lost /\ lost \subseteq Owned
      <3>1. Places(live, cached, DeferredBlocks, Leased, InHand, quarantined, retained)
        BY OnePlaceIs DEF PoolInv
      <3>2. Reused \subseteq InHand
        BY <1>2, Addable
      <3> QED
        BY <1>1, <1>4, <2>1, <3>1, <3>2 DEF Owned, Places
    <2> HIDE DEF lost
    <2>3. SumOf(cap, Owned \ lost) = SumOf(cap, Owned) - SumOf(cap, lost)
      BY <1>2, <2>2, Addable, SumOfPart
    <2>4. SumOf(cap, {}) = 0
      BY SumOfEmpty
    <2> QED
      BY <1>1, <1>2, <1>4, <2>2, <2>3, <2>4, AccountingIs
  <1> QED
    BY <1>4, <1>5, <1>6, <1>7, <1>8 DEF Books

(* The pool is open again, or closed. *)
LEMMA SettleBooks ==
    ASSUME PoolInv, PoolTypes', NEW t \in Thread, CloseSettle(t)
    PROVE  Books' /\ OnePlace' /\ MarksOK'
  <1> DEFINE next == IF pc[t] = "close_reopen" THEN "idle" ELSE "close_drain_again"
  <1>1. /\ pc[t] \in {"close_reopen", "close_done"} /\ pc' = [pc EXCEPT ![t] = next]
        /\ lifecycle' = IF pc[t] = "close_reopen" THEN "Open" ELSE "Closed"
        /\ UNCHANGED <<cached, cachedBytes, deferred, deferredBytes, quarantined, inUse, inUseBlocks,
                       reserved, pending, live, cap, marked, lease, retained, got, want>>
    BY DEF CloseSettle, blocks
  <1>2. PoolTypes /\ ThreadsOK /\ CountsOK /\ CloserOK(t)
    BY DEF PoolInv, CloseOK
  <1>3. t \in Closing
    BY <1>1 DEF Closing
  <1>4. Leased = {} /\ Allocating = {} /\ Closing = {t} /\ Emptying = {}
    BY <1>3, CloserAlone
  <1>5. pc'[t] = next /\ \A u \in Thread : u # t => pc'[u] = pc[u]
    BY <1>1, <1>2, PcSets
  <1>6. Allocating' = {} /\ Closing' = {} /\ Emptying' = IF pc[t] = "close_reopen" THEN {} ELSE {t}
    <2>1. /\ next \notin AllocStates /\ next \notin CloseStates
          /\ next \in EmptyStates <=> pc[t] # "close_reopen"
      BY DEF AllocStates, CloseStates, EmptyStates
    <2> QED
      BY <1>1, <1>2, <1>4, <2>1, PcSets
  <1>7. Leased' = Leased
    BY <1>1 DEF Leased
  <1>8. OnePlace' /\ MarksOK' /\ DeferredBlocks' = DeferredBlocks
    BY <1>1, <1>7, NoMove
  <1>9. Reused' = Reused
    BY <1>1, <1>2, <1>5, ReusedStays
  <1>10. Accounting'
    BY <1>1, <1>7, <1>8, <1>9, AccountStays
  <1>11. CountsOK'
    BY <1>1, <1>2, <1>4, <1>6, <1>7 DEF CountsOK
  <1>12. ThreadsOK'
    BY <1>1, <1>2, <1>5, <1>6 DEF ThreadsOK
  <1>13. CloseOK'
    <2>1. ASSUME NEW u \in Thread PROVE CloserOK(u)'
      <3>1. pc'[u] \notin CloseStates
        BY <1>6 DEF Closing, CloseStates
      <3> QED
        BY <3>1 DEF CloserOK, CloseStates
    <2>2. lifecycle' = "Closed" => deferred' = {} /\ quarantined' = {}
      BY <1>1, <1>2 DEF CloserOK
    <2> QED
      BY <1>1, <1>4, <1>6, <1>7, <2>1, <2>2 DEF CloseOK
  <1> QED
    BY <1>8, <1>10, <1>11, <1>12, <1>13 DEF Books

(* The closed pool is trimmed. *)
LEMMA CloseTrimBooks ==
    ASSUME PoolInv, PoolTypes', NEW t \in Thread, CloseTrim(t)
    PROVE  Books' /\ OnePlace' /\ MarksOK'
  <1>1. /\ pc[t] = "close_trim" /\ pc' = [pc EXCEPT ![t] = "idle"] /\ Trimmed
        /\ UNCHANGED <<collecting, ready, got, want>>
    BY DEF CloseTrim
  <1>2. PoolTypes /\ ThreadsOK /\ CountsOK /\ CloseOK
    BY DEF PoolInv
  <1>3. t \in Emptying
    BY <1>1 DEF Emptying
  <1>4. lifecycle = "Closed" /\ Leased = {} /\ Allocating = {} /\ Closing = {} /\ Emptying = {t}
    BY <1>3, CloserAlone
  <1>5. pc'[t] = "idle" /\ \A u \in Thread : u # t => pc'[u] = pc[u]
    BY <1>1, <1>2, PcSets
  <1>6. Allocating' = {} /\ Closing' = {} /\ Emptying' = {}
    BY <1>1, <1>2, <1>4, PcSets DEF AllocStates, CloseStates, EmptyStates
  <1>7. Reused' = Reused
    BY <1>1, <1>2, <1>5, ReusedStays
  <1>8. Accounting' /\ OnePlace' /\ MarksOK' /\ Leased' = Leased /\ inUseBlocks' = inUseBlocks
        /\ pending' = pending /\ lifecycle' = lifecycle /\ deferred' = deferred
        /\ quarantined' = quarantined /\ cached' = {}
    BY <1>1, <1>7, TrimAccounts
  <1>9. CountsOK'
    BY <1>2, <1>4, <1>6, <1>8 DEF CountsOK
  <1>10. ThreadsOK'
    BY <1>1, <1>2, <1>5, <1>6 DEF ThreadsOK
  <1>11. CloseOK'
    <2>1. ASSUME NEW u \in Thread PROVE CloserOK(u)'
      <3>1. pc'[u] \notin CloseStates
        BY <1>6 DEF Closing, CloseStates
      <3> QED
        BY <3>1 DEF CloserOK, CloseStates
    <2> QED
      BY <1>2, <1>4, <1>6, <1>8, <2>1 DEF CloseOK
  <1> QED
    BY <1>8, <1>9, <1>10, <1>11 DEF Books

(* The device completes work, or an event is dropped. *)
LEMMA DeviceBooks ==
    ASSUME PoolInv, UNCHANGED <<pool, blocks, lease, retained, threads>>
    PROVE  Books' /\ OnePlace' /\ MarksOK'
  <1>1. UNCHANGED <<lifecycle, cached, cachedBytes, deferred, deferredBytes, quarantined, inUse,
                    inUseBlocks, reserved, pending, live, cap, marked, pc, got, want, collecting, ready>>
    BY DEF pool, blocks, threads
  <1>2. Leased' = Leased
    BY DEF Leased
  <1>3. /\ ThreadsOK' /\ Reused' = Reused
        /\ Allocating' = Allocating /\ Closing' = Closing /\ Emptying' = Emptying
    BY <1>1, ThreadsStay
  <1>4. OnePlace' /\ MarksOK' /\ DeferredBlocks' = DeferredBlocks
    BY <1>1, <1>2, NoMove
  <1>5. Accounting'
    BY <1>1, <1>2, <1>3, <1>4, AccountStays
  <1>6. CountsOK'
    BY <1>1, <1>2, <1>3 DEF PoolInv, CountsOK
  <1>7. CloseOK'
    <2>1. lifecycle # "Open" => Leased = {} /\ Allocating = {}
      BY DEF PoolInv, CloseOK
    <2>2. lifecycle = "Closed" /\ Emptying = {} => cached = {}
      BY DEF PoolInv, CloseOK
    <2> QED
      BY <1>1, <1>2, <1>3, <2>1, <2>2, CloseStays
  <1> QED
    BY <1>3, <1>4, <1>5, <1>6, <1>7 DEF Books

(* Every step keeps places, marks, threads, counters and accounts. *)
LEMMA BooksStep ==
    ASSUME PoolInv, AllocatorNext
    PROVE  Books' /\ OnePlace' /\ MarksOK'
  <1>1. PoolTypes'
    BY TypesStep
  <1>2. CASE LeaseStep
    BY <1>1, <1>2, LaunchBooks, UncertainBooks, ReturnBooks DEF LeaseStep
  <1>3. CASE DeviceStep
    BY <1>3, DeviceBooks DEF DeviceStep, DeviceCompletes, FenceDropped
  <1>4. ASSUME NEW t \in Thread, AllocStep(t) PROVE Books' /\ OnePlace' /\ MarksOK'
    BY <1>1, <1>4, AllocBeginBooks, AllocFreshBooks, OutOfMemoryBooks, AllocFailsBooks, AllocFinishBooks
       DEF AllocStep
  <1>5. ASSUME NEW t \in Thread, CollectStep(t) PROVE Books' /\ OnePlace' /\ MarksOK'
    BY <1>1, <1>5, SnapshotBooks, EntryBooks, FenceFailsBooks, PromoteBooks, TrimBooks DEF CollectStep
  <1>6. ASSUME NEW t \in Thread, CloseStep(t) PROVE Books' /\ OnePlace' /\ MarksOK'
    BY <1>1, <1>6, CloseBeginBooks, DrainBooks, SnapshotBooks, UncertainDrainBooks, SettleBooks,
       CloseTrimBooks DEF CloseStep
  <1> QED
    BY <1>2, <1>3, <1>4, <1>5, <1>6 DEF AllocatorNext

-----------------------------------------------------------------------------
(* Work on the device *)

(* What a thread copies or finds out joins what all threads have seen. *)
LEMMA SeenGrows ==
    ASSUME PoolTypes, NEW t \in Thread, NEW Y
    PROVE  /\ collecting' = [collecting EXCEPT ![t] = Y] => Seen' \subseteq Seen \cup Y
           /\ ready' = [ready EXCEPT ![t] = Y] => Found' \subseteq Found \cup Y
           /\ collecting[t] \subseteq Seen /\ ready[t] \subseteq Found
  <1>1. ASSUME collecting' = [collecting EXCEPT ![t] = Y] PROVE Seen' \subseteq Seen \cup Y
    <2>1. \A u \in Thread : collecting'[u] = IF u = t THEN Y ELSE collecting[u]
      BY <1>1 DEF PoolTypes
    <2> QED
      BY <2>1 DEF Seen
  <1>2. ASSUME ready' = [ready EXCEPT ![t] = Y] PROVE Found' \subseteq Found \cup Y
    <2>1. \A u \in Thread : ready'[u] = IF u = t THEN Y ELSE ready[u]
      BY <1>2 DEF PoolTypes
    <2> QED
      BY <2>1 DEF Found
  <1>3. collecting[t] \subseteq Seen /\ ready[t] \subseteq Found
    BY DEF Seen, Found
  <1> QED
    BY <1>1, <1>2, <1>3

(* Steps that start no work, issue and take back no lease, and find nothing
   new out. *)
LEMMA WorkShrinks ==
    ASSUME PoolInv, UNCHANGED <<gen, lease, used, recycled>>,
           deferred' \subseteq deferred, Seen' \subseteq Seen, Found' \subseteq Found, live' \subseteq live,
           \A b \in Block : busy'[b] \subseteq busy[b] /\ \A f \in busy'[b] : fence'[f] = "pending",
           \A b \in live' : b \in unknown' => marked'[b],
           \A b \in used \ recycled : b \in cached' \cup InHand' => b \in cached \cup InHand \/ busy[b] = {}
    PROVE  WorkOK'
  <1>1. Leased' = Leased
    BY DEF Leased
  <1>2. DeviceOK /\ \A b \in used \ recycled : BlockOK(b) /\ b \in Block
    BY DEF PoolInv, WorkOK, PoolTypes
  <1>3. DeviceOK'
    BY <1>1, <1>2 DEF DeviceOK
  <1>4. ASSUME NEW b \in used \ recycled PROVE BlockOK(b)'
    <2>1. BlockOK(b) /\ busy'[b] \subseteq busy[b]
      BY <1>2
    <2>2. \A e \in Seen' : e.block = b => e.gen <= gen'[b] /\ (b \in Leased' => e.gen < gen'[b])
      BY <1>1, <2>1 DEF BlockOK
    <2>3. \A r \in Found' : r[1] = b => r[2] <= gen'[b] /\ (b \in Leased' => r[2] < gen'[b])
      BY <1>1, <2>1 DEF BlockOK
    <2>4. b \in Leased' => busy'[b] \subseteq lease'[b].fences
      BY <1>1, <2>1 DEF BlockOK
    <2>5. b \in cached' \cup InHand' => busy'[b] = {}
      BY <2>1 DEF BlockOK
    <2>6. \A e \in deferred' : e.block = b =>
            /\ busy'[b] \subseteq e.fences
            /\ <<b, e.gen>> \in Found' => busy'[b] = {}
            /\ \A o \in Seen' : o.block = b /\ o.gen = e.gen => o = e
      BY <2>1 DEF BlockOK
    <2> QED
      BY <2>2, <2>3, <2>4, <2>5, <2>6 DEF BlockOK
  <1> QED
    BY <1>3, <1>4 DEF WorkOK

(* What is known of the places that work depends on. *)
LEMMA WorkPlaces ==
    ASSUME PoolInv
    PROVE  /\ live \subseteq used /\ used \subseteq Block
           /\ cached \subseteq live /\ Leased \subseteq live /\ InHand \subseteq live
           /\ \A e \in deferred : e.block \in live /\ e.block \notin Leased /\ e.block \notin InHand
           /\ \A b \in Leased : b \notin cached /\ b \notin InHand
           /\ \A b \in InHand : b \notin cached /\ b \notin Leased
           /\ OneEntry /\ DeviceOK /\ \A b \in used \ recycled : BlockOK(b)
           /\ Seen \subseteq DeferredEntry /\ Found \subseteq PromotionKey
  <1>1. Places(live, cached, DeferredBlocks, Leased, InHand, quarantined, retained) /\ OneEntry
    BY OnePlaceIs DEF PoolInv
  <1>2. \A e \in deferred : e.block \in DeferredBlocks
    BY DEF DeferredBlocks
  <1>3. PoolTypes /\ WorkOK
    BY DEF PoolInv
  <1>4. Seen \subseteq DeferredEntry /\ Found \subseteq PromotionKey
    BY <1>3 DEF Seen, Found, PoolTypes
  <1>5. live \subseteq used /\ used \subseteq Block
    BY <1>3 DEF PoolTypes
  <1> QED
    BY <1>1, <1>2, <1>3, <1>4, <1>5 DEF Places, WorkOK

(* A new block has no past at an address that has held none. *)
LEMMA FreshWork ==
    ASSUME PoolInv, NEW t \in Thread, AllocFresh(t)
    PROVE  WorkOK'
  <1>1. PICK b \in Vacant :
        /\ live' = live \cup {b}
        /\ used' = used \cup {b}
        /\ recycled' = recycled \cup ({b} \cap used)
        /\ gen' = [gen EXCEPT ![b] = 0]
        /\ marked' = [marked EXCEPT ![b] = FALSE]
        /\ got' = [got EXCEPT ![t] = b]
        /\ busy' = [busy EXCEPT ![b] = {}]
        /\ unknown' = unknown \ {b}
    BY DEF AllocFresh
  <1>2. /\ pc[t] \in {"driver", "retry"}
        /\ UNCHANGED <<cached, deferred, lease, fence, collecting, ready>>
    BY DEF AllocFresh, pool
  <1>3. /\ live \subseteq used /\ used \subseteq Block
        /\ cached \subseteq live /\ Leased \subseteq live /\ InHand \subseteq live
        /\ \A e \in deferred : e.block \in live
        /\ DeviceOK /\ \A x \in used \ recycled : BlockOK(x)
    BY WorkPlaces
  <1>4. b \in Block /\ b \notin live
    BY DEF Vacant
  <1>5. /\ busy'[b] = {}
        /\ \A x \in Block : x # b => /\ gen'[x] = gen[x] /\ busy'[x] = busy[x] /\ marked'[x] = marked[x]
    BY <1>1, <1>4 DEF PoolInv, PoolTypes
  <1>6. Leased' = Leased /\ Seen' = Seen /\ Found' = Found
    BY <1>2 DEF Leased, Seen, Found
  <1>7. InHand' = InHand \cup {b}
    BY <1>1, <1>2, <1>3, <1>4, HandsTake
  <1>8. DeviceOK'
    BY <1>1, <1>2, <1>3, <1>4, <1>5, <1>6 DEF DeviceOK
  <1>9. ASSUME NEW x \in used' \ recycled' PROVE BlockOK(x)'
    <2>1. CASE x = b
      <3>1. b \notin used
        BY <1>1, <2>1
      <3>2. /\ \A e \in Seen : e.block # b
            /\ \A r \in Found : r[1] # b
            /\ \A e \in deferred : e.block # b
            /\ b \notin Leased
        BY <1>3, <1>4, <3>1 DEF DeviceOK
      <3> QED
        BY <1>2, <1>5, <1>6, <2>1, <3>2 DEF BlockOK
    <2>2. CASE x # b
      <3>1. BlockOK(x) /\ x \in Block
        BY <1>1, <1>3, <2>2
      <3>2. gen'[x] = gen[x] /\ busy'[x] = busy[x] /\ (x \in InHand' <=> x \in InHand)
        BY <1>5, <1>7, <2>2, <3>1
      <3> QED
        BY <1>2, <1>6, <3>1, <3>2 DEF BlockOK
    <2> QED
      BY <2>1, <2>2
  <1> QED
    BY <1>8, <1>9 DEF WorkOK

(* The lease of a new generation: nothing has been found out about it. *)
LEMMA FinishWork ==
    ASSUME PoolInv, NEW t \in Thread, AllocFinish(t)
    PROVE  WorkOK'
  <1> DEFINE b == got[t]
             l == [gen |-> gen[b] + 1, bytes |-> want[t], fences |-> {}]
  <1>1. /\ pc[t] \in {"reused", "fresh"} /\ lease' = [lease EXCEPT ![b] = l]
        /\ gen' = [gen EXCEPT ![b] = @ + 1] /\ got' = [got EXCEPT ![t] = None]
        /\ UNCHANGED <<cached, deferred, quarantined, retained, live, marked, used, recycled,
                       fence, busy, unknown, collecting, ready>>
    BY DEF AllocFinish, device
  <1>2. PoolTypes /\ ThreadsOK
    BY DEF PoolInv
  <1>3. b \in Block /\ want[t] \in Request /\ gen[b] \in Nat
    BY <1>1, <1>2 DEF ThreadsOK, PoolTypes, Allocating
  <1>4. l \in Lease /\ l.gen = gen[b] + 1
    <2>1. gen[b] + 1 \in Nat
      BY <1>3
    <2> QED
      BY <1>3, <2>1 DEF Lease
  <1> HIDE DEF l
  <1>5. /\ b \in InHand /\ Leased' = Leased \cup {b} /\ InHand' = InHand \ {b}
    BY <1>1, <1>4, LeasePlaces
  <1>6. /\ live \subseteq used /\ used \subseteq Block
        /\ \A e \in deferred : e.block \notin InHand
        /\ b \notin cached /\ b \notin Leased
        /\ DeviceOK /\ \A x \in used \ recycled : BlockOK(x)
        /\ Seen \subseteq DeferredEntry /\ Found \subseteq PromotionKey
    BY <1>5, WorkPlaces
  <1>7. /\ gen'[b] = gen[b] + 1 /\ lease'[b] = l
        /\ \A x \in Block : x # b => gen'[x] = gen[x] /\ lease'[x] = lease[x]
    BY <1>1, <1>2, <1>3 DEF PoolTypes
  <1>8. Seen' = Seen /\ Found' = Found
    BY <1>1 DEF Seen, Found
  <1> HIDE DEF b
  <1>9. \A e \in deferred : e.block # b /\ e.block \in Block
    BY <1>2, <1>5, <1>6 DEF PoolTypes, DeferredEntry
  <1>10. DeviceOK'
    <2>1. \A x \in Leased' : lease'[x].gen = gen'[x]
      <3> TAKE x \in Leased'
      <3>1. CASE x = b
        BY <1>4, <1>7, <3>1
      <3>2. CASE x # b
        BY <1>5, <1>6, <1>7, <3>2 DEF DeviceOK, Leased
      <3> QED
        BY <3>1, <3>2
    <2>2. \A e \in deferred' : e.gen = gen'[e.block]
      BY <1>1, <1>6, <1>7, <1>9 DEF DeviceOK
    <2> QED
      BY <1>1, <1>6, <1>8, <2>1, <2>2 DEF DeviceOK
  <1>11. ASSUME NEW x \in used \ recycled PROVE BlockOK(x)'
    <2>1. BlockOK(x) /\ x \in Block
      BY <1>6
    <2>2. CASE x = b
      <3>1. \A e \in Seen : e.block = b => e.gen < gen'[b] /\ e.gen <= gen'[b]
        <4> TAKE e \in Seen
        <4>1. e.gen \in Nat
          BY <1>6 DEF DeferredEntry
        <4>2. e.block = b => e.gen <= gen[b]
          BY <2>1, <2>2 DEF BlockOK
        <4> QED
          BY <1>3, <1>7, <4>1, <4>2
      <3>2. \A r \in Found : r[1] = b => r[2] < gen'[b] /\ r[2] <= gen'[b]
        <4> TAKE r \in Found
        <4>1. r[2] \in Nat
          BY <1>6 DEF PromotionKey
        <4>2. r[1] = b => r[2] <= gen[b]
          BY <2>1, <2>2 DEF BlockOK
        <4> QED
          BY <1>3, <1>7, <4>1, <4>2
      <3>3. busy[b] = {}
        BY <1>5, <2>1, <2>2 DEF BlockOK
      <3> QED
        BY <1>1, <1>6, <1>8, <1>9, <2>2, <3>1, <3>2, <3>3 DEF BlockOK
    <2>3. CASE x # b
      <3>1. gen'[x] = gen[x] /\ lease'[x] = lease[x] /\ (x \in Leased' <=> x \in Leased)
            /\ (x \in InHand' => x \in InHand)
        BY <1>5, <1>7, <2>1, <2>3
      <3> QED
        BY <1>1, <1>8, <2>1, <3>1 DEF BlockOK
    <2> QED
      BY <2>2, <2>3
  <1> QED
    BY <1>1, <1>10, <1>11 DEF WorkOK

(* A launch is recorded by a fence that its leases hold. *)
LEMMA LaunchWork ==
    ASSUME PoolInv, NEW touched \in SUBSET Block, NEW f \in Fence, Launch(touched, f)
    PROVE  WorkOK'
  <1>1. /\ touched \subseteq Leased
        /\ fence' = [fence EXCEPT ![f] = "pending"]
        /\ busy' = [b \in Block |-> IF b \in touched THEN busy[b] \cup {f} ELSE busy[b]]
        /\ UNCHANGED <<cached, deferred, live, gen, marked, used, recycled, unknown, got, collecting, ready>>
    BY DEF Launch, pool, blocks, threads
  <1>2. /\ Leased' = Leased /\ InHand' = InHand
        /\ \A b \in Leased : lease'[b].gen = lease[b].gen
    BY LaunchPlaces
  <1>3. /\ live \subseteq used /\ used \subseteq Block
        /\ \A e \in deferred : e.block \notin Leased
        /\ \A b \in Leased : b \notin cached /\ b \notin InHand
        /\ DeviceOK /\ \A b \in used \ recycled : BlockOK(b)
    BY WorkPlaces
  <1>4. Seen' = Seen /\ Found' = Found
    BY <1>1 DEF Seen, Found
  <1>5. \A b \in touched : lease'[b].fences = lease[b].fences \cup {f}
    <2> TAKE b \in touched
    <2>1. lease[b] \in Lease /\ b \in Block
      BY <1>1 DEF Leased, PoolInv, PoolTypes
    <2>2. lease'[b] = [lease[b] EXCEPT !.fences = @ \cup {f}]
      BY <2>1 DEF Launch
    <2> QED
      BY <2>1, <2>2 DEF Lease
  <1>6. \A b \in Block \ touched : lease'[b] = lease[b] /\ busy'[b] = busy[b]
    BY DEF Launch
  <1>7. \A b \in touched : busy'[b] = busy[b] \cup {f}
    BY <1>1
  <1>8. fence'[f] = "pending" /\ \A g \in Fence : g # f => fence'[g] = fence[g]
    BY <1>1 DEF PoolInv, PoolTypes
  <1>9. DeviceOK'
    <2>1. \A b \in Block : \A g \in busy'[b] : fence'[g] = "pending"
      <3> TAKE b \in Block
      <3> TAKE g \in busy'[b]
      <3>1. g = f \/ g \in busy[b]
        BY <1>6, <1>7
      <3>2. busy[b] \subseteq Fence
        BY DEF PoolInv, PoolTypes
      <3> QED
        BY <1>3, <1>8, <3>1, <3>2 DEF DeviceOK
    <2> QED
      BY <1>1, <1>2, <1>3, <1>4, <2>1 DEF DeviceOK
  <1>10. ASSUME NEW b \in used \ recycled PROVE BlockOK(b)'
    <2>1. BlockOK(b) /\ b \in Block
      BY <1>3
    <2>2. CASE b \in touched
      <3>1. b \in Leased
        BY <1>1, <2>2
      <3> QED
        BY <1>1, <1>2, <1>3, <1>4, <1>5, <1>7, <2>1, <2>2, <3>1 DEF BlockOK
    <2>3. CASE b \notin touched
      BY <1>1, <1>2, <1>4, <1>6, <2>1, <2>3 DEF BlockOK
    <2> QED
      BY <2>2, <2>3
  <1> QED
    BY <1>1, <1>9, <1>10 DEF WorkOK

(* A lease comes back with the fences of the work on it. *)
LEMMA ReturnWork ==
    ASSUME PoolInv, NEW b \in Block, ReturnBlock(b)
    PROVE  WorkOK'
  <1> DEFINE n == [block |-> b, gen |-> lease[b].gen, fences |-> lease[b].fences]
  <1>1. /\ b \in Leased /\ UNCHANGED <<live, marked, got>>
        /\ Leased' = Leased \ {b} /\ InHand' = InHand
        /\ \/ cached' = cached /\ deferred' = deferred
           \/ lease[b].fences = {} /\ cached' = cached \cup {b} /\ deferred' = deferred
           \/ cached' = cached /\ deferred' = deferred \cup {n}
    BY ReturnPlaces
  <1>2. /\ lease' = [lease EXCEPT ![b] = None]
        /\ UNCHANGED <<gen, used, recycled, fence, busy, unknown, collecting, ready>>
    BY DEF ReturnBlock, device, threads
  <1>3. \A x \in Leased' : lease'[x] = lease[x] /\ x \in Leased
    BY <1>1, <1>2 DEF PoolInv, PoolTypes, Leased
  <1>4. /\ live \subseteq used /\ used \subseteq Block
        /\ \A e \in deferred : e.block \notin Leased
        /\ DeviceOK /\ \A x \in used \ recycled : BlockOK(x)
        /\ Seen \subseteq DeferredEntry /\ Found \subseteq PromotionKey
    BY WorkPlaces
  <1>5. Seen' = Seen /\ Found' = Found
    BY <1>2 DEF Seen, Found
  <1>6. n.block = b /\ n.gen = gen[b] /\ n.fences = lease[b].fences /\ gen[b] \in Nat
    BY <1>1, <1>4 DEF DeviceOK, PoolInv, PoolTypes
  <1> HIDE DEF n
  <1>7. DeviceOK'
    <2>1. \A e \in deferred' : e.gen = gen'[e.block]
      BY <1>1, <1>2, <1>4, <1>6 DEF DeviceOK
    <2>2. \A x \in Leased' : lease'[x].gen = gen'[x]
      BY <1>2, <1>3, <1>4 DEF DeviceOK
    <2> QED
      BY <1>1, <1>2, <1>4, <1>5, <2>1, <2>2 DEF DeviceOK
  <1>8. ASSUME NEW x \in used \ recycled PROVE BlockOK(x)'
    <2>1. BlockOK(x) /\ x \in Block
      BY <1>4
    <2>2. CASE x = b
      <3>1. /\ \A e \in Seen : e.block = b => e.gen < gen[b] /\ e.gen <= gen[b]
            /\ \A r \in Found : r[1] = b => r[2] < gen[b] /\ r[2] <= gen[b]
            /\ busy[b] \subseteq lease[b].fences
        BY <1>1, <2>1, <2>2 DEF BlockOK
      <3>2. b \notin Leased'
        BY <1>1
      <3>3. b \in cached' \cup InHand' => busy[b] = {}
        BY <1>1, <2>1, <2>2, <3>1 DEF BlockOK
      <3>4. \A e \in deferred' : e.block = b => e = n
        BY <1>1, <1>4
      <3>5. <<b, gen[b]>> \notin Found
        <4> SUFFICES ASSUME <<b, gen[b]>> \in Found PROVE FALSE
          OBVIOUS
        <4>1. gen[b] < gen[b]
          BY <3>1
        <4> QED
          BY <1>6, <4>1
      <3>6. \A o \in Seen : ~(o.block = b /\ o.gen = gen[b])
        BY <1>6, <3>1
      <3>7. \A e \in deferred' : e.block = b =>
              /\ busy'[b] \subseteq e.fences
              /\ <<b, e.gen>> \in Found' => busy'[b] = {}
              /\ \A o \in Seen' : o.block = b /\ o.gen = e.gen => o = e
        BY <1>2, <1>5, <1>6, <3>1, <3>4, <3>5, <3>6
      <3> QED
        BY <1>2, <1>5, <2>2, <3>1, <3>2, <3>3, <3>7 DEF BlockOK
    <2>3. CASE x # b
      <3>1. /\ x \in Leased' <=> x \in Leased
            /\ x \in Leased' => lease'[x] = lease[x]
            /\ x \in cached' \cup InHand' <=> x \in cached \cup InHand
            /\ \A e \in deferred' : e.block = x => e \in deferred
        BY <1>1, <1>3, <1>6, <2>3
      <3> QED
        BY <1>2, <1>5, <2>1, <3>1 DEF BlockOK
    <2> QED
      BY <2>2, <2>3
  <1> QED
    BY <1>2, <1>7, <1>8 DEF WorkOK

(* Deferred entries are copied. *)
LEMMA SnapshotWork ==
    ASSUME PoolInv, NEW t \in Thread, NEW from, NEW to, TakeSnapshot(t, from, to)
    PROVE  WorkOK'
  <1>1. /\ collecting' = [collecting EXCEPT ![t] = deferred]
        /\ UNCHANGED <<cached, deferred, live, gen, marked, used, recycled, lease, fence, busy, unknown,
                       got, ready>>
    BY DEF TakeSnapshot, pool, blocks, device
  <1>2. /\ live \subseteq used /\ used \subseteq Block
        /\ \A e \in deferred : e.block \in live /\ e.block \notin Leased
        /\ OneEntry /\ DeviceOK /\ \A b \in used \ recycled : BlockOK(b)
    BY WorkPlaces
  <1>3. Seen' \subseteq Seen \cup deferred
    BY <1>1, SeenGrows DEF PoolInv
  <1>4. Leased' = Leased /\ InHand' = InHand /\ Found' = Found
    BY <1>1 DEF Leased, InHand, Found
  <1>5. DeviceOK'
    BY <1>1, <1>2, <1>3, <1>4 DEF DeviceOK
  <1>6. ASSUME NEW b \in used \ recycled PROVE BlockOK(b)'
    <2>1. BlockOK(b) /\ gen[b] \in Nat
      BY <1>2 DEF PoolInv, PoolTypes
    <2>2. \A e \in Seen' : e.block = b => e.gen <= gen[b] /\ (b \in Leased => e.gen < gen[b])
      <3> TAKE e \in Seen'
      <3>1. CASE e \in Seen
        BY <2>1, <3>1 DEF BlockOK
      <3>2. CASE e \in deferred
        BY <1>2, <2>1, <3>2 DEF DeviceOK
      <3> QED
        BY <1>3, <3>1, <3>2
    <2>3. \A e \in deferred : e.block = b => \A o \in Seen' : o.block = b /\ o.gen = e.gen => o = e
      BY <1>2, <1>3, <2>1 DEF BlockOK, OneEntry
    <2> QED
      BY <1>1, <1>4, <2>1, <2>2, <2>3 DEF BlockOK
  <1> QED
    BY <1>1, <1>5, <1>6 DEF WorkOK

(* A collector finds an entry complete: if it is still deferred, and its
   address has held no other block, the device has finished with the block. *)
LEMMA EntryWork ==
    ASSUME PoolInv, NEW t \in Thread, NEW e, e \in collecting[t], QueryEntry(t, e) \/ WaitEntry(t, e)
    PROVE  WorkOK'
  <1> DEFINE key == <<e.block, e.gen>>
             done == IF Complete(e) THEN ready[t] \cup {key} ELSE ready[t]
  <1>1. /\ collecting' = [collecting EXCEPT ![t] = collecting[t] \ {e}]
        /\ ready' = [ready EXCEPT ![t] = done]
        /\ UNCHANGED <<cached, deferred, live, gen, marked, used, recycled, lease, fence, busy, unknown, got>>
    BY DEF QueryEntry, WaitEntry, pool, blocks, device
  <1>2. /\ live \subseteq used /\ used \subseteq Block
        /\ DeviceOK /\ \A b \in used \ recycled : BlockOK(b)
        /\ Seen \subseteq DeferredEntry
    BY WorkPlaces
  <1>3. e \in Seen /\ collecting[t] \subseteq Seen /\ ready[t] \subseteq Found
    BY SeenGrows DEF PoolInv
  <1>4. Seen' \subseteq Seen
    BY <1>1, <1>3, SeenGrows DEF PoolInv
  <1>5. Found' \subseteq Found \cup done
    BY <1>1, SeenGrows DEF PoolInv
  <1>6. \A r \in Found' : r \in Found \/ (r = key /\ Complete(e))
    BY <1>3, <1>5
  <1>7. key[1] = e.block /\ key[2] = e.gen /\ e.block \in used
    BY <1>2, <1>3 DEF DeviceOK
  <1>8. Leased' = Leased /\ InHand' = InHand
    BY <1>1 DEF Leased, InHand
  <1> HIDE DEF key, done
  <1>9. DeviceOK'
    BY <1>1, <1>2, <1>4, <1>6, <1>7, <1>8 DEF DeviceOK
  <1>10. ASSUME NEW b \in used \ recycled PROVE BlockOK(b)'
    <2>1. BlockOK(b) /\ b \in Block
      BY <1>2
    <2>2. \A o \in Seen' : o.block = b => o.gen <= gen[b] /\ (b \in Leased => o.gen < gen[b])
      BY <1>4, <2>1 DEF BlockOK
    <2>3. \A r \in Found' : r[1] = b => r[2] <= gen[b] /\ (b \in Leased => r[2] < gen[b])
      BY <1>3, <1>6, <1>7, <2>1 DEF BlockOK
    <2>4. ASSUME NEW d \in deferred, d.block = b, <<b, d.gen>> \in Found'
          PROVE  busy[b] = {}
      <3>1. CASE <<b, d.gen>> \in Found
        BY <2>1, <2>4, <3>1 DEF BlockOK
      <3>2. CASE <<b, d.gen>> = key /\ Complete(e)
        <4>1. e.block = b /\ e.gen = d.gen
          BY <1>7, <3>2
        <4>2. e = d
          BY <1>3, <2>1, <2>4, <4>1 DEF BlockOK
        <4>3. busy[b] \subseteq e.fences
          BY <2>1, <2>4, <4>2 DEF BlockOK
        <4> QED
          BY <1>2, <2>1, <3>2, <4>3 DEF Complete, DeviceOK
      <3> QED
        BY <1>6, <2>4, <3>1, <3>2
    <2>5. \A d \in deferred : d.block = b =>
            /\ busy[b] \subseteq d.fences
            /\ \A o \in Seen' : o.block = b /\ o.gen = d.gen => o = d
      BY <1>4, <2>1 DEF BlockOK
    <2> QED
      BY <1>1, <1>8, <2>1, <2>2, <2>3, <2>4, <2>5 DEF BlockOK
  <1> QED
    BY <1>1, <1>9, <1>10 DEF WorkOK

(* Every step keeps the device's work in its place. *)
LEMMA WorkStep ==
    ASSUME PoolInv, AllocatorNext
    PROVE  WorkOK'
  <1>1. PoolTypes /\ DeviceOK
    BY WorkPlaces DEF PoolInv
  <1>2. \A b \in Block : busy[b] \subseteq Fence /\ \A f \in busy[b] : fence[f] = "pending"
    BY <1>1 DEF PoolTypes, DeviceOK
  <1>3. \A b \in live : b \in unknown => marked[b]
    BY <1>1 DEF DeviceOK
  <1>4. ASSUME NEW t \in Thread, AllocStep(t) PROVE WorkOK'
    <2>1. ASSUME NEW bytes \in Request, AllocBegin(t, bytes) PROVE WorkOK'
      <3>1. UNCHANGED <<gen, lease, used, recycled, deferred, live, marked, fence, busy, unknown,
                        collecting, ready>>
        BY <2>1 DEF AllocBegin, blocks, device
      <3>2. Seen' = Seen /\ Found' = Found
        BY <3>1 DEF Seen, Found
      <3>3. cached' \cup InHand' \subseteq cached \cup InHand
        <4>1. CASE UNCHANGED <<cached, got>>
          BY <4>1 DEF InHand
        <4>2. ASSUME NEW b \in cached, cached' = cached \ {b}, got' = [got EXCEPT ![t] = b]
              PROVE  cached' \cup InHand' \subseteq cached \cup InHand
          <5>1. pc[t] \notin {"reused", "fresh"} /\ UNCHANGED <<quarantined, retained>>
            BY <2>1 DEF AllocBegin
          <5>2. InHand' = InHand \cup {b}
            BY <3>1, <4>2, <5>1, PopPlaces
          <5> QED
            BY <4>2, <5>2
        <4>3. FreeList(SizeClass(bytes)) \subseteq cached
          BY DEF FreeList
        <4> QED
          BY <2>1, <4>1, <4>2, <4>3 DEF AllocBegin
      <3> QED
        BY <1>2, <1>3, <3>1, <3>2, <3>3, WorkShrinks
    <2>2. CASE AllocOutOfMemory(t)
      <3>1. Trimmed /\ UNCHANGED <<collecting, ready, got>>
        BY <2>2 DEF AllocOutOfMemory
      <3> QED
        BY <1>2, <1>3, <3>1, WorkShrinks DEF Trimmed, device, Seen, Found, InHand
    <2>3. CASE AllocFails(t)
      BY <1>2, <1>3, <2>3, WorkShrinks DEF AllocFails, blocks, device, Seen, Found, InHand
    <2> QED
      BY <1>4, <2>1, <2>2, <2>3, FreshWork, FinishWork DEF AllocStep
  <1>5. CASE LeaseStep
    <2>1. ASSUME NEW b \in Block, LaunchUncertain(b) PROVE WorkOK'
      <3>1. UNCHANGED <<gen, lease, used, recycled, deferred, live, fence, busy, cached, got, collecting, ready>>
            /\ marked' = [marked EXCEPT ![b] = TRUE] /\ unknown' = unknown \cup {b}
        BY <2>1 DEF LaunchUncertain, Quarantined, threads
      <3>2. \A x \in live' : x \in unknown' => marked'[x]
        BY <1>1, <1>3, <3>1 DEF PoolTypes
      <3> QED
        BY <1>2, <3>1, <3>2, WorkShrinks DEF Seen, Found, InHand
    <2> QED
      BY <1>5, <2>1, LaunchWork, ReturnWork DEF LeaseStep
  <1>6. CASE DeviceStep
    <2>1. ASSUME NEW f \in Fence, DeviceCompletes(f) PROVE WorkOK'
      <3>1. UNCHANGED <<gen, lease, used, recycled, deferred, live, marked, unknown, cached, got, collecting, ready>>
            /\ fence' = [fence EXCEPT ![f] = "done"] /\ busy' = [b \in Block |-> busy[b] \ {f}]
        BY <2>1 DEF DeviceCompletes, pool, blocks, threads
      <3>2. \A g \in Fence : g # f => fence'[g] = fence[g]
        BY <1>1, <3>1 DEF PoolTypes
      <3>3. \A b \in Block : busy'[b] \subseteq busy[b] /\ \A g \in busy'[b] : fence'[g] = "pending"
        BY <1>2, <3>1, <3>2
      <3> QED
        BY <1>3, <3>1, <3>3, WorkShrinks DEF Seen, Found, InHand
    <2>2. ASSUME NEW f \in Fence, FenceDropped(f) PROVE WorkOK'
      <3>1. UNCHANGED <<gen, lease, used, recycled, deferred, live, marked, unknown, busy, cached, got, collecting, ready>>
            /\ fence' = [fence EXCEPT ![f] = "free"] /\ fence[f] = "done"
        BY <2>2 DEF FenceDropped, pool, blocks, threads
      <3>2. \A g \in Fence : g # f => fence'[g] = fence[g]
        BY <1>1, <3>1 DEF PoolTypes
      <3>3. \A b \in Block : busy'[b] \subseteq busy[b] /\ \A g \in busy'[b] : fence'[g] = "pending"
        BY <1>2, <3>1, <3>2
      <3> QED
        BY <1>3, <3>1, <3>3, WorkShrinks DEF Seen, Found, InHand
    <2> QED
      BY <1>6, <2>1, <2>2 DEF DeviceStep
  <1>7. ASSUME NEW t \in Thread, CollectStep(t) PROVE WorkOK'
    <2>1. CASE FenceFails(t)
      <3>1. /\ collecting' = [collecting EXCEPT ![t] = {}] /\ ready' = [ready EXCEPT ![t] = {}]
            /\ UNCHANGED <<gen, lease, used, recycled, deferred, live, marked, fence, busy, unknown, cached, got>>
        BY <2>1 DEF FenceFails, pool, blocks, device
      <3>2. Seen' \subseteq Seen /\ Found' \subseteq Found
        <4>1. Seen' \subseteq Seen \cup {} /\ Found' \subseteq Found \cup {}
          BY <1>1, <3>1, SeenGrows
        <4> QED
          BY <4>1
      <3> QED
        BY <1>2, <1>3, <3>1, <3>2, WorkShrinks DEF InHand
    <2>2. CASE PromoteDeferred(t)
      <3> DEFINE moved == {e.block : e \in Promotable(t)}
      <3>1. /\ ready' = [ready EXCEPT ![t] = {}] /\ cached' = cached \cup moved
            /\ deferred' = deferred \ Promotable(t)
            /\ UNCHANGED <<gen, lease, used, recycled, live, marked, fence, busy, unknown, got, collecting>>
        BY <2>2 DEF PromoteDeferred, blocks, device
      <3>2. Seen' = Seen /\ Found' \subseteq Found
        <4>1. Found' \subseteq Found \cup {}
          BY <1>1, <3>1, SeenGrows
        <4> QED
          BY <3>1, <4>1 DEF Seen
      <3>3. ASSUME NEW b \in used \ recycled, b \in moved PROVE busy[b] = {}
        <4>1. PICK e \in deferred : e.block = b /\ <<e.block, e.gen>> \in ready[t]
          BY <3>3 DEF Promotable
        <4>2. <<b, e.gen>> \in Found
          BY <1>1, <4>1, SeenGrows
        <4>3. BlockOK(b)
          BY WorkPlaces
        <4> QED
          BY <4>1, <4>2, <4>3 DEF BlockOK
      <3>4. InHand' = InHand
        BY <3>1 DEF InHand
      <3> HIDE DEF moved
      <3>5. \A b \in used \ recycled : b \in cached' \cup InHand' => b \in cached \cup InHand \/ busy[b] = {}
        BY <3>1, <3>3, <3>4
      <3> QED
        BY <1>2, <1>3, <3>1, <3>2, <3>5, WorkShrinks
    <2>3. CASE Trim(t)
      <3>1. Trimmed /\ UNCHANGED <<collecting, ready, got>>
        BY <2>3 DEF Trim, threads
      <3> QED
        BY <1>2, <1>3, <3>1, WorkShrinks DEF Trimmed, device, Seen, Found, InHand
    <2> QED
      BY <1>7, <2>1, <2>2, <2>3, SnapshotWork, EntryWork DEF CollectStep
  <1>8. ASSUME NEW t \in Thread, CloseStep(t) PROVE WorkOK'
    <2>1. CASE CloseBegin(t) \/ CloseDrain(t) \/ CloseSettle(t)
      <3>1. UNCHANGED <<gen, lease, used, recycled, deferred, live, marked, fence, busy, unknown, cached, got,
                        collecting, ready>>
        BY <2>1 DEF CloseBegin, CloseDrain, CloseSettle, blocks, device
      <3> QED
        BY <1>2, <1>3, <3>1, WorkShrinks DEF Seen, Found, InHand
    <2>2. CASE CloseDrainUncertain(t)
      <3>1. /\ UNCHANGED <<gen, lease, used, recycled, live, fence, busy, unknown, cached, got, collecting, ready>>
            /\ deferred' = {}
            /\ \A b \in Block : marked[b] => marked'[b]
        BY <2>2 DEF CloseDrainUncertain, device
      <3>2. live \subseteq Block
        BY <1>1 DEF PoolTypes
      <3> QED
        BY <1>2, <1>3, <3>1, <3>2, WorkShrinks DEF Seen, Found, InHand
    <2>3. CASE CloseTrim(t)
      <3>1. Trimmed /\ UNCHANGED <<collecting, ready, got>>
        BY <2>3 DEF CloseTrim
      <3> QED
        BY <1>2, <1>3, <3>1, WorkShrinks DEF Trimmed, device, Seen, Found, InHand
    <2> QED
      BY <1>8, <2>1, <2>2, <2>3, SnapshotWork DEF CloseStep
  <1> QED
    BY <1>4, <1>5, <1>6, <1>7, <1>8 DEF AllocatorNext

-----------------------------------------------------------------------------
(* Theorems about the pool *)

(* The initial states. *)
LEMMA PoolInitInv == AllocatorInit => PoolInv
  <1> SUFFICES ASSUME AllocatorInit PROVE PoolInv
    OBVIOUS
  <1>1. PoolTypes
    BY DEF AllocatorInit, PoolTypes, ThreadStates
  <1>2. Leased = {} /\ DeferredBlocks = {} /\ InHand = {} /\ Allocating = {} /\ Closing = {}
        /\ Emptying = {} /\ Reused = {} /\ Seen = {} /\ Found = {}
    BY DEF AllocatorInit, Leased, DeferredBlocks, InHand, Allocating, Closing, Emptying, Reused, Seen, Found
  <1>3. OnePlace
    <2>1. OneEntry /\ OneHand
      BY DEF AllocatorInit, OneEntry, OneHand
    <2>2. Places(live, cached, DeferredBlocks, Leased, InHand, quarantined, retained)
      BY <1>2 DEF AllocatorInit, Places
    <2> QED
      BY <2>1, <2>2, OnePlaceIs
  <1>4. MarksOK /\ ThreadsOK
    BY <1>2 DEF AllocatorInit, MarksOK, ThreadsOK
  <1>5. CountsOK
    BY <1>2, FS_EmptySet DEF AllocatorInit, CountsOK
  <1>6. CloseOK
    BY <1>2 DEF AllocatorInit, CloseOK, CloserOK
  <1>7. Accounting
    <2>1. Owned = {}
      BY <1>2 DEF AllocatorInit, Owned
    <2> QED
      BY <1>2, <2>1, SumOfEmpty, AccountingIs DEF AllocatorInit
  <1>8. WorkOK
    BY <1>2 DEF AllocatorInit, WorkOK, DeviceOK
  <1> QED
    BY <1>1, <1>3, <1>4, <1>5, <1>6, <1>7, <1>8 DEF PoolInv

(* The invariant is inductive: every step of every thread, lease and fence
   keeps it. *)
THEOREM PoolInvariance == AllocatorSpec => []PoolInv
  <1>1. PoolInv /\ [AllocatorNext]_allocatorVars => PoolInv'
    <2>1. PoolInv /\ AllocatorNext => PoolInv'
      BY TypesStep, BooksStep, WorkStep DEF PoolInv, Books
    <2>2. ASSUME PoolInv, UNCHANGED allocatorVars PROVE PoolInv'
      <3>1. UNCHANGED <<pool, blocks, lease, retained, threads>> /\ UNCHANGED device
        BY <2>2 DEF allocatorVars
      <3>2. Books' /\ OnePlace' /\ MarksOK'
        BY <2>2, <3>1, DeviceBooks
      <3>3. PoolTypes'
        BY <2>2, <3>1 DEF PoolInv, PoolTypes, pool, blocks, device, threads
      <3>4. WorkOK'
        BY <2>2, <3>1 DEF PoolInv, WorkOK, DeviceOK, BlockOK, Seen, Found, InHand, Leased,
           pool, blocks, device, threads
      <3> QED
        BY <3>2, <3>3, <3>4 DEF PoolInv, Books
    <2> QED
      BY <2>1, <2>2
  <1> QED
    BY <1>1, PoolInitInv, PTL DEF AllocatorSpec

(* Every block of the pool is in one place, the counters are what the lists
   hold, leases and allocations keep it open, and a closed pool is empty,
   whatever collectors, trims, allocations, failed waits and failed closes run
   beside each other. *)
THEOREM PoolStaysSound == AllocatorSpec => []PoolIsSound
  <1>1. PoolInv => PoolIsSound
    <2> SUFFICES ASSUME PoolInv PROVE PoolIsSound
      OBVIOUS
    <2>1. PoolTypes /\ ThreadsOK /\ OnePlace /\ CountsOK /\ CloseOK /\ Accounting
      BY DEF PoolInv
    <2>2. inUseBlocks \in Nat /\ pending \in Nat
      BY <2>1, Counting, FS_CardinalityType DEF CountsOK
    <2>3. cachedBytes \in Nat /\ deferredBytes \in Nat /\ reserved \in Nat
      <3>1. SumOf(cap, cached) \in Nat
        BY <2>1, Addable, SumOfNat DEF PoolTypes
      <3>2. SumOf(cap, DeferredBlocks) \in Nat
        BY <2>1, Addable, BlockSets, SumOfNat
      <3>3. SumOf(cap, Owned) \in Nat
        BY <2>1, Addable, SumOfNat
      <3> QED
        BY <2>1, <3>1, <3>2, <3>3, AccountingIs
    <2>4. inUse \in Nat
      <3> DEFINE paid == [b \in Leased |-> lease[b].bytes]
      <3>1. IsFiniteSet(Leased) /\ \A b \in Leased : paid[b] \in Nat
        BY <2>1, Addable
      <3>2. inUse = SumOf(paid, Leased)
        BY <2>1, AccountingIs
      <3> HIDE DEF paid
      <3> QED
        BY <3>1, <3>2, SumOfNat
    <2>5. AllocatorTypeOK
      BY <2>1, <2>2, <2>3, <2>4 DEF AllocatorTypeOK, PoolTypes, ThreadStates
    <2>6. LeasesKeepItOpen
      <3>1. Cardinality(Closing \cup Emptying) <= 1
        <4>1. CASE Closing \cup Emptying = {}
          BY <4>1, FS_EmptySet
        <4>2. ASSUME NEW t \in Closing \cup Emptying PROVE Cardinality(Closing \cup Emptying) <= 1
          <5>1. Closing \cup Emptying = {t}
            BY <2>1 DEF CloseOK
          <5>2. Cardinality({t}) = 1
            BY FS_Singleton
          <5> QED
            BY <5>1, <5>2
        <4> QED
          BY <4>1, <4>2
      <3> QED
        BY <2>1, <3>1 DEF LeasesKeepItOpen, CountsOK, CloseOK
    <2>7. ClosedIsEmpty
      <3> SUFFICES ASSUME lifecycle = "Closed", Emptying = {}
                   PROVE  live = retained /\ reserved = 0 /\ cachedBytes = 0 /\ deferredBytes = 0
        BY DEF ClosedIsEmpty
      <3>1. cached = {} /\ deferred = {} /\ quarantined = {} /\ Leased = {} /\ Allocating = {}
        BY <2>1 DEF CloseOK
      <3>2. InHand = {} /\ DeferredBlocks = {}
        BY <2>1, <3>1 DEF InHand, DeferredBlocks, ThreadsOK, Allocating
      <3>3. Owned = {}
        BY <2>1, <3>1, <3>2, Addable DEF Owned
      <3>4. live = retained
        BY <2>1, <3>1, <3>2, OnePlaceIs DEF Places
      <3> QED
        BY <2>1, <3>1, <3>2, <3>3, <3>4, SumOfEmpty, AccountingIs
    <2> QED
      BY <2>1, <2>5, <2>6, <2>7 DEF PoolIsSound
  <1> QED
    BY <1>1, PoolInvariance, PTL

(* No block on a free list is one the device still works on, as long as its
   address has held no other block before: what a collector saw of the fences
   before it took the lock again still speaks of the lease it deferred. *)
THEOREM NoReuseIsEarly == AllocatorSpec => []NoEarlyReuseInPlace
  <1>1. PoolInv => NoEarlyReuseInPlace
    <2> SUFFICES ASSUME PoolInv, NEW b \in cached \ recycled
                 PROVE  busy[b] = {} /\ b \notin unknown
      BY DEF NoEarlyReuseInPlace
    <2>1. b \in live /\ BlockOK(b) /\ DeviceOK
      BY WorkPlaces
    <2>2. ~marked[b]
      <3>1. Places(live, cached, DeferredBlocks, Leased, InHand, quarantined, retained)
        BY OnePlaceIs DEF PoolInv
      <3> QED
        BY <2>1, <3>1 DEF Places, PoolInv, MarksOK
    <2> QED
      BY <2>1, <2>2 DEF BlockOK, DeviceOK
  <1> QED
    BY <1>1, PoolInvariance, PTL

(* A step never frees, unmarks or leases out a quarantined block. *)
LEMMA QuarantineStep ==
    ASSUME PoolInv, AllocatorNext, NEW b \in live, marked[b]
    PROVE  b \in live' /\ marked'[b] /\ gen'[b] = gen[b]
  <1>1. Places(live, cached, DeferredBlocks, Leased, InHand, quarantined, retained) /\ PoolTypes
    BY OnePlaceIs DEF PoolInv
  <1>2. b \in quarantined \cup retained
    BY DEF PoolInv, MarksOK
  <1>3. b \notin cached /\ b \notin InHand /\ b \in Block
    BY <1>1, <1>2 DEF Places, PoolTypes
  <1>4. ASSUME Trimmed PROVE b \in live' /\ marked'[b] /\ gen'[b] = gen[b]
    BY <1>3, <1>4 DEF Trimmed
  <1>5. ASSUME NEW t \in Thread, AllocStep(t) PROVE b \in live' /\ marked'[b] /\ gen'[b] = gen[b]
    <2>1. ASSUME NEW bytes \in Request, AllocBegin(t, bytes) PROVE UNCHANGED <<live, marked, gen>>
      BY <2>1 DEF AllocBegin, blocks
    <2>2. CASE AllocFresh(t)
      <3>1. PICK n \in Vacant :
              /\ live' = live \cup {n} /\ gen' = [gen EXCEPT ![n] = 0]
              /\ marked' = [marked EXCEPT ![n] = FALSE]
        BY <2>2 DEF AllocFresh
      <3> QED
        BY <1>1, <1>3, <3>1 DEF Vacant, PoolTypes
    <2>3. CASE AllocFinish(t)
      <3>1. /\ pc[t] \in {"reused", "fresh"} /\ gen' = [gen EXCEPT ![got[t]] = @ + 1]
            /\ UNCHANGED <<live, marked>>
        BY <2>3 DEF AllocFinish
      <3>2. got[t] \in InHand
        BY <3>1 DEF PoolInv, ThreadsOK, InHand
      <3> QED
        BY <1>1, <1>3, <3>1, <3>2 DEF PoolTypes
    <2> QED
      BY <1>4, <1>5, <2>1, <2>2, <2>3 DEF AllocStep, AllocOutOfMemory, AllocFails, blocks
  <1>6. CASE LeaseStep
    <2>1. ASSUME NEW x \in Block, LaunchUncertain(x) PROVE b \in live' /\ marked'[b] /\ gen'[b] = gen[b]
      BY <1>1, <1>3, <2>1 DEF LaunchUncertain, Quarantined, PoolTypes
    <2>2. ASSUME NEW x \in Block, ReturnBlock(x) PROVE b \in live' /\ marked'[b] /\ gen'[b] = gen[b]
      BY <2>2, ReturnPlaces DEF ReturnBlock
    <2> QED
      BY <1>6, <2>1, <2>2 DEF LeaseStep, Launch, blocks
  <1>7. CASE DeviceStep
    BY <1>7 DEF DeviceStep, DeviceCompletes, FenceDropped, blocks
  <1>8. ASSUME NEW t \in Thread, CollectStep(t) PROVE b \in live' /\ marked'[b] /\ gen'[b] = gen[b]
    BY <1>4, <1>8 DEF CollectStep, TakeSnapshot, QueryEntry, WaitEntry, FenceFails, PromoteDeferred, Trim, blocks
  <1>9. ASSUME NEW t \in Thread, CloseStep(t) PROVE b \in live' /\ marked'[b] /\ gen'[b] = gen[b]
    <2>1. CASE CloseDrainUncertain(t)
      BY <1>3, <2>1 DEF CloseDrainUncertain
    <2> QED
      BY <1>4, <1>9, <2>1 DEF CloseStep, CloseBegin, CloseDrain, TakeSnapshot, CloseSettle, CloseTrim, blocks
  <1> QED
    BY <1>5, <1>6, <1>7, <1>8, <1>9 DEF AllocatorNext

(* Quarantine is forever: no step of any thread, a close that fails and a pool
   that is opened again included, frees, clears or leases a block whose work
   nobody can wait for. *)
THEOREM QuarantineLasts == AllocatorSpec => QuarantineIsForever
  <1>1. PoolInv /\ [AllocatorNext]_allocatorVars =>
          [\A b \in live : marked[b] => b \in live' /\ marked'[b] /\ gen'[b] = gen[b]]_allocatorVars
    BY QuarantineStep
  <1> QED
    BY <1>1, PoolInvariance, PTL DEF AllocatorSpec, QuarantineIsForever

-----------------------------------------------------------------------------
(* The caches of linked code *)

KeysOf(l) == IF l = "kernel" THEN Kernel ELSE Module

(* The key under which the module cache holds what a call of layer l for key k
   returns. *)
InputsOf(l, k) == IF l = "kernel" THEN ModuleOf[k] ELSE k

(* A call refers to the entry of its key for as long as that entry has not
   failed; its leader has not published before "remove"; nobody sleeps on an
   entry that has landed; and the module it has got is the one that is cached,
   which is loaded unless the call is the leader that has just loaded it. *)
FrameOK(l, t) ==
    call[l][t] # None =>
        /\ call[l][t].key \in KeysOf(l)
        /\ flight[call[l][t].flight].state # "Failed" =>
             entries[call[l][t].key] = call[l][t].flight
        /\ call[l][t].at \in {"lead", "publish", "asleep"} =>
             flight[call[l][t].flight].state = "Loading"
        /\ call[l][t].at = "remove" =>
             /\ flight[call[l][t].flight].state = "Failed"
             /\ entries[call[l][t].key] = call[l][t].flight
        /\ call[l][t].module # None =>
             /\ call[l][t].module = entries[InputsOf(l, call[l][t].key)]
             /\ \/ flight[call[l][t].module].state = "Ready"
                \/ l = "module" /\ call[l][t].at = "publish"

(* A kernel that is loaded is in the cached module of its inputs, and a module
   that is loaded is itself. *)
ReadyOK(k) ==
    entries[k] # None /\ flight[entries[k]].state = "Ready" =>
        /\ flight[entries[k]].module = entries[InputsOf(LayerOf(k), k)]
        /\ flight[flight[entries[k]].module].state = "Ready"

(* An entry object has a module when it is ready, and only then. *)
FlightOK == \A f \in Flight : flight[f].module # None <=> flight[f].state = "Ready"

(* No entry object is under two keys. *)
EntriesDiffer ==
    \A j, k \in Key : entries[j] = entries[k] /\ entries[j] # None => j = k

SoleLeader ==
    \A l \in Layer : \A t, u \in Caller :
        Leading(l, t) /\ Leading(l, u) /\ call[l][u].key = call[l][t].key => u = t

(* A thread that is inside both caches loads the module of its kernel. *)
Nested ==
    \A t \in Caller : call["kernel"][t] # None /\ call["module"][t] # None =>
        /\ call["kernel"][t].at = "lead"
        /\ call["module"][t].key = ModuleOf[call["kernel"][t].key]

(* The inductive invariant. *)
LinkedInv ==
    /\ LinkedTypeOK
    /\ \A l \in Layer : \A t \in Caller : FrameOK(l, t)
    /\ \A k \in Key : ReadyOK(k)
    /\ FailureIsNotCached
    /\ FlightOK
    /\ EntriesDiffer
    /\ SoleLeader
    /\ Nested

-----------------------------------------------------------------------------
(* Facts about types and free entry objects *)

(* What a call in progress is made of. *)
LEMMA FrameTypes ==
    ASSUME LinkedTypeOK, NEW l \in Layer, NEW t \in Caller, call[l][t] # None
    PROVE  /\ call[l][t] \in Frame
           /\ call[l][t].key \in Key
           /\ call[l][t].flight \in Flight
           /\ call[l][t].module \in Flight \cup {None}
BY DEF LinkedTypeOK, Frame

(* What the maps and the entry objects are made of. *)
LEMMA MapTypes ==
    ASSUME LinkedTypeOK
    PROVE  /\ \A k \in Key : entries[k] \in Flight \cup {None}
           /\ \A f \in Flight : /\ flight[f] \in CacheEntry
                                /\ flight[f].state \in {"Loading", "Ready", "Failed"}
                                /\ flight[f].module \in Flight \cup {None}
BY DEF LinkedTypeOK, CacheEntry

(* The keys of kernels and modules, and the inputs of both, are keys. *)
LEMMA KeyTypes ==
    ASSUME NEW l \in Layer, NEW k \in KeysOf(l)
    PROVE  /\ k \in Key /\ LayerOf(k) = l
           /\ InputsOf(l, k) \in Module /\ InputsOf(l, k) \in Key
BY KeysAssumption DEF KeysOf, Layer, Key, LayerOf, InputsOf

(* Every key belongs to the layer that caches it. *)
LEMMA LayerTypes ==
    ASSUME NEW k \in Key
    PROVE  LayerOf(k) \in Layer /\ k \in KeysOf(LayerOf(k))
BY DEF Key, LayerOf, Layer, KeysOf

(* The entry object that a leader takes is held by nobody. *)
LEMMA UnusedIsFree ==
    ASSUME Flight \ FlightsHeld # {}
    PROVE  Unused \in Flight \ FlightsHeld
<1>. DEFINE S == Flight \ FlightsHeld
<1>1. S \subseteq Nat /\ S # {}
  BY DEF Flight
<1>. HIDE DEF S
<1>2. PICK x \in S : \A y \in S : ~(<<y, x>> \in OpToRel(<, Nat))
  BY <1>1, NatLessThanWellFounded, WFMin
<1>3. \A y \in S : x <= y
  <2>. TAKE y \in S
  <2>1. x \in Nat /\ y \in Nat  BY <1>1
  <2>2. y < x => <<y, x>> \in OpToRel(<, Nat)  BY <2>1 DEF OpToRel
  <2>3. ~(y < x)  BY <1>2, <2>2, Zenon
  <2>. QED  BY <2>1, <2>3
<1>. QED  BY <1>3 DEF S, Unused

(* What is held by a map, a call or a cached kernel is not free. *)
LEMMA HeldIsNotFree ==
    ASSUME NEW f \in Flight \ FlightsHeld, None \notin Flight
    PROVE  /\ \A k \in Key : entries[k] # f
           /\ \A k \in Key : entries[k] # None => flight[entries[k]].module # f
           /\ \A l \in Layer : \A t \in Caller : call[l][t] # None =>
                call[l][t].flight # f /\ call[l][t].module # f
BY DEF FlightsHeld, Cached, Frames

-----------------------------------------------------------------------------
(* Initial states and steps *)

(* Nothing is cached and nobody calls. *)
LEMMA LinkedInitInv == LinkedInit => LinkedInv
<1>. SUFFICES ASSUME LinkedInit PROVE LinkedInv  OBVIOUS
<1>1. \A l \in Layer : \A t \in Caller : call[l][t] = None  BY DEF LinkedInit
<1>2. \A k \in Key : entries[k] = None  BY DEF LinkedInit
<1>3. \A f \in Flight : flight[f] = Loading  BY DEF LinkedInit
<1>4. LinkedTypeOK  BY DEF LinkedInit, LinkedTypeOK, Loading, CacheEntry
<1>5. \A l \in Layer : \A t \in Caller : FrameOK(l, t)  BY <1>1 DEF FrameOK
<1>6. FlightOK  BY <1>3 DEF FlightOK, Loading
<1>7. Nested  BY <1>1 DEF Nested, Layer
<1>8. SoleLeader  BY <1>1 DEF SoleLeader, Leading
<1>. QED  BY <1>2, <1>4, <1>5, <1>6, <1>7, <1>8 DEF LinkedInv, ReadyOK, FailureIsNotCached, EntriesDiffer

(* A step that changes neither the maps nor the entry objects keeps the
   invariant if the calls it changes are sound, no leader that has to remove its
   entry is disturbed, and nobody becomes a leader. *)
LEMMA CallsOnly ==
    ASSUME LinkedInv,
           UNCHANGED <<entries, flight>>,
           call' \in [Layer -> [Caller -> Frame \cup {None}]], dead' \subseteq Caller,
           \A l \in Layer : \A t \in Caller : call'[l][t] = call[l][t] \/ FrameOK(l, t)',
           \A l \in Layer : \A t \in Caller :
               call[l][t] # None /\ call[l][t].at = "remove" => call'[l][t] = call[l][t],
           \A l \in Layer : \A t \in Caller : Leading(l, t)' =>
               Leading(l, t) /\ call'[l][t].key = call[l][t].key,
           Nested'
    PROVE  LinkedInv'
<1>1. LinkedTypeOK'  BY DEF LinkedInv, LinkedTypeOK
<1>2. \A l \in Layer : \A t \in Caller : FrameOK(l, t)'
  BY DEF LinkedInv, FrameOK
<1>3. \A k \in Key : ReadyOK(k)'  BY DEF LinkedInv, ReadyOK
<1>4. FailureIsNotCached'
  <2>. SUFFICES ASSUME NEW k \in Key, entries[k] # None, flight[entries[k]].state = "Failed"
                PROVE  \E t \in Caller : call'[LayerOf(k)][t] # None
                           /\ call'[LayerOf(k)][t].flight = entries[k]
                           /\ call'[LayerOf(k)][t].at = "remove"
    BY DEF FailureIsNotCached
  <2>1. PICK t \in Caller : call[LayerOf(k)][t] # None
                 /\ call[LayerOf(k)][t].flight = entries[k]
                 /\ call[LayerOf(k)][t].at = "remove"
    BY DEF LinkedInv, FailureIsNotCached
  <2>2. call'[LayerOf(k)][t] = call[LayerOf(k)][t]  BY <2>1, LayerTypes
  <2>. QED  BY <2>1, <2>2
<1>5. FlightOK' /\ EntriesDiffer'  BY DEF LinkedInv, FlightOK, EntriesDiffer
<1>6. SoleLeader'  BY DEF LinkedInv, SoleLeader
<1>. QED  BY <1>1, <1>2, <1>3, <1>4, <1>5, <1>6 DEF LinkedInv

(* A call of layer l by thread t is replaced by c. *)
LEMMA OneCall ==
    ASSUME LinkedTypeOK, NEW l \in Layer, NEW t \in Caller, NEW c,
           call' = [call EXCEPT ![l][t] = c]
    PROVE  /\ \A m \in Layer : \A u \in Caller :
                call'[m][u] = IF m = l /\ u = t THEN c ELSE call[m][u]
           /\ c \in Frame \cup {None} => call' \in [Layer -> [Caller -> Frame \cup {None}]]
BY DEF LinkedTypeOK

(* A caller that finds an entry follows it. *)
LEMMA FollowInv ==
    ASSUME LinkedInv, NEW t \in Caller, NEW l \in Layer, NEW k \in Key, Follow(t, l, k)
    PROVE  LinkedInv'
<1>. DEFINE c == [key |-> k, flight |-> entries[k], at |-> "follow", module |-> None]
<1>1. LinkedTypeOK  BY DEF LinkedInv
<1>2. call' = [call EXCEPT ![l][t] = c] /\ UNCHANGED <<entries, flight, dead>>
  BY DEF Follow
<1>3. entries[k] \in Flight  BY <1>1, MapTypes DEF Follow
<1>4. c \in Frame  BY <1>3 DEF Frame
<1>. HIDE DEF c
<1>5. /\ \A m \in Layer : \A u \in Caller :
            call'[m][u] = IF m = l /\ u = t THEN c ELSE call[m][u]
      /\ call' \in [Layer -> [Caller -> Frame \cup {None}]]
  BY <1>1, <1>2, <1>4, OneCall
<1>6. k \in KeysOf(l)  BY DEF Follow, MayCall, KeysOf, Layer
<1>7. FrameOK(l, t)'
  <2>1. call'[l][t] = c  BY <1>5
  <2>. QED  BY <1>2, <1>6, <2>1 DEF FrameOK, c
<1>8. Nested'
  BY <1>5 DEF LinkedInv, Nested, Follow, MayCall, c, Layer
<1>9. \A m \in Layer : \A u \in Caller : Leading(m, u)' =>
          Leading(m, u) /\ call'[m][u].key = call[m][u].key
  BY <1>5 DEF Leading, c
<1>10. call[l][t] = None  BY DEF Follow, MayCall
<1>11. \A m \in Layer : \A u \in Caller : call'[m][u] = call[m][u] \/ FrameOK(m, u)'
  BY <1>5, <1>7
<1>12. \A m \in Layer : \A u \in Caller :
          call[m][u] # None /\ call[m][u].at = "remove" => call'[m][u] = call[m][u]
  BY <1>5, <1>10
<1>13. dead' \subseteq Caller  BY <1>1, <1>2 DEF LinkedTypeOK
<1>. QED  BY <1>2, <1>5, <1>8, <1>9, <1>11, <1>12, <1>13, CallsOnly

(* A follower takes the module of an entry that has landed, or goes to sleep. *)
LEMMA LookInv ==
    ASSUME LinkedInv, NEW t \in Caller, NEW l \in Layer, Look(t, l)
    PROVE  LinkedInv'
<1>. DEFINE e == flight[call[l][t].flight]
            c == [call[l][t] EXCEPT !.at = IF e.state = "Loading" THEN "asleep" ELSE "done",
                                    !.module = e.module]
<1>1. LinkedTypeOK /\ call[l][t] # None /\ call[l][t].at = "follow"  BY DEF LinkedInv, Look
<1>2. call' = [call EXCEPT ![l][t] = c] /\ UNCHANGED <<entries, flight, dead>>
  BY <1>1 DEF Look, LinkedTypeOK
<1>3. call[l][t] \in Frame /\ call[l][t].key \in Key /\ call[l][t].flight \in Flight
  BY <1>1, FrameTypes
<1>4. e \in CacheEntry /\ e.module \in Flight \cup {None} /\ e.state \in {"Loading", "Ready", "Failed"}
  BY <1>1, <1>3, MapTypes
<1>5. /\ c \in Frame /\ c.key = call[l][t].key /\ c.flight = call[l][t].flight
      /\ c.module = e.module
      /\ c.at = IF e.state = "Loading" THEN "asleep" ELSE "done"
  BY <1>3, <1>4 DEF Frame
<1>. HIDE DEF c
<1>6. /\ \A m \in Layer : \A u \in Caller :
            call'[m][u] = IF m = l /\ u = t THEN c ELSE call[m][u]
      /\ call' \in [Layer -> [Caller -> Frame \cup {None}]]
  BY <1>1, <1>2, <1>5, OneCall
<1>7. FrameOK(l, t)'
  <2>1. call'[l][t] = c  BY <1>6
  <2>2. FrameOK(l, t)  BY DEF LinkedInv
  <2>3. c.key \in KeysOf(l) /\ (flight[c.flight].state # "Failed" => entries[c.key] = c.flight)
    BY <1>1, <1>5, <2>2 DEF FrameOK
  <2>4. ASSUME c.module # None
        PROVE  c.module = entries[InputsOf(l, c.key)] /\ flight[c.module].state = "Ready"
    <3>1. e.state = "Ready"  BY <1>3, <1>5, <2>4 DEF LinkedInv, FlightOK
    <3>2. entries[c.key] = c.flight /\ c.flight \in Flight  BY <1>3, <1>5, <2>3, <3>1
    <3>3. c.key \in Key /\ LayerOf(c.key) = l  BY <2>3, KeyTypes
    <3>4. ReadyOK(c.key)  BY <3>3 DEF LinkedInv
    <3>. QED  BY <1>5, <3>1, <3>2, <3>3, <3>4, FrameAssumption DEF ReadyOK
  <2>. QED  BY <1>2, <1>5, <2>1, <2>3, <2>4 DEF FrameOK
<1>8. Nested'
  BY <1>1, <1>5, <1>6 DEF LinkedInv, Nested, Layer
<1>9. \A m \in Layer : \A u \in Caller : Leading(m, u)' =>
          Leading(m, u) /\ call'[m][u].key = call[m][u].key
  BY <1>5, <1>6 DEF Leading
<1>10. \A m \in Layer : \A u \in Caller : call'[m][u] = call[m][u] \/ FrameOK(m, u)'
  BY <1>6, <1>7
<1>11. \A m \in Layer : \A u \in Caller :
          call[m][u] # None /\ call[m][u].at = "remove" => call'[m][u] = call[m][u]
  BY <1>1, <1>6
<1>12. dead' \subseteq Caller  BY <1>1, <1>2 DEF LinkedTypeOK
<1>. QED  BY <1>2, <1>6, <1>8, <1>9, <1>10, <1>11, <1>12, CallsOnly

(* The leader of a module has loaded it, or has not. *)
LEMMA LoadModuleInv ==
    ASSUME LinkedInv, NEW t \in Caller, NEW ok \in BOOLEAN, LoadModule(t, ok)
    PROVE  LinkedInv'
<1>. DEFINE l == "module"
            c == [call[l][t] EXCEPT !.at = "publish",
                                    !.module = IF ok THEN call[l][t].flight ELSE None]
<1>0. l \in Layer  BY DEF Layer
<1>1. LinkedTypeOK /\ call[l][t] # None /\ call[l][t].at = "lead"  BY DEF LinkedInv, LoadModule
<1>2. call' = [call EXCEPT ![l][t] = c] /\ UNCHANGED <<entries, flight, dead>>
  BY <1>0, <1>1 DEF LoadModule, LinkedTypeOK
<1>3. call[l][t] \in Frame /\ call[l][t].key \in Key /\ call[l][t].flight \in Flight
  BY <1>0, <1>1, FrameTypes
<1>4. /\ c \in Frame /\ c.key = call[l][t].key /\ c.flight = call[l][t].flight
      /\ c.module = (IF ok THEN call[l][t].flight ELSE None) /\ c.at = "publish"
  BY <1>3 DEF Frame
<1>. HIDE DEF c
<1>5. /\ \A m \in Layer : \A u \in Caller :
            call'[m][u] = IF m = l /\ u = t THEN c ELSE call[m][u]
      /\ call' \in [Layer -> [Caller -> Frame \cup {None}]]
  BY <1>0, <1>1, <1>2, <1>4, OneCall
<1>6. FrameOK(l, t)'
  <2>1. call'[l][t] = c  BY <1>0, <1>5
  <2>2. FrameOK(l, t)  BY <1>0 DEF LinkedInv
  <2>3. flight[c.flight].state = "Loading" /\ entries[c.key] = c.flight /\ c.key \in KeysOf(l)
    BY <1>1, <1>4, <2>2 DEF FrameOK
  <2>. QED  BY <1>2, <1>4, <2>1, <2>3 DEF FrameOK, InputsOf
<1>7. Nested'
  BY <1>1, <1>4, <1>5 DEF LinkedInv, Nested, Layer
<1>8. \A m \in Layer : \A u \in Caller : Leading(m, u)' =>
          Leading(m, u) /\ call'[m][u].key = call[m][u].key
  BY <1>1, <1>4, <1>5 DEF Leading
<1>9. \A m \in Layer : \A u \in Caller : call'[m][u] = call[m][u] \/ FrameOK(m, u)'
  BY <1>5, <1>6
<1>10. \A m \in Layer : \A u \in Caller :
          call[m][u] # None /\ call[m][u].at = "remove" => call'[m][u] = call[m][u]
  BY <1>1, <1>5
<1>11. dead' \subseteq Caller  BY <1>1, <1>2 DEF LinkedTypeOK
<1>. QED  BY <1>2, <1>5, <1>7, <1>8, <1>9, <1>10, <1>11, CallsOnly

(* The leader of a kernel has its module's answer: what it publishes is in the
   module that is cached for its inputs. *)
LEMMA LoadKernelInv ==
    ASSUME LinkedInv, NEW t \in Caller, NEW ok \in BOOLEAN, LoadKernel(t, ok)
    PROVE  LinkedInv'
<1>. DEFINE c == [call["kernel"][t] EXCEPT !.at = "publish",
                      !.module = IF ok THEN call["module"][t].module ELSE None]
<1>0. "kernel" \in Layer /\ "module" \in Layer  BY DEF Layer
<1>1. /\ LinkedTypeOK /\ call["kernel"][t] # None /\ call["module"][t] # None
      /\ call["module"][t].at = "done"
      /\ call["kernel"][t].at = "lead"
      /\ call["module"][t].key = ModuleOf[call["kernel"][t].key]
  BY DEF LinkedInv, LoadKernel, Nested
<1>2. /\ call["kernel"][t] \in Frame /\ call["kernel"][t].key \in Key
      /\ call["kernel"][t].flight \in Flight
      /\ call["module"][t] \in Frame /\ call["module"][t].module \in Flight \cup {None}
  BY <1>0, <1>1, FrameTypes
<1>3. /\ c \in Frame /\ c.key = call["kernel"][t].key /\ c.flight = call["kernel"][t].flight
      /\ c.module = (IF ok THEN call["module"][t].module ELSE None) /\ c.at = "publish"
  BY <1>2 DEF Frame
<1>4. /\ \A m \in Layer : \A u \in Caller :
            call'[m][u] = IF u = t THEN (IF m = "kernel" THEN c ELSE None) ELSE call[m][u]
      /\ call' \in [Layer -> [Caller -> Frame \cup {None}]]
      /\ UNCHANGED <<entries, flight, dead>>
  <2>1. call' = [[call EXCEPT !["kernel"] = [call["kernel"] EXCEPT ![t] = c]]
                   EXCEPT !["module"] = [call["module"] EXCEPT ![t] = None]]
    BY <1>0, <1>1 DEF LoadKernel, LinkedTypeOK
  <2>2. UNCHANGED <<entries, flight, dead>>  BY DEF LoadKernel
  <2>. HIDE DEF c
  <2>. QED  BY <1>1, <1>3, <2>1, <2>2 DEF LinkedTypeOK, Layer
<1>. HIDE DEF c
<1>5. FrameOK("kernel", t)'
  <2>1. call'["kernel"][t] = c  BY <1>0, <1>4
  <2>2. FrameOK("kernel", t) /\ FrameOK("module", t)  BY <1>0 DEF LinkedInv
  <2>3. flight[c.flight].state = "Loading" /\ entries[c.key] = c.flight /\ c.key \in KeysOf("kernel")
    BY <1>1, <1>3, <2>2 DEF FrameOK
  <2>4. c.module # None => c.module = entries[ModuleOf[c.key]] /\ flight[c.module].state = "Ready"
    BY <1>1, <1>3, <2>2 DEF FrameOK, InputsOf
  <2>. QED  BY <1>3, <1>4, <2>1, <2>3, <2>4 DEF FrameOK, InputsOf
<1>6. FrameOK("module", t)'
  BY <1>0, <1>4 DEF FrameOK
<1>7. Nested'
  BY <1>0, <1>4 DEF LinkedInv, Nested
<1>8. \A m \in Layer : \A u \in Caller : Leading(m, u)' =>
          Leading(m, u) /\ call'[m][u].key = call[m][u].key
  BY <1>1, <1>3, <1>4 DEF Leading, Layer
<1>9. \A m \in Layer : \A u \in Caller : call'[m][u] = call[m][u] \/ FrameOK(m, u)'
  BY <1>4, <1>5, <1>6 DEF Layer
<1>10. \A m \in Layer : \A u \in Caller :
          call[m][u] # None /\ call[m][u].at = "remove" => call'[m][u] = call[m][u]
  BY <1>1, <1>4 DEF Layer
<1>11. dead' \subseteq Caller  BY <1>1, <1>4 DEF LinkedTypeOK
<1>. QED  BY <1>4, <1>7, <1>8, <1>9, <1>10, <1>11, CallsOnly

(* Calls that end, by returning or by a panic of the load. *)
LEMMA CallsEndInv ==
    ASSUME LinkedInv, UNCHANGED <<entries, flight>>, dead' \subseteq Caller,
           call' \in [Layer -> [Caller -> Frame \cup {None}]],
           \A l \in Layer : \A t \in Caller : call'[l][t] \in {call[l][t], None},
           \A l \in Layer : \A t \in Caller :
               call[l][t] # None /\ call[l][t].at = "remove" => call'[l][t] = call[l][t]
    PROVE  LinkedInv'
<1>1. \A l \in Layer : \A t \in Caller : call'[l][t] = call[l][t] \/ FrameOK(l, t)'
  BY DEF FrameOK
<1>2. \A l \in Layer : \A t \in Caller : Leading(l, t)' =>
          Leading(l, t) /\ call'[l][t].key = call[l][t].key
  BY DEF Leading
<1>3. Nested'
  BY DEF LinkedInv, Nested, Layer
<1>. QED  BY <1>1, <1>2, <1>3, CallsOnly

LEMMA ReturnCallInv ==
    ASSUME LinkedInv, NEW t \in Caller, NEW l \in Layer, ReturnCall(t, l)
    PROVE  LinkedInv'
<1>1. LinkedTypeOK /\ call[l][t].at = "done"  BY DEF LinkedInv, ReturnCall
<1>2. /\ \A m \in Layer : \A u \in Caller :
            call'[m][u] = IF m = l /\ u = t THEN None ELSE call[m][u]
      /\ call' \in [Layer -> [Caller -> Frame \cup {None}]]
  BY <1>1, OneCall DEF ReturnCall
<1>3. UNCHANGED <<entries, flight, dead>>  BY DEF ReturnCall
<1>4. dead' \subseteq Caller  BY <1>1, <1>3 DEF LinkedTypeOK
<1>. QED  BY <1>1, <1>2, <1>3, <1>4, CallsEndInv

LEMMA PanicInv ==
    ASSUME LinkedInv, NEW t \in Caller, Panic(t)
    PROVE  LinkedInv'
<1>1. LinkedTypeOK /\ Nested  BY DEF LinkedInv
<1>2. /\ \A m \in Layer : \A u \in Caller : call'[m][u] = IF u = t THEN None ELSE call[m][u]
      /\ call' \in [Layer -> [Caller -> Frame \cup {None}]]
  BY <1>1 DEF Panic, LinkedTypeOK
<1>3. UNCHANGED <<entries, flight>> /\ dead' \subseteq Caller  BY <1>1 DEF Panic, LinkedTypeOK
<1>4. \A m \in Layer : call[m][t] # None => call[m][t].at # "remove"
  BY <1>1 DEF Panic, Nested, Layer
<1>. QED  BY <1>2, <1>3, <1>4, CallsEndInv

(* A leader's new entry object disturbs nobody: it was held by no map, no call
   and no cached kernel, and calls that still refer to the key's earlier entry
   know that it has failed. *)
LEMMA LeadInv ==
    ASSUME LinkedInv, NEW t \in Caller, NEW l \in Layer, NEW k \in Key, Lead(t, l, k)
    PROVE  LinkedInv'
<1>. DEFINE g == Unused
            c == [key |-> k, flight |-> g, at |-> "lead", module |-> None]
<1>1. LinkedTypeOK  BY DEF LinkedInv
<1>2. g \in Flight \ FlightsHeld  BY UnusedIsFree DEF Lead
<1>3. /\ call' = [call EXCEPT ![l][t] = c]
      /\ entries' = [entries EXCEPT ![k] = g]
      /\ flight' = [flight EXCEPT ![g] = Loading]
      /\ dead' = dead /\ entries[k] = None /\ call[l][t] = None
  BY DEF Lead, MayCall
<1>4. c \in Frame  BY <1>2 DEF Frame
<1>. HIDE DEF g, c
<1>5. /\ \A m \in Layer : \A u \in Caller :
            call'[m][u] = IF m = l /\ u = t THEN c ELSE call[m][u]
      /\ call' \in [Layer -> [Caller -> Frame \cup {None}]]
  BY <1>1, <1>3, <1>4, OneCall
<1>6. k \in KeysOf(l)  BY DEF Lead, MayCall, KeysOf, Layer
<1>7. /\ \A j \in Key : entries[j] # g
      /\ \A j \in Key : entries[j] # None => flight[entries[j]].module # g
      /\ \A m \in Layer : \A u \in Caller : call[m][u] # None =>
           call[m][u].flight # g /\ call[m][u].module # g
  BY <1>2, FrameAssumption, HeldIsNotFree
<1>8. /\ \A j \in Key : entries'[j] = IF j = k THEN g ELSE entries[j]
      /\ \A f \in Flight : flight'[f] = IF f = g THEN Loading ELSE flight[f]
      /\ Loading.state = "Loading" /\ Loading.module = None /\ Loading \in CacheEntry
  BY <1>1, <1>2, <1>3 DEF LinkedTypeOK, Loading, CacheEntry
<1>9. LinkedTypeOK'
  BY <1>1, <1>2, <1>3, <1>5, <1>8 DEF LinkedTypeOK
<1>10. ASSUME NEW m \in Layer, NEW u \in Caller  PROVE FrameOK(m, u)'
  <2>1. CASE m = l /\ u = t
    <3>1. call'[m][u] = c /\ flight'[g] = Loading /\ entries'[k] = g
      BY <1>2, <1>5, <1>8, <2>1
    <3>. QED  BY <1>6, <1>8, <2>1, <3>1 DEF FrameOK, c
  <2>2. CASE ~(m = l /\ u = t) /\ call[m][u] # None
    <3>1. call'[m][u] = call[m][u] /\ call[m][u].flight \in Flight /\ call[m][u].key \in Key
          /\ call[m][u].module \in Flight \cup {None}
      BY <1>1, <1>5, <2>2, FrameTypes
    <3>2. flight'[call[m][u].flight] = flight[call[m][u].flight]
      BY <1>7, <1>8, <2>2, <3>1
    <3>3. FrameOK(m, u)  BY DEF LinkedInv
    <3>4. flight[call[m][u].flight].state # "Failed" => call[m][u].key # k
      BY <1>1, <1>3, <2>2, <3>1, <3>3, FrameAssumption DEF FrameOK
    <3>5. call[m][u].at = "remove" => call[m][u].key # k
      BY <1>3, <2>2, <3>1, <3>3, FrameAssumption DEF FrameOK
    <3>6. call[m][u].key \in KeysOf(m)  BY <2>2, <3>3 DEF FrameOK
    <3>7. ASSUME call[m][u].module # None
          PROVE  /\ entries'[InputsOf(m, call[m][u].key)] = entries[InputsOf(m, call[m][u].key)]
                 /\ flight'[call[m][u].module] = flight[call[m][u].module]
      <4>1. InputsOf(m, call[m][u].key) \in Key  BY <3>6, KeyTypes
      <4>2. entries[InputsOf(m, call[m][u].key)] = call[m][u].module
        BY <2>2, <3>3, <3>7 DEF FrameOK
      <4>. QED  BY <1>3, <1>7, <1>8, <2>2, <3>1, <3>7, <4>1, <4>2
    <3>. QED  BY <1>8, <2>2, <3>1, <3>2, <3>3, <3>4, <3>5, <3>7 DEF FrameOK
  <2>3. CASE ~(m = l /\ u = t) /\ call[m][u] = None
    BY <1>5, <2>3 DEF FrameOK
  <2>. QED  BY <2>1, <2>2, <2>3
<1>11. ASSUME NEW j \in Key  PROVE ReadyOK(j)'
  <2>1. CASE j = k
    BY <1>2, <1>8, <2>1 DEF ReadyOK
  <2>2. CASE j # k
    <3>1. SUFFICES ASSUME entries[j] # None, flight'[entries[j]].state = "Ready"
                   PROVE  /\ flight'[entries[j]].module = entries'[InputsOf(LayerOf(j), j)]
                          /\ flight'[flight'[entries[j]].module].state = "Ready"
      BY <1>8, <2>2 DEF ReadyOK, LayerOf, InputsOf
    <3>2. entries[j] \in Flight /\ flight'[entries[j]] = flight[entries[j]]
      BY <1>1, <1>7, <1>8, <3>1, MapTypes
    <3>3. /\ flight[entries[j]].module = entries[InputsOf(LayerOf(j), j)]
          /\ flight[flight[entries[j]].module].state = "Ready"
      BY <3>1, <3>2 DEF LinkedInv, ReadyOK
    <3>4. flight[entries[j]].module \in Flight
      BY <1>1, <3>1, <3>2, MapTypes DEF LinkedInv, FlightOK
    <3>5. InputsOf(LayerOf(j), j) \in Key  BY LayerTypes, KeyTypes
    <3>. QED  BY <1>3, <1>7, <1>8, <3>1, <3>2, <3>3, <3>4, <3>5, FrameAssumption
  <2>. QED  BY <2>1, <2>2
<1>12. FailureIsNotCached'
  <2>. SUFFICES ASSUME NEW j \in Key, entries'[j] # None, flight'[entries'[j]].state = "Failed"
                PROVE  \E u \in Caller : call'[LayerOf(j)][u] # None
                           /\ call'[LayerOf(j)][u].flight = entries'[j]
                           /\ call'[LayerOf(j)][u].at = "remove"
    BY DEF FailureIsNotCached, LayerOf
  <2>1. j # k /\ entries'[j] = entries[j]  BY <1>2, <1>8
  <2>2. flight[entries[j]].state = "Failed"  BY <1>1, <1>8, <2>1, MapTypes
  <2>3. PICK u \in Caller : call[LayerOf(j)][u] # None
                 /\ call[LayerOf(j)][u].flight = entries[j]
                 /\ call[LayerOf(j)][u].at = "remove"
    BY <2>1, <2>2 DEF LinkedInv, FailureIsNotCached
  <2>4. call'[LayerOf(j)][u] = call[LayerOf(j)][u]
    BY <1>3, <1>5, <2>3, LayerTypes
  <2>. QED  BY <2>1, <2>3, <2>4
<1>13. FlightOK'
  BY <1>2, <1>8 DEF LinkedInv, FlightOK
<1>14. EntriesDiffer'
  BY <1>7, <1>8 DEF LinkedInv, EntriesDiffer
<1>15. SoleLeader'
  <2>. SUFFICES ASSUME NEW m \in Layer, NEW u \in Caller, NEW v \in Caller,
                       Leading(m, u)', Leading(m, v)', call'[m][v].key = call'[m][u].key
                PROVE  v = u
    BY DEF SoleLeader
  <2>1. ASSUME NEW w \in Caller, Leading(l, w), call[l][w].key = k  PROVE FALSE
    <3>1. FrameOK(l, w)  BY DEF LinkedInv
    <3>2. call[l][w].flight \in Flight  BY <1>1, <2>1, FrameTypes DEF Leading
    <3>. QED  BY <1>3, <2>1, <3>1, <3>2, FrameAssumption DEF FrameOK, Leading
  <2>2. call'[l][t].key = k  BY <1>5 DEF c
  <2>. QED  BY <1>5, <2>1, <2>2 DEF LinkedInv, SoleLeader, Leading
<1>16. Nested'
  <2>1. c.at = "lead" /\ c.key = k  BY DEF c
  <2>. QED  BY <1>5, <2>1 DEF LinkedInv, Nested, Lead, MayCall, Layer
<1>. QED  BY <1>9, <1>10, <1>11, <1>12, <1>13, <1>14, <1>15, <1>16 DEF LinkedInv

(* A failed leader removes its own entry and nobody else's. *)
LEMMA RemoveEntryInv ==
    ASSUME LinkedInv, NEW t \in Caller, NEW l \in Layer, RemoveEntry(t, l)
    PROVE  LinkedInv'
<1>. DEFINE k == call[l][t].key
            c == [call[l][t] EXCEPT !.at = "done"]
<1>1. LinkedTypeOK /\ call[l][t] # None /\ call[l][t].at = "remove" /\ FrameOK(l, t)
  BY DEF LinkedInv, RemoveEntry
<1>2. /\ call' = [call EXCEPT ![l][t] = c]
      /\ entries' = [entries EXCEPT ![k] = None]
      /\ flight' = flight /\ dead' = dead
  BY <1>1 DEF RemoveEntry, LinkedTypeOK
<1>3. /\ call[l][t] \in Frame /\ k \in Key /\ call[l][t].flight \in Flight
      /\ k \in KeysOf(l) /\ entries[k] = call[l][t].flight /\ entries[k] \in Flight
      /\ flight[entries[k]].state = "Failed"
  BY <1>1, FrameTypes DEF FrameOK
<1>4. /\ c \in Frame /\ c.key = k /\ c.flight = call[l][t].flight
      /\ c.module = call[l][t].module /\ c.at = "done"
  BY <1>3 DEF Frame
<1>. HIDE DEF k, c
<1>5. /\ \A m \in Layer : \A u \in Caller :
            call'[m][u] = IF m = l /\ u = t THEN c ELSE call[m][u]
      /\ call' \in [Layer -> [Caller -> Frame \cup {None}]]
  BY <1>1, <1>2, <1>4, OneCall
<1>6. \A j \in Key : entries'[j] = IF j = k THEN None ELSE entries[j]
  BY <1>1, <1>2, <1>3 DEF LinkedTypeOK
<1>7. LinkedTypeOK'
  BY <1>1, <1>2, <1>5 DEF LinkedTypeOK
<1>8. ASSUME NEW m \in Layer, NEW u \in Caller  PROVE FrameOK(m, u)'
  <2>0. CASE call'[m][u] = None
    BY <2>0 DEF FrameOK
  <2>1. CASE call'[m][u] # None
    <3>1. /\ call[m][u] # None /\ FrameOK(m, u)
          /\ call'[m][u].key = call[m][u].key /\ call'[m][u].flight = call[m][u].flight
          /\ call'[m][u].module = call[m][u].module
          /\ call'[m][u].at = call[m][u].at \/ (m = l /\ u = t /\ call'[m][u].at = "done")
      BY <1>1, <1>4, <1>5, <2>1 DEF LinkedInv, k
    <3>2. /\ call[m][u].key \in Key /\ call[m][u].flight \in Flight
          /\ call[m][u].key \in KeysOf(m) /\ call[m][u].module \in Flight \cup {None}
      BY <1>1, <3>1, FrameTypes DEF FrameOK
    <3>3. flight[call[m][u].flight].state # "Failed" => call[m][u].key # k
      BY <1>3, <3>1, <3>2 DEF FrameOK
    <3>4. ASSUME call'[m][u].at = "remove"  PROVE call[m][u].key # k
      <4>1. SUFFICES ASSUME call[m][u].key = k PROVE FALSE  OBVIOUS
      <4>2. m = l  BY <1>3, <3>2, <4>1, KeyTypes
      <4>3. u = t
        BY <1>1, <3>1, <3>4, <4>1, <4>2 DEF LinkedInv, SoleLeader, Leading, k
      <4>. QED  BY <1>4, <1>5, <3>4, <4>2, <4>3
    <3>5. ASSUME call[m][u].module # None  PROVE InputsOf(m, call[m][u].key) # k
      <4>1. SUFFICES ASSUME InputsOf(m, call[m][u].key) = k PROVE FALSE  OBVIOUS
      <4>2. call[m][u].module = entries[k]  BY <3>1, <3>5, <4>1 DEF FrameOK
      <4>3. m = "module" /\ call[m][u].at = "publish"
        BY <1>3, <3>1, <3>5, <4>2 DEF FrameOK
      <4>4. call[m][u].key = k  BY <4>1, <4>3 DEF InputsOf
      <4>5. flight[call[m][u].flight].state = "Loading"
        BY <3>1, <4>3 DEF FrameOK
      <4>. QED  BY <3>3, <4>4, <4>5
    <3>6. InputsOf(m, call[m][u].key) \in Key  BY <3>2, KeyTypes
    <3>7. flight[call[m][u].flight].state # "Failed" => entries'[call[m][u].key] = call[m][u].flight
      BY <1>6, <3>1, <3>2, <3>3 DEF FrameOK
    <3>8. call'[m][u].at = "remove" =>
              /\ flight[call[m][u].flight].state = "Failed"
              /\ entries'[call[m][u].key] = call[m][u].flight
      BY <1>6, <3>1, <3>2, <3>4 DEF FrameOK
    <3>9. call[m][u].module # None =>
              /\ call[m][u].module = entries'[InputsOf(m, call[m][u].key)]
              /\ \/ flight[call[m][u].module].state = "Ready"
                 \/ m = "module" /\ call'[m][u].at = "publish"
      BY <1>1, <1>6, <3>1, <3>5, <3>6 DEF FrameOK
    <3>10. call'[m][u].at \in {"lead", "publish", "asleep"} =>
              flight[call[m][u].flight].state = "Loading"
      BY <3>1 DEF FrameOK
    <3>. QED  BY <1>2, <2>1, <3>1, <3>2, <3>7, <3>8, <3>9, <3>10 DEF FrameOK
  <2>. QED  BY <2>0, <2>1
<1>9. ASSUME NEW j \in Key  PROVE ReadyOK(j)'
  <2>1. SUFFICES ASSUME j # k, entries[j] # None, flight[entries[j]].state = "Ready"
                 PROVE  /\ flight[entries[j]].module = entries'[InputsOf(LayerOf(j), j)]
                        /\ flight[flight[entries[j]].module].state = "Ready"
    BY <1>2, <1>6 DEF ReadyOK, LayerOf, InputsOf
  <2>2. /\ flight[entries[j]].module = entries[InputsOf(LayerOf(j), j)]
        /\ flight[flight[entries[j]].module].state = "Ready"
    BY <2>1 DEF LinkedInv, ReadyOK
  <2>3. InputsOf(LayerOf(j), j) \in Key  BY LayerTypes, KeyTypes
  <2>. QED  BY <1>3, <1>6, <2>2, <2>3
<1>10. FailureIsNotCached'
  <2>. SUFFICES ASSUME NEW j \in Key, entries'[j] # None, flight[entries'[j]].state = "Failed"
                PROVE  \E u \in Caller : call'[LayerOf(j)][u] # None
                           /\ call'[LayerOf(j)][u].flight = entries'[j]
                           /\ call'[LayerOf(j)][u].at = "remove"
    BY <1>2 DEF FailureIsNotCached, LayerOf
  <2>1. j # k /\ entries'[j] = entries[j]  BY <1>6
  <2>2. PICK u \in Caller : call[LayerOf(j)][u] # None
                 /\ call[LayerOf(j)][u].flight = entries[j]
                 /\ call[LayerOf(j)][u].at = "remove"
    BY <2>1 DEF LinkedInv, FailureIsNotCached
  <2>3. ~(LayerOf(j) = l /\ u = t)
    BY <1>3, <2>1, <2>2 DEF LinkedInv, EntriesDiffer
  <2>4. call'[LayerOf(j)][u] = call[LayerOf(j)][u]
    BY <1>5, <2>3, LayerTypes
  <2>. QED  BY <2>1, <2>2, <2>4
<1>11. FlightOK' /\ EntriesDiffer'
  BY <1>2, <1>6 DEF LinkedInv, FlightOK, EntriesDiffer
<1>12. SoleLeader'
  BY <1>4, <1>5 DEF LinkedInv, SoleLeader, Leading, k
<1>13. Nested'
  BY <1>1, <1>4, <1>5 DEF LinkedInv, Nested, Layer, k
<1>. QED  BY <1>7, <1>8, <1>9, <1>10, <1>11, <1>12, <1>13 DEF LinkedInv

(* Publishing wakes exactly those who sleep on the entry, and what is published
   is in the cached module. *)
LEMMA PublishEntryInv ==
    ASSUME LinkedInv, NEW t \in Caller, NEW l \in Layer, PublishEntry(t, l)
    PROVE  LinkedInv'
<1>. DEFINE c == call[l][t]
            g == c.flight
            k == c.key
            e == Published(c)
            after == IF c.module # None THEN "done" ELSE "remove"
<1>1. LinkedTypeOK /\ c # None /\ c.at = "publish" /\ FrameOK(l, t)
  BY DEF LinkedInv, PublishEntry
<1>2. /\ c \in Frame /\ k \in Key /\ g \in Flight /\ k \in KeysOf(l)
      /\ c.module \in Flight \cup {None} /\ entries[k] = g
      /\ flight[g].state = "Loading"
  BY <1>1, FrameTypes DEF FrameOK
<1>3. /\ flight' = [flight EXCEPT ![g] = e]
      /\ call' = [call EXCEPT ![l] = [Woken(l, g) EXCEPT ![t].at = after]]
      /\ entries' = entries /\ dead' = dead
  BY DEF PublishEntry
<1>4. /\ e \in CacheEntry /\ e.module = c.module /\ e.state \in {"Ready", "Failed"}
      /\ e.state = "Ready" <=> c.module # None
  BY <1>2 DEF Published, CacheEntry
<1>5. \A f \in Flight : flight'[f] = IF f = g THEN e ELSE flight[f]
  BY <1>1, <1>2, <1>3 DEF LinkedTypeOK
<1>6. ASSUME NEW m \in Layer, NEW u \in Caller
      PROVE  /\ call'[m][u] = IF m = l /\ u = t THEN [c EXCEPT !.at = after]
                 ELSE IF m = l /\ call[m][u] # None /\ call[m][u].flight = g /\ call[m][u].at = "asleep"
                      THEN [call[m][u] EXCEPT !.at = "follow"]
                 ELSE call[m][u]
  <2>1. call'[m] = IF m = l THEN [Woken(l, g) EXCEPT ![t].at = after] ELSE call[m]
    BY <1>1, <1>3 DEF LinkedTypeOK
  <2>2. Woken(l, g)[t] = c  BY <1>1 DEF Woken
  <2>3. [Woken(l, g) EXCEPT ![t].at = after][u] =
            IF u = t THEN [c EXCEPT !.at = after] ELSE Woken(l, g)[u]
    BY <2>2 DEF Woken
  <2>4. Woken(l, g)[u] = IF call[l][u] # None /\ call[l][u].flight = g /\ call[l][u].at = "asleep"
                         THEN [call[l][u] EXCEPT !.at = "follow"] ELSE call[l][u]
    BY DEF Woken
  <2>. QED  BY <2>1, <2>3, <2>4
<1>7. call' \in [Layer -> [Caller -> Frame \cup {None}]]
  <2>1. ASSUME NEW u \in Caller  PROVE Woken(l, g)[u] \in Frame \cup {None}
    <3>1. call[l][u] \in Frame \cup {None}  BY <1>1 DEF LinkedTypeOK
    <3>2. call[l][u] \in Frame => [call[l][u] EXCEPT !.at = "follow"] \in Frame  BY DEF Frame
    <3>. QED  BY <3>1, <3>2 DEF Woken
  <2>2. [c EXCEPT !.at = after] \in Frame  BY <1>2 DEF Frame
  <2>3. Woken(l, g)[t] = c  BY <1>1 DEF Woken
  <2>4. [Woken(l, g) EXCEPT ![t].at = after] \in [Caller -> Frame \cup {None}]
    BY <2>1, <2>2, <2>3 DEF Woken
  <2>. QED  BY <1>1, <1>3, <2>4 DEF LinkedTypeOK
<1>8. ASSUME NEW m \in Layer, NEW u \in Caller
      PROVE  /\ call'[m][u] # None <=> call[m][u] # None
             /\ call[m][u] # None =>
                  /\ call'[m][u].key = call[m][u].key
                  /\ call'[m][u].flight = call[m][u].flight
                  /\ call'[m][u].module = call[m][u].module
                  /\ m = l /\ u = t => call'[m][u].at = after
                  /\ ~(m = l /\ u = t) =>
                       IF m = l /\ call[m][u].flight = g /\ call[m][u].at = "asleep"
                       THEN call'[m][u].at = "follow" ELSE call'[m][u].at = call[m][u].at
  <2>1. CASE call[m][u] = None
    BY <1>1, <1>6, <2>1
  <2>2. CASE call[m][u] # None
    <3>1. call[m][u] \in Frame  BY <1>1, <2>2, FrameTypes
    <3>2. \A a \in {"done", "remove", "follow"} : [call[m][u] EXCEPT !.at = a] \in Frame
      BY <3>1 DEF Frame
    <3>3. \A a : /\ [call[m][u] EXCEPT !.at = a].key = call[m][u].key
                 /\ [call[m][u] EXCEPT !.at = a].flight = call[m][u].flight
                 /\ [call[m][u] EXCEPT !.at = a].module = call[m][u].module
                 /\ [call[m][u] EXCEPT !.at = a].at = a
      BY <3>1 DEF Frame
    <3>4. after \in {"done", "remove"}  OBVIOUS
    <3>. HIDE DEF after
    <3>5. CASE m = l /\ u = t
      <4>1. call'[m][u] = [call[m][u] EXCEPT !.at = after]  BY <1>6, <3>5
      <4>. QED  BY <2>2, <3>2, <3>3, <3>4, <3>5, <4>1, FrameAssumption
    <3>6. CASE ~(m = l /\ u = t) /\ m = l /\ call[m][u].flight = g /\ call[m][u].at = "asleep"
      <4>1. call'[m][u] = [call[m][u] EXCEPT !.at = "follow"]  BY <1>6, <2>2, <3>6
      <4>. QED  BY <2>2, <3>2, <3>3, <3>6, <4>1, FrameAssumption
    <3>7. CASE ~(m = l /\ u = t) /\ ~(m = l /\ call[m][u].flight = g /\ call[m][u].at = "asleep")
      <4>1. call'[m][u] = call[m][u]  BY <1>6, <3>7
      <4>. QED  BY <2>2, <3>7, <4>1
    <3>. QED  BY <3>5, <3>6, <3>7
  <2>. QED  BY <2>1, <2>2
<1>. HIDE DEF c, g, k, e
<1>9. LinkedTypeOK'
  BY <1>1, <1>2, <1>3, <1>4, <1>5, <1>7 DEF LinkedTypeOK
<1>10. \A m \in Layer : \A u \in Caller : call[m][u] # None /\ call[m][u].flight = g
          /\ flight[call[m][u].flight].state # "Failed" => m = l /\ call[m][u].key = k
  <2>. SUFFICES ASSUME NEW m \in Layer, NEW u \in Caller, call[m][u] # None,
                       call[m][u].flight = g
                PROVE  m = l /\ call[m][u].key = k
    OBVIOUS
  <2>1. FrameOK(m, u)  BY DEF LinkedInv
  <2>2. entries[call[m][u].key] = g /\ call[m][u].key \in Key /\ call[m][u].key \in KeysOf(m)
    BY <1>1, <1>2, <2>1, FrameTypes DEF FrameOK
  <2>3. call[m][u].key = k
    BY <1>2, <2>2, FrameAssumption DEF LinkedInv, EntriesDiffer
  <2>. QED  BY <1>2, <2>2, <2>3, KeyTypes
<1>11. l = "module" /\ c.module # None => c.module = g
  BY <1>1, <1>2 DEF FrameOK, InputsOf, c, g, k
<1>12. l = "kernel" /\ c.module # None => c.module # g /\ flight[c.module].state = "Ready"
  BY <1>1, <1>2 DEF FrameOK, c, g, k
<1>13. e.state = "Ready" =>
         c.module \in Flight /\ c.module = entries[InputsOf(l, k)] /\ flight'[c.module].state = "Ready"
  BY <1>1, <1>2, <1>4, <1>5, <1>11, <1>12 DEF FrameOK, Layer, c, g, k
<1>14. ASSUME NEW m \in Layer, NEW u \in Caller  PROVE FrameOK(m, u)'
  <2>0. CASE call[m][u] = None
    BY <1>8, <2>0 DEF FrameOK
  <2>1. CASE m = l /\ u = t
    <3>1. /\ call'[m][u].key = k /\ call'[m][u].flight = g /\ call'[m][u].module = c.module
          /\ call'[m][u].at = after
      BY <1>1, <1>8, <2>1 DEF c, g, k
    <3>2. flight'[g] = e  BY <1>2, <1>5
    <3>. QED  BY <1>2, <1>3, <1>4, <1>13, <2>1, <3>1, <3>2 DEF FrameOK
  <2>2. CASE ~(m = l /\ u = t) /\ call[m][u] # None
    <3>1. /\ FrameOK(m, u) /\ call[m][u].key \in Key /\ call[m][u].flight \in Flight
          /\ call[m][u].module \in Flight \cup {None}
      BY <1>1, <2>2, FrameTypes DEF LinkedInv
    <3>2. /\ call'[m][u].key = call[m][u].key /\ call'[m][u].flight = call[m][u].flight
          /\ call'[m][u].module = call[m][u].module
      BY <1>8, <2>2
    <3>3. call'[m][u].at = call[m][u].at \/ call'[m][u].at = "follow"
      BY <1>8, <2>2
    <3>4. ASSUME call'[m][u].at \in {"lead", "publish", "asleep"}
          PROVE  flight'[call[m][u].flight].state = "Loading"
      <4>1. call'[m][u].at = call[m][u].at  BY <3>3, <3>4
      <4>2. flight[call[m][u].flight].state = "Loading"  BY <2>2, <3>1, <4>1, <3>4 DEF FrameOK
      <4>3. call[m][u].flight # g
        <5>1. SUFFICES ASSUME call[m][u].flight = g PROVE FALSE  OBVIOUS
        <5>2. m = l /\ call[m][u].key = k  BY <1>10, <2>2, <4>2, <5>1
        <5>3. call[m][u].at # "asleep"
          BY <1>8, <2>2, <3>4, <5>1, <5>2
        <5>4. Leading(l, u) /\ Leading(l, t)
          BY <1>1, <2>2, <3>4, <4>1, <5>2, <5>3 DEF Leading, c
        <5>. QED  BY <2>2, <5>2, <5>4 DEF LinkedInv, SoleLeader, c, k
      <4>. QED  BY <1>5, <3>1, <4>2, <4>3
    <3>5. ASSUME call'[m][u].at = "remove"
          PROVE  /\ flight'[call[m][u].flight].state = "Failed"
                 /\ entries[call[m][u].key] = call[m][u].flight
      BY <1>2, <1>5, <2>2, <3>1, <3>3, <3>5 DEF FrameOK
    <3>6. flight'[call[m][u].flight].state # "Failed" => entries[call[m][u].key] = call[m][u].flight
      BY <1>2, <1>5, <2>2, <3>1 DEF FrameOK
    <3>7. ASSUME call[m][u].module # None, flight[call[m][u].module].state = "Ready"
          PROVE  flight'[call[m][u].module].state = "Ready"
      BY <1>2, <1>5, <3>1, <3>7
    <3>8. m = "module" /\ call[m][u].at = "publish" => call'[m][u].at = "publish"
      BY <1>8, <2>2
    <3>. QED  BY <1>3, <2>2, <3>1, <3>2, <3>4, <3>5, <3>6, <3>7, <3>8 DEF FrameOK
  <2>. QED  BY <2>0, <2>1, <2>2
<1>15. ASSUME NEW j \in Key  PROVE ReadyOK(j)'
  <2>1. SUFFICES ASSUME entries[j] # None, flight'[entries[j]].state = "Ready"
                 PROVE  /\ flight'[entries[j]].module = entries[InputsOf(LayerOf(j), j)]
                        /\ flight'[flight'[entries[j]].module].state = "Ready"
    BY <1>3 DEF ReadyOK, LayerOf, InputsOf
  <2>2. entries[j] \in Flight  BY <1>1, <2>1, MapTypes
  <2>3. CASE entries[j] = g
    <3>1. j = k  BY <1>2, <2>1, <2>3 DEF LinkedInv, EntriesDiffer
    <3>2. LayerOf(j) = l  BY <1>2, <3>1, KeyTypes
    <3>. QED  BY <1>2, <1>4, <1>5, <1>13, <2>1, <2>3, <3>1, <3>2
  <2>4. CASE entries[j] # g
    <3>1. flight'[entries[j]] = flight[entries[j]]  BY <1>5, <2>2, <2>4
    <3>2. /\ flight[entries[j]].module = entries[InputsOf(LayerOf(j), j)]
          /\ flight[flight[entries[j]].module].state = "Ready"
      BY <2>1, <3>1 DEF LinkedInv, ReadyOK
    <3>3. flight[entries[j]].module \in Flight
      BY <1>1, <2>1, <2>2, <3>1, MapTypes DEF LinkedInv, FlightOK
    <3>. QED  BY <1>2, <1>5, <3>1, <3>2, <3>3
  <2>. QED  BY <2>3, <2>4
<1>16. FailureIsNotCached'
  <2>. SUFFICES ASSUME NEW j \in Key, entries[j] # None, flight'[entries[j]].state = "Failed"
                PROVE  \E u \in Caller : call'[LayerOf(j)][u] # None
                           /\ call'[LayerOf(j)][u].flight = entries[j]
                           /\ call'[LayerOf(j)][u].at = "remove"
    BY <1>3 DEF FailureIsNotCached, LayerOf
  <2>1. CASE entries[j] = g
    <3>1. j = k  BY <1>2, <2>1 DEF LinkedInv, EntriesDiffer
    <3>2. LayerOf(j) = l  BY <1>2, <3>1, KeyTypes
    <3>3. e.state = "Failed"  BY <1>2, <1>5, <2>1
    <3>4. call'[l][t] # None /\ call'[l][t].flight = g /\ call'[l][t].at = "remove"
      BY <1>1, <1>4, <1>8, <3>3 DEF c, g
    <3>. QED  BY <2>1, <3>2, <3>4
  <2>2. CASE entries[j] # g
    <3>1. flight[entries[j]].state = "Failed"  BY <1>1, <1>5, <2>2, MapTypes
    <3>2. PICK u \in Caller : call[LayerOf(j)][u] # None
                   /\ call[LayerOf(j)][u].flight = entries[j]
                   /\ call[LayerOf(j)][u].at = "remove"
      BY <3>1 DEF LinkedInv, FailureIsNotCached
    <3>3. LayerOf(j) \in Layer  BY LayerTypes
    <3>4. ~(LayerOf(j) = l /\ u = t)  BY <1>1, <3>2 DEF c
    <3>. QED  BY <1>8, <3>2, <3>3, <3>4
  <2>. QED  BY <2>1, <2>2
<1>17. FlightOK'
  BY <1>2, <1>4, <1>5 DEF LinkedInv, FlightOK
<1>18. EntriesDiffer'  BY <1>3 DEF LinkedInv, EntriesDiffer
<1>19. \A m \in Layer : \A u \in Caller : Leading(m, u)' =>
          Leading(m, u) /\ call'[m][u].key = call[m][u].key
  BY <1>1, <1>8 DEF Leading, c
<1>20. SoleLeader'  BY <1>19 DEF LinkedInv, SoleLeader
<1>21. Nested'
  <2>. SUFFICES ASSUME NEW u \in Caller, call'["kernel"][u] # None, call'["module"][u] # None
                PROVE  /\ call'["kernel"][u].at = "lead"
                       /\ call'["module"][u].key = ModuleOf[call'["kernel"][u].key]
    BY DEF Nested
  <2>1. "kernel" \in Layer /\ "module" \in Layer  BY DEF Layer
  <2>2. call["kernel"][u] # None /\ call["module"][u] # None  BY <1>8, <2>1
  <2>3. call["kernel"][u].at = "lead" /\ call["module"][u].key = ModuleOf[call["kernel"][u].key]
    BY <2>2 DEF LinkedInv, Nested
  <2>4. ~(l = "kernel" /\ u = t)  BY <1>1, <2>3 DEF c
  <2>5. call'["kernel"][u].at = "lead"
    BY <1>8, <2>1, <2>2, <2>3, <2>4
  <2>. QED  BY <1>8, <2>1, <2>2, <2>3, <2>5
<1>. QED  BY <1>9, <1>14, <1>15, <1>16, <1>17, <1>18, <1>20, <1>21 DEF LinkedInv

-----------------------------------------------------------------------------
(* Theorems *)

LEMMA LinkedNextInv == LinkedInv /\ [LinkedNext]_linkedVars => LinkedInv'
<1>. SUFFICES ASSUME LinkedInv, [LinkedNext]_linkedVars PROVE LinkedInv'  OBVIOUS
<1>1. CASE UNCHANGED linkedVars
  <2>1. UNCHANGED <<entries, flight>> /\ call' = call /\ dead' = dead  BY <1>1 DEF linkedVars
  <2>2. call' \in [Layer -> [Caller -> Frame \cup {None}]] /\ dead' \subseteq Caller
    BY <2>1 DEF LinkedInv, LinkedTypeOK
  <2>. QED  BY <2>1, <2>2, CallsEndInv
<1>2. ASSUME NEW t \in Caller, BeginCall(t) \/ Advance(t) \/ Panic(t)  PROVE LinkedInv'
  <2>1. "kernel" \in Layer /\ "module" \in Layer /\ Kernel \subseteq Key /\ Module \subseteq Key
    BY DEF Layer, Key
  <2>2. CASE BeginCall(t)
    BY <2>1, <2>2, LeadInv, FollowInv DEF BeginCall
  <2>3. CASE Advance(t)
    BY <2>1, <2>3, LeadInv, FollowInv, LoadModuleInv, LoadKernelInv, PublishEntryInv,
       RemoveEntryInv, LookInv, ReturnCallInv DEF Advance
  <2>4. CASE Panic(t)
    BY <2>4, PanicInv
  <2>. QED  BY <1>2, <2>2, <2>3, <2>4
<1>. QED  BY <1>1, <1>2 DEF LinkedNext

(* The inductive invariant of the two caches: what every call knows about its
   entry, and what every entry knows about its module. *)
THEOREM LinkedInvariance == LinkedSpec => []LinkedInv
BY LinkedInitInv, LinkedNextInv, PTL DEF LinkedSpec

(* Both caches are single flight: get_or_load has one leader for each key, its
   failures are forgotten, the kernels of the same link inputs share one module,
   and no follower sleeps on an entry that has landed. *)
THEOREM FlightsStaySound == LinkedSpec => []FlightsAreSound
<1>1. LinkedInv => FlightsAreSound
  <2>. SUFFICES ASSUME LinkedInv PROVE FlightsAreSound  OBVIOUS
  <2>1. LinkedTypeOK /\ FailureIsNotCached  BY DEF LinkedInv
  <2>2. OneLeaderPerKey
    BY DEF LinkedInv, OneLeaderPerKey, SoleLeader, FrameOK, Leading
  <2>3. NoLostWakeup  BY DEF LinkedInv, NoLostWakeup, FrameOK
  <2>4. ASSUME NEW k \in Kernel, entries[k] # None, flight[entries[k]].state = "Ready"
        PROVE  flight[entries[k]].module = entries[ModuleOf[k]]
    <3>1. k \in Key /\ LayerOf(k) = "kernel"  BY DEF Key, LayerOf
    <3>. QED  BY <2>4, <3>1 DEF LinkedInv, ReadyOK, InputsOf
  <2>5. KernelsShareTheirModule
    BY <2>4 DEF KernelsShareTheirModule, LinkedInv, FrameOK, InputsOf
  <2>. QED  BY <2>1, <2>2, <2>3, <2>5 DEF FlightsAreSound
<1>. QED  BY <1>1, LinkedInvariance, PTL


-----------------------------------------------------------------------------
(* Collectives: folds *)

(* Induction: a set that holds 0 and with every number the next one. *)
LEMMA CountUp ==
    ASSUME NEW G, 0 \in G, \A n \in Nat : n \in G => n + 1 \in G
    PROVE  \A n \in Nat : n \in G
  <1> DEFINE N == Nat \ G
  <1>1. SUFFICES ASSUME N # {} PROVE FALSE
    OBVIOUS
  <1>2. N \subseteq Nat
    OBVIOUS
  <1> HIDE DEF N
  <1>3. PICK n \in N : \A m \in N : ~(<<m, n>> \in OpToRel(<, Nat))
    BY <1>1, <1>2, NatLessThanWellFounded, WFMin
  <1>4. n \in Nat /\ n # 0
    BY <1>2 DEF N
  <1>5. n - 1 \in Nat /\ n - 1 \notin N
    <2>1. n - 1 \in Nat /\ n - 1 < n
      BY <1>4
    <2>2. <<n - 1, n>> \in OpToRel(<, Nat)
      BY <1>4, <2>1 DEF OpToRel
    <2> QED
      BY <1>3, <2>1, <2>2
  <1>6. n - 1 \in G /\ (n - 1) + 1 = n
    BY <1>4, <1>5 DEF N
  <1>7. n \in G
    BY <1>5, <1>6
  <1> QED
    BY <1>7 DEF N

(* The largest element of a set of positions. *)
LEMMA LargestPosition ==
    ASSUME NEW n \in Nat, NEW S \in SUBSET (1 .. n), S # {}
    PROVE  Max(S) \in S /\ \A x \in S : x <= Max(S)
  <1> DEFINE G == {k \in Nat : \A T \in SUBSET (1 .. k) : T # {} => \E m \in T : \A x \in T : x <= m}
  <1>1. 0 \in G
    <2>1. 1 .. 0 = {}
      OBVIOUS
    <2> QED
      BY <2>1
  <1>2. ASSUME NEW k \in Nat, k \in G PROVE k + 1 \in G
    <2> SUFFICES ASSUME NEW T \in SUBSET (1 .. k + 1), T # {}
                 PROVE  \E m \in T : \A x \in T : x <= m
      OBVIOUS
    <2>1. CASE k + 1 \in T
      BY <2>1
    <2>2. CASE k + 1 \notin T
      BY <1>2, <2>2
    <2> QED
      BY <2>1, <2>2
  <1> HIDE DEF G
  <1>3. n \in G
    BY <1>1, <1>2, CountUp
  <1>4. \E m \in S : \A x \in S : x <= m
    BY <1>3 DEF G
  <1>5. \E m \in S : \A x \in S : m >= x
    BY <1>4
  <1> QED
    BY <1>5 DEF Max

(* Removing the largest position of a set of positions. *)
LEMMA WithoutLargest ==
    ASSUME NEW n \in Nat, NEW t \in SUBSET (1 .. n + 1)
    PROVE  /\ n + 1 \in t => Max(t) = n + 1 /\ t \ {n + 1} \in SUBSET (1 .. n)
           /\ n + 1 \notin t => t \in SUBSET (1 .. n)
           /\ n + 1 \notin t /\ t # {} => Max(t) # n + 1 /\ t \ {Max(t)} \in SUBSET (1 .. n)
  <1> DEFINE m == n + 1
  <1>1. m \in Nat /\ t \in SUBSET (1 .. m) /\ (\A x \in 1 .. m : x # m => x \in 1 .. n)
    OBVIOUS
  <1> HIDE DEF m
  <1>2. t # {} => Max(t) \in t /\ \A x \in t : x <= Max(t)
    BY <1>1, LargestPosition
  <1>3. ASSUME m \in t PROVE Max(t) = m
    <2>1. Max(t) \in 1 .. m /\ m <= Max(t)
      BY <1>1, <1>2, <1>3
    <2> QED
      BY <1>1, <2>1
  <1>4. /\ m \in t => Max(t) = m /\ t \ {m} \in SUBSET (1 .. n)
        /\ m \notin t => t \in SUBSET (1 .. n)
        /\ m \notin t /\ t # {} => Max(t) # m /\ t \ {Max(t)} \in SUBSET (1 .. n)
    BY <1>1, <1>2, <1>3
  <1> QED
    BY <1>4 DEF m

(* An initial segment. *)
LEMMA Segment ==
    ASSUME NEW n \in Nat
    PROVE  /\ 1 .. 0 = {}
           /\ n # 0 => Max(1 .. n) = n /\ (1 .. n) \ {n} = 1 .. n - 1 /\ 1 .. n # {}
  <1>1. ASSUME n # 0 PROVE Max(1 .. n) = n
    <2>1. 1 .. n # {} /\ n \in 1 .. n /\ 1 .. n \in SUBSET (1 .. n)
      BY <1>1
    <2>2. Max(1 .. n) \in 1 .. n /\ n <= Max(1 .. n)
      BY <2>1, LargestPosition
    <2> QED
      BY <2>2
  <1> QED
    BY <1>1

-----------------------------------------------------------------------------
(* Collectives: the plan of a reduction and what executes it *)

(* The range of all cells. *)
Whole(r) == [start |-> 0, len |-> Total(r)]

(* The actions that add the contribution of rank src, and those of a number of
   ranks after b actions. *)
Added(src, dst, range, last) ==
    <<Action("transfer", src, dst, range, {}), Action("sum", src, dst, range, {last, last + 1})>>
AddedAll(acc, seq, d, range, b) ==
    FoldLeft(LAMBDA made, i : made \o Added(i, d, range, b + Len(made)), acc, seq)

(* What the dense executor has after a number of actions. *)
Executed(acc, seq, r, inputs) == FoldLeft(LAMBDA st, a : Apply(r, inputs, st, a), acc, seq)

-----------------------------------------------------------------------------
(* Collectives: one fold for all *)

(* The folds of the planner and of the dense executor, as one with a record m
   that says which: a sum, the execution of actions, or the making of actions
   that add a rank, reduce into a rank, deliver to a rank, or deliver what a
   rank has to all. *)
Part(r, d) == IF r.kind = "scatter" THEN Chunk(Total(r), Size(r), d) ELSE Whole(r)
Given(r, src) == [start |-> Before(r, src), len |-> r.lengths[src]]
DeliveredToAll(r, src, first) ==
    Each(first, Ranks(r), LAMBDA dst, base : Delivered(src, dst, Given(r, src), base))

Further(m, acc, x) ==
    IF m.fold = "sum" THEN acc + x
    ELSE IF m.fold = "apply" THEN Apply(m.r, m.inputs, acc, x)
    ELSE IF m.fold = "add" THEN acc \o Added(x, m.dst, m.range, m.base + Len(acc))
    ELSE IF m.fold = "reduce" THEN acc \o Reduced(m.r, x, Part(m.r, x), 0 + Len(acc))
    ELSE IF m.fold = "deliver" THEN acc \o Delivered(m.src, x, m.range, m.base + Len(acc))
    ELSE acc \o DeliveredToAll(m.r, x, 0 + Len(acc))

Fold(m, acc, seq) == FoldLeft(LAMBDA a, x : Further(m, a, x), acc, seq)

(* The values of a fold, one element after the other. *)
FoldRun(run, m, n, acc, seq) ==
    run[0] = acc /\ \A i \in 1 .. n : run[i] = Further(m, run[i - 1], seq[i])

(* A fold is the last value of a run over its elements. *)
LEMMA FoldRuns ==
    ASSUME NEW m, NEW acc, NEW seq, NEW n \in Nat, DOMAIN seq = 1 .. n
    PROVE  \E run : FoldRun(run, m, n, acc, seq) /\ Fold(m, acc, seq) = run[n]
  <1> DEFINE Value(it, t) == IF t = {} THEN acc
                             ELSE Further(m, it[t \ {Max(t)}], seq[Max(t)])
             Folds(it) == it = [t \in SUBSET (1 .. n) |-> Value(it, t)]
             G == {k \in Nat : \E it : \A t \in SUBSET (1 .. k) : it[t] = Value(it, t)}
  <1>1. Fold(m, acc, seq) = (CHOOSE it : Folds(it))[1 .. n]
    BY DEF Fold, FoldLeft, MapThenFoldSet
  <1>2. 0 \in G
    <2> DEFINE it == [t \in SUBSET (1 .. 0) |-> acc]
    <2>1. \A t \in SUBSET (1 .. 0) : it[t] = Value(it, t)
      BY Segment
    <2> QED
      BY <2>1
  <1>3. ASSUME NEW k \in Nat, k \in G PROVE k + 1 \in G
    <2>1. PICK it : \A t \in SUBSET (1 .. k) : it[t] = Value(it, t)
      BY <1>3
    <2> DEFINE more == [t \in SUBSET (1 .. k + 1) |->
                          IF k + 1 \in t
                          THEN Further(m, it[t \ {k + 1}], seq[k + 1])
                          ELSE it[t]]
    <2>2. \A t \in SUBSET (1 .. k) : more[t] = it[t] /\ t \in SUBSET (1 .. k + 1)
      OBVIOUS
    <2>3. ASSUME NEW t \in SUBSET (1 .. k + 1) PROVE more[t] = Value(more, t)
      <3>1. CASE k + 1 \in t
        <4>1. Max(t) = k + 1 /\ t \ {k + 1} \in SUBSET (1 .. k)
          BY <3>1, WithoutLargest
        <4>2. more[t] = Further(m, it[t \ {k + 1}], seq[k + 1])
          BY <3>1
        <4>3. more[t \ {k + 1}] = it[t \ {k + 1}]
          BY <2>2, <4>1
        <4> QED
          BY <3>1, <4>1, <4>2, <4>3
      <3>2. CASE k + 1 \notin t
        <4>1. t \in SUBSET (1 .. k) /\ (t # {} => t \ {Max(t)} \in SUBSET (1 .. k))
          BY <3>2, WithoutLargest
        <4>2. more[t] = it[t] /\ (t # {} => more[t \ {Max(t)}] = it[t \ {Max(t)}])
          BY <2>2, <4>1
        <4> QED
          BY <2>1, <4>1, <4>2
      <3> QED
        BY <3>1, <3>2
    <2> HIDE DEF more, Value
    <2>4. k + 1 \in Nat /\ \E all : \A t \in SUBSET (1 .. k + 1) : all[t] = Value(all, t)
      BY <2>3
    <2> QED
      BY <2>4
  <1>4. n \in G
    <2> HIDE DEF G
    <2> QED
      BY <1>2, <1>3, CountUp
  <1>5. PICK it : \A t \in SUBSET (1 .. n) : it[t] = Value(it, t)
    BY <1>4
  <1>6. \E all : Folds(all)
    <2> DEFINE all == [t \in SUBSET (1 .. n) |-> it[t]]
    <2>1. \A t \in SUBSET (1 .. n) : t # {} => t \ {Max(t)} \in SUBSET (1 .. n)
      OBVIOUS
    <2>2. \A t \in SUBSET (1 .. n) : Value(it, t) = Value(all, t)
      BY <2>1
    <2>3. Folds(all)
      BY <1>5, <2>2
    <2> QED
      BY <2>3
  <1> DEFINE fold == CHOOSE all : Folds(all)
  <1>7. Folds(fold)
    BY <1>6
  <1> HIDE DEF fold
  <1>8. \A t \in SUBSET (1 .. n) : fold[t] = Value(fold, t)
    BY <1>7
  <1> DEFINE run == [i \in 0 .. n |-> fold[1 .. i]]
  <1>9. run[0] = acc
    <2>1. 1 .. 0 = {} /\ {} \in SUBSET (1 .. n) /\ 0 \in 0 .. n
      BY Segment
    <2>2. fold[{}] = acc
      BY <1>8, <2>1
    <2> QED
      BY <2>1, <2>2
  <1>10. ASSUME NEW i \in 1 .. n PROVE run[i] = Further(m, run[i - 1], seq[i])
    <2>1. i \in Nat /\ i # 0 /\ 1 .. i \in SUBSET (1 .. n) /\ i - 1 \in 0 .. n /\ i \in 0 .. n
      OBVIOUS
    <2>2. Max(1 .. i) = i /\ (1 .. i) \ {i} = 1 .. i - 1 /\ 1 .. i # {}
      BY <2>1, Segment
    <2> QED
      BY <1>8, <2>1, <2>2
  <1>11. Fold(m, acc, seq) = run[n]
    BY <1>1 DEF fold
  <1> QED
    BY <1>9, <1>10, <1>11 DEF FoldRun

(* The folds of the model are such folds. *)
Adds(dst, range, base) == [fold |-> "add", dst |-> dst, range |-> range, base |-> base]
Reduces(r) == [fold |-> "reduce", r |-> r]
Delivers(src, range, base) == [fold |-> "deliver", src |-> src, range |-> range, base |-> base]
Gathers(r) == [fold |-> "gather", r |-> r]
Applies(r, inputs) == [fold |-> "apply", r |-> r, inputs |-> inputs]
Sums == [fold |-> "sum"]

(* The record says which. *)
LEMMA FurtherIs ==
    /\ \A acc, x : Further(Sums, acc, x) = acc + x
    /\ \A r, inputs, acc, x : Further(Applies(r, inputs), acc, x) = Apply(r, inputs, acc, x)
    /\ \A d, range, b, acc, x : Further(Adds(d, range, b), acc, x) = acc \o Added(x, d, range, b + Len(acc))
    /\ \A r, acc, x : Further(Reduces(r), acc, x) = acc \o Reduced(r, x, Part(r, x), 0 + Len(acc))
    /\ \A src, range, b, acc, x :
         Further(Delivers(src, range, b), acc, x) = acc \o Delivered(src, x, range, b + Len(acc))
    /\ \A r, acc, x : Further(Gathers(r), acc, x) = acc \o DeliveredToAll(r, x, 0 + Len(acc))
  BY DEF Further, Sums, Applies, Adds, Reduces, Delivers, Gathers

(* The dense executor. *)
LEMMA ExecutedFolds ==
    ASSUME NEW r, NEW inputs, NEW acc, NEW seq
    PROVE  Executed(acc, seq, r, inputs) = Fold(Applies(r, inputs), acc, seq)
  <1> DEFINE E(a, x) == Apply(r, inputs, a, x)
             F(a, x) == Further(Applies(r, inputs), a, x)
  <1>1. \A a, x : E(a, x) = F(a, x)
    BY FurtherIs
  <1> HIDE DEF E, F
  <1>2. FoldLeft(LAMBDA a, x : E(a, x), acc, seq) = FoldLeft(LAMBDA a, x : F(a, x), acc, seq)
    BY <1>1 DEF FoldLeft, MapThenFoldSet
  <1> QED
    BY <1>2 DEF E, F, Executed, Fold

(* The actions that add ranks. *)
LEMMA AddedFolds ==
    ASSUME NEW acc, NEW seq, NEW d, NEW range, NEW b
    PROVE  AddedAll(acc, seq, d, range, b) = Fold(Adds(d, range, b), acc, seq)
  <1> DEFINE E(a, x) == a \o Added(x, d, range, b + Len(a))
             F(a, x) == Further(Adds(d, range, b), a, x)
  <1>1. \A a, x : E(a, x) = F(a, x)
    BY FurtherIs
  <1> HIDE DEF E, F
  <1>2. FoldLeft(LAMBDA a, x : E(a, x), acc, seq) = FoldLeft(LAMBDA a, x : F(a, x), acc, seq)
    BY <1>1 DEF FoldLeft, MapThenFoldSet
  <1> QED
    BY <1>2 DEF E, F, AddedAll, Fold

(* The actions that reduce, into whole buffers or into parts. *)
LEMMA PlanReduces ==
    ASSUME NEW r, r.kind \in {"scatter", "reduce"}
    PROVE  Plan(r) = Fold(Reduces(r), <<>>, Ranks(r))
  <1> DEFINE E(a, x) == a \o Reduced(r, x, Chunk(Total(r), Size(r), x), 0 + Len(a))
             W(a, x) == a \o Reduced(r, x, Whole(r), 0 + Len(a))
             F(a, x) == Further(Reduces(r), a, x)
  <1>1. \A a, x : F(a, x) = a \o Reduced(r, x, Part(r, x), 0 + Len(a))
    BY FurtherIs
  <1>2. CASE r.kind = "scatter"
    <2>1. Plan(r) = FoldLeft(LAMBDA a, x : E(a, x), <<>>, Ranks(r))
      BY <1>2 DEF Plan, Each
    <2>2. \A a, x : E(a, x) = F(a, x)
      BY <1>1, <1>2 DEF Part
    <2> HIDE DEF E, F
    <2>3. FoldLeft(LAMBDA a, x : E(a, x), <<>>, Ranks(r)) = FoldLeft(LAMBDA a, x : F(a, x), <<>>, Ranks(r))
      BY <2>2 DEF FoldLeft, MapThenFoldSet
    <2> QED
      BY <2>1, <2>3 DEF F, Fold
  <1>3. CASE r.kind = "reduce"
    <2>1. Plan(r) = FoldLeft(LAMBDA a, x : W(a, x), <<>>, Ranks(r))
      BY <1>3 DEF Plan, Each, Whole
    <2>2. \A a, x : W(a, x) = F(a, x)
      BY <1>1, <1>3 DEF Part
    <2> HIDE DEF W, F
    <2>3. FoldLeft(LAMBDA a, x : W(a, x), <<>>, Ranks(r)) = FoldLeft(LAMBDA a, x : F(a, x), <<>>, Ranks(r))
      BY <2>2 DEF FoldLeft, MapThenFoldSet
    <2> QED
      BY <2>1, <2>3 DEF F, Fold
  <1> QED
    BY <1>2, <1>3

(* The actions of a broadcast. *)
LEMMA PlanBroadcasts ==
    ASSUME NEW r, r.kind = "broadcast"
    PROVE  Plan(r) = Fold(Delivers(r.root, Whole(r), 0), <<>>, <<r.root>> \o Others(r, r.root))
  <1> DEFINE E(a, x) == a \o Delivered(r.root, x, Whole(r), 0 + Len(a))
             F(a, x) == Further(Delivers(r.root, Whole(r), 0), a, x)
             seq == <<r.root>> \o Others(r, r.root)
  <1>1. \A a, x : E(a, x) = F(a, x)
    BY FurtherIs
  <1>2. Plan(r) = FoldLeft(LAMBDA a, x : E(a, x), <<>>, seq)
    BY DEF Plan, Each, Whole
  <1> HIDE DEF E, F, seq
  <1>3. FoldLeft(LAMBDA a, x : E(a, x), <<>>, seq) = FoldLeft(LAMBDA a, x : F(a, x), <<>>, seq)
    BY <1>1 DEF FoldLeft, MapThenFoldSet
  <1> QED
    BY <1>2, <1>3 DEF F, Fold, seq

(* The actions of a gather, all and for one source. *)
LEMMA PlanGathers ==
    ASSUME NEW r, r.kind = "gather"
    PROVE  /\ Plan(r) = Fold(Gathers(r), <<>>, Ranks(r))
           /\ \A src, first :
                DeliveredToAll(r, src, first) = Fold(Delivers(src, Given(r, src), first), <<>>, Ranks(r))
  <1>1. Plan(r) = Fold(Gathers(r), <<>>, Ranks(r))
    <2> DEFINE E(a, x) == a \o DeliveredToAll(r, x, 0 + Len(a))
               F(a, x) == Further(Gathers(r), a, x)
    <2>1. \A a, x : E(a, x) = F(a, x)
      BY FurtherIs
    <2>2. Plan(r) = FoldLeft(LAMBDA a, x : E(a, x), <<>>, Ranks(r))
      BY DEF Plan, Each, DeliveredToAll, Given
    <2> HIDE DEF E, F
    <2>3. FoldLeft(LAMBDA a, x : E(a, x), <<>>, Ranks(r)) = FoldLeft(LAMBDA a, x : F(a, x), <<>>, Ranks(r))
      BY <2>1 DEF FoldLeft, MapThenFoldSet
    <2> QED
      BY <2>2, <2>3 DEF F, Fold
  <1>2. ASSUME NEW src, NEW first
        PROVE  DeliveredToAll(r, src, first) = Fold(Delivers(src, Given(r, src), first), <<>>, Ranks(r))
    <2> DEFINE E(a, x) == a \o Delivered(src, x, Given(r, src), first + Len(a))
               F(a, x) == Further(Delivers(src, Given(r, src), first), a, x)
    <2>1. \A a, x : E(a, x) = F(a, x)
      BY FurtherIs
    <2>2. DeliveredToAll(r, src, first) = FoldLeft(LAMBDA a, x : E(a, x), <<>>, Ranks(r))
      BY DEF Each, DeliveredToAll
    <2> HIDE DEF E, F
    <2>3. FoldLeft(LAMBDA a, x : E(a, x), <<>>, Ranks(r)) = FoldLeft(LAMBDA a, x : F(a, x), <<>>, Ranks(r))
      BY <2>1 DEF FoldLeft, MapThenFoldSet
    <2> QED
      BY <2>2, <2>3 DEF F, Fold
  <1> QED
    BY <1>1, <1>2

(* Runs over the same elements from the same value agree. *)
LEMMA RunsMeet ==
    ASSUME NEW m, NEW n \in Nat, NEW acc, NEW s, NEW t, \A i \in 1 .. n : s[i] = t[i],
           NEW p, NEW q, FoldRun(p, m, n, acc, s), FoldRun(q, m, n, acc, t)
    PROVE  \A i \in 0 .. n : p[i] = q[i]
  <1> DEFINE G == {k \in Nat : k <= n => p[k] = q[k]}
  <1>1. 0 \in G
    BY DEF FoldRun
  <1>2. ASSUME NEW k \in Nat, k \in G PROVE k + 1 \in G
    <2> SUFFICES ASSUME k + 1 <= n PROVE p[k + 1] = q[k + 1]
      OBVIOUS
    <2>1. p[k] = q[k] /\ k + 1 \in 1 .. n /\ (k + 1) - 1 = k
      BY <1>2
    <2>2. p[k + 1] = Further(m, p[k], s[k + 1]) /\ q[k + 1] = Further(m, q[k], t[k + 1])
      BY <2>1 DEF FoldRun
    <2> QED
      BY <2>1, <2>2
  <1> HIDE DEF G
  <1>3. \A k \in Nat : k \in G
    BY <1>1, <1>2, CountUp
  <1> QED
    BY <1>3 DEF G

(* Any run ends in the fold. *)
LEMMA FoldIsLast ==
    ASSUME NEW m, NEW acc, NEW seq, NEW n \in Nat, DOMAIN seq = 1 .. n,
           NEW run, FoldRun(run, m, n, acc, seq)
    PROVE  Fold(m, acc, seq) = run[n]
  <1>1. PICK other : FoldRun(other, m, n, acc, seq) /\ Fold(m, acc, seq) = other[n]
    BY FoldRuns
  <1>2. other[n] = run[n]
    <2>1. n \in 0 .. n
      OBVIOUS
    <2> QED
      BY <1>1, <2>1, RunsMeet
  <1> QED
    BY <1>1, <1>2

(* No elements, and one. *)
LEMMA FoldFew ==
    ASSUME NEW m, NEW acc, NEW x
    PROVE  Fold(m, acc, <<>>) = acc /\ Fold(m, acc, <<x>>) = Further(m, acc, x)
  <1>1. Fold(m, acc, <<>>) = acc
    <2> DEFINE run == [i \in 0 .. 0 |-> acc]
    <2>1. run[0] = acc /\ 1 .. 0 = {} /\ DOMAIN <<>> = 1 .. 0 /\ 0 \in Nat
      OBVIOUS
    <2> HIDE DEF run
    <2> DEFINE none == <<>>
    <2>2. DOMAIN none = 1 .. 0
      BY <2>1
    <2> HIDE DEF none
    <2>3. FoldRun(run, m, 0, acc, none)
      BY <2>1 DEF FoldRun
    <2>4. Fold(m, acc, none) = run[0]
      BY ONLY <2>2, <2>3, FoldIsLast
    <2> QED
      BY <2>1, <2>4 DEF none
  <1>2. Fold(m, acc, <<x>>) = Further(m, acc, x)
    <2> DEFINE run == [i \in 0 .. 1 |-> IF i = 0 THEN acc ELSE Further(m, acc, x)]
               one == <<x>>
    <2>1. run[0] = acc /\ run[1] = Further(m, acc, x) /\ DOMAIN one = 1 .. 1 /\ one[1] = x /\ 1 \in Nat
      OBVIOUS
    <2>2. \A i \in 1 .. 1 : i = 1 /\ i - 1 = 0
      OBVIOUS
    <2> HIDE DEF run, one
    <2>3. FoldRun(run, m, 1, acc, one)
      BY <2>1, <2>2 DEF FoldRun
    <2>4. 1 \in Nat /\ DOMAIN one = 1 .. 1 /\ FoldRun(run, m, 1, acc, one)
      BY <2>1, <2>3
    <2>5. Fold(m, acc, one) = run[1]
      BY ONLY <2>4, FoldIsLast
    <2> QED
      BY <2>1, <2>5 DEF one
  <1> QED
    BY <1>1, <1>2

(* One sequence after the other. *)
LEMMA FoldJoins ==
    ASSUME NEW m, NEW acc, NEW X, NEW s \in Seq(X), NEW t \in Seq(X)
    PROVE  Fold(m, acc, s \o t) = Fold(m, Fold(m, acc, s), t)
  <1> DEFINE a == Len(s)
             b == Len(t)
             w == s \o t
  <1>1. /\ a \in Nat /\ b \in Nat /\ DOMAIN s = 1 .. a /\ DOMAIN t = 1 .. b /\ DOMAIN w = 1 .. a + b
        /\ (\A i \in 1 .. a : w[i] = s[i]) /\ (\A i \in 1 .. b : w[a + i] = t[i])
    OBVIOUS
  <1> HIDE DEF a, b, w
  <1>2. PICK p : FoldRun(p, m, a, acc, s) /\ Fold(m, acc, s) = p[a]
    <2>1. a \in Nat /\ DOMAIN s = 1 .. a
      BY <1>1
    <2> QED
      BY ONLY <2>1, FoldRuns
  <1> DEFINE mid == p[a]
  <1> HIDE DEF mid
  <1>3. PICK q : FoldRun(q, m, b, mid, t) /\ Fold(m, mid, t) = q[b]
    <2>1. b \in Nat /\ DOMAIN t = 1 .. b
      BY <1>1
    <2> QED
      BY ONLY <2>1, FoldRuns
  <1> DEFINE run == [i \in 0 .. a + b |-> IF i <= a THEN p[i] ELSE q[i - a]]
  <1>4. /\ \A i \in 0 .. a : run[i] = p[i]
        /\ \A i \in 1 .. b : run[a + i] = q[i]
    BY <1>1
  <1>5. run[a] = q[0] /\ run[0] = acc
    <2>1. a \in 0 .. a /\ 0 \in 0 .. a
      BY <1>1
    <2>2. p[0] = acc /\ q[0] = p[a]
      BY <1>2, <1>3 DEF FoldRun, mid
    <2> HIDE DEF run
    <2> QED
      BY <1>4, <2>1, <2>2
  <1> HIDE DEF run
  <1>6. ASSUME NEW i \in 1 .. a + b PROVE run[i] = Further(m, run[i - 1], w[i])
    <2>1. CASE i <= a
      <3>1. i \in 1 .. a /\ i \in 0 .. a /\ i - 1 \in 0 .. a
        BY <1>1, <2>1
      <3>2. p[i] = Further(m, p[i - 1], s[i])
        BY <1>2, <3>1 DEF FoldRun
      <3> QED
        BY <1>1, <1>4, <3>1, <3>2
    <2>2. CASE i > a
      <3> DEFINE j == i - a
      <3>1. j \in 1 .. b /\ a + j = i /\ i - 1 = a + (j - 1)
        BY <1>1, <2>2
      <3>2. run[i] = q[j] /\ w[i] = t[j]
        BY <1>1, <1>4, <3>1
      <3>3. run[i - 1] = q[j - 1]
        <4>1. CASE j = 1
          <5>1. j - 1 = 0 /\ i - 1 = a
            BY <1>1, <3>1, <4>1
          <5> QED
            BY <1>5, <5>1
        <4>2. CASE j # 1
          <5>1. j - 1 \in 1 .. b
            BY <1>1, <3>1, <4>2
          <5> HIDE DEF j
          <5> QED
            BY <1>4, <3>1, <5>1
        <4> QED
          BY <4>1, <4>2
      <3>4. q[j] = Further(m, q[j - 1], t[j])
        BY <1>3, <3>1 DEF FoldRun
      <3> QED
        BY <3>2, <3>3, <3>4
    <2> QED
      BY <1>1, <2>1, <2>2
  <1>7. FoldRun(run, m, a + b, acc, w) /\ a + b \in Nat
    BY <1>1, <1>5, <1>6 DEF FoldRun
  <1> DEFINE c == a + b
  <1>8. c \in Nat /\ DOMAIN w = 1 .. c /\ FoldRun(run, m, c, acc, w)
    BY <1>1, <1>7
  <1> HIDE DEF c
  <1>9. Fold(m, acc, w) = run[c]
    BY ONLY <1>8, FoldIsLast
  <1>10. run[c] = q[b]
    <2>1. CASE b = 0
      <3>1. c = a
        BY <1>1, <2>1 DEF c
      <3> QED
        BY <1>5, <2>1, <3>1
    <2>2. CASE b # 0
      <3>1. b \in 1 .. b
        BY <1>1, <2>2
      <3> QED
        BY <1>4, <3>1 DEF c
    <2> QED
      BY <2>1, <2>2
  <1> QED
    BY <1>2, <1>3, <1>9, <1>10 DEF w, mid

(* The actions made for rank d after the first n other ranks. *)
AddedRun(run, n, acc, seq, d, range, b) ==
    /\ run[0] = acc
    /\ \A i \in 1 .. n : run[i] = run[i - 1] \o Added(seq[i], d, range, b + Len(run[i - 1]))

(* The fold of the other ranks is the last of a run over them. *)
LEMMA AddedRuns ==
    ASSUME NEW acc, NEW seq, NEW d, NEW range, NEW b, NEW n \in Nat, DOMAIN seq = 1 .. n
    PROVE  \E run : AddedRun(run, n, acc, seq, d, range, b) /\ AddedAll(acc, seq, d, range, b) = run[n]
  <1> DEFINE m == Adds(d, range, b)
  <1>1. \A a, x : Further(m, a, x) = a \o Added(x, d, range, b + Len(a))
    BY ONLY FurtherIs
  <1>2. AddedAll(acc, seq, d, range, b) = Fold(m, acc, seq)
    BY AddedFolds
  <1> HIDE DEF m
  <1>3. PICK run : FoldRun(run, m, n, acc, seq) /\ Fold(m, acc, seq) = run[n]
    BY FoldRuns
  <1>4. AddedRun(run, n, acc, seq, d, range, b)
    BY <1>1, <1>3 DEF FoldRun, AddedRun
  <1> QED
    BY <1>2, <1>3, <1>4

(* The actions made after the first n ranks. *)
ReducedRun(run, n, acc, seq, r) ==
    /\ run[0] = acc
    /\ \A i \in 1 .. n : run[i] = run[i - 1] \o Reduced(r, seq[i], Whole(r), 0 + Len(run[i - 1]))

(* The plan of a reduction is the last of a run over the ranks. *)
LEMMA ReducedRuns ==
    ASSUME NEW r, r.kind = "reduce", Size(r) \in Nat
    PROVE  \E run : ReducedRun(run, Size(r), <<>>, Ranks(r), r) /\ Plan(r) = run[Size(r)]
  <1> DEFINE m == Reduces(r)
             n == Size(r)
             w == Ranks(r)
             none == <<>>
  <1>1. \A a, x : Further(m, a, x) = a \o Reduced(r, x, Whole(r), 0 + Len(a))
    BY FurtherIs DEF Part
  <1>2. Plan(r) = Fold(m, none, w)
    BY PlanReduces
  <1>3. n \in Nat /\ DOMAIN w = 1 .. n
    BY DEF Ranks
  <1> HIDE DEF m, n, w, none
  <1>4. PICK run : FoldRun(run, m, n, none, w) /\ Fold(m, none, w) = run[n]
    BY ONLY <1>3, FoldRuns
  <1>5. ReducedRun(run, n, none, w, r)
    BY <1>1, <1>4 DEF FoldRun, ReducedRun
  <1> QED
    BY <1>2, <1>4, <1>5 DEF n, w, none

(* The dense executor after n actions. *)
ExecutedRun(run, n, acc, seq, r, inputs) ==
    /\ run[0] = acc
    /\ \A i \in 1 .. n : run[i] = Apply(r, inputs, run[i - 1], seq[i])

(* The fold of the actions is the last of a run over them. *)
LEMMA ExecutedRuns ==
    ASSUME NEW acc, NEW seq, NEW r, NEW inputs, NEW n \in Nat, DOMAIN seq = 1 .. n
    PROVE  \E run : ExecutedRun(run, n, acc, seq, r, inputs) /\ Executed(acc, seq, r, inputs) = run[n]
  <1> DEFINE m == Applies(r, inputs)
  <1>1. \A a, x : Further(m, a, x) = Apply(r, inputs, a, x)
    BY ONLY FurtherIs
  <1>2. Executed(acc, seq, r, inputs) = Fold(m, acc, seq)
    BY ExecutedFolds
  <1> HIDE DEF m
  <1>3. PICK run : FoldRun(run, m, n, acc, seq) /\ Fold(m, acc, seq) = run[n]
    BY FoldRuns
  <1>4. ExecutedRun(run, n, acc, seq, r, inputs)
    BY <1>1, <1>3 DEF FoldRun, ExecutedRun
  <1> QED
    BY <1>2, <1>3, <1>4

-----------------------------------------------------------------------------
(* Collectives: the plan of a reduction *)

(* A reduction whose ranks have as many cells, at least one rank. *)
Summed(r) ==
    /\ r.kind = "reduce" /\ Valid(r)
    /\ r.lengths \in Seq(Nat) /\ r.lengths # <<>>

(* Its actions: over all cells, a copy within a rank and the rest between two. *)
Moves(r) ==
    {a \in [op : {"copy", "transfer", "sum"}, src : 1 .. Size(r), dst : 1 .. Size(r),
            range : {Whole(r)}, deps : SUBSET Nat] : a.op = "copy" <=> a.src = a.dst}

(* The actions of one rank: its own contribution first. *)
ReducesInto(s, r, d) ==
    /\ s \in Seq(Moves(r)) /\ Len(s) >= 1 /\ s[1].op = "copy"
    /\ \A j \in 1 .. Len(s) : s[j].dst = d

(* The actions of the first m ranks: each buffer is copied to before anything
   is added to it, and every buffer is copied to. *)
CopiedFirst(s, r, m) ==
    /\ s \in Seq(Moves(r))
    /\ \A j \in 1 .. Len(s) : s[j].op # "copy" =>
          \E h \in 1 .. j - 1 : s[h].op = "copy" /\ s[h].dst = s[j].dst
    /\ \A d \in 1 .. m : \E h \in 1 .. Len(s) : s[h].op = "copy" /\ s[h].dst = d

(* A reduction has a rank, and as many cells in every rank as in the first. *)
LEMMA SummedSizes ==
    ASSUME NEW r, Summed(r)
    PROVE  /\ Size(r) \in Nat /\ Size(r) >= 1
           /\ Total(r) \in Nat
           /\ \A i \in 1 .. Size(r) : r.lengths[i] = Total(r)
  <1>1. Len(r.lengths) \in Nat /\ Len(r.lengths) # 0 /\ DOMAIN r.lengths = 1 .. Len(r.lengths)
    BY DEF Summed
  <1>2. r.lengths[1] \in Nat
    BY <1>1 DEF Summed
  <1>3. Total(r) = r.lengths[1]
    BY DEF Total, Summed
  <1> QED
    BY <1>1, <1>2, <1>3 DEF Summed, Valid, Size

(* The other ranks, in order. *)
LEMMA OthersAre ==
    ASSUME NEW r, Size(r) \in Nat, NEW d \in 1 .. Size(r)
    PROVE  /\ Others(r, d) \in Seq(1 .. Size(r)) /\ Len(Others(r, d)) = Size(r) - 1
           /\ \A i \in 1 .. Size(r) - 1 : Others(r, d)[i] = IF i < d THEN i ELSE i + 1
  <1> DEFINE n == Size(r)
             low == SubSeq(Ranks(r), 1, d - 1)
             high == SubSeq(Ranks(r), d + 1, n)
  <1>1. n \in Nat /\ d \in 1 .. n
    OBVIOUS
  <1>2. Ranks(r) = [i \in 1 .. n |-> i] /\ Ranks(r) \in Seq(1 .. n) /\ Len(Ranks(r)) = n
    BY <1>1 DEF Ranks
  <1>3. Others(r, d) = low \o high
    BY <1>2 DEF Others, RemoveAt
  <1> HIDE DEF n
  <1>4. low \in Seq(1 .. n) /\ Len(low) = d - 1 /\ \A i \in 1 .. d - 1 : low[i] = i
    BY <1>1, <1>2
  <1>5. high \in Seq(1 .. n) /\ Len(high) = n - d /\ \A i \in 1 .. n - d : high[i] = d + i
    BY <1>1, <1>2
  <1> HIDE DEF low, high
  <1>6. low \o high \in Seq(1 .. n) /\ Len(low \o high) = n - 1
    <2> DEFINE S == 1 .. n
    <2>0. low \in Seq(S) /\ high \in Seq(S)
      BY <1>4, <1>5
    <2> HIDE DEF S
    <2>1a. low \o high \in Seq(S) /\ Len(low \o high) = Len(low) + Len(high)
      BY <2>0
    <2>1. low \o high \in Seq(1 .. n) /\ Len(low \o high) = Len(low) + Len(high)
      BY <2>1a DEF S
    <2>2. (d - 1) + (n - d) = n - 1
      BY <1>1
    <2> QED
      BY <1>4, <1>5, <2>1, <2>2
  <1>7. ASSUME NEW i \in 1 .. n - 1 PROVE (low \o high)[i] = IF i < d THEN i ELSE i + 1
    <2>1. CASE i < d
      <3>1. (low \o high)[i] = low[i]
        BY <1>1, <1>4, <1>5, <2>1
      <3> QED
        BY <1>1, <1>4, <2>1, <3>1
    <2>2. CASE ~(i < d)
      <3>1. (low \o high)[i] = high[i - (d - 1)] /\ i - (d - 1) \in 1 .. n - d
        BY <1>1, <1>4, <1>5, <2>2
      <3>2. d + (i - (d - 1)) = i + 1
        BY <1>1
      <3> QED
        BY <1>5, <2>2, <3>1, <3>2
    <2> QED
      BY <2>1, <2>2
  <1> QED
    BY <1>3, <1>6, <1>7 DEF n

(* The other ranks are ranks, and others. *)
LEMMA OthersAreRanks ==
    ASSUME NEW r, Size(r) \in Nat, NEW d \in 1 .. Size(r)
    PROVE  /\ Others(r, d) \in Seq(1 .. Size(r))
           /\ \A i \in 1 .. Len(Others(r, d)) : Others(r, d)[i] # d
  <1> DEFINE o == Others(r, d)
             n == Size(r)
  <1>1. o \in Seq(1 .. n) /\ Len(o) = n - 1 /\ \A i \in 1 .. n - 1 : o[i] = IF i < d THEN i ELSE i + 1
    BY OthersAre
  <1> HIDE DEF o, n
  <1>2. \A i \in 1 .. n - 1 : o[i] # d
    BY <1>1
  <1> QED
    BY <1>1, <1>2 DEF o, n

(* The actions that add one other rank. *)
LEMMA AddedMoves ==
    ASSUME NEW r, NEW d \in 1 .. Size(r), NEW src \in 1 .. Size(r), src # d, NEW last \in Nat
    PROVE  /\ Added(src, d, Whole(r), last) \in Seq(Moves(r))
           /\ Len(Added(src, d, Whole(r), last)) = 2
           /\ \A j \in 1 .. 2 : Added(src, d, Whole(r), last)[j].dst = d
  <1>1. Action("transfer", src, d, Whole(r), {}) \in Moves(r)
    BY DEF Action, Moves
  <1>2. {last, last + 1} \in SUBSET Nat
    OBVIOUS
  <1>3. Action("sum", src, d, Whole(r), {last, last + 1}) \in Moves(r)
    BY <1>2 DEF Action, Moves
  <1>4. /\ Action("transfer", src, d, Whole(r), {}).dst = d
        /\ Action("sum", src, d, Whole(r), {last, last + 1}).dst = d
    BY DEF Action
  <1> HIDE DEF Action
  <1> DEFINE x == Action("transfer", src, d, Whole(r), {})
             y == Action("sum", src, d, Whole(r), {last, last + 1})
             A == Added(src, d, Whole(r), last)
  <1>5. A = <<x, y>>
    BY DEF Added
  <1> HIDE DEF x, y, A
  <1>6. x \in Moves(r) /\ y \in Moves(r) /\ x.dst = d /\ y.dst = d
    BY <1>1, <1>3, <1>4 DEF x, y
  <1>7. A \in Seq(Moves(r)) /\ Len(A) = 2 /\ A[1] = x /\ A[2] = y
    BY <1>5, <1>6
  <1>8. \A j \in 1 .. 2 : j = 1 \/ j = 2
    OBVIOUS
  <1>9. A \in Seq(Moves(r)) /\ Len(A) = 2 /\ \A j \in 1 .. 2 : A[j].dst = d
    BY <1>6, <1>7, <1>8
  <1> QED
    BY <1>9 DEF A

(* A sequence of a rank's actions. *)
Into(s, r, d) == s \in Seq(Moves(r)) /\ \A j \in 1 .. Len(s) : s[j].dst = d

(* Two sequences of a rank's actions, one after the other. *)
LEMMA IntoJoins ==
    ASSUME NEW r, NEW d, NEW s, NEW t, Into(s, r, d), Into(t, r, d)
    PROVE  Into(s \o t, r, d)
  <1> DEFINE M == Moves(r)
  <1>1. s \in Seq(M) /\ t \in Seq(M)
    BY DEF Into
  <1> HIDE DEF M
  <1>2. s \o t \in Seq(M) /\ Len(s \o t) = Len(s) + Len(t) /\ Len(s) \in Nat /\ Len(t) \in Nat
    BY <1>1
  <1>3. ASSUME NEW j \in 1 .. Len(s \o t) PROVE (s \o t)[j].dst = d
    <2>1. CASE j <= Len(s)
      <3>1. (s \o t)[j] = s[j] /\ j \in 1 .. Len(s)
        BY <1>1, <1>2, <2>1
      <3> QED
        BY <3>1 DEF Into
    <2>2. CASE j > Len(s)
      <3>1. (s \o t)[j] = t[j - Len(s)] /\ j - Len(s) \in 1 .. Len(t)
        BY <1>1, <1>2, <2>2
      <3> QED
        BY <3>1 DEF Into
    <2>3. j <= Len(s) \/ j > Len(s)
      BY <1>2
    <2> QED
      BY <2>1, <2>2, <2>3
  <1> QED
    BY <1>2, <1>3 DEF Into, M

(* The actions that add the other ranks go into the rank. *)
LEMMA AddedAllMoves ==
    ASSUME NEW r, NEW d \in 1 .. Size(r), NEW b \in Nat, NEW seq \in Seq(1 .. Size(r)),
           \A i \in 1 .. Len(seq) : seq[i] # d
    PROVE  Into(AddedAll(<<>>, seq, d, Whole(r), b), r, d)
  <1> DEFINE n == Len(seq)
  <1>1. n \in Nat /\ DOMAIN seq = 1 .. n /\ \A i \in 1 .. n : seq[i] \in 1 .. Size(r) /\ seq[i] # d
    <2> DEFINE S == 1 .. Size(r)
    <2> HIDE DEF S
    <2>1. seq \in Seq(S)
      BY DEF S
    <2>2. Len(seq) \in Nat /\ DOMAIN seq = 1 .. Len(seq) /\ \A i \in 1 .. Len(seq) : seq[i] \in S
      BY <2>1
    <2> QED
      BY <2>2 DEF S
  <1>2. PICK run : /\ AddedRun(run, n, <<>>, seq, d, Whole(r), b)
                   /\ AddedAll(<<>>, seq, d, Whole(r), b) = run[n]
    BY <1>1, AddedRuns
  <1> DEFINE G == {k \in Nat : k <= n => Into(run[k], r, d)}
  <1>3. 0 \in G
    <2>1. run[0] = <<>>
      BY <1>2 DEF AddedRun
    <2>2. Into(<<>>, r, d)
      BY DEF Into
    <2> QED
      BY <2>1, <2>2
  <1>4. ASSUME NEW k \in Nat, k \in G PROVE k + 1 \in G
    <2> SUFFICES ASSUME k + 1 <= n PROVE Into(run[k + 1], r, d)
      OBVIOUS
    <2> HIDE DEF n
    <2>1. Into(run[k], r, d) /\ k + 1 \in 1 .. n /\ (k + 1) - 1 = k
      BY <1>1, <1>4
    <2> HIDE DEF G
    <2> DEFINE one == Added(seq[k + 1], d, Whole(r), b + Len(run[k]))
    <2>2. run[k + 1] = run[k] \o one
      BY <1>2, <2>1 DEF AddedRun
    <2>3. b + Len(run[k]) \in Nat
      <3>1. Len(run[k]) \in Nat
        BY <2>1 DEF Into
      <3> QED
        BY <3>1
    <2>4. one \in Seq(Moves(r)) /\ Len(one) = 2 /\ \A j \in 1 .. 2 : one[j].dst = d
      <3> DEFINE src == seq[k + 1]
                 last == b + Len(run[k])
      <3>1. src \in 1 .. Size(r) /\ src # d /\ last \in Nat /\ one = Added(src, d, Whole(r), last)
        BY <1>1, <2>1, <2>3
      <3> HIDE DEF src, last, one
      <3> QED
        BY <3>1, AddedMoves
    <2> HIDE DEF one
    <2>5. Into(one, r, d)
      BY <2>4 DEF Into
    <2> QED
      BY <2>1, <2>2, <2>5, IntoJoins
  <1> HIDE DEF G
  <1>5. n \in G
    BY <1>1, <1>3, <1>4, CountUp
  <1> QED
    BY <1>1, <1>2, <1>5 DEF G

(* A rank's part of the plan. *)
LEMMA ReducedMoves ==
    ASSUME NEW r, Summed(r), NEW d \in 1 .. Size(r), NEW b \in Nat
    PROVE  ReducesInto(Reduced(r, d, Whole(r), b), r, d)
  <1> DEFINE own == <<Action("copy", d, d, Whole(r), {})>>
             rest == AddedAll(<<>>, Others(r, d), d, Whole(r), b + 1)
  <1>1. Reduced(r, d, Whole(r), b) = own \o rest
    BY DEF Reduced, Each, AddedAll, Added
  <1>2. Action("copy", d, d, Whole(r), {}) \in Moves(r)
    BY DEF Action, Moves
  <1>3. Action("copy", d, d, Whole(r), {}).dst = d /\ Action("copy", d, d, Whole(r), {}).op = "copy"
    BY DEF Action
  <1>4. Into(own, r, d) /\ Len(own) = 1 /\ own[1].op = "copy"
    <2> DEFINE x == Action("copy", d, d, Whole(r), {})
    <2>1. x \in Moves(r) /\ x.dst = d /\ x.op = "copy" /\ own = <<x>>
      BY <1>2, <1>3
    <2> HIDE DEF x, own
    <2>2. own \in Seq(Moves(r)) /\ Len(own) = 1 /\ own[1] = x
      BY <2>1
    <2>3. \A j \in 1 .. 1 : j = 1
      OBVIOUS
    <2> QED
      BY <2>1, <2>2, <2>3 DEF Into
  <1>5. Into(rest, r, d)
    <2>1. Size(r) \in Nat /\ b + 1 \in Nat
      BY SummedSizes
    <2>2. /\ Others(r, d) \in Seq(1 .. Size(r))
          /\ \A i \in 1 .. Len(Others(r, d)) : Others(r, d)[i] # d
      BY <2>1, OthersAreRanks
    <2> QED
      BY <2>1, <2>2, AddedAllMoves
  <1> HIDE DEF own, rest
  <1>6. Into(own \o rest, r, d)
    BY <1>4, <1>5, IntoJoins
  <1>7. Len(own \o rest) >= 1 /\ (own \o rest)[1] = own[1]
    <2>1. own \in Seq(Moves(r)) /\ rest \in Seq(Moves(r))
      BY <1>4, <1>5 DEF Into
    <2> DEFINE M == Moves(r)
    <2> HIDE DEF M
    <2>2. own \in Seq(M) /\ rest \in Seq(M)
      BY <2>1 DEF M
    <2>3. Len(own) = 1
      BY <1>4
    <2>4. Len(own \o rest) = Len(own) + Len(rest) /\ Len(rest) \in Nat
      BY <2>2
    <2>5. \A i \in 1 .. Len(own) : (own \o rest)[i] = own[i]
      BY <2>2
    <2> QED
      BY <2>3, <2>4, <2>5
  <1> QED
    BY <1>1, <1>4, <1>6, <1>7 DEF ReducesInto, Into

(* A further rank's part after those of the ranks before it. *)
LEMMA CopiedFirstJoins ==
    ASSUME NEW r, NEW m \in Nat, NEW s, NEW t, CopiedFirst(s, r, m), ReducesInto(t, r, m + 1)
    PROVE  CopiedFirst(s \o t, r, m + 1)
  <1> DEFINE M == Moves(r)
             w == s \o t
  <1>1. s \in Seq(M) /\ t \in Seq(M)
    BY DEF CopiedFirst, ReducesInto
  <1> HIDE DEF M
  <1>2. w \in Seq(M) /\ Len(w) = Len(s) + Len(t) /\ Len(s) \in Nat /\ Len(t) \in Nat
    BY <1>1
  <1>3. \A j \in 1 .. Len(s) : w[j] = s[j] /\ j \in 1 .. Len(w)
    BY <1>1, <1>2
  <1>4. \A j \in 1 .. Len(t) : w[Len(s) + j] = t[j] /\ Len(s) + j \in 1 .. Len(w)
    BY <1>1, <1>2
  <1> DEFINE c == Len(s) + 1
  <1>5. 1 \in 1 .. Len(t) /\ t[1].op = "copy" /\ \A j \in 1 .. Len(t) : t[j].dst = m + 1
    BY <1>2 DEF ReducesInto
  <1>6. w[c].op = "copy" /\ w[c].dst = m + 1 /\ c \in 1 .. Len(w)
    BY <1>4, <1>5
  <1> HIDE DEF w, c
  <1>7. ASSUME NEW j \in 1 .. Len(w), w[j].op # "copy"
        PROVE  \E h \in 1 .. j - 1 : w[h].op = "copy" /\ w[h].dst = w[j].dst
    <2>1. CASE j <= Len(s)
      <3>1. j \in 1 .. Len(s) /\ w[j] = s[j]
        BY <1>2, <1>3, <2>1
      <3>2. PICK h \in 1 .. j - 1 : s[h].op = "copy" /\ s[h].dst = s[j].dst
        BY <1>7, <3>1 DEF CopiedFirst
      <3>3. h \in 1 .. Len(s) /\ w[h] = s[h]
        BY <1>2, <1>3, <3>1
      <3> QED
        BY <3>1, <3>2, <3>3
    <2>2. CASE j > Len(s)
      <3>1. j - Len(s) \in 1 .. Len(t) /\ Len(s) + (j - Len(s)) = j
        BY <1>2, <2>2
      <3>2. w[j].dst = m + 1
        BY <1>4, <1>5, <3>1
      <3>3. j # c
        BY <1>6, <1>7
      <3>4. c \in 1 .. j - 1
        BY <1>2, <2>2, <3>3 DEF c
      <3> QED
        BY <1>6, <3>2, <3>4
    <2>3. j <= Len(s) \/ j > Len(s)
      BY <1>2
    <2> QED
      BY <2>1, <2>2, <2>3
  <1>8. ASSUME NEW d \in 1 .. m + 1
        PROVE  \E h \in 1 .. Len(w) : w[h].op = "copy" /\ w[h].dst = d
    <2>1. CASE d = m + 1
      BY <1>6, <2>1
    <2>2. CASE d # m + 1
      <3>1. d \in 1 .. m
        BY <2>2
      <3>2. PICK h \in 1 .. Len(s) : s[h].op = "copy" /\ s[h].dst = d
        BY <3>1 DEF CopiedFirst
      <3> QED
        BY <1>3, <3>2
    <2> QED
      BY <2>1, <2>2
  <1> QED
    BY <1>2, <1>7, <1>8 DEF CopiedFirst, w, M

(* The plan of a reduction copies every buffer before it adds to it. *)
LEMMA PlanCopiesFirst ==
    ASSUME NEW r, Summed(r)
    PROVE  CopiedFirst(Plan(r), r, Size(r))
  <1> DEFINE n == Size(r)
  <1>1. n \in Nat /\ Ranks(r) = [i \in 1 .. n |-> i] /\ DOMAIN Ranks(r) = 1 .. n
    BY SummedSizes DEF Ranks
  <1>3. PICK run : ReducedRun(run, n, <<>>, Ranks(r), r) /\ Plan(r) = run[n]
    BY <1>1, ReducedRuns DEF Summed
  <1> DEFINE G == {k \in Nat : k <= n => CopiedFirst(run[k], r, k)}
  <1>4. 0 \in G
    <2>1. run[0] = <<>>
      BY <1>3 DEF ReducedRun
    <2>2. CopiedFirst(<<>>, r, 0)
      BY DEF CopiedFirst
    <2> QED
      BY <2>1, <2>2
  <1>5. ASSUME NEW k \in Nat, k \in G PROVE k + 1 \in G
    <2> SUFFICES ASSUME k + 1 <= n PROVE CopiedFirst(run[k + 1], r, k + 1)
      OBVIOUS
    <2>1. CopiedFirst(run[k], r, k) /\ k + 1 \in 1 .. n /\ (k + 1) - 1 = k
      BY <1>1, <1>5
    <2> HIDE DEF G
    <2> DEFINE one == Reduced(r, k + 1, Whole(r), 0 + Len(run[k]))
    <2>2. run[k + 1] = run[k] \o one
      BY <1>1, <1>3, <2>1 DEF ReducedRun
    <2>3. 0 + Len(run[k]) \in Nat
      <3>1. Len(run[k]) \in Nat
        BY <2>1 DEF CopiedFirst
      <3> QED
        BY <3>1
    <2>4. ReducesInto(one, r, k + 1)
      BY <2>1, <2>3, ReducedMoves
    <2> HIDE DEF one
    <2> QED
      BY <2>1, <2>2, <2>4, CopiedFirstJoins
  <1> HIDE DEF G
  <1>6. n \in G
    BY <1>1, <1>4, <1>5, CountUp
  <1> QED
    BY <1>1, <1>3, <1>6 DEF G

-----------------------------------------------------------------------------
(* Collectives: what an action does *)

(* Buffers of all the cells, one for each rank. *)
Formed(r, b) == b = [i \in 1 .. Size(r) |-> [k \in 1 .. Total(r) |-> b[i][k]]]

(* The staging buffers and the outputs. *)
Memory(r, st) ==
    /\ st = [inbox |-> st.inbox, output |-> st.output]
    /\ Formed(r, st.inbox) /\ Formed(r, st.output)

(* What action a makes of the memory st, given the contributions. *)
After(r, inputs, st, a, new) ==
    /\ Memory(r, new)
    /\ a.op = "transfer" =>
          /\ new.output = st.output
          /\ new.inbox = [st.inbox EXCEPT ![a.dst] = [k \in 1 .. Total(r) |-> inputs[a.src][k]]]
    /\ a.op = "copy" =>
          /\ new.inbox = st.inbox
          /\ new.output = [st.output EXCEPT ![a.dst] = [k \in 1 .. Total(r) |-> inputs[a.src][k]]]
    /\ a.op = "sum" =>
          /\ new.inbox = st.inbox
          /\ new.output = [st.output EXCEPT ![a.dst] =
                [k \in 1 .. Total(r) |-> Add(st.output[a.dst][k], st.inbox[a.dst][k])]]

(* Buffers one of which is replaced. *)
LEMMA FormedReplaces ==
    ASSUME NEW r, NEW b, Formed(r, b), NEW d \in 1 .. Size(r), NEW f,
           f = [k \in 1 .. Total(r) |-> f[k]]
    PROVE  Formed(r, [b EXCEPT ![d] = f])
  <1> DEFINE D == 1 .. Size(r)
             C == 1 .. Total(r)
             x == [b EXCEPT ![d] = f]
  <1>1. b = [i \in D |-> [k \in C |-> b[i][k]]] /\ d \in D /\ f = [k \in C |-> f[k]]
    BY DEF Formed
  <1> HIDE DEF D, C
  <1>2. DOMAIN b = D
    BY <1>1
  <1>3. x = [i \in D |-> x[i]]
    BY <1>2
  <1>4. ASSUME NEW i \in D PROVE x[i] = [k \in C |-> x[i][k]]
    <2>1. CASE i = d
      <3>1. x[i] = f
        BY <1>2, <2>1
      <3> HIDE DEF x
      <3> QED
        BY <1>1, <3>1
    <2>2. CASE i # d
      <3>1. x[i] = b[i]
        BY <1>2, <2>2
      <3>2. b[i] = [k \in C |-> b[i][k]]
        BY <1>1
      <3> HIDE DEF x
      <3> QED
        BY <3>1, <3>2
    <2> QED
      BY <2>1, <2>2
  <1> HIDE DEF x
  <1>5. x = [i \in D |-> [k \in C |-> x[i][k]]]
    BY <1>3, <1>4
  <1> QED
    BY <1>5 DEF Formed, D, C, x

(* An action of a reduction replaces one buffer as a whole. *)
LEMMA Applied ==
    ASSUME NEW r, Summed(r), NEW inputs, NEW st, Memory(r, st), NEW a \in Moves(r)
    PROVE  After(r, inputs, st, a, Apply(r, inputs, st, a))
  <1> DEFINE D == 1 .. Size(r)
             C == 1 .. Total(r)
             new == Apply(r, inputs, st, a)
             sent == [k \in C |-> inputs[a.src][k]]
             added == [k \in C |-> Add(st.output[a.dst][k], st.inbox[a.dst][k])]
  <1>1. a.dst \in D /\ a.src \in D /\ a.range = [start |-> 0, len |-> Total(r)]
        /\ a.op \in {"copy", "transfer", "sum"} /\ (a.op = "copy" <=> a.src = a.dst)
    BY DEF Moves, Whole
  <1>2. Total(r) \in Nat
    BY SummedSizes
  <1>3. Cells(a.range) = C
    BY <1>1, <1>2 DEF Cells
  <1>4. SourceBase(r, a.src) = 0 /\ \A k \in C : k - 0 = k
    BY <1>2 DEF SourceBase, Summed
  <1>5. /\ st = [inbox |-> st.inbox, output |-> st.output]
        /\ DOMAIN st.inbox = D /\ DOMAIN st.output = D
        /\ DOMAIN st.inbox[a.dst] = C /\ DOMAIN st.output[a.dst] = C
    <2>1. Formed(r, st.inbox) /\ Formed(r, st.output) /\ st = [inbox |-> st.inbox, output |-> st.output]
      BY DEF Memory
    <2> DEFINE b == st.inbox
               o == st.output
    <2> HIDE DEF b, o
    <2>2. Formed(r, b) /\ Formed(r, o)
      BY <2>1 DEF b, o
    <2>3. b = [i \in D |-> [k \in C |-> b[i][k]]] /\ o = [i \in D |-> [k \in C |-> o[i][k]]]
      BY <2>2 DEF Formed
    <2>4. DOMAIN b = D /\ DOMAIN o = D /\ DOMAIN b[a.dst] = C /\ DOMAIN o[a.dst] = C
      BY <1>1, <2>3
    <2> QED
      BY <2>1, <2>4 DEF b, o
  <1> HIDE DEF D, C
  <1>6. CASE a.op = "transfer"
    <2>1. new = [st EXCEPT !.inbox[a.dst] = sent]
      BY <1>3, <1>4, <1>5, <1>6 DEF Apply, Overwrite
    <2>2. new = [inbox |-> [st.inbox EXCEPT ![a.dst] = sent], output |-> st.output]
      BY <1>5, <2>1
    <2>3. Formed(r, [st.inbox EXCEPT ![a.dst] = sent])
      <3>1. Formed(r, st.inbox) /\ a.dst \in 1 .. Size(r) /\ sent = [k \in 1 .. Total(r) |-> sent[k]]
        BY <1>1 DEF Memory, D, C
      <3> HIDE DEF sent
      <3> QED
        BY <3>1, FormedReplaces
    <2> HIDE DEF new, sent
    <2>4. new.output = st.output /\ new.inbox = [st.inbox EXCEPT ![a.dst] = sent]
          /\ new = [inbox |-> new.inbox, output |-> new.output]
      BY <2>2
    <2>5. Memory(r, new)
      BY <2>3, <2>4 DEF Memory
    <2> QED
      BY <1>6, <2>4, <2>5 DEF After, new, sent, C
  <1>7. CASE a.op = "copy"
    <2>0. a.src = a.dst
      BY <1>1, <1>7
    <2>1. new = [st EXCEPT !.output[a.dst] = sent]
      BY <1>3, <1>4, <1>5, <1>7, <2>0 DEF Apply, Overwrite
    <2>2. new = [inbox |-> st.inbox, output |-> [st.output EXCEPT ![a.dst] = sent]]
      BY <1>5, <2>1
    <2>3. Formed(r, [st.output EXCEPT ![a.dst] = sent])
      <3>1. Formed(r, st.output) /\ a.dst \in 1 .. Size(r) /\ sent = [k \in 1 .. Total(r) |-> sent[k]]
        BY <1>1 DEF Memory, D, C
      <3> HIDE DEF sent
      <3> QED
        BY <3>1, FormedReplaces
    <2> HIDE DEF new, sent
    <2>4. new.inbox = st.inbox /\ new.output = [st.output EXCEPT ![a.dst] = sent]
          /\ new = [inbox |-> new.inbox, output |-> new.output]
      BY <2>2
    <2>5. Memory(r, new)
      BY <2>3, <2>4 DEF Memory
    <2> QED
      BY <1>7, <2>4, <2>5 DEF After, new, sent, C
  <1>8. CASE a.op = "sum"
    <2>1. new = [st EXCEPT !.output[a.dst] = added]
      BY <1>3, <1>5, <1>8 DEF Apply, Overwrite
    <2>2. new = [inbox |-> st.inbox, output |-> [st.output EXCEPT ![a.dst] = added]]
      BY <1>5, <2>1
    <2>3. Formed(r, [st.output EXCEPT ![a.dst] = added])
      <3>1. Formed(r, st.output) /\ a.dst \in 1 .. Size(r) /\ added = [k \in 1 .. Total(r) |-> added[k]]
        BY <1>1 DEF Memory, D, C
      <3> HIDE DEF added
      <3> QED
        BY <3>1, FormedReplaces
    <2> HIDE DEF new, added
    <2>4. new.inbox = st.inbox /\ new.output = [st.output EXCEPT ![a.dst] = added]
          /\ new = [inbox |-> new.inbox, output |-> new.output]
      BY <2>2
    <2>5. Memory(r, new)
      BY <2>3, <2>4 DEF Memory
    <2> QED
      BY <1>8, <2>4, <2>5 DEF After, new, added, C
  <1> QED
    BY <1>1, <1>6, <1>7, <1>8

-----------------------------------------------------------------------------
(* Collectives: the dense executor *)

Start(r) == [inbox |-> Blank(r), output |-> Blank(r)]

(* A run of the dense executor over the first k actions of the plan. *)
DenseRun(run, k, r, inputs) == ExecutedRun(run, k, Start(r), Plan(r), r, inputs)

(* The memory the executor begins with. *)
LEMMA StartIsMemory ==
    ASSUME NEW r PROVE Memory(r, Start(r))
  <1> DEFINE b == Blank(r)
  <1>1. Formed(r, b)
    BY DEF Formed, Blank
  <1> HIDE DEF b
  <1>2. Start(r) = [inbox |-> b, output |-> b]
    BY DEF Start, b
  <1> QED
    BY <1>1, <1>2 DEF Memory

(* Two runs agree. *)
LEMMA RunsAgree ==
    ASSUME NEW r, NEW inputs, NEW n \in Nat, NEW p, NEW q,
           DenseRun(p, n, r, inputs), DenseRun(q, n, r, inputs)
    PROVE  p[n] = q[n]
  <1> DEFINE G == {k \in Nat : k <= n => p[k] = q[k]}
  <1>1. 0 \in G
    BY DEF DenseRun, ExecutedRun
  <1>2. ASSUME NEW k \in Nat, k \in G PROVE k + 1 \in G
    <2> SUFFICES ASSUME k + 1 <= n PROVE p[k + 1] = q[k + 1]
      OBVIOUS
    <2>1. p[k] = q[k] /\ k + 1 \in 1 .. n /\ (k + 1) - 1 = k
      BY <1>2
    <2>2. /\ p[k + 1] = Apply(r, inputs, p[k], Plan(r)[k + 1])
          /\ q[k + 1] = Apply(r, inputs, q[k], Plan(r)[k + 1])
      BY <2>1 DEF DenseRun, ExecutedRun
    <2> QED
      BY <2>1, <2>2
  <1> HIDE DEF G
  <1>3. n \in G
    BY <1>1, <1>2, CountUp
  <1> QED
    BY <1>3 DEF G

(* A run and one action more. *)
LEMMA RunGoesOn ==
    ASSUME NEW r, NEW inputs, NEW k \in Nat, NEW run, DenseRun(run, k, r, inputs)
    PROVE  \E more : /\ DenseRun(more, k + 1, r, inputs)
                     /\ more[k + 1] = Apply(r, inputs, run[k], Plan(r)[k + 1])
  <1> DEFINE next == Apply(r, inputs, run[k], Plan(r)[k + 1])
             more == [i \in 0 .. k + 1 |-> IF i <= k THEN run[i] ELSE next]
  <1>1. (\A i \in 0 .. k : more[i] = run[i]) /\ more[k + 1] = next /\ more[0] = run[0] /\ more[k] = run[k]
    OBVIOUS
  <1>2. ASSUME NEW i \in 1 .. k + 1 PROVE more[i] = Apply(r, inputs, more[i - 1], Plan(r)[i])
    <2>1. CASE i = k + 1
      <3>1. i - 1 = k
        BY <2>1
      <3> QED
        BY <1>1, <2>1, <3>1
    <2>2. CASE i # k + 1
      <3>1. i \in 1 .. k /\ i - 1 \in 0 .. k /\ i \in 0 .. k
        BY <2>2
      <3>2. run[i] = Apply(r, inputs, run[i - 1], Plan(r)[i])
        BY <3>1 DEF DenseRun, ExecutedRun
      <3> HIDE DEF more
      <3> QED
        BY <1>1, <3>1, <3>2
    <2> QED
      BY <2>1, <2>2
  <1> HIDE DEF more
  <1>3. DenseRun(more, k + 1, r, inputs)
    BY <1>1, <1>2 DEF DenseRun, ExecutedRun
  <1> QED
    BY <1>1, <1>3

(* A buffer of all the cells is a sequence that is cut nowhere. *)
LEMMA CutNowhere ==
    ASSUME NEW n \in Nat, NEW f, f = [k \in 1 .. n |-> f[k]]
    PROVE  SubSeq(f, 0 + 1, 0 + n) = f
  <1> DEFINE S == {f[k] : k \in 1 .. n}
  <1>1. f \in [1 .. n -> S]
    OBVIOUS
  <1> HIDE DEF S
  <1>2. f \in Seq(S) /\ Len(f) = n
    BY <1>1
  <1>3. SubSeq(f, 1, n) = f
    BY <1>2
  <1> QED
    BY <1>3

(* The dense executor returns the outputs at the end of a run over the plan. *)
LEMMA DenseIsLast ==
    ASSUME NEW r, Summed(r), NEW inputs, NEW run,
           DenseRun(run, Len(Plan(r)), r, inputs), Memory(r, run[Len(Plan(r))])
    PROVE  Dense(r, inputs) = run[Len(Plan(r))].output
  <1> DEFINE n == Len(Plan(r))
             final == Executed(Start(r), Plan(r), r, inputs)
             out == run[n].output
  <1>1. n \in Nat /\ DOMAIN Plan(r) = 1 .. n
    BY PlanCopiesFirst DEF CopiedFirst
  <1>2. PICK other : ExecutedRun(other, n, Start(r), Plan(r), r, inputs) /\ final = other[n]
    <2> DEFINE acc == Start(r)
               seq == Plan(r)
    <2>1. n \in Nat /\ DOMAIN seq = 1 .. n
      BY <1>1
    <2> HIDE DEF acc, seq, n
    <2>2. \E other : ExecutedRun(other, n, acc, seq, r, inputs) /\ Executed(acc, seq, r, inputs) = other[n]
      BY <2>1, ExecutedRuns
    <2> QED
      BY <2>2 DEF acc, seq, n
  <1>3. final = run[n]
    <2>1. DenseRun(other, n, r, inputs) /\ DenseRun(run, n, r, inputs)
      BY <1>2 DEF DenseRun
    <2> HIDE DEF n
    <2>2. other[n] = run[n]
      BY <1>1, <2>1, RunsAgree
    <2> QED
      BY <1>2, <2>2
  <1>4. Dense(r, inputs) = [d \in 1 .. Size(r) |-> SubSeq(final.output[d], 0 + 1, 0 + Total(r))]
    BY DEF Dense, Summed, Executed, Start, Blank
  <1> HIDE DEF final
  <1>5. Formed(r, out)
    BY DEF Memory
  <1>6. Dense(r, inputs) = [d \in 1 .. Size(r) |-> SubSeq(out[d], 0 + 1, 0 + Total(r))]
    BY <1>3, <1>4
  <1> HIDE DEF out
  <1>7. out = [d \in 1 .. Size(r) |-> out[d]]
    BY <1>5 DEF Formed
  <1>8. ASSUME NEW d \in 1 .. Size(r) PROVE SubSeq(out[d], 0 + 1, 0 + Total(r)) = out[d]
    <2> DEFINE f == out[d]
    <2>1. f = [k \in 1 .. Total(r) |-> f[k]] /\ Total(r) \in Nat
      BY <1>5, SummedSizes DEF Formed
    <2> HIDE DEF f
    <2>2. SubSeq(f, 0 + 1, 0 + Total(r)) = f
      BY <2>1, CutNowhere
    <2> QED
      BY <2>2 DEF f
  <1>9. Dense(r, inputs) = out
    BY <1>6, <1>7, <1>8
  <1> QED
    BY <1>9 DEF out

(* The executor's memory keeps its form along the plan. *)
LEMMA DenseRuns ==
    ASSUME NEW r, Summed(r), NEW inputs
    PROVE  \A k \in Nat : k <= Len(Plan(r)) =>
              \E run : DenseRun(run, k, r, inputs) /\ Memory(r, run[k])
  <1> DEFINE n == Len(Plan(r))
             G == {k \in Nat : k <= n => \E run : DenseRun(run, k, r, inputs) /\ Memory(r, run[k])}
  <1>1. n \in Nat /\ \A i \in 1 .. n : Plan(r)[i] \in Moves(r)
    <2> DEFINE M == Moves(r)
    <2>1. Plan(r) \in Seq(M)
      BY PlanCopiesFirst DEF CopiedFirst
    <2> HIDE DEF M
    <2>2. n \in Nat /\ \A i \in 1 .. n : Plan(r)[i] \in M
      BY <2>1
    <2> QED
      BY <2>2 DEF M
  <1>2. 0 \in G
    <2> DEFINE run == [i \in 0 .. 0 |-> Start(r)]
    <2>1. run[0] = Start(r) /\ 1 .. 0 = {}
      OBVIOUS
    <2> HIDE DEF run
    <2>2. DenseRun(run, 0, r, inputs) /\ Memory(r, run[0])
      BY <2>1, StartIsMemory DEF DenseRun, ExecutedRun
    <2> QED
      BY <2>2
  <1>3. ASSUME NEW k \in Nat, k \in G PROVE k + 1 \in G
    <2> SUFFICES ASSUME k + 1 <= n
                 PROVE  \E run : DenseRun(run, k + 1, r, inputs) /\ Memory(r, run[k + 1])
      OBVIOUS
    <2>1. PICK run : DenseRun(run, k, r, inputs) /\ Memory(r, run[k])
      BY <1>1, <1>3
    <2>2. PICK more : /\ DenseRun(more, k + 1, r, inputs)
                      /\ more[k + 1] = Apply(r, inputs, run[k], Plan(r)[k + 1])
      BY <2>1, RunGoesOn
    <2> DEFINE a == Plan(r)[k + 1]
               st == run[k]
    <2>3. a \in Moves(r) /\ Memory(r, st)
      BY <1>1, <2>1
    <2> HIDE DEF a, st
    <2>4. After(r, inputs, st, a, Apply(r, inputs, st, a))
      BY <2>3, Applied
    <2>5. Memory(r, Apply(r, inputs, st, a))
      BY <2>4 DEF After
    <2> QED
      BY <2>2, <2>5 DEF a, st
  <1> HIDE DEF G
  <1>4. \A k \in Nat : k \in G
    BY <1>2, <1>3, CountUp
  <1> QED
    BY <1>4 DEF G

(* Nothing to add: no cells, or one rank. *)
LEMMA NothingToAdd ==
    ASSUME NEW r, Summed(r), NEW b, Formed(r, b), Total(r) = 0 \/ Size(r) = 1
    PROVE  Dense(r, b) = b
  <1> DEFINE n == Len(Plan(r))
  <1>1. Plan(r) \in Seq(Moves(r)) /\ n \in Nat
        /\ \A d \in 1 .. Size(r) : \E h \in 1 .. n : Plan(r)[h].op = "copy" /\ Plan(r)[h].dst = d
    BY PlanCopiesFirst DEF CopiedFirst
  <1>2. PICK run : DenseRun(run, n, r, b) /\ Memory(r, run[n])
    BY <1>1, DenseRuns
  <1>3. Dense(r, b) = run[n].output
    BY <1>2, DenseIsLast
  <1> DEFINE out == run[n].output
  <1>4. Formed(r, out)
    BY <1>2 DEF Memory
  <1>5. CASE Total(r) = 0
    <2>1. 1 .. Total(r) = {}
      BY <1>5
    <2> HIDE DEF out
    <2>2. /\ out = [i \in 1 .. Size(r) |-> [k \in 1 .. Total(r) |-> out[i][k]]]
          /\ b = [i \in 1 .. Size(r) |-> [k \in 1 .. Total(r) |-> b[i][k]]]
      BY <1>4 DEF Formed
    <2>3. \A i \in 1 .. Size(r) : [k \in 1 .. Total(r) |-> out[i][k]] = [k \in 1 .. Total(r) |-> b[i][k]]
      BY <2>1
    <2>4. out = b
      BY <2>2, <2>3
    <2> QED
      BY <1>3, <2>4 DEF out
  <1>6. CASE Size(r) = 1
    <2>1. 1 .. Size(r) = {1} /\ 1 \in 1 .. Size(r)
      BY <1>6
    <2>2. n \in 1 .. n /\ n - 1 \in Nat /\ n - 1 <= n /\ (n - 1) + 1 = n
      <3>1. \E h \in 1 .. n : TRUE
        BY <1>1, <2>1
      <3> QED
        BY <1>1, <3>1
    <2> DEFINE a == Plan(r)[n]
               last == run[n - 1]
    <2>3. a \in Moves(r)
      <3> DEFINE M == Moves(r)
      <3> HIDE DEF M
      <3>1. Plan(r) \in Seq(M)
        BY <1>1 DEF M
      <3>2. a \in M
        BY <2>2, <3>1
      <3> QED
        BY <3>2 DEF M
    <2>4. a.src = 1 /\ a.dst = 1 /\ a.op = "copy"
      BY <2>1, <2>3 DEF Moves
    <2>5. run[n] = Apply(r, b, last, a)
      BY <1>2, <2>2 DEF DenseRun, ExecutedRun
    <2>6. Memory(r, last)
      <3>1. PICK p : DenseRun(p, n - 1, r, b) /\ Memory(r, p[n - 1])
        BY <2>2, DenseRuns
      <3>2. DenseRun(run, n - 1, r, b)
        BY <1>1, <1>2, <2>2 DEF DenseRun, ExecutedRun
      <3> DEFINE m == n - 1
      <3>3. m \in Nat /\ DenseRun(p, m, r, b) /\ DenseRun(run, m, r, b)
        BY <2>2, <3>1, <3>2
      <3> HIDE DEF m
      <3>4. p[m] = run[m]
        BY <3>3, RunsAgree
      <3> QED
        BY <3>1, <3>4 DEF m
    <2> HIDE DEF a, last
    <2>7. After(r, b, last, a, Apply(r, b, last, a))
      BY <2>3, <2>6, Applied
    <2>8. run[n].output = [last.output EXCEPT ![1] = [k \in 1 .. Total(r) |-> b[1][k]]]
      BY <2>4, <2>5, <2>7 DEF After
    <2>9. DOMAIN last.output = {1}
      <3> DEFINE o == last.output
      <3>1. Formed(r, o)
        BY <2>6 DEF Memory
      <3> HIDE DEF o
      <3>2. DOMAIN o = 1 .. Size(r)
        BY <3>1 DEF Formed
      <3> QED
        BY <2>1, <3>2 DEF o
    <2>10. b = [i \in {1} |-> [k \in 1 .. Total(r) |-> b[i][k]]]
      BY <2>1 DEF Formed
    <2>11. out[1] = b[1] /\ out = [i \in {1} |-> out[i]] /\ b = [i \in {1} |-> b[i]]
      <3> DEFINE f == [k \in 1 .. Total(r) |-> b[1][k]]
      <3>1. out = [last.output EXCEPT ![1] = f] /\ b[1] = f
        BY <2>8, <2>10
      <3> HIDE DEF f, out
      <3> QED
        BY <2>9, <2>10, <3>1
    <2> HIDE DEF out
    <2>12. out = b
      BY <2>11
    <2> QED
      BY <1>3, <2>12 DEF out
  <1> QED
    BY <1>5, <1>6

-----------------------------------------------------------------------------
(* Collectives: the devices follow the dense executor *)

(* After k actions the staging buffers, and the callers' buffers that were
   copied to, are those of the dense executor. *)
Agreed(k, r, b, inbox, out) ==
    \E run :
        /\ DenseRun(run, k, r, b) /\ Memory(r, run[k])
        /\ inbox = run[k].inbox
        /\ \A j \in 1 .. k : Plan(r)[j].op = "copy" =>
              out[Plan(r)[j].dst] = run[k].output[Plan(r)[j].dst]

(* Before the first action. *)
LEMMA AgreedBegins ==
    ASSUME NEW r, NEW b, NEW out PROVE Agreed(0, r, b, Blank(r), out)
  <1> DEFINE run == [i \in 0 .. 0 |-> Start(r)]
  <1>1. run[0] = Start(r) /\ 1 .. 0 = {}
    OBVIOUS
  <1> HIDE DEF run
  <1>2. DenseRun(run, 0, r, b) /\ Memory(r, run[0])
    BY <1>1, StartIsMemory DEF DenseRun, ExecutedRun
  <1>3. Blank(r) = run[0].inbox
    BY <1>1 DEF Start
  <1> QED
    BY <1>1, <1>2, <1>3 DEF Agreed

(* An action more. *)
LEMMA AgreedGoesOn ==
    ASSUME NEW r, Summed(r), NEW b, NEW inbox, NEW out, Formed(r, inbox), Formed(r, out),
           NEW k \in Nat, Agreed(k, r, b, inbox, out), k + 1 <= Len(Plan(r)), NEW new,
           new = Apply(r, b, [inbox |-> inbox, output |-> out], Plan(r)[k + 1])
    PROVE  Agreed(k + 1, r, b, new.inbox, new.output) /\ Formed(r, new.inbox) /\ Formed(r, new.output)
  <1> DEFINE a == Plan(r)[k + 1]
             st == [inbox |-> inbox, output |-> out]
  <1>1. PICK run : /\ DenseRun(run, k, r, b) /\ Memory(r, run[k])
                   /\ inbox = run[k].inbox
                   /\ \A j \in 1 .. k : Plan(r)[j].op = "copy" =>
                         out[Plan(r)[j].dst] = run[k].output[Plan(r)[j].dst]
    BY DEF Agreed
  <1>2. PICK more : DenseRun(more, k + 1, r, b) /\ more[k + 1] = Apply(r, b, run[k], Plan(r)[k + 1])
    BY <1>1, RunGoesOn
  <1>3. a \in Moves(r) /\ \A j \in 1 .. k + 1 : Plan(r)[j].dst \in 1 .. Size(r)
    <2> DEFINE M == Moves(r)
    <2>1. Plan(r) \in Seq(M)
      BY PlanCopiesFirst DEF CopiedFirst
    <2> HIDE DEF M
    <2>2. Len(Plan(r)) \in Nat
      BY <2>1
    <2>3. a \in M /\ \A j \in 1 .. k + 1 : Plan(r)[j] \in M
      BY <2>1, <2>2
    <2> QED
      BY <2>3 DEF M, Moves
  <1>4. st.inbox = inbox /\ st.output = out /\ Memory(r, st) /\ new = Apply(r, b, st, a)
    BY DEF Memory
  <1> DEFINE d == run[k]
             dense == more[k + 1]
  <1>5. Memory(r, d) /\ dense = Apply(r, b, d, a) /\ d.inbox = inbox
    BY <1>1, <1>2
  <1> HIDE DEF a, st, d, dense
  <1>6. After(r, b, st, a, new) /\ After(r, b, d, a, dense)
    BY <1>3, <1>4, <1>5, Applied
  <1>7. DOMAIN out = 1 .. Size(r) /\ DOMAIN d.output = 1 .. Size(r) /\ a.dst \in 1 .. Size(r)
        /\ a.op \in {"copy", "transfer", "sum"}
    <2> DEFINE o == d.output
    <2>1. Formed(r, o)
      BY <1>5 DEF Memory
    <2> HIDE DEF o
    <2>2. DOMAIN o = 1 .. Size(r) /\ DOMAIN out = 1 .. Size(r)
      BY <2>1 DEF Formed
    <2> QED
      BY <1>3, <2>2 DEF o, Moves
  <1>8. new.inbox = dense.inbox
    BY <1>4, <1>5, <1>6, <1>7 DEF After
  <1>9. ASSUME NEW j \in 1 .. k + 1, Plan(r)[j].op = "copy"
        PROVE  new.output[Plan(r)[j].dst] = dense.output[Plan(r)[j].dst]
    <2> DEFINE e == Plan(r)[j].dst
               old == out[e] = d.output[e]
    <2>1. j # k + 1 => old
      BY <1>1, <1>9 DEF d
    <2>2. j = k + 1 => a.op = "copy" /\ e = a.dst
      BY <1>9 DEF a
    <2>e. e \in 1 .. Size(r)
      BY <1>3
    <2> HIDE DEF e
    <2>3. CASE a.op = "transfer"
      <3>1. new.output = out /\ dense.output = d.output
        BY <1>4, <1>6, <2>3 DEF After
      <3> QED
        BY <2>1, <2>2, <2>3, <3>1 DEF e
    <2>4. CASE a.op = "copy"
      <3> DEFINE f == [c \in 1 .. Total(r) |-> b[a.src][c]]
      <3>1. new.output = [out EXCEPT ![a.dst] = f] /\ dense.output = [d.output EXCEPT ![a.dst] = f]
        BY <1>4, <1>6, <2>4 DEF After
      <3> HIDE DEF f
      <3>2. CASE e = a.dst
        BY <1>7, <3>1, <3>2 DEF e
      <3>3. CASE e # a.dst
        <4>1. old
          BY <2>1, <2>2, <3>3
        <4>2. new.output[e] = out[e] /\ dense.output[e] = d.output[e]
          BY <1>7, <2>e, <3>1, <3>3
        <4> QED
          BY <4>1, <4>2 DEF e
      <3> QED
        BY <3>2, <3>3
    <2>5. CASE a.op = "sum"
      <3> DEFINE f == [c \in 1 .. Total(r) |-> Add(out[a.dst][c], inbox[a.dst][c])]
                 g == [c \in 1 .. Total(r) |-> Add(d.output[a.dst][c], inbox[a.dst][c])]
      <3>1. new.output = [out EXCEPT ![a.dst] = f] /\ dense.output = [d.output EXCEPT ![a.dst] = g]
        BY <1>4, <1>5, <1>6, <2>5 DEF After
      <3>2. old
        BY <2>1, <2>2, <2>5
      <3>3. CASE e = a.dst
        <4>1. f = g
          BY <3>2, <3>3
        <4> HIDE DEF f, g
        <4> QED
          BY <1>7, <3>1, <3>3, <4>1 DEF e
      <3>4. CASE e # a.dst
        <4> HIDE DEF f, g
        <4>1. new.output[e] = out[e] /\ dense.output[e] = d.output[e]
          BY <1>7, <2>e, <3>1, <3>4
        <4> QED
          BY <3>2, <4>1 DEF e
      <3> QED
        BY <3>3, <3>4
    <2> QED
      BY <1>7, <2>3, <2>4, <2>5
  <1>10. Formed(r, new.inbox) /\ Formed(r, new.output) /\ Memory(r, dense)
    BY <1>6 DEF After, Memory
  <1> QED
    BY <1>2, <1>8, <1>9, <1>10 DEF Agreed, dense

(* After the last action every buffer is the dense executor's. *)
LEMMA AgreedEnds ==
    ASSUME NEW r, Summed(r), NEW b, NEW inbox, NEW out, Formed(r, out),
           Agreed(Len(Plan(r)), r, b, inbox, out)
    PROVE  out = Dense(r, b)
  <1> DEFINE n == Len(Plan(r))
  <1>1. PICK run : /\ DenseRun(run, n, r, b) /\ Memory(r, run[n])
                   /\ \A j \in 1 .. n : Plan(r)[j].op = "copy" =>
                         out[Plan(r)[j].dst] = run[n].output[Plan(r)[j].dst]
    BY DEF Agreed
  <1>2. Dense(r, b) = run[n].output
    BY <1>1, DenseIsLast
  <1> DEFINE o == run[n].output
  <1>3. Formed(r, o)
    BY <1>1 DEF Memory
  <1>4. ASSUME NEW d \in 1 .. Size(r) PROVE out[d] = o[d]
    <2>1. PICK h \in 1 .. n : Plan(r)[h].op = "copy" /\ Plan(r)[h].dst = d
      BY PlanCopiesFirst DEF CopiedFirst
    <2> QED
      BY <1>1, <2>1
  <1> HIDE DEF o
  <1>5. out = [i \in 1 .. Size(r) |-> out[i]] /\ o = [i \in 1 .. Size(r) |-> o[i]]
    BY <1>3 DEF Formed
  <1>6. out = o
    BY <1>4, <1>5
  <1> QED
    BY <1>2, <1>6 DEF o

-----------------------------------------------------------------------------
(* Collectives: the inductive invariant *)

(* A request that gets past the checks to the driver. *)
Engaged(r) == Summed(r) /\ Total(r) > 0 /\ Size(r) > 1

(* Where the call is. *)
PlaceOK ==
    /\ req \in Requests
    /\ phase \in {"idle", "snapshot", "act", "sync", "restore", "lost"}
    /\ outcome \in {None, "done", "refused", "failed"}
    /\ calls \in 0 .. MaxCalls /\ faults \in 0 .. MaxFaults
    /\ phase = "act" => at \in 1 .. Len(Plan(req))
    /\ phase \in {"snapshot", "sync", "restore"} => at \in 1 .. Size(req)
    /\ phase # "idle" => Engaged(req)

(* The buffers have all the cells. *)
BuffersOK ==
    /\ Summed(req) => Formed(req, input) /\ Formed(req, before)
    /\ phase # "idle" => Formed(req, scratch) /\ Formed(req, original)

(* Work that nobody has waited for is an action of the plan, and exists only
   until the streams have been synchronized one after the other. *)
StreamsOK ==
    /\ inFlight = [d \in 1 .. Size(req) |-> inFlight[d]]
    /\ \A d \in 1 .. Size(req) : inFlight[d] # None => inFlight[d] \in Moves(req)
    /\ phase \notin {"sync", "lost"} => \A d \in 1 .. Size(req) : inFlight[d] = None
    /\ phase = "sync" => \A d \in 1 .. at - 1 : inFlight[d] = None

(* How far the phase has come: snapshots are taken of unchanged buffers, the
   devices follow the dense executor, and buffers are restored in order. *)
CallOK ==
    /\ phase = "snapshot" =>
          /\ input = before /\ scratch = Blank(req)
          /\ \A i \in 1 .. at - 1 : original[i] = before[i]
    /\ phase \in {"act", "sync", "restore"} => original = before
    /\ phase = "act" => Agreed(at - 1, req, before, scratch, input)
    /\ phase = "restore" => \A i \in 1 .. at - 1 : input[i] = before[i]

(* What a call leaves. *)
EndOK ==
    /\ AgreesWithDense
    /\ phase = "idle" /\ outcome \in {"failed", "refused"} => input = before

CollectiveInv == PlaceOK /\ BuffersOK /\ StreamsOK /\ CallOK /\ EndOK

(* An action plan has an action, and every one is a move. *)
LEMMA PlanHasActions ==
    ASSUME NEW r, Summed(r)
    PROVE  Len(Plan(r)) \in Nat /\ Len(Plan(r)) >= 1 /\ \A i \in 1 .. Len(Plan(r)) : Plan(r)[i] \in Moves(r)
  <1> DEFINE M == Moves(r)
             s == Plan(r)
  <1>1. s \in Seq(M) /\ \A d \in 1 .. Size(r) : \E h \in 1 .. Len(s) : s[h].op = "copy" /\ s[h].dst = d
    BY PlanCopiesFirst DEF CopiedFirst
  <1>2. 1 \in 1 .. Size(r)
    BY SummedSizes
  <1>3. \E h \in 1 .. Len(s) : TRUE
    BY <1>1, <1>2
  <1> HIDE DEF M, s
  <1>4. Len(s) \in Nat /\ \A i \in 1 .. Len(s) : s[i] \in M
    BY <1>1
  <1>5. Len(s) >= 1
    BY <1>3, <1>4
  <1> QED
    BY <1>4, <1>5 DEF M, s

(* Buffers that agree in every rank. *)
LEMMA SameBuffers ==
    ASSUME NEW r, NEW b, NEW c, Formed(r, b), Formed(r, c), \A i \in 1 .. Size(r) : b[i] = c[i]
    PROVE  b = c
  <1>1. b = [i \in 1 .. Size(r) |-> b[i]] /\ c = [i \in 1 .. Size(r) |-> c[i]]
    BY DEF Formed
  <1> QED
    BY <1>1

(* A rank's buffer of formed buffers. *)
LEMMA FormedRank ==
    ASSUME NEW r, NEW b, Formed(r, b), NEW i \in 1 .. Size(r)
    PROVE  b[i] = [k \in 1 .. Total(r) |-> b[i][k]] /\ DOMAIN b = 1 .. Size(r)
  BY DEF Formed

(* The invariant holds before the first call. *)
LEMMA CollectiveBegins ==
    ASSUME CollectiveInit PROVE CollectiveInv
  <1> USE DEF CollectiveInit
  <1>1. PlaceOK
    BY CollectiveAssumption DEF PlaceOK
  <1>2. BuffersOK
    <2> SUFFICES ASSUME Summed(req) PROVE Formed(req, input)
      BY DEF BuffersOK
    <2>1. \A i \in 1 .. Size(req) : req.lengths[i] = Total(req)
      BY SummedSizes
    <2> DEFINE b == input
    <2>2. b = [i \in 1 .. Size(req) |-> [k \in 1 .. req.lengths[i] |-> <<<<i, k>>>>]]
      BY DEF Contributions
    <2>3. b = [i \in 1 .. Size(req) |-> [k \in 1 .. Total(req) |-> <<<<i, k>>>>]]
      BY <2>1, <2>2
    <2> HIDE DEF b
    <2>4. Formed(req, b)
      BY <2>3 DEF Formed
    <2> QED
      BY <2>4 DEF b
  <1>3. StreamsOK
    BY DEF StreamsOK
  <1>4. CallOK /\ EndOK
    BY CollectiveAssumption DEF CallOK, EndOK, AgreesWithDense
  <1> QED
    BY <1>1, <1>2, <1>3, <1>4 DEF CollectiveInv

(* The checks and the allocations. *)
LEMMA BeginKeepsInv ==
    ASSUME CollectiveInv, BeginCollective PROVE CollectiveInv'
  <1> DEFINE refusal == ~Admitted /\ Sound /\ ReturnResult("refused")
             nothing == Admitted /\ (Total(req) = 0 \/ Size(req) = 1) /\ Sound /\ ReturnResult("done")
             failure == Fault /\ ReturnResult("refused")
             start == /\ Admitted /\ Total(req) > 0 /\ Size(req) > 1
                      /\ Sound /\ phase' = "snapshot" /\ at' = 1 /\ outcome' = None
  <1>1. /\ phase = "idle" /\ calls < MaxCalls /\ calls' = calls + 1 /\ before' = input
        /\ original' = Blank(req) /\ scratch' = Blank(req)
        /\ req' = req /\ input' = input /\ inFlight' = inFlight
        /\ refusal \/ nothing \/ failure \/ start
    BY DEF BeginCollective
  <1>2. Admitted => Summed(req)
    BY CollectiveAssumption DEF Admitted, Summed, CollectiveInv, PlaceOK
  <1>3. /\ faults' \in 0 .. MaxFaults /\ calls' \in 0 .. MaxCalls
    <2>1. calls \in Nat /\ faults \in Nat /\ MaxCalls \in Nat /\ MaxFaults \in Nat
          /\ calls \in 0 .. MaxCalls /\ faults \in 0 .. MaxFaults
      BY CollectiveAssumption DEF CollectiveInv, PlaceOK
    <2>2. faults' = faults \/ (faults < MaxFaults /\ faults' = faults + 1)
      BY <1>1 DEF Sound, Fault
    <2> QED
      BY <1>1, <2>1, <2>2
  <1>4. Formed(req, Blank(req))
    BY DEF Formed, Blank
  <1>5. /\ \A d \in 1 .. Size(req) : inFlight[d] = None
        /\ inFlight = [d \in 1 .. Size(req) |-> inFlight[d]]
    BY <1>1 DEF CollectiveInv, StreamsOK
  <1>6. BuffersOK' /\ StreamsOK'
    BY <1>1, <1>4, <1>5 DEF CollectiveInv, BuffersOK, StreamsOK, ReturnResult
  <1>7. CASE refusal \/ failure
    <2>1. phase' = "idle" /\ outcome' = "refused"
      BY <1>7 DEF ReturnResult
    <2>2. PlaceOK'
      BY <1>1, <1>3, <2>1 DEF CollectiveInv, PlaceOK
    <2>3. CallOK' /\ EndOK'
      BY <1>1, <2>1 DEF CallOK, EndOK, AgreesWithDense
    <2> QED
      BY <1>6, <2>2, <2>3 DEF CollectiveInv
  <1>8. CASE nothing
    <2>1. phase' = "idle" /\ outcome' = "done"
      BY <1>8 DEF ReturnResult
    <2>2. PlaceOK'
      BY <1>1, <1>3, <2>1 DEF CollectiveInv, PlaceOK
    <2>3. input = Dense(req, input)
      <3>1. Summed(req) /\ Formed(req, input) /\ (Total(req) = 0 \/ Size(req) = 1)
        BY <1>2, <1>8 DEF CollectiveInv, BuffersOK
      <3> QED
        BY <3>1, NothingToAdd
    <2>4. CallOK'
      BY <2>1 DEF CallOK
    <2>5. EndOK'
      <3>1. input' = Dense(req', before')
        BY <1>1, <2>3
      <3> QED
        BY <2>1, <3>1 DEF EndOK, AgreesWithDense
    <2> QED
      BY <1>6, <2>2, <2>4, <2>5 DEF CollectiveInv
  <1>9. CASE start
    <2>1. phase' = "snapshot" /\ at' = 1 /\ outcome' = None /\ Engaged(req) /\ 1 \in 1 .. Size(req)
      <3>1. Size(req) \in Nat
        BY <1>2, <1>9, SummedSizes
      <3> QED
        BY <1>2, <1>9, <3>1 DEF Engaged
    <2>2. PlaceOK'
      BY <1>1, <1>3, <2>1 DEF CollectiveInv, PlaceOK
    <2>3. CallOK' /\ EndOK'
      BY <1>1, <2>1 DEF CallOK, EndOK, AgreesWithDense
    <2> QED
      BY <1>6, <2>2, <2>3 DEF CollectiveInv
  <1> QED
    BY <1>1, <1>7, <1>8, <1>9

(* A fault, or none. *)
LEMMA FaultsCount ==
    ASSUME faults \in 0 .. MaxFaults, Sound \/ Fault PROVE faults' \in 0 .. MaxFaults
  BY CollectiveAssumption DEF Sound, Fault

(* A snapshot is taken. *)
LEMMA SnapshotKeepsInv ==
    ASSUME CollectiveInv, SnapshotInputs PROVE CollectiveInv'
  <1>1. /\ phase = "snapshot"
        /\ req' = req /\ input' = input /\ scratch' = scratch /\ inFlight' = inFlight
        /\ before' = before /\ calls' = calls
        /\ \/ Sound /\ original' = [original EXCEPT ![at] = input[at]] /\ Proceed(Size(req), "act")
           \/ Fault /\ ReturnResult("refused") /\ original' = original
    BY DEF SnapshotInputs
  <1>2. /\ req \in Requests /\ outcome \in {None, "done", "refused", "failed"}
        /\ calls \in 0 .. MaxCalls /\ faults \in 0 .. MaxFaults /\ Engaged(req)
        /\ Summed(req) /\ at \in 1 .. Size(req)
    BY <1>1 DEF CollectiveInv, PlaceOK, Engaged
  <1>3. /\ Formed(req, input) /\ Formed(req, before) /\ Formed(req, scratch) /\ Formed(req, original)
    BY <1>1, <1>2 DEF CollectiveInv, BuffersOK
  <1>4. /\ inFlight = [d \in 1 .. Size(req) |-> inFlight[d]]
        /\ \A d \in 1 .. Size(req) : inFlight[d] = None
    BY <1>1 DEF CollectiveInv, StreamsOK
  <1>5. /\ input = before /\ scratch = Blank(req)
        /\ \A i \in 1 .. at - 1 : original[i] = before[i]
    BY <1>1 DEF CollectiveInv, CallOK
  <1>6. faults' \in 0 .. MaxFaults
    BY <1>1, <1>2, FaultsCount
  <1>7. Size(req) \in Nat
    BY <1>2, SummedSizes
  <1>8. CASE Fault /\ ReturnResult("refused") /\ original' = original
    <2>1. phase' = "idle" /\ outcome' = "refused"
      BY <1>8 DEF ReturnResult
    <2>2. PlaceOK'
      BY <1>1, <1>2, <1>6, <2>1 DEF PlaceOK
    <2>3. BuffersOK' /\ StreamsOK'
      BY <1>1, <1>3, <1>4, <2>1 DEF BuffersOK, StreamsOK
    <2>4. CallOK' /\ EndOK'
      BY <1>1, <1>5, <2>1 DEF CallOK, EndOK, AgreesWithDense
    <2> QED
      BY <2>2, <2>3, <2>4 DEF CollectiveInv
  <1>9. CASE Sound /\ original' = [original EXCEPT ![at] = input[at]] /\ Proceed(Size(req), "act")
    <2>1. Formed(req, original')
      <3> DEFINE f == input[at]
      <3>1. f = [k \in 1 .. Total(req) |-> f[k]] /\ original' = [original EXCEPT ![at] = f]
        BY <1>2, <1>3, <1>9, FormedRank
      <3> HIDE DEF f
      <3>2. Formed(req, [original EXCEPT ![at] = f])
        BY <1>2, <1>3, <3>1, FormedReplaces
      <3> QED
        BY <3>1, <3>2
    <2>2. \A i \in 1 .. at : original'[i] = before[i]
      <3>1. DOMAIN original = 1 .. Size(req)
        BY <1>2, <1>3, FormedRank
      <3> QED
        BY <1>2, <1>5, <1>7, <1>9, <3>1
    <2>3. BuffersOK' /\ StreamsOK'
      <3>1. phase' \notin {"sync", "lost"}
        BY <1>1, <1>9 DEF Proceed
      <3> QED
        BY <1>1, <1>3, <1>4, <2>1, <3>1 DEF BuffersOK, StreamsOK
    <2>4. CASE at = Size(req)
      <3>1. phase' = "act" /\ at' = 1 /\ outcome' = outcome
        BY <1>9, <2>4 DEF Proceed
      <3>2. 1 \in 1 .. Len(Plan(req))
        BY <1>2, PlanHasActions
      <3>3. PlaceOK'
        BY <1>1, <1>2, <1>6, <3>1, <3>2 DEF PlaceOK
      <3>4. original' = before
        BY <1>3, <2>1, <2>2, <2>4, SameBuffers
      <3>5. Agreed(0, req, before, scratch, input)
        BY <1>5, AgreedBegins
      <3>6. CallOK' /\ EndOK'
        BY <1>1, <3>1, <3>4, <3>5 DEF CallOK, EndOK, AgreesWithDense
      <3> QED
        BY <2>3, <3>3, <3>6 DEF CollectiveInv
    <2>5. CASE at # Size(req)
      <3>1. phase' = "snapshot" /\ at' = at + 1 /\ outcome' = outcome
        BY <1>1, <1>9, <2>5 DEF Proceed
      <3>2. at + 1 \in 1 .. Size(req) /\ (at + 1) - 1 = at
        BY <1>2, <1>7, <2>5
      <3>3. PlaceOK'
        BY <1>1, <1>2, <1>6, <3>1, <3>2 DEF PlaceOK
      <3>4. CallOK' /\ EndOK'
        BY <1>1, <1>5, <2>2, <3>1, <3>2 DEF CallOK, EndOK, AgreesWithDense
      <3> QED
        BY <2>3, <3>3, <3>4 DEF CollectiveInv
    <2> QED
      BY <2>4, <2>5
  <1> QED
    BY <1>1, <1>8, <1>9

(* An action that takes effect leaves buffers of all the cells. *)
LEMMA WritesForm ==
    ASSUME Summed(req), Formed(req, scratch), Formed(req, input), NEW a \in Moves(req), Writes(a)
    PROVE  Formed(req, input') /\ Formed(req, scratch')
  <1> DEFINE st == [inbox |-> scratch, output |-> input]
             new == Apply(req, original, st, a)
  <1>1. Memory(req, st)
    BY DEF Memory
  <1>2. input' = new.output /\ scratch' = new.inbox
    BY DEF Writes, Performed, Source
  <1> HIDE DEF st
  <1>3. After(req, original, st, a, Apply(req, original, st, a))
    BY <1>1, Applied
  <1>4. Memory(req, new)
    BY <1>3 DEF After
  <1> HIDE DEF new
  <1> QED
    BY <1>2, <1>4 DEF Memory

(* An action is performed, or fails. *)
LEMMA ActKeepsInv ==
    ASSUME CollectiveInv, Act PROVE CollectiveInv'
  <1> DEFINE a == Plan(req)[at]
             success == /\ Sound /\ Writes(a) /\ inFlight' = inFlight
                        /\ IF at = Len(Plan(req)) THEN ReturnResult("done") ELSE Proceed(0, "act")
             failure == /\ Fault \/ Sound
                        /\ phase' = "sync" /\ at' = 1 /\ outcome' = outcome
                        /\ \/ Writes(a) /\ inFlight' = inFlight
                           \/ input' = input /\ scratch' = scratch /\ inFlight' = inFlight
                           \/ /\ inFlight' = [inFlight EXCEPT ![a.dst] = a]
                              /\ input' = input /\ scratch' = scratch
  <1>1. /\ phase = "act"
        /\ req' = req /\ original' = original /\ before' = before /\ calls' = calls
        /\ success \/ failure
    BY DEF Act
  <1>2. /\ req \in Requests /\ outcome \in {None, "done", "refused", "failed"}
        /\ calls \in 0 .. MaxCalls /\ faults \in 0 .. MaxFaults /\ Engaged(req)
        /\ Summed(req) /\ at \in 1 .. Len(Plan(req))
    BY <1>1 DEF CollectiveInv, PlaceOK, Engaged
  <1>3. /\ Formed(req, input) /\ Formed(req, before) /\ Formed(req, scratch) /\ Formed(req, original)
    BY <1>1, <1>2 DEF CollectiveInv, BuffersOK
  <1>4. /\ inFlight = [d \in 1 .. Size(req) |-> inFlight[d]]
        /\ \A d \in 1 .. Size(req) : inFlight[d] = None
    BY <1>1 DEF CollectiveInv, StreamsOK
  <1>5. original = before /\ Agreed(at - 1, req, before, scratch, input)
    BY <1>1 DEF CollectiveInv, CallOK
  <1>6. faults' \in 0 .. MaxFaults
    BY <1>1, <1>2, FaultsCount
  <1>7. /\ Size(req) \in Nat /\ Size(req) >= 1 /\ Len(Plan(req)) \in Nat /\ a \in Moves(req)
        /\ 1 \in 1 .. Size(req) /\ a.dst \in 1 .. Size(req)
    <2>1. a \in Moves(req) /\ Len(Plan(req)) \in Nat
      BY <1>2, PlanHasActions
    <2>2. a.dst \in 1 .. Size(req)
      BY <2>1 DEF Moves
    <2> QED
      BY <1>2, <2>1, <2>2, SummedSizes
  <1>8. CASE success
    <2> DEFINE st == [inbox |-> scratch, output |-> input]
               new == Apply(req, before, st, Plan(req)[(at - 1) + 1])
               k == at - 1
    <2>1. input' = new.output /\ scratch' = new.inbox
      <3>1. (at - 1) + 1 = at
        BY <1>2, <1>7
      <3> QED
        BY <1>5, <1>8, <3>1 DEF Writes, Performed, Source
    <2>2. k \in Nat /\ k + 1 = at /\ k + 1 <= Len(Plan(req)) /\ (at + 1) - 1 = at
      BY <1>2, <1>7
    <2>3. Agreed(at, req, before, scratch', input') /\ Formed(req, scratch') /\ Formed(req, input')
      <3>1. Agreed(k, req, before, scratch, input) /\ new = Apply(req, before, st, Plan(req)[k + 1])
        BY <1>5
      <3> HIDE DEF new, k
      <3>2. Agreed(k + 1, req, before, new.inbox, new.output) /\ Formed(req, new.inbox) /\ Formed(req, new.output)
        BY <1>2, <1>3, <2>2, <3>1, AgreedGoesOn
      <3> QED
        BY <2>1, <2>2, <3>2
    <2> HIDE DEF new, st, k
    <2>4. BuffersOK'
      BY <1>1, <1>3, <2>3 DEF BuffersOK
    <2>5. CASE at = Len(Plan(req))
      <3>1. phase' = "idle" /\ outcome' = "done"
        BY <1>8, <2>5 DEF ReturnResult
      <3>2. PlaceOK'
        BY <1>1, <1>2, <1>6, <3>1 DEF PlaceOK
      <3>3. StreamsOK'
        BY <1>1, <1>4, <1>8, <3>1 DEF StreamsOK
      <3>4. input' = Dense(req, before)
        <4> DEFINE out == input'
                   box == scratch'
        <4>1. Agreed(Len(Plan(req)), req, before, box, out) /\ Formed(req, out)
          BY <2>3, <2>5
        <4> HIDE DEF out, box
        <4>2. out = Dense(req, before)
          BY <1>2, <4>1, AgreedEnds
        <4> QED
          BY <4>2 DEF out
      <3>5. CallOK' /\ EndOK'
        <4>1. input' = Dense(req', before')
          BY <1>1, <3>4
        <4> QED
          BY <3>1, <4>1 DEF CallOK, EndOK, AgreesWithDense
      <3> QED
        BY <2>4, <3>2, <3>3, <3>5 DEF CollectiveInv
    <2>6. CASE at # Len(Plan(req))
      <3>1. phase' = "act" /\ at' = at + 1 /\ outcome' = outcome
        BY <1>1, <1>2, <1>7, <1>8, <2>6 DEF Proceed
      <3>2. at + 1 \in 1 .. Len(Plan(req))
        BY <1>2, <1>7, <2>6
      <3>3. PlaceOK'
        BY <1>1, <1>2, <1>6, <3>1, <3>2 DEF PlaceOK
      <3>4. StreamsOK'
        BY <1>1, <1>4, <1>8, <3>1 DEF StreamsOK
      <3>5. CallOK' /\ EndOK'
        BY <1>1, <1>5, <2>2, <2>3, <3>1 DEF CallOK, EndOK, AgreesWithDense
      <3> QED
        BY <2>4, <3>3, <3>4, <3>5 DEF CollectiveInv
    <2> QED
      BY <2>5, <2>6
  <1>9. CASE failure
    <2>1. phase' = "sync" /\ at' = 1 /\ outcome' = outcome
      BY <1>9
    <2>2. Formed(req, input') /\ Formed(req, scratch')
      <3>1. CASE Writes(a)
        <4> HIDE DEF a
        <4> QED
          BY <1>2, <1>3, <1>7, <3>1, WritesForm
      <3>2. CASE input' = input /\ scratch' = scratch
        BY <1>3, <3>2
      <3> QED
        BY <1>9, <3>1, <3>2
    <2>3. PlaceOK'
      BY <1>1, <1>2, <1>6, <1>7, <2>1 DEF PlaceOK
    <2>4. BuffersOK'
      BY <1>1, <1>3, <2>2 DEF BuffersOK
    <2>5. StreamsOK'
      <3>1. inFlight' = inFlight \/ inFlight' = [inFlight EXCEPT ![a.dst] = a]
        BY <1>9
      <3> HIDE DEF a
      <3>2. /\ inFlight' = [d \in 1 .. Size(req) |-> inFlight'[d]]
            /\ \A d \in 1 .. Size(req) : inFlight'[d] # None => inFlight'[d] \in Moves(req)
        <4>1. DOMAIN inFlight = 1 .. Size(req)
          BY <1>4
        <4> QED
          BY <1>4, <1>7, <3>1, <4>1
      <3>3. \A d \in 1 .. at' - 1 : FALSE
        BY <2>1
      <3> QED
        BY <1>1, <2>1, <3>2, <3>3 DEF StreamsOK
    <2>6. CallOK' /\ EndOK'
      BY <1>1, <1>5, <2>1 DEF CallOK, EndOK, AgreesWithDense
    <2> QED
      BY <2>3, <2>4, <2>5, <2>6 DEF CollectiveInv
  <1> QED
    BY <1>1, <1>8, <1>9

(* Work that nobody has waited for runs, or is lost. *)
LEMMA LandKeepsInv ==
    ASSUME CollectiveInv, NEW d \in DOMAIN inFlight, Land(d) PROVE CollectiveInv'
  <1> DEFINE a == inFlight[d]
  <1>1. /\ a # None /\ inFlight' = [inFlight EXCEPT ![d] = None]
        /\ Writes(a) \/ (input' = input /\ scratch' = scratch)
        /\ req' = req /\ phase' = phase /\ at' = at /\ original' = original /\ before' = before
        /\ outcome' = outcome /\ calls' = calls /\ faults' = faults
    BY DEF Land
  <1>2. DOMAIN inFlight = 1 .. Size(req) /\ d \in 1 .. Size(req) /\ a \in Moves(req)
        /\ phase \in {"sync", "lost"}
    <2>1. DOMAIN inFlight = 1 .. Size(req) /\ d \in 1 .. Size(req)
      BY DEF CollectiveInv, StreamsOK
    <2>2. a \in Moves(req) /\ phase \in {"sync", "lost"}
      BY <1>1, <2>1 DEF CollectiveInv, StreamsOK
    <2> QED
      BY <2>1, <2>2
  <1>3. Engaged(req) /\ Summed(req)
    BY <1>2 DEF CollectiveInv, PlaceOK, Engaged
  <1>4. Formed(req, input) /\ Formed(req, before) /\ Formed(req, scratch) /\ Formed(req, original)
    BY <1>2, <1>3 DEF CollectiveInv, BuffersOK
  <1>5. PlaceOK'
    BY <1>1 DEF CollectiveInv, PlaceOK
  <1> HIDE DEF a
  <1>6. Formed(req, input') /\ Formed(req, scratch')
    <2>1. CASE Writes(a)
      BY <1>2, <1>3, <1>4, <2>1, WritesForm
    <2> QED
      BY <1>1, <1>4, <2>1
  <1>7. BuffersOK'
    BY <1>1, <1>4, <1>6 DEF BuffersOK
  <1>8. StreamsOK'
    <2>1. /\ inFlight' = [e \in 1 .. Size(req) |-> inFlight'[e]]
          /\ \A e \in 1 .. Size(req) : inFlight'[e] = None \/ inFlight'[e] = inFlight[e]
      BY <1>1, <1>2
    <2>2. \A e \in 1 .. Size(req) : inFlight'[e] # None => inFlight'[e] \in Moves(req)
      BY <2>1 DEF CollectiveInv, StreamsOK
    <2>3. phase = "sync" => \A e \in 1 .. at - 1 : inFlight'[e] = None
      <3> SUFFICES ASSUME phase = "sync", NEW e \in 1 .. at - 1 PROVE inFlight'[e] = None
        OBVIOUS
      <3>1. inFlight[e] = None /\ at \in 1 .. Size(req) /\ Size(req) \in Nat
        BY <1>3, SummedSizes DEF CollectiveInv, StreamsOK, PlaceOK
      <3>2. e \in 1 .. Size(req)
        BY <3>1
      <3> QED
        BY <2>1, <3>1, <3>2
    <2> QED
      BY <1>1, <1>2, <2>1, <2>2, <2>3 DEF StreamsOK
  <1>9. CallOK'
    BY <1>1, <1>2 DEF CollectiveInv, CallOK
  <1>10. EndOK'
    BY <1>1, <1>2 DEF EndOK, AgreesWithDense
  <1> QED
    BY <1>5, <1>7, <1>8, <1>9, <1>10 DEF CollectiveInv

(* A stream is waited for. *)
LEMMA SynchronizeKeepsInv ==
    ASSUME CollectiveInv, SynchronizeBeforeRollback PROVE CollectiveInv'
  <1>1. /\ phase = "sync"
        /\ req' = req /\ input' = input /\ original' = original /\ scratch' = scratch
        /\ inFlight' = inFlight /\ before' = before /\ calls' = calls
        /\ \/ Sound /\ inFlight[at] = None /\ Proceed(Size(req), "restore")
           \/ Fault /\ phase' = "lost" /\ at' = at /\ outcome' = outcome
    BY DEF SynchronizeBeforeRollback, buffers
  <1>2. /\ req \in Requests /\ outcome \in {None, "done", "refused", "failed"}
        /\ calls \in 0 .. MaxCalls /\ faults \in 0 .. MaxFaults /\ Engaged(req)
        /\ Summed(req) /\ at \in 1 .. Size(req)
    BY <1>1 DEF CollectiveInv, PlaceOK, Engaged
  <1>3. faults' \in 0 .. MaxFaults
    BY <1>1, <1>2, FaultsCount
  <1>4. Size(req) \in Nat /\ Size(req) >= 1
    BY <1>2, SummedSizes
  <1>5. BuffersOK'
    BY <1>1, <1>2 DEF CollectiveInv, BuffersOK
  <1>6. /\ inFlight = [d \in 1 .. Size(req) |-> inFlight[d]]
        /\ \A d \in 1 .. Size(req) : inFlight[d] # None => inFlight[d] \in Moves(req)
        /\ \A d \in 1 .. at - 1 : inFlight[d] = None
        /\ original = before
    BY <1>1 DEF CollectiveInv, StreamsOK, CallOK
  <1>7. CASE Fault /\ phase' = "lost" /\ at' = at /\ outcome' = outcome
    <2>1. PlaceOK'
      BY <1>1, <1>2, <1>3, <1>7 DEF PlaceOK
    <2>2. StreamsOK'
      BY <1>1, <1>6, <1>7 DEF StreamsOK
    <2>3. CallOK' /\ EndOK'
      BY <1>7 DEF CallOK, EndOK, AgreesWithDense
    <2> QED
      BY <1>5, <2>1, <2>2, <2>3 DEF CollectiveInv
  <1>8. CASE Sound /\ inFlight[at] = None /\ Proceed(Size(req), "restore")
    <2>1. \A d \in 1 .. at : inFlight[d] = None
      BY <1>2, <1>4, <1>6, <1>8
    <2>2. CASE at = Size(req)
      <3>1. phase' = "restore" /\ at' = 1 /\ outcome' = outcome /\ 1 \in 1 .. Size(req)
        BY <1>4, <1>8, <2>2 DEF Proceed
      <3>2. PlaceOK'
        BY <1>1, <1>2, <1>3, <3>1 DEF PlaceOK
      <3>3. StreamsOK'
        BY <1>1, <1>6, <2>1, <2>2, <3>1 DEF StreamsOK
      <3>4. CallOK' /\ EndOK'
        BY <1>1, <1>6, <3>1 DEF CallOK, EndOK, AgreesWithDense
      <3> QED
        BY <1>5, <3>2, <3>3, <3>4 DEF CollectiveInv
    <2>3. CASE at # Size(req)
      <3>1. phase' = "sync" /\ at' = at + 1 /\ outcome' = outcome
        BY <1>1, <1>8, <2>3 DEF Proceed
      <3>2. at + 1 \in 1 .. Size(req) /\ (at + 1) - 1 = at
        BY <1>2, <1>4, <2>3
      <3>3. PlaceOK'
        BY <1>1, <1>2, <1>3, <3>1, <3>2 DEF PlaceOK
      <3>4. StreamsOK'
        BY <1>1, <1>6, <2>1, <3>1, <3>2 DEF StreamsOK
      <3>5. CallOK' /\ EndOK'
        BY <1>1, <1>6, <3>1 DEF CallOK, EndOK, AgreesWithDense
      <3> QED
        BY <1>5, <3>3, <3>4, <3>5 DEF CollectiveInv
    <2> QED
      BY <2>2, <2>3
  <1> QED
    BY <1>1, <1>7, <1>8

(* A buffer is restored. *)
LEMMA RestoreKeepsInv ==
    ASSUME CollectiveInv, Restore PROVE CollectiveInv'
  <1> DEFINE back == /\ Sound /\ input' = [input EXCEPT ![at] = original[at]]
                     /\ IF at = Size(req) THEN ReturnResult("failed") ELSE Proceed(0, "restore")
             fails == Fault /\ phase' = "lost" /\ input' = input /\ at' = at /\ outcome' = outcome
  <1>1. /\ phase = "restore"
        /\ req' = req /\ original' = original /\ scratch' = scratch
        /\ inFlight' = inFlight /\ before' = before /\ calls' = calls
        /\ back \/ fails
    BY DEF Restore
  <1>2. /\ req \in Requests /\ outcome \in {None, "done", "refused", "failed"}
        /\ calls \in 0 .. MaxCalls /\ faults \in 0 .. MaxFaults /\ Engaged(req)
        /\ Summed(req) /\ at \in 1 .. Size(req)
    BY <1>1 DEF CollectiveInv, PlaceOK, Engaged
  <1>3. faults' \in 0 .. MaxFaults
    BY <1>1, <1>2, FaultsCount
  <1>4. Size(req) \in Nat /\ Size(req) >= 1
    BY <1>2, SummedSizes
  <1>5. Formed(req, input) /\ Formed(req, before) /\ Formed(req, scratch) /\ Formed(req, original)
    BY <1>1, <1>2 DEF CollectiveInv, BuffersOK
  <1>6. /\ inFlight = [d \in 1 .. Size(req) |-> inFlight[d]]
        /\ \A d \in 1 .. Size(req) : inFlight[d] = None
        /\ original = before
        /\ \A i \in 1 .. at - 1 : input[i] = before[i]
    BY <1>1 DEF CollectiveInv, StreamsOK, CallOK
  <1>7. CASE fails
    <2>1. PlaceOK'
      BY <1>1, <1>2, <1>3, <1>7 DEF PlaceOK
    <2>2. BuffersOK' /\ StreamsOK'
      BY <1>1, <1>5, <1>6, <1>7 DEF StreamsOK, BuffersOK
    <2>3. CallOK' /\ EndOK'
      BY <1>7 DEF CallOK, EndOK, AgreesWithDense
    <2> QED
      BY <2>1, <2>2, <2>3 DEF CollectiveInv
  <1>8. CASE back
    <2>1. Formed(req, input')
      <3> DEFINE f == original[at]
      <3>1. f = [k \in 1 .. Total(req) |-> f[k]] /\ input' = [input EXCEPT ![at] = f]
        BY <1>2, <1>5, <1>8, FormedRank
      <3> HIDE DEF f
      <3>2. Formed(req, [input EXCEPT ![at] = f])
        BY <1>2, <1>5, <3>1, FormedReplaces
      <3> QED
        BY <3>1, <3>2
    <2>2. \A i \in 1 .. at : input'[i] = before[i]
      <3>1. DOMAIN input = 1 .. Size(req)
        BY <1>2, <1>5, FormedRank
      <3> QED
        BY <1>2, <1>4, <1>6, <1>8, <3>1
    <2>3. BuffersOK'
      BY <1>1, <1>5, <2>1 DEF BuffersOK
    <2>4. CASE at = Size(req)
      <3>1. phase' = "idle" /\ outcome' = "failed"
        BY <1>8, <2>4 DEF ReturnResult
      <3>2. PlaceOK'
        BY <1>1, <1>2, <1>3, <3>1 DEF PlaceOK
      <3>3. StreamsOK'
        BY <1>1, <1>6, <3>1 DEF StreamsOK
      <3>4. input' = before
        <4> DEFINE b == input'
        <4>1. Formed(req, b) /\ \A i \in 1 .. Size(req) : b[i] = before[i]
          BY <2>1, <2>2, <2>4
        <4> HIDE DEF b
        <4>2. b = before
          BY <1>5, <4>1, SameBuffers
        <4> QED
          BY <4>2 DEF b
      <3>5. CallOK' /\ EndOK'
        BY <1>1, <3>1, <3>4 DEF CallOK, EndOK, AgreesWithDense
      <3> QED
        BY <2>3, <3>2, <3>3, <3>5 DEF CollectiveInv
    <2>5. CASE at # Size(req)
      <3>1. phase' = "restore" /\ at' = at + 1 /\ outcome' = outcome
        BY <1>1, <1>2, <1>4, <1>8, <2>5 DEF Proceed
      <3>2. at + 1 \in 1 .. Size(req) /\ (at + 1) - 1 = at
        BY <1>2, <1>4, <2>5
      <3>3. PlaceOK'
        BY <1>1, <1>2, <1>3, <3>1, <3>2 DEF PlaceOK
      <3>4. StreamsOK'
        BY <1>1, <1>6, <3>1 DEF StreamsOK
      <3>5. CallOK' /\ EndOK'
        BY <1>1, <1>6, <2>2, <3>1, <3>2 DEF CallOK, EndOK, AgreesWithDense
      <3> QED
        BY <2>3, <3>3, <3>4, <3>5 DEF CollectiveInv
    <2> QED
      BY <2>4, <2>5
  <1> QED
    BY <1>1, <1>7, <1>8

(* The inductive invariant: between two steps of a call the devices' buffers
   are those of the dense executor, or can still be restored. *)
THEOREM CollectiveInvariance == CollectiveSpec => []CollectiveInv
  <1>1. CollectiveInit => CollectiveInv
    BY CollectiveBegins
  <1>2. CollectiveInv /\ [CollectiveNext]_collectiveVars => CollectiveInv'
    <2> SUFFICES ASSUME CollectiveInv, [CollectiveNext]_collectiveVars PROVE CollectiveInv'
      OBVIOUS
    <2>1. CASE BeginCollective
      BY <2>1, BeginKeepsInv
    <2>2. CASE SnapshotInputs
      BY <2>2, SnapshotKeepsInv
    <2>3. CASE Act
      BY <2>3, ActKeepsInv
    <2>4. CASE \E d \in DOMAIN inFlight : Land(d)
      BY <2>4, LandKeepsInv
    <2>5. CASE SynchronizeBeforeRollback
      BY <2>5, SynchronizeKeepsInv
    <2>6. CASE Restore
      BY <2>6, RestoreKeepsInv
    <2>7. CASE UNCHANGED collectiveVars
      BY <2>7 DEF collectiveVars, buffers, CollectiveInv, PlaceOK, BuffersOK, StreamsOK, CallOK,
                  EndOK, AgreesWithDense
    <2> QED
      BY <2>1, <2>2, <2>3, <2>4, <2>5, <2>6, <2>7 DEF CollectiveNext
  <1> QED
    BY <1>1, <1>2, PTL DEF CollectiveSpec

(* CudaCollectiveGroup::all_reduce_sum is all or nothing: a call that succeeds
   leaves in every buffer what the dense executor computes from the buffers as
   the call found them, to the order of the additions, and a call that fails
   or is refused leaves them as they were, with nothing on a stream. *)
THEOREM ReductionIsAllOrNothing == CollectiveSpec => []AllOrNothing
  <1>1. CollectiveInv => AllOrNothing
    BY DEF CollectiveInv, PlaceOK, StreamsOK, EndOK, AllOrNothing, CollectiveTypeOK, FailureIsRestored
  <1> QED
    BY <1>1, CollectiveInvariance, PTL

-----------------------------------------------------------------------------
(* Collectives: cells *)

(* A valid request, and the actions of its plan. *)
Posed(r) ==
    /\ r.kind \in Kind /\ Valid(r)
    /\ r.lengths \in Seq(Nat) /\ r.lengths # <<>>

Steps(r) == [op : {"copy", "transfer", "sum"}, src : 1 .. Size(r), dst : 1 .. Size(r),
             range : [start : Nat, len : Nat], deps : SUBSET Nat]

(* A rank, then the others. *)
Order(r, d) == <<d>> \o Others(r, d)

(* What rank src contributes to cell k. *)
Sent(r, inputs, src, k) == inputs[src][k - SourceBase(r, src)]

(* What action a makes of every cell of a memory. *)
CellsAfter(r, inputs, st, a, new) ==
    /\ Memory(r, new)
    /\ \A d \in 1 .. Size(r) : \A k \in 1 .. Total(r) :
         /\ new.inbox[d][k] = IF a.op = "transfer" /\ d = a.dst /\ k \in Cells(a.range)
                              THEN Sent(r, inputs, a.src, k) ELSE st.inbox[d][k]
         /\ new.output[d][k] =
              IF a.op = "transfer" \/ d # a.dst \/ k \notin Cells(a.range) THEN st.output[d][k]
              ELSE IF a.op = "sum" THEN Add(st.output[d][k], st.inbox[d][k])
              ELSE IF a.src = a.dst THEN Sent(r, inputs, a.src, k) ELSE st.inbox[d][k]

(* Buffers c are b with f as the buffer of rank d. *)
Replaced(r, b, d, f, c) ==
    Formed(r, c) /\ c[d] = f /\ \A i \in 1 .. Size(r) : i # d => c[i] = b[i]

(* One buffer of several is replaced. *)
LEMMA OverwriteIs ==
    ASSUME NEW r, NEW b, Formed(r, b), NEW d \in 1 .. Size(r), NEW f,
           f = [k \in 1 .. Total(r) |-> f[k]]
    PROVE  Replaced(r, b, d, f, [b EXCEPT ![d] = f])
  <1>1. DOMAIN b = 1 .. Size(r)
    BY DEF Formed
  <1>2. Formed(r, [b EXCEPT ![d] = f])
    BY FormedReplaces
  <1> QED
    BY <1>1, <1>2 DEF Replaced

(* An action, cell by cell. *)
LEMMA AppliedCells ==
    ASSUME NEW r, NEW inputs, NEW st, Memory(r, st), NEW a \in Steps(r)
    PROVE  CellsAfter(r, inputs, st, a, Apply(r, inputs, st, a))
  <1> DEFINE D == 1 .. Size(r)
             C == 1 .. Total(r)
             new == Apply(r, inputs, st, a)
             hit == Cells(a.range)
             in == st.inbox
             out == st.output
             e == a.dst
             sent(k) == Sent(r, inputs, a.src, k)
             received == [k \in C |-> IF k \in hit THEN sent(k) ELSE in[e][k]]
             copied == [k \in C |-> IF k \in hit THEN sent(k) ELSE out[e][k]]
             kept == [k \in C |-> IF k \in hit THEN in[e][k] ELSE out[e][k]]
             added == [k \in C |-> IF k \in hit THEN Add(out[e][k], in[e][k]) ELSE out[e][k]]
  <1>1. e \in D /\ a.op \in {"copy", "transfer", "sum"}
    BY DEF Steps
  <1>2. st = [inbox |-> in, output |-> out] /\ Formed(r, in) /\ Formed(r, out)
    BY DEF Memory
  <1>3. DOMAIN in = D /\ DOMAIN out = D /\ DOMAIN in[e] = C /\ DOMAIN out[e] = C
    <2> HIDE DEF in, out
    <2>1. in = [i \in D |-> [k \in C |-> in[i][k]]] /\ out = [i \in D |-> [k \in C |-> out[i][k]]]
      BY <1>2 DEF Formed
    <2> QED
      BY <1>1, <2>1
  <1>4. ASSUME a.op = "transfer"
        PROVE  new = [inbox |-> [in EXCEPT ![e] = received], output |-> out]
    <2>1. new = [st EXCEPT !.inbox[e] = Overwrite(@, a.range, LAMBDA k : sent(k))]
      BY <1>4 DEF Apply, Sent
    <2>2. new = [st EXCEPT !.inbox[e] = received]
      BY <1>3, <2>1 DEF Overwrite
    <2> QED
      BY <1>2, <2>2
  <1>5. ASSUME a.op = "copy", a.src = e
        PROVE  new = [inbox |-> in, output |-> [out EXCEPT ![e] = copied]]
    <2>1. new = [st EXCEPT !.output[e] = Overwrite(@, a.range, LAMBDA k : sent(k))]
      BY <1>5 DEF Apply, Sent
    <2>2. new = [st EXCEPT !.output[e] = copied]
      BY <1>3, <2>1 DEF Overwrite
    <2> QED
      BY <1>2, <2>2
  <1>6. ASSUME a.op = "copy", a.src # e
        PROVE  new = [inbox |-> in, output |-> [out EXCEPT ![e] = kept]]
    <2>1. new = [st EXCEPT !.output[e] = Overwrite(@, a.range, LAMBDA k : in[e][k])]
      BY <1>6 DEF Apply
    <2>2. new = [st EXCEPT !.output[e] = kept]
      BY <1>3, <2>1 DEF Overwrite
    <2> QED
      BY <1>2, <2>2
  <1>7. ASSUME a.op = "sum"
        PROVE  new = [inbox |-> in, output |-> [out EXCEPT ![e] = added]]
    <2>1. new = [st EXCEPT !.output[e] = Overwrite(@, a.range, LAMBDA k : Add(out[e][k], in[e][k]))]
      BY <1>7 DEF Apply
    <2>2. new = [st EXCEPT !.output[e] = added]
      BY <1>3, <2>1 DEF Overwrite
    <2> QED
      BY <1>2, <2>2
  <1> DEFINE Same(b, c) == \A d \in D : \A k \in C : c[d][k] = b[d][k]
             Sets(b, c, f) == /\ Formed(r, c)
                              /\ \A k \in C : c[e][k] = f[k]
                              /\ \A d \in D : d # e => c[d] = b[d]
  <1>8. ASSUME NEW b, Formed(r, b), NEW f, f = [k \in C |-> f[k]]
        PROVE  Sets(b, [b EXCEPT ![e] = f], f)
    <2>1. Formed(r, b) /\ e \in 1 .. Size(r) /\ f = [k \in 1 .. Total(r) |-> f[k]]
      BY <1>1, <1>8
    <2> HIDE DEF e
    <2>2. Replaced(r, b, e, f, [b EXCEPT ![e] = f])
      BY ONLY <2>1, OverwriteIs
    <2> DEFINE c == [b EXCEPT ![e] = f]
    <2>3. Formed(r, c) /\ c[e] = f /\ \A i \in 1 .. Size(r) : i # e => c[i] = b[i]
      BY <2>2 DEF Replaced
    <2> HIDE DEF c
    <2>4. Sets(b, c, f)
      BY <2>3
    <2> QED
      BY <2>4 DEF c
  <1>9. received = [k \in C |-> received[k]] /\ copied = [k \in C |-> copied[k]]
        /\ kept = [k \in C |-> kept[k]] /\ added = [k \in C |-> added[k]]
    OBVIOUS
  <1>10. /\ \A k \in C : received[k] = IF k \in hit THEN sent(k) ELSE in[e][k]
         /\ \A k \in C : copied[k] = IF k \in hit THEN sent(k) ELSE out[e][k]
         /\ \A k \in C : kept[k] = IF k \in hit THEN in[e][k] ELSE out[e][k]
         /\ \A k \in C : added[k] = IF k \in hit THEN Add(out[e][k], in[e][k]) ELSE out[e][k]
    OBVIOUS
  <1> HIDE DEF received, copied, kept, added, new
  <1>11. ASSUME NEW i, NEW o, new = [inbox |-> i, output |-> o], Formed(r, i), Formed(r, o)
         PROVE  Memory(r, new) /\ new.inbox = i /\ new.output = o
    BY <1>11 DEF Memory
  <1> HIDE DEF D, C, hit, in, out, e, Sets, sent
  <1>12. CASE a.op = "transfer"
    <2> DEFINE i == [in EXCEPT ![e] = received]
    <2>1. Sets(in, i, received)
      BY <1>2, <1>8, <1>9
    <2> HIDE DEF i
    <2>2. Memory(r, new) /\ new.inbox = i /\ new.output = out
      BY <1>2, <1>4, <1>11, <1>12, <2>1 DEF Sets, i
    <2>3. \A d \in D : \A k \in C : new.inbox[d][k] = IF d = e /\ k \in hit THEN sent(k) ELSE in[d][k]
      BY <1>10, <2>1, <2>2 DEF Sets
    <2> QED
      BY <1>12, <2>2, <2>3 DEF CellsAfter, D, C, hit, in, out, e, sent, new
  <1>13. CASE a.op = "copy" /\ a.src = e
    <2> DEFINE o == [out EXCEPT ![e] = copied]
    <2>1. Sets(out, o, copied)
      BY <1>2, <1>8, <1>9
    <2> HIDE DEF o
    <2>2. Memory(r, new) /\ new.inbox = in /\ new.output = o
      BY <1>2, <1>5, <1>11, <1>13, <2>1 DEF Sets, o
    <2>3. \A d \in D : \A k \in C : new.output[d][k] = IF d = e /\ k \in hit THEN sent(k) ELSE out[d][k]
      BY <1>10, <2>1, <2>2 DEF Sets
    <2> QED
      BY <1>13, <2>2, <2>3 DEF CellsAfter, D, C, hit, in, out, e, sent, new
  <1>14. CASE a.op = "copy" /\ a.src # e
    <2> DEFINE o == [out EXCEPT ![e] = kept]
    <2>1. Sets(out, o, kept)
      BY <1>2, <1>8, <1>9
    <2> HIDE DEF o
    <2>2. Memory(r, new) /\ new.inbox = in /\ new.output = o
      BY <1>2, <1>6, <1>11, <1>14, <2>1 DEF Sets, o
    <2>3. \A d \in D : \A k \in C : new.output[d][k] = IF d = e /\ k \in hit THEN in[d][k] ELSE out[d][k]
      BY <1>10, <2>1, <2>2 DEF Sets
    <2> QED
      BY <1>14, <2>2, <2>3 DEF CellsAfter, D, C, hit, in, out, e, sent, new
  <1>15. CASE a.op = "sum"
    <2> DEFINE o == [out EXCEPT ![e] = added]
    <2>1. Sets(out, o, added)
      BY <1>2, <1>8, <1>9
    <2> HIDE DEF o
    <2>2. Memory(r, new) /\ new.inbox = in /\ new.output = o
      BY <1>2, <1>7, <1>11, <1>15, <2>1 DEF Sets, o
    <2>3. \A d \in D : \A k \in C :
            new.output[d][k] = IF d = e /\ k \in hit THEN Add(out[d][k], in[d][k]) ELSE out[d][k]
      BY <1>10, <2>1, <2>2 DEF Sets
    <2> QED
      BY <1>15, <2>2, <2>3 DEF CellsAfter, D, C, hit, in, out, e, sent, new
  <1> QED
    BY <1>1, <1>12, <1>13, <1>14, <1>15

-----------------------------------------------------------------------------
(* Collectives: what a sequence of actions serves *)

(* Value v is what the kind of the request promises in cell k of an output. *)
Wanted(r, v, k) ==
    IF r.kind = "broadcast" THEN v = Contributions(r)[r.root][k]
    ELSE IF r.kind = "gather"
    THEN \E src \in 1 .. Size(r) :
            k \in Cells(Given(r, src)) /\ v = Contributions(r)[src][k - Before(r, src)]
    ELSE IsSum(v, r, k)

(* The memory after a sequence of actions. *)
Ran(r, st, s) == Fold(Applies(r, Contributions(r)), st, s)

(* From every memory, the actions leave in the cells of W what is wanted
   there, and in every other cell what was there. *)
ServedFrom(r, st, new, W) ==
    /\ Memory(r, new)
    /\ \A d \in 1 .. Size(r) : \A k \in 1 .. Total(r) :
         /\ <<d, k>> \in W => Wanted(r, new.output[d][k], k)
         /\ <<d, k>> \notin W => new.output[d][k] = st.output[d][k]

Serves(s, r, W) ==
    s \in Seq(Steps(r)) /\ \A st : Memory(r, st) => ServedFrom(r, st, Ran(r, st, s), W)

(* Two elements. *)
LEMMA FoldTwo ==
    ASSUME NEW m, NEW acc, NEW x, NEW y
    PROVE  Fold(m, acc, <<x, y>>) = Further(m, Further(m, acc, x), y)
  <1> DEFINE X == {x, y}
             s == <<x>>
             t == <<y>>
  <1>1. s \in Seq(X) /\ t \in Seq(X)
    OBVIOUS
  <1>a. s \o t = <<x, y>>
    <2>1. x \in X /\ y \in X
      OBVIOUS
    <2> HIDE DEF X
    <2> DEFINE w == <<x, y>>
    <2>2. s \in Seq(X) /\ t \in Seq(X) /\ w \in Seq(X) /\ Len(s) = 1 /\ Len(t) = 1 /\ Len(w) = 2
          /\ s[1] = x /\ t[1] = y /\ w[1] = x /\ w[2] = y
      BY <2>1
    <2> HIDE DEF s, t, w
    <2>z. s \in Seq(X) /\ t \in Seq(X)
      BY <2>2
    <2>a. s \o t \in Seq(X) /\ Len(s \o t) = Len(s) + Len(t)
      BY ONLY <2>z
    <2>b. \A i \in 1 .. Len(s) + Len(t) : (s \o t)[i] = IF i <= Len(s) THEN s[i] ELSE t[i - Len(s)]
      BY ONLY <2>z
    <2>3. s \o t \in Seq(X) /\ Len(s \o t) = 2 /\ (s \o t)[1] = x /\ (s \o t)[2] = y
      <3>1. 1 + 1 = 2 /\ 1 \in 1 .. 2 /\ 2 \in 1 .. 2 /\ 1 <= 1 /\ ~(2 <= 1) /\ 2 - 1 = 1
        OBVIOUS
      <3> QED
        BY <2>2, <2>a, <2>b, <3>1
    <2> DEFINE v == s \o t
    <2> HIDE DEF v
    <2>4. \A i \in 1 .. 2 : i = 1 \/ i = 2
      OBVIOUS
    <2>5. v \in Seq(X) /\ Len(v) = Len(w) /\ \A i \in 1 .. Len(v) : v[i] = w[i]
      BY <2>2, <2>3, <2>4 DEF v
    <2>6. v = w
      BY <2>2, <2>5
    <2> QED
      BY <2>6 DEF v, w
  <1>2. Fold(m, acc, s) = Further(m, acc, x) /\ Fold(m, Further(m, acc, x), t) = Further(m, Further(m, acc, x), y)
    BY FoldFew
  <1> HIDE DEF X, s, t
  <1>3. Fold(m, acc, s \o t) = Fold(m, Fold(m, acc, s), t)
    BY ONLY <1>1, FoldJoins
  <1> QED
    BY <1>a, <1>2, <1>3

(* No action. *)
LEMMA RanNone ==
    ASSUME NEW r, NEW st PROVE Ran(r, st, <<>>) = st
  BY FoldFew DEF Ran

(* One action. *)
LEMMA RanOne ==
    ASSUME NEW r, NEW st, NEW x
    PROVE  Ran(r, st, <<x>>) = Apply(r, Contributions(r), st, x)
  BY FoldFew, FurtherIs DEF Ran

(* Two actions. *)
LEMMA RanTwo ==
    ASSUME NEW r, NEW st, NEW x, NEW y
    PROVE  Ran(r, st, <<x, y>>) =
             Apply(r, Contributions(r), Apply(r, Contributions(r), st, x), y)
  BY FoldTwo, FurtherIs DEF Ran

(* Actions one after the other. *)
LEMMA RanJoins ==
    ASSUME NEW r, NEW st, NEW s \in Seq(Steps(r)), NEW t \in Seq(Steps(r))
    PROVE  Ran(r, st, s \o t) = Ran(r, Ran(r, st, s), t) /\ s \o t \in Seq(Steps(r))
  <1> DEFINE m == Applies(r, Contributions(r))
             X == Steps(r)
  <1>1. s \in Seq(X) /\ t \in Seq(X)
    OBVIOUS
  <1> HIDE DEF m, X
  <1>2. Fold(m, st, s \o t) = Fold(m, Fold(m, st, s), t)
    BY ONLY <1>1, FoldJoins
  <1>3. s \o t \in Seq(X)
    BY <1>1
  <1> QED
    BY <1>2, <1>3 DEF Ran, m, X

(* What is served later is served over what was served before. *)
LEMMA ServesJoins ==
    ASSUME NEW r, NEW s, NEW t, NEW W, NEW V, Serves(s, r, W), Serves(t, r, V)
    PROVE  Serves(s \o t, r, W \cup V)
  <1>1. s \in Seq(Steps(r)) /\ t \in Seq(Steps(r))
    BY DEF Serves
  <1>2. s \o t \in Seq(Steps(r)) /\ \A st : Ran(r, st, s \o t) = Ran(r, Ran(r, st, s), t)
    BY <1>1, RanJoins
  <1>3. ASSUME NEW st, Memory(r, st) PROVE ServedFrom(r, st, Ran(r, st, s \o t), W \cup V)
    <2> DEFINE mid == Ran(r, st, s)
               new == Ran(r, mid, t)
    <2>1. ServedFrom(r, st, mid, W)
      BY <1>3 DEF Serves
    <2>2. Memory(r, mid)
      BY <2>1 DEF ServedFrom
    <2>3. ServedFrom(r, mid, new, V)
      BY <2>2 DEF Serves
    <2> HIDE DEF mid, new
    <2>4. ServedFrom(r, st, new, W \cup V)
      BY <2>1, <2>3 DEF ServedFrom
    <2> QED
      BY <1>2, <2>4 DEF mid, new
  <1> QED
    BY <1>2, <1>3 DEF Serves

(* Nothing serves nothing. *)
LEMMA NothingServes ==
    ASSUME NEW r PROVE Serves(<<>>, r, {})
  <1>1. <<>> \in Seq(Steps(r))
    OBVIOUS
  <1>2. \A st : Ran(r, st, <<>>) = st
    BY RanNone
  <1>3. \A st : Memory(r, st) => ServedFrom(r, st, st, {})
    BY DEF ServedFrom
  <1> QED
    BY <1>1, <1>2, <1>3 DEF Serves

(* A delivery puts what the source contributes into a range of cells. *)
LEMMA DeliveredServes ==
    ASSUME NEW r, NEW src \in 1 .. Size(r), NEW dst \in 1 .. Size(r),
           NEW range \in [start : Nat, len : Nat], NEW base \in Nat,
           \A k \in 1 .. Total(r) : k \in Cells(range) => Wanted(r, Sent(r, Contributions(r), src, k), k)
    PROVE  Serves(Delivered(src, dst, range, base), r, {dst} \X Cells(range))
  <1> DEFINE R == Cells(range)
             W == {dst} \X R
             g == Contributions(r)
  <1>1. \A d, k : <<d, k>> \in W <=> d = dst /\ k \in R
    OBVIOUS
  <1>2. \A k \in 1 .. Total(r) : k \in R => Wanted(r, Sent(r, g, src, k), k)
    OBVIOUS
  <1>3. CASE src = dst
    <2> DEFINE a == Action("copy", src, dst, range, {})
    <2>1. a \in Steps(r) /\ a.op = "copy" /\ a.src = src /\ a.dst = dst /\ a.range = range
      BY DEF Action, Steps
    <2>2. Delivered(src, dst, range, base) = <<a>>
      BY <1>3 DEF Delivered
    <2> HIDE DEF a, R, W, g
    <2>3. <<a>> \in Seq(Steps(r))
      BY <2>1
    <2>4. ASSUME NEW st, Memory(r, st) PROVE ServedFrom(r, st, Ran(r, st, <<a>>), W)
      <3> DEFINE new == Apply(r, g, st, a)
      <3>1. CellsAfter(r, g, st, a, new)
        BY <2>1, <2>4, AppliedCells
      <3>2. Ran(r, st, <<a>>) = new
        BY RanOne DEF g
      <3> HIDE DEF new
      <3>3. ServedFrom(r, st, new, W)
        BY <1>1, <1>2, <1>3, <2>1, <3>1 DEF CellsAfter, ServedFrom, R
      <3> QED
        BY <3>2, <3>3
    <2>5. Serves(<<a>>, r, W)
      BY <2>3, <2>4 DEF Serves
    <2> QED
      BY <2>2, <2>5 DEF W, R
  <1>4. CASE src # dst
    <2> DEFINE a == Action("transfer", src, dst, range, {})
               b == Action("copy", src, dst, range, {base + 1})
    <2>1. /\ a \in Steps(r) /\ a.op = "transfer" /\ a.src = src /\ a.dst = dst /\ a.range = range
          /\ b \in Steps(r) /\ b.op = "copy" /\ b.src = src /\ b.dst = dst /\ b.range = range
      <3>1. {base + 1} \in SUBSET Nat
        OBVIOUS
      <3> QED
        BY <3>1 DEF Action, Steps
    <2>2. Delivered(src, dst, range, base) = <<a, b>>
      BY <1>4 DEF Delivered
    <2> HIDE DEF a, b, R, W, g
    <2>3. <<a, b>> \in Seq(Steps(r))
      BY <2>1
    <2>4. ASSUME NEW st, Memory(r, st) PROVE ServedFrom(r, st, Ran(r, st, <<a, b>>), W)
      <3> DEFINE mid == Apply(r, g, st, a)
                 new == Apply(r, g, mid, b)
      <3>1. CellsAfter(r, g, st, a, mid)
        BY <2>1, <2>4, AppliedCells
      <3>2. Memory(r, mid)
        BY <3>1 DEF CellsAfter
      <3>3. CellsAfter(r, g, mid, b, new)
        BY <2>1, <3>2, AppliedCells
      <3>4. Ran(r, st, <<a, b>>) = new
        BY RanTwo DEF g
      <3> HIDE DEF new, mid
      <3>5. \A d \in 1 .. Size(r) : \A k \in 1 .. Total(r) :
              /\ mid.output[d][k] = st.output[d][k]
              /\ d = dst /\ k \in R => mid.inbox[d][k] = Sent(r, g, src, k)
        BY <2>1, <3>1 DEF CellsAfter, R
      <3>6. \A d \in 1 .. Size(r) : \A k \in 1 .. Total(r) :
              new.output[d][k] = IF d = dst /\ k \in R THEN mid.inbox[d][k] ELSE mid.output[d][k]
        BY <1>4, <2>1, <3>3 DEF CellsAfter, R
      <3>7. Memory(r, new)
        BY <3>3 DEF CellsAfter
      <3>8. ServedFrom(r, st, new, W)
        BY <1>1, <1>2, <3>5, <3>6, <3>7 DEF ServedFrom
      <3> QED
        BY <3>4, <3>8
    <2>5. Serves(<<a, b>>, r, W)
      BY <2>3, <2>4 DEF Serves
    <2> QED
      BY <2>2, <2>5 DEF W, R
  <1> QED
    BY <1>3, <1>4

-----------------------------------------------------------------------------
(* Collectives: a rank's reduction *)

(* A rank and then the others: every rank, the first one first. *)
OrderOK(r, d) ==
    /\ Order(r, d) \in Seq(1 .. Size(r)) /\ Len(Order(r, d)) = Size(r)
    /\ Order(r, d)[1] = d
    /\ \A i \in 1 .. Size(r) - 1 : /\ Order(r, d)[i + 1] = Others(r, d)[i]
                                   /\ Others(r, d)[i] \in 1 .. Size(r) /\ Others(r, d)[i] # d
    /\ \A i \in 1 .. Size(r) : \E j \in 1 .. Size(r) : Order(r, d)[j] = i

(* The order of a rank is one. *)
LEMMA OrderIs ==
    ASSUME NEW r, Size(r) \in Nat, NEW d \in 1 .. Size(r)
    PROVE  OrderOK(r, d)
  <1> DEFINE n == Size(r)
             o == Others(r, d)
             one == <<d>>
             w == Order(r, d)
  <1>1. n \in Nat /\ d \in 1 .. n
    OBVIOUS
  <1>2. o \in Seq(1 .. n) /\ Len(o) = n - 1 /\ \A i \in 1 .. n - 1 : o[i] = IF i < d THEN i ELSE i + 1
    BY OthersAre
  <1>3. one \in Seq(1 .. n) /\ Len(one) = 1 /\ one[1] = d
    BY <1>1
  <1>4. w = one \o o
    BY DEF Order
  <1> HIDE DEF n, o, one, w
  <1>5. w \in Seq(1 .. n) /\ Len(w) = n /\ w[1] = d /\ \A i \in 1 .. n - 1 : w[i + 1] = o[i]
    <2> DEFINE S == 1 .. n
    <2>1. one \in Seq(S) /\ o \in Seq(S)
      BY <1>2, <1>3
    <2> HIDE DEF S
    <2>2. /\ one \o o \in Seq(S) /\ Len(one \o o) = Len(one) + Len(o)
          /\ \A i \in 1 .. Len(one) + Len(o) :
                (one \o o)[i] = IF i <= Len(one) THEN one[i] ELSE o[i - Len(one)]
      BY ONLY <2>1
    <2>3. 1 + (n - 1) = n /\ 1 \in 1 .. n
      BY <1>1
    <2>4. w \in Seq(S) /\ Len(w) = n /\ \A i \in 1 .. n : w[i] = IF i <= 1 THEN one[i] ELSE o[i - 1]
      BY <1>2, <1>3, <1>4, <2>2, <2>3
    <2>5. ASSUME NEW i \in 1 .. n - 1 PROVE w[i + 1] = o[i]
      <3>1. i + 1 \in 1 .. n /\ ~(i + 1 <= 1) /\ (i + 1) - 1 = i
        BY <1>1
      <3> QED
        BY <2>4, <3>1
    <2>6. w[1] = d
      BY <1>3, <2>3, <2>4
    <2> QED
      BY <2>4, <2>5, <2>6 DEF S
  <1>6. \A i \in 1 .. n - 1 : o[i] \in 1 .. n /\ o[i] # d
    BY <1>1, <1>2
  <1>7. ASSUME NEW i \in 1 .. n PROVE \E j \in 1 .. n : w[j] = i
    <2>1. CASE i = d
      <3>1. 1 \in 1 .. n
        BY <1>1
      <3> QED
        BY <1>5, <2>1, <3>1
    <2>2. CASE i < d
      <3>1. i \in 1 .. n - 1 /\ i + 1 \in 1 .. n
        BY <1>1, <2>2
      <3>2. w[i + 1] = i
        BY <1>2, <1>5, <2>2, <3>1
      <3> QED
        BY <3>1, <3>2
    <2>3. CASE i > d
      <3>1. i - 1 \in 1 .. n - 1 /\ ~(i - 1 < d) /\ (i - 1) + 1 = i
        BY <1>1, <2>3
      <3>2. w[i] = o[i - 1] /\ o[i - 1] = i
        BY <1>2, <1>5, <3>1
      <3> QED
        BY <3>2
    <2> QED
      BY <1>1, <2>1, <2>2, <2>3
  <1> QED
    BY <1>5, <1>6, <1>7 DEF n, o, w, OrderOK

(* The sizes of a valid request. *)
LEMMA PosedSizes ==
    ASSUME NEW r, Posed(r)
    PROVE  /\ Size(r) \in Nat /\ Size(r) >= 1
           /\ \A i \in 1 .. Size(r) : r.lengths[i] \in Nat
           /\ r.kind # "gather" =>
                Total(r) \in Nat /\ \A i \in 1 .. Size(r) : r.lengths[i] = Total(r)
  <1>1. Len(r.lengths) \in Nat /\ Len(r.lengths) # 0 /\ DOMAIN r.lengths = 1 .. Len(r.lengths)
    BY DEF Posed
  <1>2. \A i \in 1 .. Len(r.lengths) : r.lengths[i] \in Nat
    BY <1>1 DEF Posed
  <1>3. r.kind # "gather" => Total(r) = r.lengths[1]
    BY DEF Total
  <1> QED
    BY <1>1, <1>2, <1>3 DEF Posed, Valid, Size

(* The contribution of a rank to a cell, where the inputs are as long. *)
LEMMA SentIs ==
    ASSUME NEW r, Posed(r), r.kind # "gather", NEW src \in 1 .. Size(r), NEW k \in 1 .. Total(r)
    PROVE  Sent(r, Contributions(r), src, k) = <<<<src, k>>>> /\ Contributions(r)[src][k] = <<<<src, k>>>>
  <1>1. r.lengths[src] = Total(r) /\ Total(r) \in Nat
    BY PosedSizes
  <1>2. k - 0 = k
    BY <1>1
  <1> QED
    BY <1>1, <1>2 DEF Sent, SourceBase, Contributions

(* The cells of a range of rank d are sums over the first i ranks of its order. *)
Upto(r, d, k, i) == [j \in 1 .. i |-> <<Order(r, d)[j], k>>]
PartlyFrom(r, st, new, d, range, i) ==
    /\ Memory(r, new)
    /\ \A e \in 1 .. Size(r) : \A k \in 1 .. Total(r) :
         new.output[e][k] = IF e = d /\ k \in Cells(range) THEN Upto(r, d, k, i) ELSE st.output[e][k]

(* One contribution more. *)
LEMMA UptoGrows ==
    ASSUME NEW r, NEW d, NEW k, NEW i \in Nat
    PROVE  Upto(r, d, k, i) \o <<<<Order(r, d)[i + 1], k>>>> = Upto(r, d, k, i + 1)
  <1> DEFINE f == [j \in Nat |-> <<Order(r, d)[j], k>>]
             X == {f[j] : j \in Nat}
             x == f[i + 1]
             s == Upto(r, d, k, i)
             t == <<x>>
             w == Upto(r, d, k, i + 1)
  <1>1. x = <<Order(r, d)[i + 1], k>> /\ x \in X /\ \A j \in Nat : f[j] \in X
    OBVIOUS
  <1>2. s = [j \in 1 .. i |-> f[j]] /\ w = [j \in 1 .. i + 1 |-> f[j]]
    BY DEF Upto
  <1> HIDE DEF f, X, x, s, w
  <1>3. s \in Seq(X) /\ Len(s) = i /\ w \in Seq(X) /\ Len(w) = i + 1
    <2>1. s \in [1 .. i -> X] /\ w \in [1 .. i + 1 -> X] /\ i + 1 \in Nat
      BY <1>1, <1>2
    <2> QED
      BY ONLY <2>1, i \in Nat
  <1>4. t \in Seq(X) /\ Len(t) = 1 /\ t[1] = x
    BY <1>1
  <1> HIDE DEF t
  <1>5. s \in Seq(X) /\ t \in Seq(X)
    BY <1>3, <1>4
  <1>6. /\ s \o t \in Seq(X) /\ Len(s \o t) = Len(s) + Len(t)
        /\ \A j \in 1 .. Len(s) + Len(t) : (s \o t)[j] = IF j <= Len(s) THEN s[j] ELSE t[j - Len(s)]
    BY ONLY <1>5
  <1> DEFINE v == s \o t
  <1>7. v \in Seq(X) /\ Len(v) = i + 1 /\ \A j \in 1 .. i + 1 : v[j] = IF j <= i THEN s[j] ELSE t[j - i]
    BY <1>3, <1>4, <1>6
  <1> HIDE DEF v
  <1>8. ASSUME NEW j \in 1 .. i + 1 PROVE v[j] = w[j]
    <2>1. CASE j <= i
      BY <1>2, <1>7, <2>1
    <2>2. CASE ~(j <= i)
      <3>1. j = i + 1 /\ j - i = 1
        BY <2>2
      <3>2. v[j] = x /\ w[j] = f[j]
        BY <1>2, <1>4, <1>7, <2>2, <3>1
      <3> QED
        BY <3>1, <3>2 DEF x
    <2> QED
      BY <2>1, <2>2
  <1>9. v = w
    BY <1>3, <1>7, <1>8
  <1> QED
    BY <1>1, <1>9 DEF v, s, t, w

(* The contribution of a further rank is received and added. *)
LEMMA AddedDoes ==
    ASSUME NEW r, Posed(r), r.kind # "gather", NEW d \in 1 .. Size(r),
           NEW range \in [start : Nat, len : Nat], NEW last \in Nat, NEW i \in Nat,
           i + 1 \in 1 .. Size(r), Order(r, d)[i + 1] \in 1 .. Size(r), Order(r, d)[i + 1] # d,
           NEW st, NEW mid, PartlyFrom(r, st, mid, d, range, i)
    PROVE  /\ Added(Order(r, d)[i + 1], d, range, last) \in Seq(Steps(r))
           /\ PartlyFrom(r, st, Ran(r, mid, Added(Order(r, d)[i + 1], d, range, last)), d, range, i + 1)
  <1> DEFINE src == Order(r, d)[i + 1]
             g == Contributions(r)
             R == Cells(range)
             a == Action("transfer", src, d, range, {})
             b == Action("sum", src, d, range, {last, last + 1})
             half == Apply(r, g, mid, a)
             new == Apply(r, g, half, b)
  <1>0. src \in 1 .. Size(r) /\ src # d
    OBVIOUS
  <1>1. /\ a \in Steps(r) /\ a.op = "transfer" /\ a.src = src /\ a.dst = d /\ a.range = range
        /\ b \in Steps(r) /\ b.op = "sum" /\ b.src = src /\ b.dst = d /\ b.range = range
    <2> HIDE DEF src
    <2>1. {last, last + 1} \in SUBSET Nat
      OBVIOUS
    <2> QED
      BY <1>0, <2>1 DEF Action, Steps
  <1>2. Added(src, d, range, last) = <<a, b>>
    BY DEF Added
  <1> HIDE DEF src, g, R, a, b
  <1>3. <<a, b>> \in Seq(Steps(r))
    BY <1>1
  <1>4. Memory(r, mid)
    BY DEF PartlyFrom
  <1>5. CellsAfter(r, g, mid, a, half)
    BY <1>1, <1>4, AppliedCells
  <1>6. Memory(r, half)
    BY <1>5 DEF CellsAfter
  <1>7. CellsAfter(r, g, half, b, new)
    BY <1>1, <1>6, AppliedCells
  <1>8. Ran(r, mid, <<a, b>>) = new
    BY RanTwo DEF g
  <1> HIDE DEF half, new
  <1>9. Memory(r, new)
    BY <1>7 DEF CellsAfter
  <1>10. \A e \in 1 .. Size(r) : \A k \in 1 .. Total(r) :
           /\ half.output[e][k] = mid.output[e][k]
           /\ e = d /\ k \in R => half.inbox[e][k] = Sent(r, g, src, k)
    BY <1>1, <1>5 DEF CellsAfter, R
  <1>11. \A e \in 1 .. Size(r) : \A k \in 1 .. Total(r) :
           new.output[e][k] = IF e = d /\ k \in R THEN half.output[e][k] \o half.inbox[e][k]
                              ELSE half.output[e][k]
    BY <1>1, <1>7 DEF CellsAfter, R, Add
  <1>12. \A e \in 1 .. Size(r) : \A k \in 1 .. Total(r) :
           mid.output[e][k] = IF e = d /\ k \in R THEN Upto(r, d, k, i) ELSE st.output[e][k]
    BY DEF PartlyFrom, R
  <1>13. \A k \in 1 .. Total(r) : Sent(r, g, src, k) = <<<<src, k>>>>
    BY <1>0, SentIs DEF g
  <1>14. \A k : Upto(r, d, k, i) \o <<<<src, k>>>> = Upto(r, d, k, i + 1)
    BY UptoGrows DEF src
  <1>15. \A e \in 1 .. Size(r) : \A k \in 1 .. Total(r) :
           new.output[e][k] = IF e = d /\ k \in R THEN Upto(r, d, k, i + 1) ELSE st.output[e][k]
    <2> TAKE e \in 1 .. Size(r)
    <2> TAKE k \in 1 .. Total(r)
    <2>1. CASE e = d /\ k \in R
      <3>1. new.output[e][k] = half.output[e][k] \o half.inbox[e][k]
        BY <1>11, <2>1
      <3>2. half.output[e][k] = Upto(r, d, k, i) /\ half.inbox[e][k] = <<<<src, k>>>>
        BY <1>10, <1>12, <1>13, <2>1
      <3>3. new.output[e][k] = Upto(r, d, k, i) \o <<<<src, k>>>>
        BY ONLY <3>1, <3>2
      <3> QED
        BY <1>14, <2>1, <3>3
    <2>2. CASE ~(e = d /\ k \in R)
      BY <1>10, <1>11, <1>12, <2>2
    <2> QED
      BY <2>1, <2>2
  <1>16. PartlyFrom(r, st, new, d, range, i + 1)
    BY <1>9, <1>15 DEF PartlyFrom, R
  <1> QED
    BY <1>2, <1>3, <1>8, <1>16 DEF src

(* A rank's own contribution is copied. *)
LEMMA CopiedDoes ==
    ASSUME NEW r, Posed(r), r.kind # "gather", NEW d \in 1 .. Size(r),
           NEW range \in [start : Nat, len : Nat], NEW st, Memory(r, st)
    PROVE  /\ <<Action("copy", d, d, range, {})>> \in Seq(Steps(r))
           /\ PartlyFrom(r, st, Ran(r, st, <<Action("copy", d, d, range, {})>>), d, range, 1)
  <1> DEFINE g == Contributions(r)
             R == Cells(range)
             a == Action("copy", d, d, range, {})
             new == Apply(r, g, st, a)
  <1>1. a \in Steps(r) /\ a.op = "copy" /\ a.src = d /\ a.dst = d /\ a.range = range
    BY DEF Action, Steps
  <1> HIDE DEF g, R, a
  <1>2. <<a>> \in Seq(Steps(r))
    BY <1>1
  <1>3. CellsAfter(r, g, st, a, new)
    BY <1>1, AppliedCells
  <1>4. Ran(r, st, <<a>>) = new
    BY RanOne DEF g
  <1> HIDE DEF new
  <1>5. \A k \in 1 .. Total(r) : Sent(r, g, d, k) = Upto(r, d, k, 1)
    <2>1. Order(r, d)[1] = d
      BY PosedSizes, OrderIs DEF OrderOK
    <2>2. \A k \in 1 .. Total(r) : Sent(r, g, d, k) = <<<<d, k>>>>
      BY SentIs DEF g
    <2>3. \A k : Upto(r, d, k, 1) = <<<<d, k>>>>
      <3> TAKE k
      <3> DEFINE x == <<d, k>>
      <3>1. Upto(r, d, k, 1) = [j \in 1 .. 1 |-> x]
        <4>1. \A j \in 1 .. 1 : j = 1
          OBVIOUS
        <4> QED
          BY <2>1, <4>1 DEF Upto
      <3> HIDE DEF x
      <3>2. [j \in 1 .. 1 |-> x] = <<x>>
        OBVIOUS
      <3> QED
        BY <3>1, <3>2 DEF x
    <2> QED
      BY <2>2, <2>3
  <1>6. \A e \in 1 .. Size(r) : \A k \in 1 .. Total(r) :
          new.output[e][k] = IF e = d /\ k \in R THEN Sent(r, g, d, k) ELSE st.output[e][k]
    BY <1>1, <1>3 DEF CellsAfter, R
  <1>7. PartlyFrom(r, st, new, d, range, 1)
    BY <1>3, <1>5, <1>6 DEF PartlyFrom, CellsAfter, R
  <1> QED
    BY <1>2, <1>4, <1>7 DEF a

(* A rank's reduction leaves every contribution once in the cells of its range. *)
LEMMA ReducedServes ==
    ASSUME NEW r, Posed(r), r.kind \in {"scatter", "reduce"}, NEW d \in 1 .. Size(r),
           NEW range \in [start : Nat, len : Nat], NEW base \in Nat
    PROVE  Serves(Reduced(r, d, range, base), r, {d} \X Cells(range))
  <1> DEFINE n == Size(r)
             o == Others(r, d)
             own == <<Action("copy", d, d, range, {})>>
             m == Adds(d, range, base + 1)
             rest == Fold(m, <<>>, o)
             w == Order(r, d)
             X == Steps(r)
  <1>1. /\ n \in Nat /\ n >= 1 /\ o \in Seq(1 .. n) /\ Len(o) = n - 1 /\ DOMAIN o = 1 .. n - 1
        /\ \A i \in 1 .. n - 1 : w[i + 1] = o[i] /\ o[i] \in 1 .. n /\ o[i] # d
        /\ \A i \in 1 .. n : \E j \in 1 .. n : w[j] = i
        /\ \A j \in 1 .. n : w[j] \in 1 .. n
    <2>1. n \in Nat /\ n >= 1
      BY PosedSizes
    <2>2. o \in Seq(1 .. n) /\ Len(o) = n - 1
      BY <2>1, OthersAre
    <2>3. DOMAIN o = 1 .. n - 1
      <3> HIDE DEF o, n
      <3> QED
        BY <2>2
    <2>4. /\ w \in Seq(1 .. n) /\ Len(w) = n
          /\ \A i \in 1 .. n - 1 : w[i + 1] = o[i] /\ o[i] \in 1 .. n /\ o[i] # d
          /\ \A i \in 1 .. n : \E j \in 1 .. n : w[j] = i
      <3>1. Size(r) \in Nat /\ d \in 1 .. Size(r)
        BY <2>1
      <3>2. OrderOK(r, d)
        BY ONLY <3>1, OrderIs
      <3> QED
        BY <3>2 DEF OrderOK
    <2>5. \A j \in 1 .. n : w[j] \in 1 .. n
      <3> DEFINE S == 1 .. n
      <3>1. w \in Seq(S) /\ Len(w) = n
        BY <2>4
      <3> HIDE DEF w, n, S
      <3>2. \A j \in 1 .. n : w[j] \in S
        BY ONLY <3>1
      <3> QED
        BY <3>2 DEF S
    <2> QED
      BY <2>1, <2>2, <2>3, <2>4, <2>5
  <1>2. Reduced(r, d, range, base) = own \o rest
    <2>1. Reduced(r, d, range, base) = own \o AddedAll(<<>>, o, d, range, base + 1)
      BY DEF Reduced, Each, AddedAll, Added
    <2> QED
      BY <2>1, AddedFolds
  <1>3. PICK p : FoldRun(p, m, n - 1, <<>>, o) /\ rest = p[n - 1]
    <2> DEFINE l == n - 1
               e == <<>>
    <2>1. l \in Nat /\ DOMAIN o = 1 .. l
      BY <1>1
    <2> HIDE DEF l, m, e, o
    <2>2. \E p : FoldRun(p, m, l, e, o) /\ Fold(m, e, o) = p[l]
      BY ONLY <2>1, FoldRuns
    <2> QED
      BY <2>2 DEF l, e
  <1>4. p[0] = <<>> /\ \A i \in 1 .. n - 1 : p[i] = p[i - 1] \o Added(o[i], d, range, (base + 1) + Len(p[i - 1]))
    <2>1. \A acc, x : Further(m, acc, x) = acc \o Added(x, d, range, (base + 1) + Len(acc))
      BY FurtherIs
    <2> HIDE DEF m
    <2> QED
      BY <1>3, <2>1 DEF FoldRun
  <1> HIDE DEF n, o, own, m, rest, w, X
  <1>5. ASSUME NEW st, Memory(r, st)
        PROVE  /\ own \in Seq(X) /\ rest \in Seq(X)
               /\ PartlyFrom(r, st, Ran(r, Ran(r, st, own), rest), d, range, n)
    <2> DEFINE first == Ran(r, st, own)
    <2>1. own \in Seq(X) /\ PartlyFrom(r, st, first, d, range, 1)
      BY <1>5, CopiedDoes DEF own, X
    <2> HIDE DEF first
    <2> DEFINE G == {i \in Nat : i <= n - 1 =>
                        p[i] \in Seq(X) /\ PartlyFrom(r, st, Ran(r, first, p[i]), d, range, i + 1)}
    <2>2. 0 \in G
      <3>1. Ran(r, first, p[0]) = first /\ 0 + 1 = 1 /\ p[0] \in Seq(X)
        BY <1>4, RanNone
      <3> QED
        BY <2>1, <3>1
    <2>3. ASSUME NEW i \in Nat, i \in G PROVE i + 1 \in G
      <3> SUFFICES ASSUME i + 1 <= n - 1
                   PROVE  p[i + 1] \in Seq(X) /\ PartlyFrom(r, st, Ran(r, first, p[i + 1]), d, range, (i + 1) + 1)
        OBVIOUS
      <3>1. i + 1 \in 1 .. n - 1 /\ (i + 1) - 1 = i /\ i <= n - 1 /\ (i + 1) + 1 \in 1 .. n /\ i + 1 \in Nat
        BY <1>1
      <3> DEFINE j == i + 1
                 last == (base + 1) + Len(p[i])
                 mid == Ran(r, first, p[i])
                 more == Added(w[j + 1], d, range, last)
      <3>2. p[i] \in Seq(X) /\ PartlyFrom(r, st, mid, d, range, j)
        BY <2>3, <3>1
      <3>3. p[j] = p[i] \o more
        BY <1>1, <1>4, <3>1
      <3>4. last \in Nat
        <4> DEFINE l == Len(p[i])
        <4>1. l \in Nat
          BY <3>2
        <4> HIDE DEF l
        <4>2. (base + 1) + l \in Nat
          BY <4>1
        <4> QED
          BY <4>2 DEF l
      <3> HIDE DEF last, mid, G
      <3>5. w[j + 1] \in 1 .. n /\ w[j + 1] # d /\ j + 1 \in 1 .. n /\ j \in Nat
        BY <1>1, <3>1
      <3> HIDE DEF j
      <3>6. more \in Seq(X) /\ PartlyFrom(r, st, Ran(r, mid, more), d, range, j + 1)
        BY <3>2, <3>4, <3>5, AddedDoes DEF w, n, X
      <3> HIDE DEF more
      <3>7. p[i] \o more \in Seq(X) /\ Ran(r, first, p[i] \o more) = Ran(r, mid, more)
        BY <3>2, <3>6, RanJoins DEF X, mid
      <3>8. p[j] \in Seq(X) /\ PartlyFrom(r, st, Ran(r, first, p[j]), d, range, j + 1)
        BY <3>3, <3>6, <3>7
      <3> QED
        BY <3>8 DEF j
    <2> HIDE DEF G
    <2>4. \A i \in Nat : i \in G
      BY <2>2, <2>3, CountUp
    <2>5. n - 1 \in Nat /\ (n - 1) + 1 = n /\ n - 1 <= n - 1
      BY <1>1
    <2>6. p[n - 1] \in Seq(X) /\ PartlyFrom(r, st, Ran(r, first, p[n - 1]), d, range, (n - 1) + 1)
      BY <2>4, <2>5 DEF G
    <2> QED
      BY <1>3, <2>1, <2>5, <2>6 DEF first
  <1>6. ASSUME NEW k PROVE Wanted(r, Upto(r, d, k, n), k)
    <2> DEFINE v == Upto(r, d, k, n)
               f(j) == <<w[j], k>>
               T == {<<i, k>> : i \in 1 .. n}
    <2>1. v = [j \in 1 .. n |-> f(j)]
      BY DEF Upto, w
    <2>2. \A j \in 1 .. n : f(j) \in T
      BY <1>1
    <2>3. \A x \in T : \E j \in 1 .. n : x = f(j)
      <3> TAKE x \in T
      <3>1. PICK i \in 1 .. n : x = <<i, k>>
        OBVIOUS
      <3>2. PICK j \in 1 .. n : w[j] = i
        BY <1>1
      <3> QED
        BY <3>1, <3>2
    <2> HIDE DEF f, T
    <2>4. DOMAIN v = 1 .. n /\ \A j \in 1 .. n : v[j] = f(j)
      BY <2>1
    <2>5. Len(v) = n
      <3>1. v \in [1 .. n -> T]
        BY <2>1, <2>2
      <3> HIDE DEF v
      <3> QED
        BY <1>1, <3>1
    <2> HIDE DEF v
    <2>6. ToSet(v) = T
      BY <2>2, <2>3, <2>4 DEF ToSet
    <2> QED
      BY <2>5, <2>6 DEF Wanted, IsSum, v, T, n
  <1>7. \A st : Memory(r, st) => ServedFrom(r, st, Ran(r, Ran(r, st, own), rest), {d} \X Cells(range))
    <2> TAKE st
    <2> HAVE Memory(r, st)
    <2> DEFINE new == Ran(r, Ran(r, st, own), rest)
               R == Cells(range)
               W == {d} \X R
    <2>1. PartlyFrom(r, st, new, d, range, n)
      BY <1>5
    <2>2. \A e, k : <<e, k>> \in W <=> e = d /\ k \in R
      OBVIOUS
    <2> HIDE DEF new, R, W
    <2>3. ServedFrom(r, st, new, W)
      BY <1>6, <2>1, <2>2 DEF PartlyFrom, ServedFrom, R
    <2> QED
      BY <2>3 DEF new, W, R
  <1>8. own \in Seq(X) /\ rest \in Seq(X)
    BY <1>5, StartIsMemory
  <1>9. own \o rest \in Seq(X) /\ \A st : Ran(r, st, own \o rest) = Ran(r, Ran(r, st, own), rest)
    BY <1>8, RanJoins DEF X
  <1> QED
    BY <1>2, <1>7, <1>9 DEF Serves, X

-----------------------------------------------------------------------------
(* Collectives: how the cells are divided *)

(* Offsets: the first is 0, and each is the one before and a length more. *)
Offsets(off, length, n) ==
    /\ off[0] = 0
    /\ \A i \in 1 .. n : length[i] \in Nat /\ off[i] = off[i - 1] + length[i]

(* Offsets are numbers that do not decrease. *)
LEMMA OffsetsGrow ==
    ASSUME NEW n \in Nat, NEW off, NEW length, Offsets(off, length, n)
    PROVE  /\ \A i \in 0 .. n : off[i] \in Nat
           /\ \A i \in 0 .. n : \A j \in 0 .. i : off[j] <= off[i]
  <1> DEFINE G == {i \in Nat : i <= n => off[i] \in Nat /\ \A j \in 0 .. i : off[j] <= off[i]}
  <1>1. 0 \in G
    <2>1. off[0] = 0 /\ \A j \in 0 .. 0 : j = 0
      BY DEF Offsets
    <2> QED
      BY <2>1
  <1>2. ASSUME NEW i \in Nat, i \in G PROVE i + 1 \in G
    <2> SUFFICES ASSUME i + 1 <= n PROVE off[i + 1] \in Nat /\ \A j \in 0 .. i + 1 : off[j] <= off[i + 1]
      OBVIOUS
    <2>1. i + 1 \in 1 .. n /\ (i + 1) - 1 = i /\ i <= n
      OBVIOUS
    <2>2. length[i + 1] \in Nat /\ off[i + 1] = off[i] + length[i + 1]
      BY <2>1 DEF Offsets
    <2>3. off[i] \in Nat /\ \A j \in 0 .. i : off[j] <= off[i] /\ off[j] \in Nat
      <3>1. off[i] \in Nat /\ \A j \in 0 .. i : off[j] <= off[i]
        BY <1>2, <2>1
      <3> DEFINE H == {j \in Nat : j <= i => off[j] \in Nat}
      <3>2. 0 \in H
        BY DEF Offsets
      <3>3. ASSUME NEW j \in Nat, j \in H PROVE j + 1 \in H
        <4> SUFFICES ASSUME j + 1 <= i PROVE off[j + 1] \in Nat
          OBVIOUS
        <4>1. j + 1 \in 1 .. n /\ (j + 1) - 1 = j /\ off[j] \in Nat
          BY <2>1, <3>3
        <4>2. length[j + 1] \in Nat /\ off[j + 1] = off[j] + length[j + 1]
          BY <4>1 DEF Offsets
        <4> QED
          BY <4>1, <4>2
      <3> HIDE DEF H
      <3>4. \A j \in Nat : j \in H
        BY <3>2, <3>3, CountUp
      <3> QED
        BY <3>1, <3>4 DEF H
    <2> DEFINE x == off[i]
               y == off[i + 1]
               z == length[i + 1]
    <2>4. x \in Nat /\ z \in Nat /\ y = x + z /\ \A j \in 0 .. i : off[j] <= x /\ off[j] \in Nat
      BY <2>2, <2>3
    <2>5. \A j \in 0 .. i + 1 : j \in 0 .. i \/ j = i + 1
      OBVIOUS
    <2> HIDE DEF x, z
    <2>6. y \in Nat /\ x <= y /\ y <= y
      BY <2>4
    <2>7. ASSUME NEW j \in 0 .. i + 1 PROVE off[j] <= y
      <3>1. CASE j \in 0 .. i
        <4>1. off[j] <= x /\ off[j] \in Nat
          BY <2>4, <3>1
        <4> HIDE DEF y
        <4> QED
          BY <2>4, <2>6, <4>1
      <3>2. CASE j = i + 1
        BY <2>6, <3>2
      <3> QED
        BY <2>5, <3>1, <3>2
    <2> QED
      BY <2>6, <2>7
  <1> HIDE DEF G
  <1>3. \A i \in Nat : i \in G
    BY <1>1, <1>2, CountUp
  <1> QED
    BY <1>3 DEF G

(* Every cell up to the last offset has its place between two offsets. *)
LEMMA OffsetsCover ==
    ASSUME NEW n \in Nat, NEW off, NEW length, Offsets(off, length, n), NEW k \in 1 .. off[n]
    PROVE  \E i \in 1 .. n : k - off[i - 1] \in 1 .. length[i] /\ off[i - 1] + (k - off[i - 1]) = k
  <1> DEFINE G == {j \in Nat : j <= n => (k <= off[j] =>
                      \E i \in 1 .. n : k - off[i - 1] \in 1 .. length[i]
                                        /\ off[i - 1] + (k - off[i - 1]) = k)}
  <1>0. \A i \in 0 .. n : off[i] \in Nat
    BY OffsetsGrow
  <1>k. k \in Nat /\ k >= 1 /\ k <= off[n]
    <2>1. off[n] \in Nat
      BY <1>0
    <2> QED
      BY <2>1
  <1>1. 0 \in G
    <2>1. off[0] = 0
      BY DEF Offsets
    <2> QED
      BY <1>k, <2>1
  <1>2. ASSUME NEW j \in Nat, j \in G PROVE j + 1 \in G
    <2> SUFFICES ASSUME j + 1 <= n, k <= off[j + 1]
                 PROVE  \E i \in 1 .. n : k - off[i - 1] \in 1 .. length[i]
                                          /\ off[i - 1] + (k - off[i - 1]) = k
      OBVIOUS
    <2>1. CASE k <= off[j]
      BY <1>2, <2>1
    <2>2. CASE ~(k <= off[j])
      <3>1. j + 1 \in 1 .. n /\ (j + 1) - 1 = j /\ j \in 0 .. n /\ j + 1 \in 0 .. n
        OBVIOUS
      <3> DEFINE x == off[j]
                 z == length[j + 1]
      <3>2. x \in Nat /\ z \in Nat /\ off[j + 1] = x + z /\ k <= x + z /\ ~(k <= x)
        BY <1>0, <2>2, <3>1 DEF Offsets
      <3> HIDE DEF x, z, G
      <3>3. k - x \in 1 .. z /\ x + (k - x) = k
        BY <1>k, <3>2
      <3> QED
        BY <3>1, <3>3 DEF x, z
    <2> QED
      BY <2>1, <2>2
  <1> HIDE DEF G
  <1>3. n \in G
    BY <1>1, <1>2, CountUp
  <1> QED
    BY <1>3, <1>k DEF G

(* The chunks of a number of cells, one after the other. *)
ChunkOffset(count, n) == [i \in 0 .. n |-> Chunk(count, n, i + 1).start]
ChunkLength(count, n) == [i \in 1 .. n |-> Chunk(count, n, i).len]

(* They cover the cells, each from where the one before ends. *)
LEMMA ChunksTile ==
    ASSUME NEW count \in Nat, NEW n \in Nat, n >= 1
    PROVE  /\ Offsets(ChunkOffset(count, n), ChunkLength(count, n), n)
           /\ ChunkOffset(count, n)[n] = count
           /\ \A i \in 1 .. n : /\ Chunk(count, n, i) \in [start : Nat, len : Nat]
                                /\ Chunk(count, n, i).start = ChunkOffset(count, n)[i - 1]
                                /\ Chunk(count, n, i).len = ChunkLength(count, n)[i]
  <1> DEFINE q == count \div n
             m == count % n
             s(i) == (i - 1) * q + (IF i - 1 < m THEN i - 1 ELSE m)
             l(i) == q + (IF i <= m THEN 1 ELSE 0)
  <1>1. q \in Nat /\ m \in Nat /\ m < n /\ n * q + m = count
    OBVIOUS
  <1>2. \A i : Chunk(count, n, i) = [start |-> s(i), len |-> l(i)]
    BY DEF Chunk
  <1> HIDE DEF q, m
  <1>3. ASSUME NEW i \in 0 .. n PROVE s(i + 1) = i * q + (IF i < m THEN i ELSE m) /\ s(i + 1) \in Nat
    <2>1. (i + 1) - 1 = i /\ i * q \in Nat
      BY <1>1
    <2> DEFINE a == i * q
    <2> HIDE DEF a
    <2>2. a \in Nat /\ s(i + 1) = a + (IF i < m THEN i ELSE m)
      BY <2>1 DEF a
    <2>3. a + (IF i < m THEN i ELSE m) \in Nat
      BY <1>1, <2>2
    <2> QED
      BY <2>2, <2>3 DEF a
  <1>4. ASSUME NEW i \in 1 .. n PROVE l(i) \in Nat /\ s(i) \in Nat /\ s(i + 1) = s(i) + l(i)
    <2>1. i - 1 \in 0 .. n /\ i \in 0 .. n /\ (i - 1) + 1 = i
      OBVIOUS
    <2>2. l(i) \in Nat
      BY <1>1
    <2>3. i * q = (i - 1) * q + q /\ (i - 1) * q \in Nat
      BY <1>1, <2>1
    <2> DEFINE a == (i - 1) * q
               b == i * q
    <2>4. b = a + q /\ a \in Nat
      BY <2>3
    <2>5. s(i) = a + (IF i - 1 < m THEN i - 1 ELSE m)
      OBVIOUS
    <2>6. s(i + 1) = b + (IF i < m THEN i ELSE m) /\ s(i) \in Nat
      BY <1>3, <2>1
    <2> HIDE DEF a, b
    <2>7. (b + (IF i < m THEN i ELSE m)) = (a + (IF i - 1 < m THEN i - 1 ELSE m)) + (q + (IF i <= m THEN 1 ELSE 0))
      BY <1>1, <2>1, <2>4
    <2> QED
      BY <2>2, <2>5, <2>6, <2>7
  <1>5. s(1) = 0
    <2>1. 1 - 1 = 0 /\ 0 * q = 0
      BY <1>1
    <2> QED
      BY <1>1, <2>1
  <1>6. s(n + 1) = count
    <2>1. n \in 0 .. n /\ ~(n < m)
      BY <1>1
    <2> QED
      BY <1>1, <1>3, <2>1
  <1> HIDE DEF s, l
  <1> DEFINE off == ChunkOffset(count, n)
             len == ChunkLength(count, n)
  <1>7. \A i \in 0 .. n : off[i] = s(i + 1)
    BY <1>2 DEF ChunkOffset
  <1>8. \A i \in 1 .. n : len[i] = l(i)
    BY <1>2 DEF ChunkLength
  <1> HIDE DEF off, len
  <1>9. off[0] = 0 /\ off[n] = count
    <2>1. 0 \in 0 .. n /\ n \in 0 .. n /\ 0 + 1 = 1
      OBVIOUS
    <2> QED
      BY <1>5, <1>6, <1>7, <2>1
  <1>10. ASSUME NEW i \in 1 .. n PROVE off[i - 1] = s(i) /\ off[i] = s(i + 1)
    <2>1. i - 1 \in 0 .. n /\ i \in 0 .. n /\ (i - 1) + 1 = i
      OBVIOUS
    <2> QED
      BY <1>7, <2>1
  <1>11. Offsets(off, len, n)
    BY <1>4, <1>8, <1>9, <1>10 DEF Offsets
  <1>12. \A i \in 1 .. n : Chunk(count, n, i) \in [start : Nat, len : Nat]
    BY <1>2, <1>4
  <1>13. \A i \in 1 .. n : Chunk(count, n, i).start = off[i - 1] /\ Chunk(count, n, i).len = len[i]
    BY <1>2, <1>8, <1>10
  <1> QED
    BY <1>9, <1>11, <1>12, <1>13 DEF off, len

(* The inputs of a gather, one after the other. *)
GivenOffset(r) == [i \in 0 .. Size(r) |-> Before(r, i + 1)]

(* The sums of the lengths are folds. *)
LEMMA SumsFold ==
    ASSUME NEW seq PROVE FoldLeft(+, 0, seq) = Fold(Sums, 0, seq)
  <1> DEFINE E(a, x) == a + x
             F(a, x) == Further(Sums, a, x)
  <1>1. \A a, x : E(a, x) = F(a, x)
    BY FurtherIs
  <1>2. FoldLeft(+, 0, seq) = FoldLeft(LAMBDA a, x : E(a, x), 0, seq)
    BY DEF FoldLeft, MapThenFoldSet
  <1> HIDE DEF E, F
  <1>3. FoldLeft(LAMBDA a, x : E(a, x), 0, seq) = FoldLeft(LAMBDA a, x : F(a, x), 0, seq)
    BY <1>1 DEF FoldLeft, MapThenFoldSet
  <1> QED
    BY <1>2, <1>3 DEF F, Fold

(* The inputs of a gather cover its outputs, each from where the one before ends. *)
LEMMA InputsTile ==
    ASSUME NEW r, Posed(r), r.kind = "gather"
    PROVE  /\ Offsets(GivenOffset(r), r.lengths, Size(r))
           /\ GivenOffset(r)[Size(r)] = Total(r) /\ Total(r) \in Nat
           /\ \A i \in 1 .. Size(r) : /\ Given(r, i) \in [start : Nat, len : Nat]
                                      /\ Before(r, i) = GivenOffset(r)[i - 1]
  <1> DEFINE n == Size(r)
             l == r.lengths
             m == Sums
             off == GivenOffset(r)
  <1>1. n \in Nat /\ n >= 1 /\ l \in Seq(Nat) /\ DOMAIN l = 1 .. n /\ \A i \in 1 .. n : l[i] \in Nat
    BY PosedSizes DEF Posed, Size
  <1>2. \A acc, x : Further(m, acc, x) = acc + x
    BY FurtherIs
  <1>3. \A seq : FoldLeft(+, 0, seq) = Fold(m, 0, seq)
    BY SumsFold
  <1>l. Len(l) = n
    BY DEF Size
  <1>t. Total(r) = Fold(m, 0, l)
    BY <1>3 DEF Total
  <1>b. \A i : Before(r, i) = Fold(m, 0, SubSeq(l, 1, i - 1))
    BY <1>3 DEF Before
  <1>d. \A i \in 0 .. n : off[i] = Before(r, i + 1)
    BY DEF GivenOffset
  <1> HIDE DEF n, l, m, off
  <1>4. PICK p : FoldRun(p, m, n, 0, l) /\ Fold(m, 0, l) = p[n]
    <2>1. n \in Nat /\ DOMAIN l = 1 .. n
      BY <1>1
    <2> QED
      BY ONLY <2>1, FoldRuns
  <1>5. p[0] = 0 /\ \A i \in 1 .. n : p[i] = p[i - 1] + l[i]
    BY <1>2, <1>4 DEF FoldRun
  <1>6. Offsets(p, l, n)
    BY <1>1, <1>5 DEF Offsets
  <1>7. ASSUME NEW i \in 0 .. n PROVE off[i] = p[i] /\ p[i] \in Nat
    <2> DEFINE s == SubSeq(l, 1, i)
    <2>1. DOMAIN s = 1 .. i /\ \A j \in 1 .. i : s[j] = l[j]
      BY <1>1, <1>l
    <2> HIDE DEF s
    <2>2. i \in Nat /\ \A j \in 1 .. i : j \in 1 .. n
      BY <1>1
    <2>3. FoldRun(p, m, i, 0, s)
      BY <1>4, <2>1, <2>2 DEF FoldRun
    <2>4. i \in Nat /\ DOMAIN s = 1 .. i /\ FoldRun(p, m, i, 0, s)
      BY <2>1, <2>2, <2>3
    <2>5. Fold(m, 0, s) = p[i]
      BY ONLY <2>4, FoldIsLast
    <2>6. (i + 1) - 1 = i
      OBVIOUS
    <2>7. Before(r, i + 1) = Fold(m, 0, s)
      BY <1>b, <2>6 DEF s
    <2>8. p[i] \in Nat
      BY <1>1, <1>6, OffsetsGrow
    <2> QED
      BY <1>d, <2>5, <2>7, <2>8
  <1>8. off[n] = Total(r) /\ Total(r) \in Nat
    <2>1. n \in 0 .. n
      BY <1>1
    <2> QED
      BY <1>4, <1>7, <1>t, <2>1
  <1>9. Offsets(off, l, n)
    <2>1. 0 \in 0 .. n /\ \A i \in 1 .. n : i \in 0 .. n /\ i - 1 \in 0 .. n
      BY <1>1
    <2> QED
      BY <1>1, <1>5, <1>7, <2>1 DEF Offsets
  <1>10. ASSUME NEW i \in 1 .. n PROVE Given(r, i) \in [start : Nat, len : Nat] /\ Before(r, i) = off[i - 1]
    <2>1. i - 1 \in 0 .. n /\ (i - 1) + 1 = i
      BY <1>1
    <2>2. Before(r, i) = off[i - 1]
      BY <1>d, <2>1
    <2>3. Before(r, i) \in Nat
      BY <1>7, <2>1, <2>2
    <2> QED
      BY <1>1, <2>2, <2>3 DEF Given, l
  <1> QED
    BY <1>8, <1>9, <1>10 DEF n, l, off

-----------------------------------------------------------------------------
(* Collectives: what the plan serves *)

(* A fold makes for each element a block of actions that serves its cells. *)
MakesBlocks(m, r, n, seq, W) ==
    \A i \in 1 .. n : \A acc \in Seq(Steps(r)) :
        \E block : Further(m, acc, seq[i]) = acc \o block /\ Serves(block, r, W[i])

(* The cells of the first n. *)
AllOf(W, n) == UNION {W[i] : i \in 1 .. n}

(* Together the blocks serve all the cells. *)
LEMMA FoldServes ==
    ASSUME NEW r, NEW m, NEW n \in Nat, NEW seq, DOMAIN seq = 1 .. n, NEW W,
           MakesBlocks(m, r, n, seq, W)
    PROVE  Serves(Fold(m, <<>>, seq), r, AllOf(W, n))
  <1> DEFINE U(k) == UNION {W[i] : i \in 1 .. k}
             none == <<>>
  <1>1. PICK p : FoldRun(p, m, n, none, seq) /\ Fold(m, none, seq) = p[n]
    <2> HIDE DEF none
    <2>1. n \in Nat /\ DOMAIN seq = 1 .. n
      OBVIOUS
    <2> QED
      BY ONLY <2>1, FoldRuns
  <1> DEFINE G == {k \in Nat : k <= n => Serves(p[k], r, U(k))}
  <1>2. 0 \in G
    <2>1. p[0] = <<>>
      BY <1>1 DEF FoldRun
    <2>2. U(0) = {}
      OBVIOUS
    <2> HIDE DEF U
    <2> QED
      BY <2>1, <2>2, NothingServes
  <1>3. ASSUME NEW k \in Nat, k \in G PROVE k + 1 \in G
    <2> SUFFICES ASSUME k + 1 <= n PROVE Serves(p[k + 1], r, U(k + 1))
      OBVIOUS
    <2>1. Serves(p[k], r, U(k)) /\ k + 1 \in 1 .. n /\ (k + 1) - 1 = k
      BY <1>3
    <2> HIDE DEF G
    <2>2. p[k] \in Seq(Steps(r))
      BY <2>1 DEF Serves
    <2>3. p[k + 1] = Further(m, p[k], seq[k + 1])
      BY <1>1, <2>1 DEF FoldRun
    <2>4. PICK block : Further(m, p[k], seq[k + 1]) = p[k] \o block /\ Serves(block, r, W[k + 1])
      BY <2>1, <2>2 DEF MakesBlocks
    <2>5. U(k + 1) = U(k) \cup W[k + 1]
      <3>1. \A i : i \in 1 .. k + 1 <=> i \in 1 .. k \/ i = k + 1
        OBVIOUS
      <3> QED
        BY <3>1
    <2> HIDE DEF U
    <2>6. Serves(p[k] \o block, r, U(k) \cup W[k + 1])
      BY <2>1, <2>4, ServesJoins
    <2> QED
      BY <2>3, <2>4, <2>5, <2>6
  <1> HIDE DEF G
  <1>4. n \in G
    BY <1>2, <1>3, CountUp
  <1>5. Serves(p[n], r, U(n))
    BY <1>4 DEF G
  <1> QED
    BY <1>1, <1>5 DEF AllOf

(* Deliveries from one source to a number of ranks. *)
LEMMA DeliveriesServe ==
    ASSUME NEW r, NEW src \in 1 .. Size(r), NEW range \in [start : Nat, len : Nat], NEW base \in Nat,
           \A k \in 1 .. Total(r) : k \in Cells(range) => Wanted(r, Sent(r, Contributions(r), src, k), k),
           NEW n \in Nat, NEW seq, DOMAIN seq = 1 .. n, \A i \in 1 .. n : seq[i] \in 1 .. Size(r)
    PROVE  Serves(Fold(Delivers(src, range, base), <<>>, seq), r,
                  UNION {{seq[i]} \X Cells(range) : i \in 1 .. n})
  <1> DEFINE m == Delivers(src, range, base)
             W == [i \in 1 .. n |-> {seq[i]} \X Cells(range)]
  <1>1. \A acc, x : Further(m, acc, x) = acc \o Delivered(src, x, range, base + Len(acc))
    BY ONLY FurtherIs
  <1>2. \A i \in 1 .. n : W[i] = {seq[i]} \X Cells(range)
    OBVIOUS
  <1> HIDE DEF m, W
  <1>3. ASSUME NEW i \in 1 .. n, NEW acc \in Seq(Steps(r))
        PROVE  \E block : Further(m, acc, seq[i]) = acc \o block /\ Serves(block, r, W[i])
    <2> DEFINE dst == seq[i]
               b == base + Len(acc)
    <2>1. b \in Nat
      <3> DEFINE l == Len(acc)
      <3>1. l \in Nat
        OBVIOUS
      <3> HIDE DEF l
      <3>2. base + l \in Nat
        BY <3>1
      <3> QED
        BY <3>2 DEF l
    <2>2. dst \in 1 .. Size(r)
      OBVIOUS
    <2> HIDE DEF dst, b
    <2>3. Serves(Delivered(src, dst, range, b), r, {dst} \X Cells(range))
      BY <2>1, <2>2, DeliveredServes
    <2>4. Further(m, acc, dst) = acc \o Delivered(src, dst, range, b)
      BY <1>1 DEF b
    <2> QED
      BY <1>2, <2>3, <2>4 DEF dst
  <1>4. Serves(Fold(m, <<>>, seq), r, AllOf(W, n))
    <2>1. n \in Nat /\ DOMAIN seq = 1 .. n /\ MakesBlocks(m, r, n, seq, W)
      BY <1>3 DEF MakesBlocks
    <2> QED
      BY ONLY <2>1, FoldServes
  <1>5. AllOf(W, n) = UNION {{seq[i]} \X Cells(range) : i \in 1 .. n}
    BY <1>2 DEF AllOf
  <1> QED
    BY <1>4, <1>5 DEF m

(* Every output cell that is kept is served. *)
KeptIsServed(r) ==
    \E W : /\ Serves(Plan(r), r, W)
           /\ \A d \in 1 .. Size(r) : \A k \in Cells(Part(r, d)) : <<d, k>> \in W

(* The plan of a broadcast. *)
LEMMA BroadcastServes ==
    ASSUME NEW r, Posed(r), r.kind = "broadcast" PROVE KeptIsServed(r)
  <1> DEFINE n == Size(r)
             w == Order(r, r.root)
             range == Whole(r)
             m == Delivers(r.root, range, 0)
             W == UNION {{w[i]} \X Cells(range) : i \in 1 .. n}
  <1>1. n \in Nat /\ Total(r) \in Nat /\ r.root \in 1 .. n
    BY PosedSizes DEF Posed, Valid
  <1>2. OrderOK(r, r.root)
    BY <1>1, OrderIs
  <1>3. w \in Seq(1 .. n) /\ Len(w) = n /\ \A i \in 1 .. n : \E j \in 1 .. n : w[j] = i
    BY <1>2 DEF OrderOK
  <1>4. DOMAIN w = 1 .. n /\ \A i \in 1 .. n : w[i] \in 1 .. n
    <2> DEFINE S == 1 .. n
    <2>1. w \in Seq(S) /\ Len(w) = n
      BY <1>3
    <2> HIDE DEF w, n, S
    <2>2. DOMAIN w = 1 .. n /\ \A i \in 1 .. n : w[i] \in S
      BY ONLY <2>1
    <2> QED
      BY <2>2 DEF S
  <1>5. range \in [start : Nat, len : Nat]
    BY <1>1 DEF Whole
  <1>6. \A k \in 1 .. Total(r) : Wanted(r, Sent(r, Contributions(r), r.root, k), k)
    BY <1>1, SentIs DEF Wanted
  <1>7. Plan(r) = Fold(m, <<>>, w)
    BY PlanBroadcasts DEF Order
  <1> HIDE DEF w, range, m
  <1>8. Serves(Fold(m, <<>>, w), r, W)
    <2> DEFINE src == r.root
    <2>1. src \in 1 .. Size(r) /\ n \in Nat /\ DOMAIN w = 1 .. n /\ (\A i \in 1 .. n : w[i] \in 1 .. Size(r))
          /\ (\A k \in 1 .. Total(r) : k \in Cells(range) => Wanted(r, Sent(r, Contributions(r), src, k), k))
          /\ range \in [start : Nat, len : Nat] /\ 0 \in Nat /\ m = Delivers(src, range, 0)
      BY <1>1, <1>4, <1>5, <1>6 DEF m
    <2> HIDE DEF src, n
    <2> QED
      BY ONLY <2>1, DeliveriesServe
  <1>9. \A d \in 1 .. n : \A k \in Cells(range) : <<d, k>> \in W
    <2> TAKE d \in 1 .. n
    <2> TAKE k \in Cells(range)
    <2>1. PICK j \in 1 .. n : w[j] = d
      BY <1>3
    <2>2. <<d, k>> \in {w[j]} \X Cells(range)
      BY <2>1
    <2> QED
      BY <2>2
  <1>10. \A d : Part(r, d) = range
    BY DEF Part, range
  <1> HIDE DEF W
  <1> QED
    BY <1>7, <1>8, <1>9, <1>10 DEF KeptIsServed

(* The plan of a reduction, into whole outputs or into chunks. *)
LEMMA ReductionServes ==
    ASSUME NEW r, Posed(r), r.kind \in {"scatter", "reduce"} PROVE KeptIsServed(r)
  <1> DEFINE n == Size(r)
             m == Reduces(r)
             W == [i \in 1 .. n |-> {i} \X Cells(Part(r, i))]
             w == Ranks(r)
  <1>1. n \in Nat /\ n >= 1 /\ Total(r) \in Nat
    BY PosedSizes
  <1>2. DOMAIN w = 1 .. n /\ \A i \in 1 .. n : w[i] = i
    BY DEF Ranks
  <1>3. \A i \in 1 .. n : Part(r, i) \in [start : Nat, len : Nat]
    <2>1. \A i \in 1 .. n : Chunk(Total(r), n, i) \in [start : Nat, len : Nat]
      BY <1>1, ChunksTile
    <2> QED
      BY <1>1, <2>1 DEF Part, Whole
  <1>4. \A acc, x : Further(m, acc, x) = acc \o Reduced(r, x, Part(r, x), 0 + Len(acc))
    BY FurtherIs
  <1>5. Plan(r) = Fold(m, <<>>, w)
    BY PlanReduces
  <1>6. \A i \in 1 .. n : W[i] = {i} \X Cells(Part(r, i))
    OBVIOUS
  <1> HIDE DEF m, W, w
  <1>7. ASSUME NEW i \in 1 .. n, NEW acc \in Seq(Steps(r))
        PROVE  \E block : Further(m, acc, w[i]) = acc \o block /\ Serves(block, r, W[i])
    <2> DEFINE b == 0 + Len(acc)
               range == Part(r, i)
    <2>1. b \in Nat
      <3> DEFINE l == Len(acc)
      <3>1. l \in Nat
        OBVIOUS
      <3> HIDE DEF l
      <3>2. 0 + l \in Nat
        BY <3>1
      <3> QED
        BY <3>2 DEF l
    <2>2. i \in 1 .. Size(r) /\ range \in [start : Nat, len : Nat]
      BY <1>3
    <2> HIDE DEF b, range
    <2>3. Serves(Reduced(r, i, range, b), r, {i} \X Cells(range))
      BY <2>1, <2>2, ReducedServes
    <2>4. Further(m, acc, i) = acc \o Reduced(r, i, range, b)
      BY <1>4 DEF b, range
    <2> QED
      BY <1>2, <1>6, <2>3, <2>4 DEF range
  <1>8. Serves(Fold(m, <<>>, w), r, AllOf(W, n))
    <2>1. n \in Nat /\ DOMAIN w = 1 .. n /\ MakesBlocks(m, r, n, w, W)
      BY <1>1, <1>2, <1>7 DEF MakesBlocks
    <2> HIDE DEF n
    <2> QED
      BY ONLY <2>1, FoldServes
  <1>9. \A d \in 1 .. n : \A k \in Cells(Part(r, d)) : <<d, k>> \in AllOf(W, n)
    BY <1>6 DEF AllOf
  <1> QED
    BY <1>5, <1>8, <1>9 DEF KeptIsServed

(* The plan of a gather. *)
LEMMA GatherServes ==
    ASSUME NEW r, Posed(r), r.kind = "gather" PROVE KeptIsServed(r)
  <1> DEFINE n == Size(r)
             m == Gathers(r)
             all(src) == UNION {{i} \X Cells(Given(r, src)) : i \in 1 .. n}
             W == [i \in 1 .. n |-> all(i)]
             w == Ranks(r)
  <1>1. n \in Nat /\ n >= 1
    BY PosedSizes
  <1>2. DOMAIN w = 1 .. n /\ \A i \in 1 .. n : w[i] = i
    BY DEF Ranks
  <1>3. \A i \in 1 .. n : Given(r, i) \in [start : Nat, len : Nat]
    BY InputsTile
  <1>4. \A acc, x : Further(m, acc, x) = acc \o DeliveredToAll(r, x, 0 + Len(acc))
    BY FurtherIs
  <1>5. Plan(r) = Fold(m, <<>>, w)
        /\ \A src, first : DeliveredToAll(r, src, first) = Fold(Delivers(src, Given(r, src), first), <<>>, w)
    BY PlanGathers
  <1>6. \A i \in 1 .. n : W[i] = all(i)
    OBVIOUS
  <1> HIDE DEF m, W, w
  <1>7. ASSUME NEW i \in 1 .. n, NEW acc \in Seq(Steps(r))
        PROVE  \E block : Further(m, acc, w[i]) = acc \o block /\ Serves(block, r, W[i])
    <2> DEFINE b == 0 + Len(acc)
               range == Given(r, i)
    <2>1. b \in Nat
      <3> DEFINE l == Len(acc)
      <3>1. l \in Nat
        OBVIOUS
      <3> HIDE DEF l
      <3>2. 0 + l \in Nat
        BY <3>1
      <3> QED
        BY <3>2 DEF l
    <2>2. range \in [start : Nat, len : Nat]
      BY <1>3
    <2>3. \A k \in 1 .. Total(r) : k \in Cells(range) => Wanted(r, Sent(r, Contributions(r), i, k), k)
      BY DEF Wanted, Sent, SourceBase
    <2>4. Further(m, acc, i) = acc \o DeliveredToAll(r, i, b)
      BY <1>4
    <2> HIDE DEF b, range
    <2>5. Serves(Fold(Delivers(i, range, b), <<>>, w), r, UNION {{w[j]} \X Cells(range) : j \in 1 .. n})
      <3>1. i \in 1 .. Size(r) /\ n \in Nat /\ DOMAIN w = 1 .. n /\ (\A j \in 1 .. n : w[j] \in 1 .. Size(r))
        BY <1>1, <1>2
      <3> HIDE DEF n
      <3> QED
        BY ONLY <2>1, <2>2, <2>3, <3>1, DeliveriesServe
    <2>6. UNION {{w[j]} \X Cells(range) : j \in 1 .. n} = all(i)
      BY <1>2 DEF range
    <2>7. DeliveredToAll(r, i, b) = Fold(Delivers(i, range, b), <<>>, w)
      BY <1>5 DEF range
    <2>8. Serves(DeliveredToAll(r, i, b), r, W[i])
      BY <1>6, <2>5, <2>6, <2>7
    <2> QED
      BY <1>2, <2>4, <2>8
  <1>8. Serves(Fold(m, <<>>, w), r, AllOf(W, n))
    <2>1. n \in Nat /\ DOMAIN w = 1 .. n /\ MakesBlocks(m, r, n, w, W)
      BY <1>1, <1>2, <1>7 DEF MakesBlocks
    <2> HIDE DEF n
    <2> QED
      BY ONLY <2>1, FoldServes
  <1>9. ASSUME NEW d \in 1 .. n, NEW k \in Cells(Part(r, d))
        PROVE  <<d, k>> \in AllOf(W, n)
    <2> DEFINE off == GivenOffset(r)
               length == r.lengths
    <2>1. Offsets(off, length, n) /\ off[n] = Total(r) /\ Total(r) \in Nat
          /\ \A i \in 1 .. n : Before(r, i) = off[i - 1]
      BY InputsTile
    <2>2. Part(r, d) = [start |-> 0, len |-> Total(r)]
      BY DEF Part, Whole
    <2> HIDE DEF off, length
    <2>3. k \in 1 .. off[n]
      BY <2>1, <2>2 DEF Cells
    <2>4. PICK i \in 1 .. n : k - off[i - 1] \in 1 .. length[i] /\ off[i - 1] + (k - off[i - 1]) = k
      <3> HIDE DEF n
      <3> QED
        BY <1>1, <2>1, <2>3, OffsetsCover
    <2>5. k \in Cells(Given(r, i))
      <3> DEFINE x == Before(r, i)
                 l == length[i]
      <3>1. x = off[i - 1] /\ x \in Nat /\ l \in Nat
        BY <1>3, <2>1 DEF Given, length
      <3>2. k - x \in 1 .. l /\ x + (k - x) = k
        BY <2>4, <3>1
      <3>3. Cells(Given(r, i)) = x + 1 .. x + l
        BY DEF Cells, Given, length
      <3>4. k \in Nat
        BY <2>1, <2>3
      <3> HIDE DEF x, l
      <3>5. k \in x + 1 .. x + l
        BY <3>1, <3>2, <3>4
      <3> QED
        BY <3>3, <3>5
    <2>6. <<d, k>> \in {d} \X Cells(Given(r, i))
      BY <2>5
    <2>7. <<d, k>> \in all(i)
      BY <2>6
    <2> QED
      BY <1>6, <2>7 DEF AllOf
  <1> QED
    BY <1>5, <1>8, <1>9 DEF KeptIsServed

-----------------------------------------------------------------------------
(* Collectives: sequences one after the other *)

(* Sequence f is made of the sequences s[i], which begin after the offsets. *)
Flattened(f, V, n, s, off, length) ==
    /\ f \in Seq(V) /\ Len(f) = off[n]
    /\ \A i \in 1 .. n : \A k \in 1 .. length[i] : f[off[i - 1] + k] = s[i][k]

(* A further sequence. *)
LEMMA FlattenedGrows ==
    ASSUME NEW V, NEW n \in Nat, NEW off, NEW length, Offsets(off, length, n + 1), NEW s,
           s[n + 1] \in Seq(V), Len(s[n + 1]) = length[n + 1],
           NEW f, Flattened(f, V, n, s, off, length)
    PROVE  Flattened(f \o s[n + 1], V, n + 1, s, off, length)
  <1> DEFINE t == s[n + 1]
             w == f \o t
             x == off[n]
             z == length[n + 1]
  <1>1. f \in Seq(V) /\ Len(f) = x /\ t \in Seq(V) /\ Len(t) = z
    BY DEF Flattened
  <1>2. n + 1 \in 1 .. n + 1 /\ (n + 1) - 1 = n /\ n + 1 \in Nat /\ n \in 0 .. n + 1
    OBVIOUS
  <1>3. /\ \A i \in 0 .. n + 1 : off[i] \in Nat
        /\ \A i \in 0 .. n + 1 : \A j \in 0 .. i : off[j] <= off[i]
    <2> DEFINE m == n + 1
    <2>1. m \in Nat /\ Offsets(off, length, m)
      BY <1>2
    <2> HIDE DEF m
    <2>2. /\ \A i \in 0 .. m : off[i] \in Nat
          /\ \A i \in 0 .. m : \A j \in 0 .. i : off[j] <= off[i]
      BY ONLY <2>1, OffsetsGrow
    <2> QED
      BY <2>2 DEF m
  <1>4. x \in Nat /\ z \in Nat /\ off[n + 1] = x + z
    BY <1>2, <1>3 DEF Offsets
  <1>5. \A i \in 1 .. n : \A k \in 1 .. length[i] : f[off[i - 1] + k] = s[i][k]
    BY DEF Flattened
  <1>6. \A i \in 1 .. n + 1 : length[i] \in Nat /\ off[i] = off[i - 1] + length[i]
    BY DEF Offsets
  <1> HIDE DEF t, x, z
  <1>7. f \in Seq(V) /\ t \in Seq(V)
    BY <1>1
  <1>8. /\ f \o t \in Seq(V) /\ Len(f \o t) = Len(f) + Len(t)
        /\ \A j \in 1 .. Len(f) + Len(t) : (f \o t)[j] = IF j <= Len(f) THEN f[j] ELSE t[j - Len(f)]
    BY ONLY <1>7
  <1>9. w \in Seq(V) /\ Len(w) = x + z /\ \A j \in 1 .. x + z : w[j] = IF j <= x THEN f[j] ELSE t[j - x]
    BY <1>1, <1>8
  <1> HIDE DEF w
  <1>10. ASSUME NEW i \in 1 .. n + 1, NEW k \in 1 .. length[i] PROVE w[off[i - 1] + k] = s[i][k]
    <2>1. CASE i = n + 1
      <3>1. off[i - 1] = x /\ length[i] = z /\ s[i] = t
        BY <1>2, <2>1 DEF x, z, t
      <3>2. k \in 1 .. z
        BY <3>1
      <3>3. x + k \in 1 .. x + z /\ ~(x + k <= x) /\ (x + k) - x = k
        BY <1>4, <3>2
      <3>4. w[x + k] = t[k]
        BY <1>9, <3>3
      <3> QED
        BY <3>1, <3>4
    <2>2. CASE i # n + 1
      <3>1. i \in 1 .. n /\ i \in 0 .. n /\ i - 1 \in 0 .. n + 1 /\ i \in 0 .. n + 1
        BY <2>2
      <3> DEFINE a == off[i - 1]
                 l == length[i]
      <3>2. a \in Nat /\ l \in Nat /\ off[i] = a + l /\ k \in 1 .. l
        BY <1>3, <1>6, <3>1
      <3>3. a + l <= x
        BY <1>2, <1>3, <3>1, <3>2 DEF x
      <3> HIDE DEF a, l
      <3>4. a + k \in 1 .. x + z /\ a + k <= x
        BY <1>4, <3>2, <3>3
      <3>5. w[a + k] = f[a + k]
        BY <1>9, <3>4
      <3>6. f[a + k] = s[i][k]
        BY <1>5, <3>1 DEF a
      <3> QED
        BY <3>5, <3>6 DEF a
    <2> QED
      BY <2>1, <2>2
  <1>11. Flattened(w, V, n + 1, s, off, length)
    BY <1>4, <1>9, <1>10 DEF Flattened
  <1> QED
    BY <1>11 DEF w, t

(* A number of sequences, one after the other. *)
LEMMA FlattenIs ==
    ASSUME NEW V, NEW n \in Nat, n >= 1, NEW off, NEW length, Offsets(off, length, n),
           NEW s, DOMAIN s = 1 .. n, Len(s) = n,
           \A i \in 1 .. n : s[i] \in Seq(V) /\ Len(s[i]) = length[i]
    PROVE  Flattened(FlattenSeq(s), V, n, s, off, length)
  <1> DEFINE Value(f, i) == IF i = 1 THEN s[i] ELSE f[i - 1] \o s[i]
             Makes(f) == f = [i \in 1 .. n |-> Value(f, i)]
             fl == CHOOSE f : Makes(f)
  <1>1. FlattenSeq(s) = fl[n]
    BY DEF FlattenSeq
  <1>2. \E f : Makes(f)
    <2> DEFINE G == {k \in Nat : \E f : \A i \in 1 .. k : f[i] = Value(f, i)}
    <2>1. 0 \in G
      <3>1. \A i \in 1 .. 0 : FALSE
        OBVIOUS
      <3> QED
        BY <3>1
    <2>2. ASSUME NEW k \in Nat, k \in G PROVE k + 1 \in G
      <3>1. PICK f : \A i \in 1 .. k : f[i] = Value(f, i)
        BY <2>2
      <3> DEFINE g == [i \in 1 .. k + 1 |-> IF i = k + 1 THEN Value(f, k + 1) ELSE f[i]]
      <3>2. \A i \in 1 .. k + 1 : i # 1 => i - 1 \in 1 .. k
        OBVIOUS
      <3>3. \A i \in 1 .. k : g[i] = f[i] /\ i \in 1 .. k + 1
        OBVIOUS
      <3>4. g[k + 1] = Value(f, k + 1)
        OBVIOUS
      <3> HIDE DEF g
      <3>5. ASSUME NEW i \in 1 .. k + 1 PROVE g[i] = Value(g, i)
        <4>1. Value(g, i) = Value(f, i)
          BY <3>2, <3>3
        <4>2. CASE i = k + 1
          BY <3>4, <4>1, <4>2
        <4>3. CASE i # k + 1
          <5>1. i \in 1 .. k
            BY <4>3
          <5> QED
            BY <3>1, <3>3, <4>1, <5>1
        <4> QED
          BY <4>2, <4>3
      <3> HIDE DEF Value
      <3>6. \E h : \A i \in 1 .. k + 1 : h[i] = Value(h, i)
        BY <3>5
      <3> QED
        BY <3>6
    <2>3. n \in G
      <3> HIDE DEF G
      <3> QED
        BY <2>1, <2>2, CountUp
    <2>4. PICK f : \A i \in 1 .. n : f[i] = Value(f, i)
      BY <2>3
    <2> DEFINE g == [i \in 1 .. n |-> f[i]]
    <2>5. \A i \in 1 .. n : Value(g, i) = Value(f, i)
      <3>1. \A i \in 1 .. n : i # 1 => i - 1 \in 1 .. n
        OBVIOUS
      <3> QED
        BY <3>1
    <2>6. Makes(g)
      BY <2>4, <2>5
    <2> QED
      BY <2>6
  <1>3. Makes(fl)
    BY <1>2
  <1> HIDE DEF fl
  <1>4. \A i \in 1 .. n : fl[i] = IF i = 1 THEN s[i] ELSE fl[i - 1] \o s[i]
    BY <1>3
  <1> DEFINE H == {k \in Nat : k >= 1 /\ k <= n => Flattened(fl[k], V, k, s, off, length)}
  <1>5. 0 \in H
    OBVIOUS
  <1>6. ASSUME NEW k \in Nat, k \in H PROVE k + 1 \in H
    <2> SUFFICES ASSUME k + 1 <= n PROVE Flattened(fl[k + 1], V, k + 1, s, off, length)
      OBVIOUS
    <2>1. k + 1 \in 1 .. n /\ (k + 1) - 1 = k
      OBVIOUS
    <2>2. s[k + 1] \in Seq(V) /\ Len(s[k + 1]) = length[k + 1]
      BY <2>1
    <2>3. Offsets(off, length, k + 1)
      <3>1. \A i \in 1 .. k + 1 : i \in 1 .. n
        BY <2>1
      <3> QED
        BY <3>1 DEF Offsets
    <2>4. CASE k = 0
      <3>1. fl[k + 1] = s[1] /\ k + 1 = 1
        BY <1>4, <2>1, <2>4
      <3>2. off[0] = 0 /\ length[1] \in Nat /\ off[1] = off[0] + length[1]
        <4>1. 1 \in 1 .. k + 1 /\ 1 - 1 = 0
          BY <2>4
        <4> QED
          BY <2>3, <4>1 DEF Offsets
      <3>3. \A i \in 1 .. 1 : i = 1 /\ i - 1 = 0
        OBVIOUS
      <3>4. off[1] = length[1] /\ \A j \in 1 .. length[1] : off[0] + j = j
        BY <3>2
      <3>5. Flattened(s[1], V, 1, s, off, length)
        BY <2>2, <3>1, <3>3, <3>4 DEF Flattened
      <3> QED
        BY <3>1, <3>5
    <2>5. CASE k # 0
      <3>1. Flattened(fl[k], V, k, s, off, length)
        BY <1>6, <2>1, <2>5
      <3>2. fl[k + 1] = fl[k] \o s[k + 1]
        <4> DEFINE j == k + 1
        <4>1. j \in 1 .. n /\ j # 1 /\ j - 1 = k
          BY <2>1, <2>5
        <4> HIDE DEF j
        <4>2. fl[j] = fl[j - 1] \o s[j]
          BY ONLY <1>4, <4>1
        <4> QED
          BY <4>1, <4>2 DEF j
      <3> DEFINE f == fl[k]
      <3>3. Flattened(f, V, k, s, off, length)
        BY <3>1
      <3> HIDE DEF f, H
      <3>4. Flattened(f \o s[k + 1], V, k + 1, s, off, length)
        BY ONLY k \in Nat, <2>2, <2>3, <3>3, FlattenedGrows
      <3> QED
        BY <3>2, <3>4 DEF f
    <2> QED
      BY <2>4, <2>5
  <1> HIDE DEF H
  <1>7. n \in H
    BY <1>5, <1>6, CountUp
  <1>8. Flattened(fl[n], V, n, s, off, length)
    BY <1>7 DEF H
  <1> QED
    BY <1>1, <1>8

-----------------------------------------------------------------------------
(* Collectives: the dense executor computes the reference *)

(* What the dense executor returns for every rank: the kept part of an output
   in which every kept cell holds what is wanted there. *)
KeptOf(r, out, o) ==
    /\ Formed(r, o)
    /\ out = [d \in 1 .. Size(r) |->
                SubSeq(o[d], Part(r, d).start + 1, Part(r, d).start + Part(r, d).len)]
    /\ \A d \in 1 .. Size(r) : \A k \in 1 .. Total(r) :
         k \in Cells(Part(r, d)) => Wanted(r, o[d][k], k)

(* The dense executor on a valid request. *)
LEMMA DenseKeeps ==
    ASSUME NEW r, Posed(r)
    PROVE  \E o : KeptOf(r, Dense(r, Contributions(r)), o)
  <1> DEFINE g == Contributions(r)
             final == Ran(r, Start(r), Plan(r))
             o == final.output
  <1>1. Executed(Start(r), Plan(r), r, g) = final
    BY ExecutedFolds DEF Ran
  <1>2. Dense(r, g) = [d \in 1 .. Size(r) |->
                        SubSeq(o[d], Part(r, d).start + 1, Part(r, d).start + Part(r, d).len)]
    <2>1. Dense(r, g) = [d \in 1 .. Size(r) |->
             SubSeq(Executed(Start(r), Plan(r), r, g).output[d],
                    Part(r, d).start + 1, Part(r, d).start + Part(r, d).len)]
      BY DEF Dense, Executed, Start, Blank, Part, Whole
    <2> QED
      BY <1>1, <2>1
  <1>3. KeptIsServed(r)
    BY BroadcastServes, ReductionServes, GatherServes DEF Posed, Kind
  <1>4. PICK W : /\ Serves(Plan(r), r, W)
                 /\ \A d \in 1 .. Size(r) : \A k \in Cells(Part(r, d)) : <<d, k>> \in W
    BY <1>3 DEF KeptIsServed
  <1>5. ServedFrom(r, Start(r), final, W)
    BY <1>4, StartIsMemory DEF Serves
  <1> HIDE DEF final
  <1>6. Formed(r, o) /\ \A d \in 1 .. Size(r) : \A k \in 1 .. Total(r) :
           k \in Cells(Part(r, d)) => Wanted(r, o[d][k], k)
    BY <1>4, <1>5 DEF ServedFrom, Memory
  <1> HIDE DEF o
  <1>7. KeptOf(r, Dense(r, g), o)
    BY <1>2, <1>6 DEF KeptOf
  <1> QED
    BY <1>7

(* An output that is kept whole. *)
LEMMA KeptWhole ==
    ASSUME NEW r, Total(r) \in Nat, r.kind # "scatter", NEW out, NEW o, KeptOf(r, out, o)
    PROVE  /\ DOMAIN out = 1 .. Size(r)
           /\ \A d \in 1 .. Size(r) :
                /\ out[d] = [k \in 1 .. Total(r) |-> out[d][k]]
                /\ Len(out[d]) = Total(r)
                /\ \A k \in 1 .. Total(r) : Wanted(r, out[d][k], k)
  <1> DEFINE T == Total(r)
  <1>1. \A d : Part(r, d) = [start |-> 0, len |-> T]
    BY DEF Part, Whole
  <1>2. out = [d \in 1 .. Size(r) |-> SubSeq(o[d], 0 + 1, 0 + T)]
    BY <1>1 DEF KeptOf
  <1>3. \A d : \A k \in 1 .. T : k \in Cells(Part(r, d))
    BY <1>1 DEF Cells
  <1>4. DOMAIN out = 1 .. Size(r)
    BY <1>2
  <1>5. ASSUME NEW d \in 1 .. Size(r)
        PROVE  /\ out[d] = [k \in 1 .. T |-> out[d][k]]
               /\ Len(out[d]) = T
               /\ \A k \in 1 .. T : Wanted(r, out[d][k], k)
    <2> DEFINE f == o[d]
    <2>1. f = [k \in 1 .. T |-> f[k]]
      BY DEF KeptOf, Formed
    <2>2. out[d] = SubSeq(f, 0 + 1, 0 + T)
      BY <1>2
    <2>3. \A k \in 1 .. T : Wanted(r, f[k], k)
      BY <1>3 DEF KeptOf
    <2> HIDE DEF f, T
    <2>4. T \in Nat
      BY DEF T
    <2>5. SubSeq(f, 0 + 1, 0 + T) = f
      BY <2>1, <2>4, CutNowhere
    <2>6. Len(f) = T
      <3> DEFINE S == {f[k] : k \in 1 .. T}
      <3>1. f \in [1 .. T -> S]
        BY <2>1
      <3> HIDE DEF S
      <3> QED
        BY <2>4, <3>1
    <2>7. out[d] = f
      BY <2>2, <2>5
    <2> QED
      BY <2>1, <2>3, <2>6, <2>7 DEF f
  <1> QED
    BY <1>4, <1>5

(* Broadcast: every rank has the root's input. *)
LEMMA DenseBroadcast ==
    ASSUME NEW r, Posed(r), r.kind = "broadcast", NEW out, NEW o, KeptOf(r, out, o)
    PROVE  \A d \in DOMAIN out : out[d] = Contributions(r)[r.root]
  <1> DEFINE given == Contributions(r)[r.root]
             T == Total(r)
  <1>1. T \in Nat /\ r.root \in 1 .. Size(r) /\ r.lengths[r.root] = T
    BY PosedSizes DEF Posed, Valid
  <1>2. given = [k \in 1 .. T |-> given[k]]
    BY <1>1 DEF Contributions
  <1>3. /\ DOMAIN out = 1 .. Size(r)
        /\ \A d \in 1 .. Size(r) : /\ out[d] = [k \in 1 .. T |-> out[d][k]]
                                   /\ \A k \in 1 .. T : Wanted(r, out[d][k], k)
    BY <1>1, KeptWhole
  <1>4. \A d \in 1 .. Size(r) : \A k \in 1 .. T : out[d][k] = given[k]
    BY <1>3 DEF Wanted
  <1> HIDE DEF given
  <1>5. ASSUME NEW d \in 1 .. Size(r) PROVE out[d] = given
    <2> DEFINE f == out[d]
    <2>1. f = [k \in 1 .. T |-> f[k]] /\ \A k \in 1 .. T : f[k] = given[k]
      BY <1>3, <1>4, <1>5
    <2> HIDE DEF f
    <2>2. f = given
      BY <1>2, <2>1
    <2> QED
      BY <2>2 DEF f
  <1> QED
    BY <1>3, <1>5 DEF given

(* Reduce: every rank has the sum. *)
LEMMA DenseReduce ==
    ASSUME NEW r, Posed(r), r.kind = "reduce", NEW out, NEW o, KeptOf(r, out, o)
    PROVE  \A d \in DOMAIN out :
             Len(out[d]) = Total(r) /\ \A k \in 1 .. Total(r) : IsSum(out[d][k], r, k)
  <1>1. Total(r) \in Nat
    BY PosedSizes
  <1>2. /\ DOMAIN out = 1 .. Size(r)
        /\ \A d \in 1 .. Size(r) : /\ Len(out[d]) = Total(r)
                                   /\ \A k \in 1 .. Total(r) : Wanted(r, out[d][k], k)
    BY <1>1, KeptWhole
  <1> QED
    BY <1>2 DEF Wanted

(* Gather: every rank has all the inputs, one after the other. *)
LEMMA DenseGather ==
    ASSUME NEW r, Posed(r), r.kind = "gather", NEW out, NEW o, KeptOf(r, out, o)
    PROVE  \A d \in DOMAIN out : out[d] = FlattenSeq(Contributions(r))
  <1> DEFINE g == Contributions(r)
             n == Size(r)
             T == Total(r)
             off == GivenOffset(r)
             length == r.lengths
             V == {<<<<i, k>>>> : i \in Nat, k \in Nat}
             flat == FlattenSeq(g)
  <1>1. n \in Nat /\ n >= 1 /\ \A i \in 1 .. n : length[i] \in Nat
    BY PosedSizes
  <1>2. /\ Offsets(off, length, n) /\ off[n] = T /\ T \in Nat
        /\ \A i \in 1 .. n : Before(r, i) = off[i - 1]
    BY InputsTile
  <1>3. g = [i \in 1 .. n |-> [k \in 1 .. length[i] |-> <<<<i, k>>>>]]
    BY DEF Contributions
  <1>4. ASSUME NEW i \in 1 .. n PROVE g[i] \in Seq(V) /\ Len(g[i]) = length[i]
    <2> DEFINE l == length[i]
    <2>1. l \in Nat /\ i \in Nat
      BY <1>1
    <2>2. g[i] = [k \in 1 .. l |-> <<<<i, k>>>>]
      BY <1>3
    <2>3. g[i] \in [1 .. l -> V]
      <3>1. \A k \in 1 .. l : k \in Nat
        BY <2>1
      <3>2. \A k \in 1 .. l : <<<<i, k>>>> \in V
        BY <2>1, <3>1
      <3> HIDE DEF V, g
      <3> QED
        BY <2>2, <3>2
    <2> HIDE DEF l, g, V
    <2>4. g[i] \in Seq(V) /\ Len(g[i]) = l
      BY ONLY <2>1, <2>3
    <2> QED
      BY <2>4 DEF l
  <1>5. DOMAIN g = 1 .. n /\ Len(g) = n
    <2>1. g \in [1 .. n -> Seq(V)]
      BY <1>3, <1>4
    <2> HIDE DEF g, V, n
    <2> QED
      BY <1>1, <2>1
  <1> HIDE DEF g, n, T, off, length, V
  <1>6. Flattened(flat, V, n, g, off, length)
    BY ONLY <1>1, <1>2, <1>4, <1>5, FlattenIs
  <1> HIDE DEF flat
  <1>7. flat \in Seq(V) /\ Len(flat) = T
    BY <1>2, <1>6 DEF Flattened
  <1>8. flat = [k \in 1 .. T |-> flat[k]]
    BY <1>2, <1>7
  <1>9. ASSUME NEW k \in 1 .. T, NEW v, Wanted(r, v, k) PROVE v = flat[k]
    <2>1. PICK src \in 1 .. n : k \in Cells(Given(r, src)) /\ v = g[src][k - Before(r, src)]
      BY <1>9 DEF Wanted, g, n
    <2> DEFINE x == off[src - 1]
               l == length[src]
    <2>2. x \in Nat
      <3>1. src - 1 \in 0 .. n
        BY <1>1
      <3> QED
        BY <1>1, <1>2, <3>1, OffsetsGrow
    <2>3. l \in Nat /\ Before(r, src) = x
      BY <1>1, <1>2
    <2>4. Cells(Given(r, src)) = x + 1 .. x + l
      BY <2>3 DEF Cells, Given, length
    <2>5. \A j \in 1 .. l : flat[x + j] = g[src][j]
      BY <1>6 DEF Flattened
    <2> HIDE DEF x, l
    <2>6. k - x \in 1 .. l /\ x + (k - x) = k
      BY <2>1, <2>2, <2>3, <2>4
    <2>7. flat[x + (k - x)] = g[src][k - x]
      BY <2>5, <2>6
    <2> QED
      BY <2>1, <2>3, <2>6, <2>7
  <1>10. /\ DOMAIN out = 1 .. n
         /\ \A d \in 1 .. n : /\ out[d] = [k \in 1 .. T |-> out[d][k]]
                              /\ \A k \in 1 .. T : Wanted(r, out[d][k], k)
    BY <1>2, KeptWhole DEF n, T
  <1>11. ASSUME NEW d \in 1 .. n PROVE out[d] = flat
    <2> DEFINE f == out[d]
    <2>1. f = [k \in 1 .. T |-> f[k]] /\ \A k \in 1 .. T : Wanted(r, f[k], k)
      BY <1>10
    <2> HIDE DEF f
    <2>2. \A k \in 1 .. T : f[k] = flat[k]
      BY <1>9, <2>1
    <2>3. f = flat
      BY <1>8, <2>1, <2>2
    <2> QED
      BY <2>3 DEF f
  <1> QED
    BY <1>10, <1>11 DEF flat, g

(* Scatter: the ranks' chunks, one after the other, are the sum. *)
LEMMA DenseScatter ==
    ASSUME NEW r, Posed(r), r.kind = "scatter", NEW out, NEW o, KeptOf(r, out, o)
    PROVE  /\ Len(FlattenSeq(out)) = Total(r)
           /\ \A k \in 1 .. Total(r) : IsSum(FlattenSeq(out)[k], r, k)
  <1> DEFINE n == Size(r)
             T == Total(r)
             off == ChunkOffset(T, n)
             length == ChunkLength(T, n)
             V == UNION {{o[d][k] : k \in 1 .. T} : d \in 1 .. n}
             flat == FlattenSeq(out)
  <1>1. n \in Nat /\ n >= 1 /\ T \in Nat
    BY PosedSizes
  <1>2. /\ Offsets(off, length, n) /\ off[n] = T
        /\ \A i \in 1 .. n : /\ Chunk(T, n, i) \in [start : Nat, len : Nat]
                             /\ Chunk(T, n, i).start = off[i - 1] /\ Chunk(T, n, i).len = length[i]
    BY <1>1, ChunksTile
  <1>3. \A i \in 1 .. n : Part(r, i) = Chunk(T, n, i)
    BY DEF Part
  <1>4. out = [d \in 1 .. n |-> SubSeq(o[d], Part(r, d).start + 1, Part(r, d).start + Part(r, d).len)]
    BY DEF KeptOf
  <1>5. \A d \in 1 .. n : o[d] = [k \in 1 .. T |-> o[d][k]]
    BY DEF KeptOf, Formed
  <1>6. \A d \in 1 .. n : \A k \in 1 .. T : k \in Cells(Part(r, d)) => IsSum(o[d][k], r, k)
    BY DEF KeptOf, Wanted
  <1> HIDE DEF n, T, off, length
  <1>7. ASSUME NEW d \in 1 .. n
        PROVE  /\ out[d] \in Seq(V) /\ Len(out[d]) = length[d]
               /\ \A j \in 1 .. length[d] : /\ out[d][j] = o[d][off[d - 1] + j]
                                            /\ off[d - 1] + j \in 1 .. T
                                            /\ off[d - 1] + j \in Cells(Part(r, d))
    <2> DEFINE a == off[d - 1]
               l == length[d]
               f == o[d]
    <2>1. a \in Nat /\ l \in Nat /\ a + l <= T
      <3>1. d - 1 \in 0 .. n /\ d \in 0 .. n /\ n \in 0 .. n /\ d \in 0 .. n
        BY <1>1
      <3>2. (\A i \in 0 .. n : off[i] \in Nat) /\ (\A i \in 0 .. n : \A j \in 0 .. i : off[j] <= off[i])
        BY <1>1, <1>2, OffsetsGrow
      <3>3. l \in Nat /\ off[d] = a + l
        BY <1>2 DEF Offsets
      <3> QED
        BY <1>2, <3>1, <3>2, <3>3
    <2>2. Part(r, d).start = a /\ Part(r, d).len = l
      BY <1>2, <1>3
    <2>3. out[d] = SubSeq(f, a + 1, a + l)
      BY <1>4, <2>2
    <2>4. Cells(Part(r, d)) = a + 1 .. a + l
      BY <2>2 DEF Cells
    <2>5. f \in [1 .. T -> V]
      <3>1. \A k \in 1 .. T : o[d][k] \in V
        OBVIOUS
      <3> HIDE DEF V
      <3> QED
        BY <1>5, <3>1
    <2> HIDE DEF a, l, f, V
    <2>6. f \in Seq(V) /\ Len(f) = T
      BY ONLY <1>1, <2>5
    <2>7. /\ SubSeq(f, a + 1, a + l) \in Seq(V) /\ Len(SubSeq(f, a + 1, a + l)) = l
          /\ \A j \in 1 .. l : SubSeq(f, a + 1, a + l)[j] = f[a + j]
      <3>1. l = 0 => SubSeq(f, a + 1, a + l) = <<>>
        BY <2>1, <2>6
      <3>2. CASE l = 0
        <4> DEFINE s == SubSeq(f, a + 1, a + l)
        <4>1. s = <<>>
          BY <3>1, <3>2
        <4> HIDE DEF s
        <4>2. s \in Seq(V) /\ Len(s) = 0 /\ \A j \in 1 .. 0 : FALSE
          BY <4>1
        <4>3. s \in Seq(V) /\ Len(s) = l /\ \A j \in 1 .. l : s[j] = f[a + j]
          BY ONLY <3>2, <4>2
        <4> QED
          BY <4>3 DEF s
      <3>3. CASE l # 0
        <4> DEFINE p == a + 1
                   q == a + l
        <4>1. p \in 1 .. Len(f) /\ q \in 1 .. Len(f) /\ p <= q /\ q - p + 1 = l
          BY <2>1, <2>6, <3>3, <1>1
        <4>2. \A j \in 1 .. l : p + j - 1 = a + j
          BY <2>1
        <4> HIDE DEF p, q
        <4>3. /\ SubSeq(f, p, q) \in Seq(V) /\ Len(SubSeq(f, p, q)) = q - p + 1
              /\ \A j \in 1 .. q - p + 1 : SubSeq(f, p, q)[j] = f[p + j - 1]
          BY ONLY <2>6, <1>1, <4>1
        <4>4. /\ SubSeq(f, p, q) \in Seq(V) /\ Len(SubSeq(f, p, q)) = l
              /\ \A j \in 1 .. l : SubSeq(f, p, q)[j] = f[a + j]
          BY <4>1, <4>2, <4>3
        <4> QED
          BY <4>4 DEF p, q
      <3> QED
        BY <3>2, <3>3
    <2>8. \A j \in 1 .. l : a + j \in 1 .. T /\ a + j \in a + 1 .. a + l
      BY <1>1, <2>1
    <2> QED
      BY <2>3, <2>4, <2>7, <2>8 DEF a, l, f
  <1> HIDE DEF V
  <1>8. DOMAIN out = 1 .. n /\ Len(out) = n
    <2>1. out \in [1 .. n -> Seq(V)]
      BY <1>4, <1>7
    <2> QED
      BY <1>1, <2>1
  <1>9. Flattened(flat, V, n, out, off, length)
    <2>1. /\ n \in Nat /\ n >= 1 /\ Offsets(off, length, n) /\ DOMAIN out = 1 .. n /\ Len(out) = n
          /\ \A i \in 1 .. n : out[i] \in Seq(V) /\ Len(out[i]) = length[i]
      BY <1>1, <1>2, <1>7, <1>8
    <2> QED
      BY ONLY <2>1, FlattenIs
  <1> HIDE DEF flat
  <1>10. ASSUME NEW k \in 1 .. T PROVE IsSum(flat[k], r, k)
    <2>1. PICK i \in 1 .. n : k - off[i - 1] \in 1 .. length[i] /\ off[i - 1] + (k - off[i - 1]) = k
      BY <1>1, <1>2, OffsetsCover
    <2> DEFINE j == k - off[i - 1]
    <2>2. j \in 1 .. length[i] /\ off[i - 1] + j = k
      BY <2>1
    <2> HIDE DEF j
    <2>3. flat[off[i - 1] + j] = out[i][j]
      BY <1>9, <2>2 DEF Flattened
    <2>4. out[i][j] = o[i][off[i - 1] + j] /\ off[i - 1] + j \in Cells(Part(r, i))
      BY <1>7, <2>2
    <2>5. IsSum(o[i][k], r, k)
      BY <1>6, <2>2, <2>4
    <2> QED
      BY <2>2, <2>3, <2>4, <2>5
  <1>11. Len(flat) = T
    BY <1>2, <1>9 DEF Flattened
  <1> QED
    BY <1>10, <1>11 DEF flat, T

(* The plan of every valid request of every kind, for any number of ranks and
   any lengths, empty and uneven ones too, followed by the dense executor
   delivers what the kind says (CollectivePlanner::plan and
   InMemoryCollectiveExecutor). *)
THEOREM PlansDeliver == CollectiveSpec => []DenseIsReference
  <1>1. ASSUME CollectiveInv PROVE DenseIsReference
    <2> SUFFICES ASSUME Valid(req)
                 PROVE  LET given == Contributions(req)
                            out == Dense(req, given)
                            sum(vector) == /\ Len(vector) = Total(req)
                                           /\ \A k \in 1 .. Total(req) : IsSum(vector[k], req, k)
                        IN  CASE req.kind = "broadcast" -> \A d \in DOMAIN out : out[d] = given[req.root]
                              [] req.kind = "gather" -> \A d \in DOMAIN out : out[d] = FlattenSeq(given)
                              [] req.kind = "scatter" -> sum(FlattenSeq(out))
                              [] req.kind = "reduce" -> \A d \in DOMAIN out : sum(out[d])
      BY DEF DenseIsReference
    <2> DEFINE r == req
               out == Dense(r, Contributions(r))
    <2>1. Posed(r)
      BY <1>1, CollectiveAssumption DEF CollectiveInv, PlaceOK, Posed
    <2>2. PICK o : KeptOf(r, out, o)
      BY <2>1, DenseKeeps
    <2> HIDE DEF r, out
    <2>3. /\ r.kind = "broadcast" => \A d \in DOMAIN out : out[d] = Contributions(r)[r.root]
          /\ r.kind = "gather" => \A d \in DOMAIN out : out[d] = FlattenSeq(Contributions(r))
          /\ r.kind = "scatter" => /\ Len(FlattenSeq(out)) = Total(r)
                                   /\ \A k \in 1 .. Total(r) : IsSum(FlattenSeq(out)[k], r, k)
          /\ r.kind = "reduce" => \A d \in DOMAIN out :
                /\ Len(out[d]) = Total(r)
                /\ \A k \in 1 .. Total(r) : IsSum(out[d][k], r, k)
      BY <2>1, <2>2, DenseBroadcast, DenseGather, DenseScatter, DenseReduce
    <2>4. r.kind \in Kind
      BY <2>1 DEF Posed
    <2> QED
      BY <2>3, <2>4 DEF Kind, r, out
  <1> QED
    BY <1>1, CollectiveInvariance, PTL

=============================================================================
