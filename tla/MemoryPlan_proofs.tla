------------------------- MODULE MemoryPlan_proofs -------------------------
(***************************************************************************)
(* The planner and the realization of MemoryPlan are correct together for   *)
(* every number of items, every set of buffers and every schedule.          *)
(***************************************************************************)
EXTENDS MemoryPlan, FiniteSetTheorems, FunctionTheorems, WellFoundedInduction, TLAPS

(* What the planner keeps about its slots: each names the buffer it was last
   given to, which is also the last of all its buffers to die. *)
SlotsKnowTheirLast ==
    \A s \in 0 .. count - 1 :
        /\ slots[s].current \in done
        /\ slot[slots[s].current] = s
        /\ slots[s].reusable <=> sched.reuse
        /\ \A b \in done : slot[b] = s =>
             Last(b) <= slots[s].last /\ sched.class[b] = slots[s].class

(* What is known before, during and after the realization. *)
Planning ==
    /\ phase \in {"assign", "run", "done"} => ProducedFirst
    /\ phase \in {"plan", "assign"} => at = 1 /\ leased = {}
    /\ \A b \in Buffer \ done : slot[b] = None
    /\ phase = "plan" => done = {}

Running ==
    phase = "run" =>
        /\ done = Temporaries
        /\ memory \in [0 .. count - 1 -> Buffer \cup {None}]
        /\ leased = {b \in Temporaries : Producer(b) < at /\ at <= Last(b)}
        /\ \A b \in leased : slot[b] # None => memory[slot[b]] = b
        /\ \A b \in Temporaries : Producer(b) < at /\ slot[b] # None => memory[slot[b]] # None

(* The inductive invariant. *)
IInv ==
    /\ TypeOK
    /\ SlotsKnowTheirLast
    /\ Planning
    /\ SharedSlotsAreDisjoint
    /\ Running
    /\ NeverRefused
    /\ AllReleased

-----------------------------------------------------------------------------
(* Facts about lifetimes *)

(* A set of positions that is not empty has a largest element. *)
LEMMA LargestPosition ==
    ASSUME NEW S, S \subseteq Position, S # {}
    PROVE  \E p \in S : \A q \in S : q <= p
<1>. DEFINE T == {Items - q : q \in S}
<1>1. T \subseteq Nat /\ T # {}
  BY ScheduleAssumption DEF Position
<1>2. PICK x \in T : \A y \in T : ~(<<y, x>> \in OpToRel(<, Nat))
  <2>. HIDE DEF T
  <2>. QED  BY <1>1, NatLessThanWellFounded, WFMin
<1>3. \A y \in T : x <= y
  <2>. HIDE DEF T
  <2>. TAKE y \in T
  <2>1. x \in Nat /\ y \in Nat  BY <1>1
  <2>2. y < x => <<y, x>> \in OpToRel(<, Nat)  BY <2>1 DEF OpToRel
  <2>3. ~(y < x)  BY <1>2, <2>2, Zenon
  <2>. QED  BY <2>1, <2>3
<1>4. PICK p \in S : x = Items - p
  OBVIOUS
<1>5. \A q \in S : q <= p
  <2>. TAKE q \in S
  <2>1. Items - p <= Items - q  BY <1>3, <1>4
  <2>. QED  BY <2>1, ScheduleAssumption DEF Position
<1>. QED  BY <1>5

(* Last is the last reader, or the producer when there are none. *)
LEMMA LastIsLast ==
    ASSUME sched \in Schedule, NEW b \in Buffer
    PROVE  Last(b) \in Position /\ IsLast(b, Last(b))
<1>1. sched.producer[b] \in Position /\ sched.readers[b] \subseteq Position
  BY ScheduleAssumption DEF Schedule
<1>2. \E p \in Position : IsLast(b, p)
  <2>1. CASE Readers(b) = {}
    BY <1>1, <2>1 DEF IsLast, Producer, Readers
  <2>2. CASE Readers(b) # {}
    <3>1. PICK p \in Readers(b) : \A q \in Readers(b) : q <= p
      BY <1>1, <2>2, LargestPosition DEF Readers
    <3>. QED  BY <1>1, <3>1 DEF IsLast, Readers
  <2>. QED  BY <2>1, <2>2
<1>. QED  BY <1>2 DEF Last

(* A temporary does not die before it is produced. *)
LEMMA Lifetime ==
    ASSUME sched \in Schedule, ProducedFirst, NEW b \in Temporaries
    PROVE  /\ b \in Buffer
           /\ Producer(b) \in Position /\ Last(b) \in Position
           /\ Producer(b) <= Last(b)
           /\ \A p \in Readers(b) : p \in Position /\ Producer(b) < p /\ p <= Last(b)
<1>1. b \in Buffer  BY DEF Temporaries
<1>2. Producer(b) \in Position /\ Readers(b) \subseteq Position
  BY <1>1, ScheduleAssumption DEF Schedule, Producer, Readers
<1>3. Last(b) \in Position /\ IsLast(b, Last(b))  BY <1>1, LastIsLast
<1>4. \A p \in Readers(b) : Producer(b) < p  BY DEF ProducedFirst
<1>. QED  BY <1>1, <1>2, <1>3, <1>4, ScheduleAssumption DEF IsLast, Position

(* A longer range of slots holds a shorter one. *)
LEMMA Wider ==
    ASSUME NEW n \in Nat, NEW m \in Nat, n <= m PROVE 0 .. n - 1 \subseteq 0 .. m - 1
OBVIOUS

(* Plans do not change the schedule they are for. *)
LEMMA Stable ==
    ASSUME sched' = sched
    PROVE  /\ Temporaries' = Temporaries
           /\ ProducedFirst' = ProducedFirst
           /\ \A b : Last(b)' = Last(b) /\ Producer(b)' = Producer(b) /\ Readers(b)' = Readers(b)
BY DEF Temporaries, ProducedFirst, Last, IsLast, Producer, Readers

-----------------------------------------------------------------------------
(* Initial states and steps *)

(* A new plan has assigned nothing. *)
LEMMA InitIInv == Init => IInv
<1>. SUFFICES ASSUME Init PROVE IInv  OBVIOUS
<1>1. TypeOK
  BY ScheduleAssumption DEF Init, TypeOK
<1>2. SlotsKnowTheirLast /\ Planning /\ SharedSlotsAreDisjoint /\ Running /\ NeverRefused /\ AllReleased
  BY DEF Init, SlotsKnowTheirLast, Planning, SharedSlotsAreDisjoint, Running, NeverRefused, AllReleased
<1>. QED  BY <1>1, <1>2 DEF IInv

(* Building a plan starts the assignment only if every temporary is
   produced before it is read. *)
LEMMA BuildIInv == IInv /\ Build => IInv'
<1>. SUFFICES ASSUME IInv, Build PROVE IInv'  OBVIOUS
<1>. USE DEF Build, IInv, planned
<1>1. sched' = sched  OBVIOUS
<1>2. TypeOK'  BY <1>1, Stable DEF TypeOK
<1>3. SlotsKnowTheirLast'  BY <1>1, Stable DEF SlotsKnowTheirLast
<1>4. Planning'  BY <1>1, Stable DEF Planning
<1>5. SharedSlotsAreDisjoint'  BY <1>1, Stable DEF SharedSlotsAreDisjoint
<1>. QED  BY <1>2, <1>3, <1>4, <1>5 DEF Running, NeverRefused, AllReleased

(* A buffer that is put into a slot s is produced after all the slot's other
   buffers have died, and has their class. *)
LEMMA OccupyIInv ==
    ASSUME IInv, phase = "assign", NEW b \in Temporaries \ done, NEW s \in Nat,
           Policy(b) # "absent",
           count' \in Nat, s \in 0 .. count' - 1, count <= count',
           \A t \in 0 .. count' - 1 : t # s => t \in 0 .. count - 1,
           \A c \in done : slot[c] = s =>
               Last(c) < Producer(b) /\ sched.class[c] = sched.class[b] /\ sched.reuse,
           Occupy(s, b), done' = done \cup {b},
           UNCHANGED <<sched, phase, at, leased, memory>>
    PROVE  IInv'
<1>. USE DEF IInv
<1>1. sched' = sched /\ sched \in Schedule
  BY ScheduleAssumption DEF TypeOK
<1>2. ProducedFirst  BY DEF Planning
<1>3. /\ b \in Buffer /\ Last(b) \in Position /\ Producer(b) \in Position
      /\ Producer(b) <= Last(b)
  BY <1>1, <1>2, Lifetime
<1>4. sched.class[b] \in Class  BY <1>1, <1>3 DEF Schedule
<1>. DEFINE R == Policy(b) = "reusable"
<1>5. (R <=> sched.reuse) /\ R \in BOOLEAN
  BY <1>1 DEF Policy, Schedule
<1>6. \A c \in Buffer : slot'[c] = IF c = b THEN s ELSE slot[c]
  BY DEF Occupy, TypeOK
<1>7. \A t \in 0 .. count' - 1 : slots'[t] =
         IF t = s THEN [current |-> b, class |-> sched.class[b], last |-> Last(b),
                        reusable |-> R] ELSE slots[t]
  BY DEF Occupy
<1>. HIDE DEF R
<1>8. \A c \in done : c \in Temporaries /\ c \in Buffer /\ c # b
  BY DEF TypeOK, Temporaries
<1>9. \A c \in done : Last(c) \in Position /\ Producer(c) \in Position
  BY <1>1, <1>2, <1>8, Lifetime
<1>10. TypeOK'
  <2>1. (done \subseteq Temporaries)' /\ (leased \subseteq Temporaries)'
    BY <1>1, Stable DEF TypeOK
  <2>2. slot' \in [Buffer -> (0 .. count' - 1) \cup {None}]
    <3>1. count \in Nat  BY DEF TypeOK
    <3>2. 0 .. count - 1 \subseteq 0 .. count' - 1  BY <3>1, Wider
    <3>. QED  BY <3>2 DEF TypeOK, Occupy
  <2>3. slots' \in [0 .. count' - 1 ->
            [current : Buffer, class : Class, last : Position, reusable : BOOLEAN]]
    <3>1. \A t \in 0 .. count' - 1 : slots'[t] \in
            [current : Buffer, class : Class, last : Position, reusable : BOOLEAN]
      <4>. TAKE t \in 0 .. count' - 1
      <4>1. CASE t = s
        <5>1. slots'[t] = [current |-> b, class |-> sched.class[b], last |-> Last(b),
                           reusable |-> R]
          BY <1>7, <4>1
        <5>. QED  BY <1>3, <1>4, <1>5, <5>1
      <4>2. CASE t # s  BY <1>7, <4>2 DEF TypeOK
      <4>. QED  BY <4>1, <4>2
    <3>. QED  BY <3>1 DEF Occupy
  <2>. QED  BY <2>1, <2>2, <2>3, <1>1 DEF TypeOK
<1>11. SlotsKnowTheirLast'
  <2>1. SUFFICES ASSUME NEW t \in 0 .. count' - 1
                 PROVE  /\ slots'[t].current \in done'
                        /\ slot'[slots'[t].current] = t
                        /\ slots'[t].reusable <=> sched.reuse
                        /\ \A c \in done' : slot'[c] = t =>
                             Last(c) <= slots'[t].last /\ sched.class[c] = slots'[t].class
    BY <1>1, Stable DEF SlotsKnowTheirLast
  <2>2. CASE t = s
    <3>1. /\ slots'[t].current = b /\ slots'[t].class = sched.class[b]
          /\ slots'[t].last = Last(b) /\ slots'[t].reusable = R
      BY <1>7, <2>2
    <3>2. ASSUME NEW c \in done', slot'[c] = t
          PROVE  Last(c) <= Last(b) /\ sched.class[c] = sched.class[b]
      <4>1. CASE c = b  BY <4>1, <1>3, ScheduleAssumption DEF Position
      <4>2. CASE c # b
        <5>1. c \in done /\ slot[c] = s  BY <4>2, <3>2, <1>6, <1>8, <2>2
        <5>2. Last(c) < Producer(b) /\ sched.class[c] = sched.class[b]  BY <5>1
        <5>. QED  BY <5>1, <5>2, <1>3, <1>9, ScheduleAssumption DEF Position
      <4>. QED  BY <4>1, <4>2
    <3>. QED  BY <3>1, <3>2, <1>3, <1>5, <1>6, <2>2
  <2>3. CASE t # s
    <3>1. t \in 0 .. count - 1 /\ slots'[t] = slots[t]  BY <1>7, <2>3
    <3>2. slots[t].current \in done /\ slot[slots[t].current] = t
          /\ (slots[t].reusable <=> sched.reuse)
      BY <3>1 DEF SlotsKnowTheirLast
    <3>3. slot'[slots[t].current] = t  BY <3>2, <1>6, <1>8
    <3>4. ASSUME NEW c \in done', slot'[c] = t
          PROVE  Last(c) <= slots[t].last /\ sched.class[c] = slots[t].class
      <4>1. c \in done /\ slot[c] = t  BY <3>4, <1>6, <1>8, <1>3, <2>3
      <4>. QED  BY <4>1, <3>1 DEF SlotsKnowTheirLast
    <3>. QED  BY <3>1, <3>2, <3>3, <3>4
  <2>. QED  BY <2>2, <2>3
<1>12. Planning'
  BY <1>1, <1>6, Stable DEF Planning
<1>13. SharedSlotsAreDisjoint'
  <2>1. SUFFICES ASSUME NEW c \in done', NEW d \in done', c # d,
                        slot'[c] # None, slot'[c] = slot'[d]
                 PROVE  /\ Last(c) < Producer(d) \/ Last(d) < Producer(c)
                        /\ sched.class[c] = sched.class[d]
                        /\ sched.reuse
    BY <1>1, Stable DEF SharedSlotsAreDisjoint
  <2>2. CASE c = b
    <3>1. d \in done /\ slot[d] = s  BY <2>1, <2>2, <1>3, <1>6, <1>8
    <3>. QED  BY <3>1, <2>2
  <2>3. CASE d = b
    <3>1. c \in done /\ slot[c] = s  BY <2>1, <2>3, <1>3, <1>6, <1>8
    <3>. QED  BY <3>1, <2>3
  <2>4. CASE c # b /\ d # b
    <3>1. c \in done /\ d \in done /\ slot[c] = slot'[c] /\ slot[d] = slot'[d]
      BY <2>1, <2>4, <1>6, <1>8
    <3>. QED  BY <3>1, <2>1 DEF SharedSlotsAreDisjoint
  <2>. QED  BY <2>2, <2>3, <2>4
<1>. QED  BY <1>10, <1>11, <1>12, <1>13 DEF Running, NeverRefused, AllReleased

(* Each request is absent, takes over a slot that has died, or opens one. *)
LEMMA AssignIInv == ASSUME NEW b \in Buffer PROVE IInv /\ Assign(b) => IInv'
<1>. SUFFICES ASSUME IInv, Assign(b) PROVE IInv'  OBVIOUS
<1>1. /\ phase = "assign" /\ b \in Temporaries \ done /\ done' = done \cup {b}
      /\ UNCHANGED <<sched, phase, at, leased, memory>>
  BY DEF Assign
<1>2. count \in Nat /\ sched \in Schedule  BY DEF IInv, TypeOK
<1>3. CASE UNCHANGED <<slot, slots, count>>
  <2>. USE <1>1, <1>3 DEF IInv
  <2>1. sched' = sched  OBVIOUS
  <2>2. slot[b] = None  BY DEF Planning
  <2>3. TypeOK'  BY <2>1, Stable DEF TypeOK
  <2>4. SlotsKnowTheirLast'
    <3>1. \A s \in 0 .. count - 1 : s # None  BY ScheduleAssumption, <1>2
    <3>. QED  BY <2>1, <2>2, <3>1, Stable DEF SlotsKnowTheirLast
  <2>5. Planning'  BY <2>1, Stable DEF Planning
  <2>6. SharedSlotsAreDisjoint'  BY <2>1, <2>2, Stable DEF SharedSlotsAreDisjoint
  <2>. QED  BY <2>3, <2>4, <2>5, <2>6 DEF Running, NeverRefused, AllReleased
<1>4. ASSUME Policy(b) # "absent", NEW s \in Candidates(b), count' = count, Occupy(s, b)
      PROVE  IInv'
  <2>1. Policy(b) = "reusable" /\ s \in 0 .. count - 1 /\ Available(s, b)
    BY <1>4 DEF Candidates
  <2>2. s \in Nat  BY <2>1, <1>2
  <2>3. ASSUME NEW c \in done, slot[c] = s
        PROVE  Last(c) < Producer(b) /\ sched.class[c] = sched.class[b] /\ sched.reuse
    <3>1. /\ slots[s].reusable <=> sched.reuse
          /\ Last(c) <= slots[s].last /\ sched.class[c] = slots[s].class
      BY <2>1, <2>3 DEF IInv, SlotsKnowTheirLast
    <3>2. slots[s].last \in Position  BY <2>1 DEF IInv, TypeOK
    <3>3. ProducedFirst /\ c \in Temporaries /\ b \in Temporaries
      BY <1>1 DEF IInv, Planning, TypeOK
    <3>4. Last(c) \in Position /\ Producer(b) \in Position
      BY <3>3, <1>2, Lifetime
    <3>. QED  BY <2>1, <3>1, <3>2, <3>4, ScheduleAssumption DEF Available, Position
  <2>. QED  BY <1>1, <1>2, <1>4, <2>1, <2>2, <2>3, OccupyIInv
<1>5. ASSUME Policy(b) # "absent", count' = count + 1, Occupy(count, b)
      PROVE  IInv'
  <2>1. \A c \in done : slot[c] # count
    BY ScheduleAssumption, <1>2 DEF IInv, TypeOK, Temporaries
  <2>2. /\ count' \in Nat /\ count \in 0 .. count' - 1 /\ count <= count'
        /\ \A t \in 0 .. count' - 1 : t # count => t \in 0 .. count - 1
    BY <1>2, <1>5
  <2>. QED  BY <1>1, <1>2, <1>5, <2>1, <2>2, OccupyIInv
<1>. QED  BY <1>3, <1>4, <1>5 DEF Assign

(* The realization starts with every slot empty and nothing leased. *)
LEMMA StartIInv == IInv /\ Start => IInv'
<1>. SUFFICES ASSUME IInv, Start PROVE IInv'  OBVIOUS
<1>. USE DEF Start, IInv, planned
<1>1. sched' = sched /\ sched \in Schedule  BY DEF TypeOK
<1>2. TypeOK'  BY <1>1, Stable DEF TypeOK
<1>3. SlotsKnowTheirLast'  BY <1>1, Stable DEF SlotsKnowTheirLast
<1>4. Planning'  BY <1>1, Stable DEF Planning
<1>5. SharedSlotsAreDisjoint'  BY <1>1, Stable DEF SharedSlotsAreDisjoint
<1>6. Running'
  <2>1. \A b \in Temporaries : ~(Producer(b) < at)
    <3>1. ProducedFirst /\ at = 1  BY DEF Planning
    <3>. QED  BY <1>1, <3>1, Lifetime, ScheduleAssumption DEF Position
  <2>2. leased = {}  BY DEF Planning
  <2>. QED  BY <1>1, <2>1, <2>2, Stable DEF Running
<1>. QED  BY <1>2, <1>3, <1>4, <1>5, <1>6 DEF NeverRefused, AllReleased

(* Two different temporaries in one slot are not alive at one item. *)
LEMMA OneAlivePerSlot ==
    ASSUME IInv, phase = "run", NEW b \in Temporaries, NEW c \in Temporaries, NEW p \in Nat,
           Producer(b) <= p, p <= Last(b), Producer(c) <= p, p <= Last(c),
           slot[b] # None, slot[b] = slot[c]
    PROVE  b = c
<1>1. done = Temporaries /\ ProducedFirst /\ sched \in Schedule
  BY DEF IInv, Running, Planning, TypeOK
<1>2. /\ Producer(b) \in Position /\ Last(b) \in Position
      /\ Producer(c) \in Position /\ Last(c) \in Position
  BY <1>1, Lifetime
<1>3. b # c => Last(b) < Producer(c) \/ Last(c) < Producer(b)
  BY <1>1 DEF IInv, SharedSlotsAreDisjoint
<1>. QED  BY <1>2, <1>3, ScheduleAssumption DEF Position

(* An item finds its slots free, fills them, and releases what dies. *)
LEMMA ExecuteIInv == IInv /\ Execute => IInv'
<1>. SUFFICES ASSUME IInv, Execute PROVE IInv'  OBVIOUS
<1>1. /\ phase = "run" /\ at \in Position
      /\ UNCHANGED <<sched, slot, done, count, slots>>
  BY ScheduleAssumption DEF Execute, planned, IInv, TypeOK, Position
<1>2. /\ sched \in Schedule /\ ProducedFirst /\ done = Temporaries /\ count \in Nat
      /\ slot \in [Buffer -> (0 .. count - 1) \cup {None}]
      /\ leased = {b \in Temporaries : Producer(b) < at /\ at <= Last(b)}
  BY <1>1 DEF IInv, Planning, TypeOK, Running
<1>3. \A b \in Temporaries : /\ b \in Buffer /\ b # None
                             /\ Producer(b) \in Nat /\ Last(b) \in Nat
                             /\ Producer(b) <= Last(b)
  <2>1. ASSUME NEW b \in Temporaries
        PROVE  /\ b \in Buffer /\ Producer(b) \in Position /\ Last(b) \in Position
               /\ Producer(b) <= Last(b)
    BY <1>2, Lifetime
  <2>2. Position \subseteq Nat /\ Buffer \subseteq Nat /\ None \notin Nat
    BY ScheduleAssumption DEF Position
  <2>. QED  BY <2>1, <2>2
<1>4. at \in Nat  BY <1>1 DEF Position
<1>5. \A b \in Outputs(at) \cap Temporaries : \A c \in Temporaries :
         (Producer(c) <= at /\ at <= Last(c) /\ slot[b] # None /\ slot[b] = slot[c]) => b = c
  BY <1>1, <1>3, <1>4, OneAlivePerSlot DEF Outputs
<1>6. ~Refused(at)
  BY <1>2, <1>3, <1>4, <1>5 DEF Refused, Outputs
<1>7. /\ memory' = [s \in 0 .. count - 1 |->
             IF \E b \in Outputs(at) \cap Temporaries : slot[b] = s
             THEN CHOOSE b \in Outputs(at) \cap Temporaries : slot[b] = s
             ELSE memory[s]]
      /\ leased' = LeasedAfter(at) /\ at' = at + 1 /\ phase' = phase
  BY <1>6 DEF Execute
<1>8. leased' = {b \in Temporaries : Producer(b) < at' /\ at' <= Last(b)}
  <2>1. ASSUME NEW b \in Temporaries
        PROVE  b \in leased' <=> Producer(b) < at' /\ at' <= Last(b)
    <3>1. b \in Outputs(at) <=> Producer(b) = at  BY <1>3 DEF Outputs
    <3>2. b \in leased <=> Producer(b) < at /\ at <= Last(b)  BY <1>2
    <3>3. b \in leased' <=> (b \in leased \/ b \in Outputs(at)) /\ Last(b) # at
      BY <1>7 DEF LeasedAfter
    <3>4. Producer(b) \in Nat /\ Last(b) \in Nat /\ Producer(b) <= Last(b)  BY <1>3
    <3>. QED  BY <1>4, <1>7, <3>1, <3>2, <3>3, <3>4
  <2>2. leased' \subseteq Temporaries  BY <1>2, <1>7 DEF LeasedAfter
  <2>. QED  BY <2>1, <2>2
<1>9. TypeOK'
  <2>1. at' \in 1 .. Items + 1  BY <1>1, <1>7, ScheduleAssumption DEF Position
  <2>. QED  BY <1>1, <1>7, <1>8, <2>1, Stable DEF IInv, TypeOK
<1>10. SlotsKnowTheirLast' /\ Planning' /\ SharedSlotsAreDisjoint'
  BY <1>1, <1>7, Stable DEF IInv, SlotsKnowTheirLast, Planning, SharedSlotsAreDisjoint
<1>11. Running'
  <2>1. memory \in [0 .. count - 1 -> Buffer \cup {None}]
    BY <1>1 DEF IInv, Running
  <2>2. \A s \in 0 .. count - 1 :
          \/ /\ memory'[s] \in Outputs(at) \cap Temporaries /\ slot[memory'[s]] = s
          \/ /\ memory'[s] = memory[s]
             /\ \A b \in Outputs(at) \cap Temporaries : slot[b] # s
    BY <1>7
  <2>3. memory' \in [0 .. count - 1 -> Buffer \cup {None}]
    <3>1. \A s \in 0 .. count - 1 : memory'[s] \in Buffer \cup {None}
      BY <2>1, <2>2 DEF Outputs
    <3>. QED  BY <3>1, <1>7
  <2>4. ASSUME NEW b \in leased', slot[b] # None PROVE memory'[slot[b]] = b
    <3>1. b \in Temporaries /\ Producer(b) <= at /\ at <= Last(b)
      BY <1>3, <1>4, <1>7, <1>8
    <3>2. slot[b] \in 0 .. count - 1  BY <1>2, <1>3, <2>4, <3>1
    <3>3. CASE memory'[slot[b]] \in Outputs(at) \cap Temporaries /\ slot[memory'[slot[b]]] = slot[b]
      BY <3>1, <3>3, <2>4, <1>5
    <3>4. CASE /\ memory'[slot[b]] = memory[slot[b]]
               /\ \A c \in Outputs(at) \cap Temporaries : slot[c] # slot[b]
      <4>1. b \notin Outputs(at)  BY <3>1, <3>4
      <4>2. Producer(b) # at  BY <3>1, <1>3, <4>1 DEF Outputs
      <4>3. Producer(b) < at  BY <3>1, <1>3, <1>4, <4>2
      <4>4. b \in leased  BY <3>1, <4>3, <1>2
      <4>. QED  BY <4>4, <3>4, <2>4, <1>1 DEF IInv, Running
    <3>. QED  BY <3>2, <3>3, <3>4, <2>2
  <2>5. ASSUME NEW b \in Temporaries, Producer(b) < at', slot[b] # None
        PROVE  memory'[slot[b]] # None
    <3>2. slot[b] \in 0 .. count - 1  BY <1>2, <1>3, <2>5
    <3>3. CASE memory'[slot[b]] \in Outputs(at) \cap Temporaries
      BY <1>3, <3>3
    <3>4. CASE /\ memory'[slot[b]] = memory[slot[b]]
               /\ \A c \in Outputs(at) \cap Temporaries : slot[c] # slot[b]
      <4>1. Producer(b) # at  BY <3>4, <1>3 DEF Outputs
      <4>2. Producer(b) < at  BY <4>1, <1>3, <1>4, <1>7, <2>5
      <4>. QED  BY <4>2, <3>4, <2>5, <1>1 DEF IInv, Running
    <3>. QED  BY <3>2, <3>3, <3>4, <2>2
  <2>. QED  BY <1>1, <1>2, <1>8, <2>3, <2>4, <2>5, Stable DEF Running
<1>. QED  BY <1>1, <1>7, <1>9, <1>10, <1>11 DEF IInv, NeverRefused, AllReleased

(* At the end every slot has been filled and every lease given back. *)
LEMMA FinishIInv == IInv /\ Finish => IInv'
<1>. SUFFICES ASSUME IInv, Finish PROVE IInv'  OBVIOUS
<1>1. /\ phase = "run" /\ at = Items + 1
      /\ UNCHANGED <<sched, slot, done, count, slots, at, leased, memory>>
  BY DEF Finish, planned
<1>2. /\ sched \in Schedule /\ ProducedFirst /\ done = Temporaries
      /\ leased = {b \in Temporaries : Producer(b) < at /\ at <= Last(b)}
  BY <1>1 DEF IInv, Planning, TypeOK, Running
<1>3. \A b \in Temporaries : /\ Producer(b) < at /\ ~(at <= Last(b))
  BY <1>1, <1>2, Lifetime, ScheduleAssumption DEF Position
<1>4. leased = {}  BY <1>2, <1>3
<1>5. \A s \in 0 .. count - 1 : memory[s] # None
  <2>. TAKE s \in 0 .. count - 1
  <2>1. slots[s].current \in Temporaries /\ slot[slots[s].current] = s
    BY <1>2 DEF IInv, SlotsKnowTheirLast
  <2>2. s # None  BY ScheduleAssumption DEF IInv, TypeOK
  <2>. QED  BY <2>1, <2>2, <1>1, <1>3 DEF IInv, Running
<1>6. phase' = "done"  BY <1>5 DEF Finish
<1>7. TypeOK'  BY <1>1, <1>6, Stable DEF IInv, TypeOK
<1>8. SlotsKnowTheirLast' /\ Planning' /\ SharedSlotsAreDisjoint'
  BY <1>1, <1>2, <1>6, Stable DEF IInv, SlotsKnowTheirLast, Planning, SharedSlotsAreDisjoint
<1>. QED  BY <1>1, <1>4, <1>6, <1>7, <1>8 DEF IInv, Running, NeverRefused, AllReleased

(* The inductive invariant holds in every state. *)
THEOREM Invariance == Spec => []IInv
<1>1. Init => IInv  BY InitIInv
<1>2. IInv /\ [Next]_vars => IInv'
  <2>. SUFFICES ASSUME IInv, [Next]_vars PROVE IInv'  OBVIOUS
  <2>1. CASE UNCHANGED vars
    <3>1. /\ UNCHANGED <<sched, phase, slot, done, count, slots, at, leased, memory>>
      BY <2>1 DEF vars, planned
    <3>. QED  BY <3>1, Stable DEF IInv, TypeOK, SlotsKnowTheirLast, Planning,
                 SharedSlotsAreDisjoint, Running, NeverRefused, AllReleased
  <2>. QED  BY <2>1, BuildIInv, AssignIInv, StartIInv, ExecuteIInv, FinishIInv DEF Next
<1>. QED  BY <1>1, <1>2, PTL DEF Spec

-----------------------------------------------------------------------------
(* What is promised *)

(* The plan and the realization keep their types, and only temporaries are
   leased. *)
THEOREM Types == Spec => []TypeOK
BY Invariance, PTL DEF IInv

(* MemoryPlan::build lets two buffers share a slot only if their lifetimes
   are strictly apart, in one class, with reuse enabled. *)
THEOREM Disjoint == Spec => []SharedSlotsAreDisjoint
BY Invariance, PTL DEF IInv

(* realize_with_options never finds a temporary unleased or overwritten when
   an item reads it. *)
THEOREM ReadsAreRight == Spec => []ReadsFindTheirValue
<1>1. IInv => ReadsFindTheirValue
  <2>. SUFFICES ASSUME IInv, phase = "run", NEW b \in Temporaries, at \in Readers(b)
                PROVE  b \in leased /\ (slot[b] # None => memory[slot[b]] = b)
    BY DEF ReadsFindTheirValue
  <2>1. sched \in Schedule /\ ProducedFirst  BY DEF IInv, TypeOK, Planning
  <2>2. Producer(b) < at /\ at <= Last(b)  BY <2>1, Lifetime
  <2>. QED  BY <2>2 DEF IInv, Running
<1>. QED  BY <1>1, Invariance, PTL

(* HostSlotPool::lease accepts every lease of a plan that was built, and the
   final count of slots is the plan's. *)
THEOREM PoolAccepts == Spec => []NeverRefused
BY Invariance, PTL DEF IInv

(* A realization ends with every lease given back. *)
THEOREM LeasesReturn == Spec => []AllReleased
BY Invariance, PTL DEF IInv

(* Every plan that MemoryPlan::build makes is carried out without a refusal, a
   wrong value or a lease left over. *)
THEOREM RealizationStaysSound == Spec => []RealizationIsSound
BY Types, Disjoint, ReadsAreRight, PoolAccepts, LeasesReturn, PTL DEF RealizationIsSound


-----------------------------------------------------------------------------
(* The plan has as few slots as a plan can have *)

(* The slots of a class. *)
SlotsOf(k) == {s \in 0 .. count - 1 : slots[s].class = k}

(* Every slot of a class has held a buffer that was alive at item p. *)
CrowdedAt(k, p) ==
    \A s \in SlotsOf(k) : \E b \in done :
        slot[b] = s /\ sched.class[b] = k /\ Producer(b) <= p /\ p <= Last(b)

(* The inductive strengthening: requests are taken in the order of their
   producers, a slot remembers when its buffer dies, and a class only ever
   opened a slot at an item at which all its slots were in use. *)
PeakInv ==
    /\ \A b \in done : slot[b] = None => sched.class[b] = Zero
    /\ \A b \in done : \A c \in Temporaries \ done : Producer(b) <= Producer(c)
    /\ \A s \in 0 .. count - 1 : slots[s].last = Last(slots[s].current)
    /\ phase \in {"run", "done"} => done = Temporaries
    /\ sched.reuse => \A k \in Class \ {Zero} :
          SlotsOf(k) = {} \/ \E p \in Position : CrowdedAt(k, p)

(* Steps that leave the plan alone. *)
LEMMA PlanUnchanged ==
    ASSUME PeakInv, UNCHANGED <<sched, slot, done, count, slots>>,
           phase' \in {"run", "done"} => done = Temporaries
    PROVE  PeakInv'
  BY Stable DEF PeakInv, SlotsOf, CrowdedAt

(* A request that is given no slot, or a slot of its class. *)
LEMMA CrowdStays ==
    ASSUME NEW k, NEW p, CrowdedAt(k, p), SlotsOf(k)' \subseteq SlotsOf(k), sched' = sched,
           done \subseteq done', \A c \in done : slot'[c] = slot[c]
    PROVE  CrowdedAt(k, p)'
  BY Stable DEF CrowdedAt

(* Every request keeps the strengthening; the new slot of a class is opened
   while each of the others holds a buffer that is still to be read. *)
LEMMA AssignPeak ==
    ASSUME IInv, PeakInv, NEW b \in Buffer, Assign(b) PROVE PeakInv'
<1>1. /\ phase = "assign" /\ b \in Temporaries \ done /\ done' = done \cup {b}
      /\ \A c \in Temporaries \ done : Before(b, c)
      /\ sched' = sched /\ phase' = phase
  BY DEF Assign
<1>2. count \in Nat /\ sched \in Schedule /\ done \subseteq Temporaries /\ ProducedFirst
  BY <1>1 DEF IInv, TypeOK, Planning
<1>3. \A c \in Temporaries : c \in Buffer /\ Producer(c) \in Nat /\ Last(c) \in Nat /\ Producer(c) <= Last(c)
                             /\ Producer(c) \in Position
  BY <1>2, Lifetime, ScheduleAssumption DEF Position
<1>4. \A c \in done' : \A d \in Temporaries \ done' : Producer(c) <= Producer(d)
  <2>. TAKE c \in done'
  <2>. TAKE d \in Temporaries \ done'
  <2>1. CASE c \in done  BY <1>1, <2>1 DEF PeakInv
  <2>2. CASE c = b
    <3>1. Before(b, d)  BY <1>1
    <3>. QED  BY <1>1, <1>3, <2>2, <3>1 DEF Before
  <2>. QED  BY <1>1, <2>1, <2>2
<1>5. ASSUME /\ \A c \in done' : slot'[c] = None => sched.class[c] = Zero
             /\ \A s \in 0 .. count' - 1 : slots'[s].last = Last(slots'[s].current)
             /\ sched.reuse => \A k \in Class \ {Zero} :
                   SlotsOf(k)' = {} \/ \E p \in Position : CrowdedAt(k, p)'
      PROVE  PeakInv'
  BY <1>1, <1>4, <1>5, Stable DEF PeakInv
<1>6. CASE Policy(b) = "absent" /\ UNCHANGED <<slot, slots, count>>
  <2>1. sched.class[b] = Zero  BY <1>6 DEF Policy
  <2>2. \A k : SlotsOf(k)' = SlotsOf(k)  BY <1>6 DEF SlotsOf
  <2>3. \A k \in Class, p \in Position : CrowdedAt(k, p) => CrowdedAt(k, p)'
    BY <1>1, <1>6, <2>2, CrowdStays
  <2>4. /\ \A c \in done' : slot'[c] = None => sched.class[c] = Zero
        /\ \A s \in 0 .. count' - 1 : slots'[s].last = Last(slots'[s].current)
        /\ sched.reuse => \A k \in Class \ {Zero} :
              SlotsOf(k)' = {} \/ \E p \in Position : CrowdedAt(k, p)'
    BY <1>1, <1>6, <2>1, <2>2, <2>3 DEF PeakInv
  <2>. QED  BY <1>5, <2>4
<1>7. ASSUME NEW s \in 0 .. count' - 1, count' \in Nat, count <= count', Occupy(s, b), Policy(b) # "absent",
             \A t \in 0 .. count' - 1 : t # s => t \in 0 .. count - 1
      PROVE  /\ \A c \in done' : slot'[c] = None => sched.class[c] = Zero
             /\ \A t \in 0 .. count' - 1 : slots'[t].last = Last(slots'[t].current)
             /\ slots'[s].class = sched.class[b] /\ slot'[b] = s
             /\ \A t \in 0 .. count' - 1 : t # s => slots'[t] = slots[t]
             /\ \A c \in done : slot'[c] = slot[c]
  <2>1. slot \in [Buffer -> (0 .. count - 1) \cup {None}] /\ s # None
    BY <1>7, ScheduleAssumption DEF IInv, TypeOK
  <2>2. slot'[b] = s /\ \A c \in done : slot'[c] = slot[c]
    BY <1>1, <1>2, <1>3, <1>7, <2>1 DEF Occupy
  <2>3. /\ \A t \in 0 .. count' - 1 : t # s => slots'[t] = slots[t]
        /\ slots'[s].class = sched.class[b] /\ slots'[s].current = b /\ slots'[s].last = Last(b)
    BY <1>7 DEF Occupy
  <2>4. \A c \in done' : slot'[c] = None => sched.class[c] = Zero
    BY <1>1, <2>1, <2>2 DEF PeakInv
  <2>5. \A t \in 0 .. count' - 1 : slots'[t].last = Last(slots'[t].current)
    BY <1>7, <2>3 DEF PeakInv
  <2>. QED  BY <2>2, <2>3, <2>4, <2>5
<1>8. ASSUME Policy(b) # "absent", NEW s \in Candidates(b), count' = count, Occupy(s, b)
      PROVE  PeakInv'
  <2>1. s \in 0 .. count - 1 /\ slots[s].class = sched.class[b]
    BY <1>8 DEF Candidates, Available
  <2>2. /\ \A c \in done' : slot'[c] = None => sched.class[c] = Zero
        /\ \A t \in 0 .. count' - 1 : slots'[t].last = Last(slots'[t].current)
        /\ slots'[s].class = sched.class[b]
        /\ \A t \in 0 .. count' - 1 : t # s => slots'[t] = slots[t]
        /\ \A c \in done : slot'[c] = slot[c]
    BY <1>2, <1>7, <1>8, <2>1
  <2>3. \A k : SlotsOf(k)' = SlotsOf(k)
    BY <1>8, <2>1, <2>2 DEF SlotsOf
  <2>4. \A k \in Class, p \in Position : CrowdedAt(k, p) => CrowdedAt(k, p)'
    BY <1>1, <2>2, <2>3, CrowdStays
  <2>5. sched.reuse => \A k \in Class \ {Zero} :
           SlotsOf(k)' = {} \/ \E p \in Position : CrowdedAt(k, p)'
    BY <2>3, <2>4 DEF PeakInv
  <2>. QED  BY <1>5, <2>2, <2>5
<1>9. ASSUME Policy(b) # "absent", Candidates(b) = {}, count' = count + 1, Occupy(count, b)
      PROVE  PeakInv'
  <2>1. /\ count' \in Nat /\ count \in 0 .. count' - 1 /\ count <= count'
        /\ \A t \in 0 .. count' - 1 : t # count => t \in 0 .. count - 1
        /\ \A t \in 0 .. count - 1 : t # count /\ t \in 0 .. count' - 1
    BY <1>2, <1>9
  <2>2. /\ \A c \in done' : slot'[c] = None => sched.class[c] = Zero
        /\ \A t \in 0 .. count' - 1 : slots'[t].last = Last(slots'[t].current)
        /\ slots'[count].class = sched.class[b] /\ slot'[b] = count
        /\ \A t \in 0 .. count' - 1 : t # count => slots'[t] = slots[t]
        /\ \A c \in done : slot'[c] = slot[c]
    BY <1>7, <1>9, <2>1
  <2>3. ASSUME sched.reuse, NEW k \in Class \ {Zero}
        PROVE  SlotsOf(k)' = {} \/ \E p \in Position : CrowdedAt(k, p)'
    <3>1. CASE k = sched.class[b]
      <4>0. PICK p \in Position : p = Producer(b)
        BY <1>1, <1>3
      <4>1. Policy(b) = "reusable"  BY <1>9, <2>3 DEF Policy
      <4>2. ASSUME NEW t \in SlotsOf(k)'
            PROVE  \E c \in done' : slot'[c] = t /\ sched.class[c] = k /\ Producer(c) <= p /\ p <= Last(c)
        <5>1. CASE t = count
          BY <1>1, <1>3, <2>2, <3>1, <4>0, <5>1
        <5>2. CASE t # count
          <6>1. t \in 0 .. count - 1 /\ slots[t].class = k
            BY <2>1, <2>2, <4>2, <5>2 DEF SlotsOf
          <6>. DEFINE c == slots[t].current
          <6>2. /\ c \in done /\ slot[c] = t /\ sched.class[c] = k /\ slots[t].last = Last(c)
                /\ slots[t].reusable
            BY <2>3, <6>1 DEF IInv, SlotsKnowTheirLast, PeakInv
          <6>3. ~Available(t, b)
            BY <1>9, <4>1, <6>1 DEF Candidates
          <6>4. ~(Last(c) < p)
            BY <3>1, <4>0, <6>1, <6>2, <6>3 DEF Available
          <6>5. c \in Temporaries /\ Producer(c) <= p
            BY <1>1, <1>2, <4>0, <6>2 DEF PeakInv
          <6>6. p <= Last(c)
            BY <1>1, <1>3, <4>0, <6>4, <6>5
          <6>. QED  BY <1>1, <2>2, <6>2, <6>5, <6>6
        <5>. QED  BY <5>1, <5>2
      <4>3. CrowdedAt(k, p)'
        BY <1>1, <4>2, Stable DEF CrowdedAt
      <4>. QED  BY <4>3
    <3>2. CASE k # sched.class[b]
      <4>1. SlotsOf(k)' = SlotsOf(k)
        BY <1>9, <2>1, <2>2, <3>2 DEF SlotsOf
      <4>2. \A p \in Position : CrowdedAt(k, p) => CrowdedAt(k, p)'
        BY <1>1, <2>2, <4>1, CrowdStays
      <4>. QED  BY <2>3, <4>1, <4>2 DEF PeakInv
    <3>. QED  BY <3>1, <3>2
  <2>. QED  BY <1>5, <2>2, <2>3
<1>10. CASE Policy(b) # "absent"
  BY <1>8, <1>9, <1>10 DEF Assign
<1>11. Policy(b) = "absent" => UNCHANGED <<slot, slots, count>>
  BY DEF Assign
<1>. QED  BY <1>6, <1>10, <1>11

(* The strengthening holds in every state. *)
THEOREM PeakInvariance == Spec => []PeakInv
<1>1. Init => PeakInv
  <2>. SUFFICES ASSUME Init PROVE PeakInv  OBVIOUS
  <2>1. count = 0 /\ done = {} /\ phase = "plan" /\ 0 .. count - 1 = {}  BY DEF Init
  <2>. QED  BY <2>1 DEF PeakInv, SlotsOf
<1>2. IInv /\ PeakInv /\ [Next]_vars => PeakInv'
  <2>. SUFFICES ASSUME IInv, PeakInv, [Next]_vars PROVE PeakInv'  OBVIOUS
  <2>1. CASE Build
    BY <2>1, PlanUnchanged DEF Build, planned
  <2>2. CASE \E b \in Buffer : Assign(b)
    BY <2>2, AssignPeak
  <2>3. CASE Start
    BY <2>3, PlanUnchanged DEF Start, planned
  <2>4. CASE Execute
    <3>1. done = Temporaries /\ UNCHANGED <<sched, slot, done, count, slots>>
      BY <2>4 DEF Execute, planned, PeakInv
    <3>. QED  BY <3>1, PlanUnchanged
  <2>5. CASE Finish
    <3>1. done = Temporaries /\ UNCHANGED <<sched, slot, done, count, slots>>
      BY <2>5 DEF Finish, planned, PeakInv
    <3>. QED  BY <3>1, PlanUnchanged
  <2>6. CASE UNCHANGED vars
    BY <2>6, PlanUnchanged DEF vars, planned, PeakInv
  <2>. QED  BY <2>1, <2>2, <2>3, <2>4, <2>5, <2>6 DEF Next
<1>. QED  BY <1>1, <1>2, Invariance, PTL DEF Spec

(* With reuse, MemoryPlan::build opens as many slots of a class as the class
   has buffers alive at its busiest item, which no plan can do with fewer. *)
THEOREM PeakStaysMinimal == Spec => []PeakIsMinimal
<1>1. IInv /\ PeakInv => PeakIsMinimal
  <2>. SUFFICES ASSUME IInv, PeakInv, phase \in {"run", "done"}, sched.reuse, NEW k \in Class \ {Zero},
                       NEW x \in Temporaries, sched.class[x] = k
                PROVE  \E p \in Position : Cardinality(SlotsOf(k)) = Cardinality(Alive(k, p))
    BY DEF PeakIsMinimal, SlotsOf
  <2>1. /\ done = Temporaries /\ sched \in Schedule /\ ProducedFirst /\ count \in Nat
        /\ slot \in [Buffer -> (0 .. count - 1) \cup {None}]
    BY DEF PeakInv, IInv, Planning, TypeOK
  <2>2. ASSUME NEW b \in Temporaries, sched.class[b] = k
        PROVE  slot[b] \in SlotsOf(k)
    <3>1. slot[b] # None /\ slot[b] \in 0 .. count - 1
      BY <2>1, <2>2 DEF PeakInv, Temporaries
    <3>. QED  BY <2>1, <2>2, <3>1 DEF SlotsOf, IInv, SlotsKnowTheirLast
  <2>3. PICK p \in Position : CrowdedAt(k, p)
    <3>1. SlotsOf(k) # {}  BY <2>2
    <3>. QED  BY <3>1 DEF PeakInv
  <2>. DEFINE A == Alive(k, p)
              S == SlotsOf(k)
              f == [b \in A |-> slot[b]]
  <2>4. \A b \in A : b \in Temporaries /\ sched.class[b] = k /\ Producer(b) <= p /\ p <= Last(b)
    BY DEF Alive
  <2>5. f \in [A -> S]  BY <2>2, <2>4
  <2>6. ASSUME NEW b \in A, NEW c \in A, slot[b] = slot[c] PROVE b = c
    <3>1. slot[b] # None
      BY <2>1, <2>2, <2>4, ScheduleAssumption DEF SlotsOf
    <3>2. b # c => Last(b) < Producer(c) \/ Last(c) < Producer(b)
      BY <2>1, <2>4, <2>6, <3>1 DEF IInv, SharedSlotsAreDisjoint
    <3>3. /\ Producer(b) \in Nat /\ Last(b) \in Nat /\ Producer(c) \in Nat /\ Last(c) \in Nat /\ p \in Nat
          /\ Producer(b) <= p /\ p <= Last(b) /\ Producer(c) <= p /\ p <= Last(c)
      BY <2>1, <2>4, Lifetime, ScheduleAssumption DEF Position
    <3>. QED  BY <3>2, <3>3
  <2>7. \A s \in S : \E b \in A : slot[b] = s
    BY <2>1, <2>3 DEF CrowdedAt, Alive
  <2>8. IsFiniteSet(S)
    <3>1. IsFiniteSet(0 .. count - 1)
      BY <2>1, 0 \in Int, count - 1 \in Int, FS_Interval
    <3>. QED  BY <3>1, FS_Subset DEF SlotsOf
  <2>. HIDE DEF A, S, f
  <2>9. f \in Bijection(A, S)
    <3>1. \A b \in A : f[b] = slot[b]  BY DEF f
    <3>2. f \in Injection(A, S)
      BY <2>5, <2>6, <3>1 DEF Injection, IsInjective
    <3>3. f \in Surjection(A, S)
      BY <2>5, <2>7, <3>1 DEF Surjection
    <3>. QED  BY <3>2, <3>3 DEF Bijection
  <2>10. IsFiniteSet(A) /\ Cardinality(A) = Cardinality(S)
    <3>1. ExistsBijection(A, S)  BY <2>9 DEF ExistsBijection
    <3>2. ExistsBijection(S, A)  BY <3>1, Fun_ExistsBijSymmetric
    <3>. QED  BY <2>8, <3>1, <3>2, FS_Bijection
  <2>. QED  BY <2>3, <2>10 DEF A, S
<1>. QED  BY <1>1, Invariance, PeakInvariance, PTL
=============================================================================
