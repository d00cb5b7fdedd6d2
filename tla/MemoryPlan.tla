----------------------------- MODULE MemoryPlan -----------------------------
(***************************************************************************)
(* The plan of host allocations (src/src/memory_plan/mod.rs) and the        *)
(* realization that follows it (src/src/engine/mod.rs).  The planner gives  *)
(* each temporary of a schedule a physical slot, and reuses a slot whose    *)
(* last consumer comes strictly before the new producer.  The realization   *)
(* runs the items in order: an item reads every temporary that is leased,   *)
(* leases the slots of its outputs, which the pool refuses while they are   *)
(* leased, and releases the temporaries it is the last consumer of.         *)
(*                                                                         *)
(* Items are named by their position.  A class stands for the bytes, dtype, *)
(* shape, alignment and address space that must be equal for reuse.  Left   *)
(* out: the validation of descriptors and of the declared consumers, which  *)
(* a validated schedule has passed, and the kernels.                        *)
(***************************************************************************)
EXTENDS Naturals, FiniteSets

CONSTANTS
    Items,       \* the number of schedule items
    Buffer,      \* the buffers they produce, by their identifiers
    Class,       \* compatibility classes
    Zero,        \* the class of buffers without bytes
    Schedules,   \* the schedules that are planned
    None

Position == 1 .. Items

(* producer: the item that produces a buffer; readers: the items that read
   it; requested: the outputs; reuse: MemoryReuse::Enabled. *)
Schedule == [producer : [Buffer -> Position], readers : [Buffer -> SUBSET Position],
             class : [Buffer -> Class], requested : SUBSET Buffer, reuse : BOOLEAN]

ASSUME ScheduleAssumption ==
    /\ Items \in Nat /\ Buffer \subseteq Nat /\ None \notin Nat
    /\ Schedules \subseteq Schedule

VARIABLES
    sched,    \* the schedule that is planned and realized
    phase,    \* "plan", "assign", "run", "done", or an error: "rejected", "refused"
    slot,     \* allocation_id: the slot of each assigned buffer, or None
    done,     \* the buffers that have been assigned
    count,    \* slots.len()
    slots,    \* the physical slots of the planner
    at,       \* the next item
    leased,   \* buffers with a live lease
    memory    \* the buffer whose value is in each physical slot

planned == <<slot, done, count, slots>>
vars == <<sched, phase, planned, at, leased, memory>>

Init ==
    /\ sched \in Schedules
    /\ phase = "plan"
    /\ slot = [b \in Buffer |-> None]
    /\ done = {}
    /\ count = 0
    /\ slots = [s \in {} |-> None]
    /\ at = 1
    /\ leased = {}
    /\ memory = [s \in {} |-> None]

-----------------------------------------------------------------------------
(* MemoryPlan::build *)

Producer(b) == sched.producer[b]
Readers(b) == sched.readers[b]

(* internal_temporaries: outputs of items that have consumers, unless they
   are requested. *)
Temporaries ==
    {b \in Buffer \ sched.requested :
        \E c \in Buffer : Producer(c) = Producer(b) /\ Readers(c) # {}}

(* The last of the readers, or the producer when there are none. *)
IsLast(b, p) ==
    \/ Readers(b) = {} /\ p = Producer(b)
    \/ p \in Readers(b) /\ \A q \in Readers(b) : q <= p
Last(b) == CHOOSE p \in Position : IsLast(b, p)

(* No temporary is read before or by the item that produces it. *)
ProducedFirst == \A b \in Temporaries : \A p \in Readers(b) : Producer(b) < p

Build ==
    /\ phase = "plan"
    /\ phase' = IF ProducedFirst THEN "assign" ELSE "rejected"
    /\ UNCHANGED <<sched, planned, at, leased, memory>>

(* Mutant: requests are taken in the order of their buffers. *)
ByBuffer(b, c) == b <= c

(* requests.sort_by_key: by producer, then by buffer. *)
Before(b, c) == Producer(b) < Producer(c) \/ (Producer(b) = Producer(c) /\ b <= c)

Policy(b) == CASE sched.class[b] = Zero -> "absent"
               [] sched.class[b] # Zero /\ sched.reuse -> "reusable"
               [] sched.class[b] # Zero /\ ~sched.reuse -> "private"

(* Mutant: a slot may be taken over by the item that reads it last. *)
AvailableAtLast(s, b) ==
    /\ slots[s].reusable
    /\ slots[s].last <= Producer(b)
    /\ slots[s].class = sched.class[b]

Available(s, b) ==
    /\ slots[s].reusable
    /\ slots[s].last < Producer(b)
    /\ slots[s].class = sched.class[b]

Candidates(b) ==
    IF Policy(b) = "reusable" THEN {s \in 0 .. count - 1 : Available(s, b)} ELSE {}

(* The slot b is put into, an old or a new one. *)
Occupy(s, b) ==
    /\ slot' = [slot EXCEPT ![b] = s]
    /\ slots' = [t \in 0 .. count' - 1 |->
           IF t = s
           THEN [current |-> b, class |-> sched.class[b], last |-> Last(b),
                 reusable |-> Policy(b) = "reusable"]
           ELSE slots[t]]

(* assign_exact_slots, for the next request: nothing for a buffer without
   bytes, the first slot that is available, or a new slot. *)
Assign(b) ==
    /\ phase = "assign"
    /\ b \in Temporaries \ done
    /\ \A c \in Temporaries \ done : Before(b, c)
    /\ done' = done \cup {b}
    /\ \/ /\ Policy(b) = "absent"
          /\ UNCHANGED <<slot, slots, count>>
       \/ /\ Policy(b) # "absent"
          /\ \E s \in Candidates(b) :
                /\ \A t \in Candidates(b) : s <= t
                /\ count' = count
                /\ Occupy(s, b)
       \/ /\ Policy(b) # "absent"
          /\ Candidates(b) = {}
          /\ count' = count + 1
          /\ Occupy(count, b)
    /\ UNCHANGED <<sched, phase, at, leased, memory>>

(* The plan is complete; the pool is still empty. *)
Start ==
    /\ phase = "assign"
    /\ done = Temporaries
    /\ phase' = "run"
    /\ memory' = [s \in 0 .. count - 1 |-> None]
    /\ UNCHANGED <<sched, planned, at, leased>>

-----------------------------------------------------------------------------
(* realize_with_options *)

Outputs(p) == {b \in Buffer : Producer(b) = p}

(* HostSlotPool::lease refuses a slot that is leased. *)
Refused(p) ==
    \E b \in Outputs(p) \cap Temporaries : \E c \in Temporaries \ {b} :
        /\ slot[b] # None /\ slot[c] = slot[b]
        /\ c \in leased \/ c \in Outputs(p)

(* The outputs are leased and written, then the temporaries whose last
   consumer this item is are released. *)
LeasedAfter(p) ==
    (leased \cup (Outputs(p) \cap Temporaries)) \ {b \in Temporaries : Last(b) = p}

Execute ==
    /\ phase = "run"
    /\ at <= Items
    /\ IF Refused(at)
       THEN phase' = "refused" /\ UNCHANGED <<at, leased, memory>>
       ELSE /\ memory' = [s \in 0 .. count - 1 |->
                  IF \E b \in Outputs(at) \cap Temporaries : slot[b] = s
                  THEN CHOOSE b \in Outputs(at) \cap Temporaries : slot[b] = s
                  ELSE memory[s]]
            /\ leased' = LeasedAfter(at)
            /\ at' = at + 1
            /\ UNCHANGED phase
    /\ UNCHANGED <<sched, planned>>

(* The pool must have created as many slots as the plan's peak_allocations. *)
Finish ==
    /\ phase = "run"
    /\ at = Items + 1
    /\ phase' = IF \A s \in 0 .. count - 1 : memory[s] # None THEN "done" ELSE "refused"
    /\ UNCHANGED <<sched, planned, at, leased, memory>>

Next ==
    \/ Build
    \/ \E b \in Buffer : Assign(b)
    \/ Start
    \/ Execute
    \/ Finish

Spec == Init /\ [][Next]_vars

-----------------------------------------------------------------------------
(* Properties *)

(* Types; only temporaries are ever leased. *)
TypeOK ==
    /\ sched \in Schedule
    /\ phase \in {"plan", "assign", "run", "done", "rejected", "refused"}
    /\ done \subseteq Temporaries
    /\ count \in Nat
    /\ slot \in [Buffer -> (0 .. count - 1) \cup {None}]
    /\ slots \in [0 .. count - 1 ->
           [current : Buffer, class : Class, last : Position, reusable : BOOLEAN]]
    /\ at \in 1 .. Items + 1
    /\ leased \subseteq Temporaries

(* Two buffers share a slot only if one is read for the last time strictly
   before the other is produced, so that no item reads and overwrites the
   slot, and only if they are of one class and reuse was asked for. *)
SharedSlotsAreDisjoint ==
    \A b, c \in done : b # c /\ slot[b] # None /\ slot[b] = slot[c] =>
        /\ Last(b) < Producer(c) \/ Last(c) < Producer(b)
        /\ sched.class[b] = sched.class[c]
        /\ sched.reuse

(* Every temporary that an item reads is leased and its slot still holds its
   value, however many buffers the slot has held before. *)
ReadsFindTheirValue ==
    phase = "run" => \A b \in Temporaries : at \in Readers(b) =>
        /\ b \in leased
        /\ slot[b] # None => memory[slot[b]] = b

(* A plan that was built is never refused by the pool that carries it out,
   and the pool ends with as many slots as the plan announced. *)
NeverRefused == phase # "refused"

(* At the end of a realization every lease has been given back. *)
AllReleased == phase = "done" => leased = {}

(* A plan and its realization: shared slots have disjoint lifetimes, reads find
   their values, the pool refuses nothing and gets everything back. *)
RealizationIsSound ==
    TypeOK /\ SharedSlotsAreDisjoint /\ ReadsFindTheirValue /\ NeverRefused /\ AllReleased

(* The buffers of a class that are alive at one item. *)
Alive(k, p) == {b \in Temporaries : sched.class[b] = k /\ Producer(b) <= p /\ p <= Last(b)}

(* Reference: with reuse, each class has as many slots as it has buffers
   alive at its busiest item, and no plan can do with fewer. *)
PeakIsMinimal ==
    phase \in {"run", "done"} /\ sched.reuse =>
        \A k \in Class \ {Zero} :
            \/ Temporaries \cap {b \in Buffer : sched.class[b] = k} = {}
            \/ \E p \in Position :
                 Cardinality({s \in 0 .. count - 1 : slots[s].class = k})
                     = Cardinality(Alive(k, p))

=============================================================================
