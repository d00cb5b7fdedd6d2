------------------------- MODULE HostBuffer_proofs --------------------------
(***************************************************************************)
(* Proofs about HostSlotPool, for every set of slots and layouts and every *)
(* bound on generations, views and sentinels.                              *)
(*                                                                         *)
(* The inductive invariant IInv joins what callers hold to what the pool   *)
(* counts: an unreleased lease is live, counters equal live borrows, only  *)
(* published values are visible, and the descriptor of a slot always fits  *)
(* its capacity (SentinelNeverPhysical alone says nothing of a released    *)
(* slot, which the next lease relies on).                                  *)
(***************************************************************************)
EXTENDS HostBuffer, TLAPS

CapacityFits ==
    \A s \in DOMAIN slots :
      slots[s].descriptor \in Layouts /\ Bytes[slots[s].descriptor] = slots[s].capacity

IInv ==
    /\ TypeOK /\ LeaseIsLive /\ BorrowAccounting /\ VisibleIsPublished /\ CapacityFits

-----------------------------------------------------------------------------
(* Slots.                                                                  *)

\* A slot made by a first lease (entry().or_insert_with) is quiescent, holds no
\* value and has the capacity of the layout asked for.
LEMMA NewSlotFacts ==
    ASSUME NEW layout \in Layouts
    PROVE  /\ NewSlot(layout) \in Slot
           /\ NewSlot(layout).capacity = Bytes[layout] /\ NewSlot(layout).descriptor = None
           /\ NewSlot(layout).generation = 0 /\ NewSlot(layout).views = 0
           /\ NewSlot(layout).window = FALSE /\ NewSlot(layout).leased = FALSE
BY HostBufferAssumption DEF NewSlot, Slot

\* A lease moves a slot to its next generation with both banks empty and
\* leaves its capacity and its borrow counters alone.
LEMMA LeasedFacts ==
    ASSUME NEW layout \in Layouts, NEW entry \in Slot, entry.generation < MaxGeneration
    PROVE  /\ Leased(entry, layout) \in Slot
           /\ Leased(entry, layout).generation = entry.generation + 1
           /\ Leased(entry, layout).descriptor = layout
           /\ Leased(entry, layout).capacity = entry.capacity
           /\ Leased(entry, layout).views = entry.views
           /\ Leased(entry, layout).window = entry.window
           /\ Leased(entry, layout).leased = TRUE
           /\ Leased(entry, layout).active = 0
           /\ ActiveValue(Leased(entry, layout)) = None
<1>1. entry.generation + 1 \in 0..MaxGeneration
  BY HostBufferAssumption DEF Slot
<1>2. [bank \in {0, 1} |-> None] \in [{0, 1} -> Tensor \cup {None}]
  OBVIOUS
<1>3. /\ Leased(entry, layout).generation = entry.generation + 1
      /\ Leased(entry, layout).descriptor = layout
      /\ Leased(entry, layout).capacity = entry.capacity
      /\ Leased(entry, layout).views = entry.views
      /\ Leased(entry, layout).window = entry.window
      /\ Leased(entry, layout).leased = TRUE
      /\ Leased(entry, layout).active = 0
      /\ Leased(entry, layout).values = [bank \in {0, 1} |-> None]
  BY DEF Leased, Slot
<1>4. Leased(entry, layout) \in Slot
  BY <1>1, <1>2 DEF Leased, Slot
<1> QED
  BY <1>3, <1>4 DEF ActiveValue

\* prepare_bank_slot touches the inactive bank only.
LEMMA PreparedFacts ==
    ASSUME NEW entry \in Slot, entry.generation \in Generations
    PROVE  /\ Prepared(entry) \in Slot
           /\ Prepared(entry).generation = entry.generation
           /\ Prepared(entry).descriptor = entry.descriptor
           /\ Prepared(entry).capacity = entry.capacity
           /\ Prepared(entry).views = entry.views
           /\ Prepared(entry).window = entry.window
           /\ Prepared(entry).leased = entry.leased
           /\ Prepared(entry).active = entry.active
           /\ ActiveValue(Prepared(entry)) = ActiveValue(entry)
BY HostBufferAssumption DEF Prepared, Slot, ActiveValue, Inactive, Tensor, Generations

\* What a failed stage closure writes stays in the inactive bank.
LEMMA DirtyFacts ==
    ASSUME NEW entry \in Slot, entry.generation \in Generations
    PROVE  /\ Dirty(entry) \in Slot
           /\ Dirty(entry).generation = entry.generation
           /\ Dirty(entry).descriptor = entry.descriptor
           /\ Dirty(entry).capacity = entry.capacity
           /\ Dirty(entry).views = entry.views
           /\ Dirty(entry).window = entry.window
           /\ Dirty(entry).leased = entry.leased
           /\ Dirty(entry).active = entry.active
           /\ ActiveValue(Dirty(entry)) = ActiveValue(entry)
BY HostBufferAssumption, PreparedFacts DEF Dirty, Slot, ActiveValue, Inactive, Tensor, Generations

\* A flip shows exactly the value it stores and changes no counter.
LEMMA FlipFacts ==
    ASSUME NEW entry \in Slot, NEW value \in Tensor
    PROVE  /\ Flip(entry, value) \in Slot
           /\ Flip(entry, value).generation = entry.generation
           /\ Flip(entry, value).descriptor = entry.descriptor
           /\ Flip(entry, value).capacity = entry.capacity
           /\ Flip(entry, value).views = entry.views
           /\ Flip(entry, value).window = entry.window
           /\ Flip(entry, value).leased = entry.leased
           /\ ActiveValue(Flip(entry, value)) = value
<1>1. Inactive(entry) \in {0, 1}
  BY DEF Inactive, Slot
<1>2. [entry.values EXCEPT ![Inactive(entry)] = value] \in [{0, 1} -> Tensor \cup {None}]
  BY <1>1 DEF Slot
<1>3. /\ Flip(entry, value).generation = entry.generation
      /\ Flip(entry, value).descriptor = entry.descriptor
      /\ Flip(entry, value).capacity = entry.capacity
      /\ Flip(entry, value).views = entry.views
      /\ Flip(entry, value).window = entry.window
      /\ Flip(entry, value).leased = entry.leased
      /\ Flip(entry, value).active = Inactive(entry)
      /\ Flip(entry, value).values = [entry.values EXCEPT ![Inactive(entry)] = value]
  BY DEF Flip, Slot
<1>4. Flip(entry, value) \in Slot
  BY <1>1, <1>2 DEF Flip, Slot
<1>5. [entry.values EXCEPT ![Inactive(entry)] = value][Inactive(entry)] = value
  BY <1>1 DEF Slot
<1> QED
  BY <1>3, <1>4, <1>5 DEF ActiveValue

\* Banks and their order are all that changes: what values and handles say of
\* each other stays true when only published values become visible.
LEMMA BanksPreserve ==
    ASSUME IInv,
           DOMAIN slots' = DOMAIN slots,
           \A s \in DOMAIN slots :
             /\ slots'[s] \in Slot
             /\ slots'[s].generation = slots[s].generation
             /\ slots'[s].descriptor = slots[s].descriptor
             /\ slots'[s].capacity = slots[s].capacity
             /\ slots'[s].views = slots[s].views
             /\ slots'[s].window = slots[s].window
             /\ slots'[s].leased = slots[s].leased
             /\ ActiveValue(slots'[s]) \in {None, Published(slots[s])},
           staged' \subseteq Handles, poisoned' \in BOOLEAN, poisoned => poisoned',
           UNCHANGED <<nextSentinel, leases, views, windows>>
    PROVE  IInv'
<1>1. TypeOK'
  BY DEF IInv, TypeOK
<1>2. LeaseIsLive'
  BY DEF IInv, LeaseIsLive, LiveSlot, TypeOK
<1>3. BorrowAccounting'
  BY DEF IInv, BorrowAccounting, TypeOK
<1>4. VisibleIsPublished'
  BY DEF IInv, VisibleIsPublished, Published
<1>5. CapacityFits'
  BY DEF IInv, CapacityFits
<1> QED
  BY <1>1, <1>2, <1>3, <1>4, <1>5 DEF IInv

\* A live handle names an existing slot that is in the handle's generation.
LEMMA LiveGeneration ==
    ASSUME NEW handle \in Handles \cup Lease, LiveSlot(handle), TypeOK
    PROVE  /\ handle.slot \in DOMAIN slots
           /\ slots[handle.slot] \in Slot
           /\ slots[handle.slot].generation = handle.generation
           /\ slots[handle.slot].generation \in Generations
           /\ Published(slots[handle.slot]) \in Tensor
BY DEF LiveSlot, TypeOK, Handles, Lease, Published, Tensor

\* Leases name handles.
LEMMA HandleOfLease ==
    ASSUME NEW lease \in Lease
    PROVE  /\ HandleOf(lease) \in Handles
           /\ HandleOf(lease).slot = lease.slot
           /\ HandleOf(lease).generation = lease.generation
BY DEF Lease, HandleOf, Handles

\* write() publishes into the active bank in the lease's own generation.
LEMMA WritePreserves ==
    ASSUME IInv, NEW lease \in leases, Write(lease)
    PROVE  IInv'
<1> DEFINE e == slots[lease.slot]
<1>1. lease \in Lease /\ LiveSlot(lease)
  BY DEF IInv, TypeOK, Write
<1>2. e \in Slot /\ lease.slot \in DOMAIN slots /\ Published(e) \in Tensor
  BY <1>1, LiveGeneration DEF IInv
<1>3. slots' = [slots EXCEPT ![lease.slot] = [e EXCEPT !.values[e.active] = Published(e)]]
  BY DEF Write
<1>4. /\ [e EXCEPT !.values[e.active] = Published(e)] \in Slot
      /\ ActiveValue([e EXCEPT !.values[e.active] = Published(e)]) = Published(e)
  BY <1>2 DEF Slot, ActiveValue
<1>5. \A s \in DOMAIN slots :
        /\ slots'[s] \in Slot
        /\ slots'[s].generation = slots[s].generation
        /\ slots'[s].descriptor = slots[s].descriptor
        /\ slots'[s].capacity = slots[s].capacity
        /\ slots'[s].views = slots[s].views
        /\ slots'[s].window = slots[s].window
        /\ slots'[s].leased = slots[s].leased
        /\ ActiveValue(slots'[s]) \in {None, Published(slots[s])}
  BY <1>2, <1>3, <1>4 DEF IInv, TypeOK, VisibleIsPublished, Slot
<1>6. /\ DOMAIN slots' = DOMAIN slots /\ staged' \subseteq Handles
      /\ poisoned' \in BOOLEAN /\ (poisoned => poisoned')
      /\ UNCHANGED <<nextSentinel, leases, views, windows>>
  BY <1>3 DEF Write, IInv, TypeOK
<1> QED
  BY <1>5, <1>6, BanksPreserve

\* commit() publishes live writes only, so a value staged under an earlier
\* lease of the slot never becomes visible.
LEMMA CommitPreserves ==
    ASSUME IInv, NEW writes \in (SUBSET staged) \ {{}}, Commit(writes)
    PROVE  IInv'
<1> USE DEF IInv
<1>1. /\ staged' \subseteq Handles /\ poisoned' \in BOOLEAN /\ (poisoned => poisoned')
      /\ UNCHANGED <<nextSentinel, leases, views, windows>>
  BY DEF Commit, TypeOK
<1>2. CASE ~CommitOk(writes)
  <2>1. slots' = slots
    BY <1>2 DEF Commit
  <2> QED
    BY <2>1, <1>1, BanksPreserve DEF TypeOK, VisibleIsPublished
<1>3. CASE CommitOk(writes)
  <2> DEFINE W(s) == CHOOSE w \in writes : w.slot = s
             T(s) == [generation |-> W(s).generation, as |-> "published"]
  <2>1. slots' = [s \in DOMAIN slots |->
                    IF \E w \in writes : w.slot = s THEN Flip(slots[s], T(s)) ELSE slots[s]]
    BY <1>3 DEF Commit
  <2>2. ASSUME NEW s \in DOMAIN slots
        PROVE  /\ slots'[s] \in Slot
               /\ slots'[s].generation = slots[s].generation
               /\ slots'[s].descriptor = slots[s].descriptor
               /\ slots'[s].capacity = slots[s].capacity
               /\ slots'[s].views = slots[s].views
               /\ slots'[s].window = slots[s].window
               /\ slots'[s].leased = slots[s].leased
               /\ ActiveValue(slots'[s]) \in {None, Published(slots[s])}
    <3>1. CASE ~\E w \in writes : w.slot = s
      BY <3>1, <2>1 DEF TypeOK, VisibleIsPublished
    <3>2. CASE \E w \in writes : w.slot = s
      <4>1. W(s) \in writes /\ W(s).slot = s
        BY <3>2
      <4>2. W(s) \in Handles /\ LiveSlot(W(s))
        BY <4>1, <1>3 DEF CommitOk, TypeOK
      <4>3. T(s) = Published(slots[s]) /\ T(s) \in Tensor /\ slots[s] \in Slot
        BY <4>1, <4>2, LiveGeneration DEF Published
      <4>4. slots'[s] = Flip(slots[s], Published(slots[s]))
        BY <3>2, <2>1, <4>3
      <4> HIDE DEF W, T
      <4> QED
        BY <4>3, <4>4, FlipFacts
    <3> QED
      BY <3>1, <3>2
  <2>3. DOMAIN slots' = DOMAIN slots
    BY <2>1
  <2> QED
    BY <2>2, <2>3, <1>1, BanksPreserve
<1> QED
  BY <1>2, <1>3

\* A transaction names live slots.
LEMMA RequestFacts ==
    ASSUME IInv, NEW requests \in Requests, NEW r \in requests
    PROVE  /\ r \in Handles
           /\ RequestOk(r) => /\ slots[r.slot].generation \in Generations
                              /\ Published(slots[r.slot]) \in Tensor
<1>1. r \in Handles
  BY HandleOfLease DEF Requests, IInv, TypeOK
<1> QED
  BY <1>1, LiveGeneration DEF RequestOk, IInv

\* A refused transaction leaves prepared banks behind, all of them inactive.
LEMMA TransactRefusedPreserves ==
    ASSUME IInv, NEW requests \in Requests, NEW prepared \in SUBSET requests,
           TransactRefused(requests, prepared)
    PROVE  IInv'
<1> USE DEF IInv
<1>1. slots' = [s \in DOMAIN slots |->
                  IF \E h \in prepared : h.slot = s THEN Prepared(slots[s]) ELSE slots[s]]
  BY DEF TransactRefused, Updated
<1>2. ASSUME NEW s \in DOMAIN slots
      PROVE  /\ slots'[s] \in Slot
             /\ slots'[s].generation = slots[s].generation
             /\ slots'[s].descriptor = slots[s].descriptor
             /\ slots'[s].capacity = slots[s].capacity
             /\ slots'[s].views = slots[s].views
             /\ slots'[s].window = slots[s].window
             /\ slots'[s].leased = slots[s].leased
             /\ ActiveValue(slots'[s]) \in {None, Published(slots[s])}
  <2>1. slots[s] \in Slot /\ ActiveValue(slots[s]) \in {None, Published(slots[s])}
    BY DEF TypeOK, VisibleIsPublished
  <2>2. CASE \E h \in prepared : h.slot = s
    <3>1. PICK h \in prepared : h.slot = s
      BY <2>2
    <3>2. slots[s].generation \in Generations
      BY <3>1, RequestFacts DEF TransactRefused
    <3>3. slots'[s] = Prepared(slots[s])
      BY <2>2, <1>1
    <3> QED
      BY <2>1, <3>2, <3>3, PreparedFacts
  <2>3. CASE ~\E h \in prepared : h.slot = s
    BY <2>1, <2>3, <1>1
  <2> QED
    BY <2>2, <2>3
<1>3. /\ DOMAIN slots' = DOMAIN slots /\ staged' \subseteq Handles
      /\ poisoned' \in BOOLEAN /\ (poisoned => poisoned')
      /\ UNCHANGED <<nextSentinel, leases, views, windows>>
  BY <1>1 DEF TransactRefused, TypeOK
<1> QED
  BY <1>2, <1>3, BanksPreserve

\* A failed or panicking stage closure leaves its half-written banks inactive.
LEMMA TransactFailsPreserves ==
    ASSUME IInv, NEW requests \in Requests, NEW replaced \in SUBSET requests,
           NEW written \in SUBSET replaced, NEW panics \in BOOLEAN,
           TransactFails(requests, replaced, written, panics)
    PROVE  IInv'
<1> USE DEF IInv
<1>1. slots' = [s \in DOMAIN slots |->
                  IF \E h \in written : h.slot = s THEN Dirty(slots[s])
                  ELSE IF \E h \in replaced : h.slot = s THEN Prepared(slots[s])
                  ELSE slots[s]]
  BY DEF TransactFails
<1>2. ASSUME NEW s \in DOMAIN slots
      PROVE  /\ slots'[s] \in Slot
             /\ slots'[s].generation = slots[s].generation
             /\ slots'[s].descriptor = slots[s].descriptor
             /\ slots'[s].capacity = slots[s].capacity
             /\ slots'[s].views = slots[s].views
             /\ slots'[s].window = slots[s].window
             /\ slots'[s].leased = slots[s].leased
             /\ ActiveValue(slots'[s]) \in {None, Published(slots[s])}
  <2>1. slots[s] \in Slot /\ ActiveValue(slots[s]) \in {None, Published(slots[s])}
    BY DEF TypeOK, VisibleIsPublished
  <2>2. CASE \E h \in replaced : h.slot = s
    <3>1. PICK h \in replaced : h.slot = s
      BY <2>2
    <3>2. slots[s].generation \in Generations
      BY <3>1, RequestFacts DEF TransactFails, TransactOk
    <3>3. slots'[s] \in {Dirty(slots[s]), Prepared(slots[s])}
      BY <2>2, <1>1
    <3> QED
      BY <2>1, <3>2, <3>3, PreparedFacts, DirtyFacts
  <2>3. CASE ~\E h \in replaced : h.slot = s
    BY <2>1, <2>3, <1>1
  <2> QED
    BY <2>2, <2>3
<1>3. /\ DOMAIN slots' = DOMAIN slots /\ staged' \subseteq Handles
      /\ poisoned' \in BOOLEAN /\ (poisoned => poisoned')
      /\ UNCHANGED <<nextSentinel, leases, views, windows>>
  BY <1>1 DEF TransactFails, TransactOk, TypeOK
<1> QED
  BY <1>2, <1>3, BanksPreserve

\* A committed transaction shows what its closure wrote, in every replaced slot.
LEMMA TransactCommitsPreserves ==
    ASSUME IInv, NEW requests \in Requests, NEW replaced \in SUBSET requests,
           TransactCommits(requests, replaced)
    PROVE  IInv'
<1> USE DEF IInv
<1>1. slots' = [s \in DOMAIN slots |->
                  IF \E h \in replaced : h.slot = s THEN StagedFlip(slots[s]) ELSE slots[s]]
  BY DEF TransactCommits, Updated
<1>2. ASSUME NEW s \in DOMAIN slots
      PROVE  /\ slots'[s] \in Slot
             /\ slots'[s].generation = slots[s].generation
             /\ slots'[s].descriptor = slots[s].descriptor
             /\ slots'[s].capacity = slots[s].capacity
             /\ slots'[s].views = slots[s].views
             /\ slots'[s].window = slots[s].window
             /\ slots'[s].leased = slots[s].leased
             /\ ActiveValue(slots'[s]) \in {None, Published(slots[s])}
  <2>1. slots[s] \in Slot /\ ActiveValue(slots[s]) \in {None, Published(slots[s])}
    BY DEF TypeOK, VisibleIsPublished
  <2>2. CASE \E h \in replaced : h.slot = s
    <3>1. PICK h \in replaced : h.slot = s
      BY <2>2
    <3>2. Published(slots[s]) \in Tensor
      BY <3>1, RequestFacts DEF TransactCommits, TransactOk
    <3>3. slots'[s] = Flip(slots[s], Published(slots[s]))
      BY <2>2, <1>1 DEF StagedFlip
    <3> QED
      BY <2>1, <3>2, <3>3, FlipFacts
  <2>3. CASE ~\E h \in replaced : h.slot = s
    BY <2>1, <2>3, <1>1
  <2> QED
    BY <2>2, <2>3
<1>3. /\ DOMAIN slots' = DOMAIN slots /\ staged' \subseteq Handles
      /\ poisoned' \in BOOLEAN /\ (poisoned => poisoned')
      /\ UNCHANGED <<nextSentinel, leases, views, windows>>
  BY <1>1 DEF TransactCommits, TypeOK
<1> QED
  BY <1>2, <1>3, BanksPreserve

-----------------------------------------------------------------------------
(* Leases.                                                                 *)

\* Both branches of lease() keep the invariant: only a quiescent slot is
\* leased, so no unreleased lease and no borrow of it is left behind.
LEMMA LeaseSlotPreserves ==
    ASSUME IInv, ~poisoned, NEW slot \in SlotIds, NEW layout \in Layouts,
           NEW isSentinel \in BOOLEAN, LeaseSlot(slot, layout, isSentinel),
           nextSentinel' \in 0..MaxSentinels
    PROVE  IInv'
<1> USE DEF IInv
<1> DEFINE e == EntryFor(slot, layout)
<1>1. e \in Slot /\ e.generation < MaxGeneration /\ Quiescent(e) /\ Compatible(e, layout, isSentinel)
  BY NewSlotFacts DEF LeaseSlot, Admits, EntryFor, TypeOK
<1>2. slots' = [s \in DOMAIN slots \cup {slot} |->
                  IF s = slot THEN Leased(e, layout) ELSE slots[s]]
  BY DEF LeaseSlot
<1>3. leases' = leases \cup
        {[slot |-> slot, generation |-> e.generation + 1, released |-> FALSE]}
  BY DEF LeaseSlot
<1>4. UNCHANGED <<poisoned, views, windows, staged>>
  BY DEF LeaseSlot
<1>5. Bytes[layout] = e.capacity
  <2>1. CASE slot \in DOMAIN slots
    BY <2>1, <1>1, HostBufferAssumption DEF EntryFor, Compatible, CapacityFits
  <2>2. CASE slot \notin DOMAIN slots
    BY <2>2, NewSlotFacts DEF EntryFor
  <2> QED
    BY <2>1, <2>2
<1>6. \A h \in Handles : h.slot = slot => views[h] = 0 /\ windows[h] = 0
  BY <1>1 DEF BorrowAccounting, Quiescent, EntryFor
<1>7. \A lease \in leases : ~lease.released => lease.slot # slot
  BY <1>1 DEF LeaseIsLive, LiveSlot, Quiescent, EntryFor
<1>8. e.generation + 1 \in Generations
  BY <1>1, HostBufferAssumption DEF Slot, Generations
<1> DEFINE n == Leased(e, layout)
<1>9. /\ n \in Slot /\ n.generation = e.generation + 1 /\ n.descriptor = layout
      /\ n.capacity = e.capacity /\ n.views = e.views /\ n.window = e.window
      /\ n.leased = TRUE /\ ActiveValue(n) = None
  BY <1>1, LeasedFacts
<1>10. /\ DOMAIN slots' = DOMAIN slots \cup {slot} /\ slots'[slot] = n
       /\ \A s \in DOMAIN slots : s # slot => slots'[s] = slots[s]
  BY <1>2
<1> HIDE DEF e, n
<1>11. TypeOK'
  <2>1. [slot |-> slot, generation |-> e.generation + 1, released |-> FALSE] \in Lease
    BY <1>8 DEF Lease
  <2>2. leases' \subseteq Lease
    BY <1>3, <2>1 DEF TypeOK
  <2>3. DOMAIN slots' \subseteq SlotIds /\ \A s \in DOMAIN slots' : slots'[s] \in Slot
    BY <1>9, <1>10 DEF TypeOK
  <2> QED
    BY <2>2, <2>3, <1>4 DEF TypeOK
<1>12. LeaseIsLive'
  <2>1. ASSUME NEW lease \in leases', ~lease.released
        PROVE  LiveSlot(lease)'
    <3>1. CASE lease \in leases
      BY <3>1, <2>1, <1>7, <1>10 DEF LeaseIsLive, LiveSlot
    <3>2. CASE lease = [slot |-> slot, generation |-> e.generation + 1, released |-> FALSE]
      BY <3>2, <1>9, <1>10 DEF LiveSlot
    <3> QED
      BY <3>1, <3>2, <1>3
  <2> QED
    BY <2>1 DEF LeaseIsLive
<1>13. BorrowAccounting'
  <2>1. n.views = 0 /\ ~n.window
    BY <1>1, <1>9 DEF Quiescent
  <2> QED
    BY <2>1, <1>4, <1>6, <1>10 DEF BorrowAccounting
<1>14. VisibleIsPublished'
  BY <1>9, <1>10 DEF VisibleIsPublished
<1>15. CapacityFits'
  BY <1>5, <1>9, <1>10 DEF CapacityFits
<1> QED
  BY <1>11, <1>12, <1>13, <1>14, <1>15

\* lease(Some(slot), ..) keeps the invariant.
LEMMA LeasePreserves ==
    ASSUME IInv, NEW slot \in CallerSlots, NEW layout \in Layouts, LeaseCaller(slot, layout)
    PROVE  IInv'
<1>1. slot \in SlotIds /\ ~poisoned /\ nextSentinel' \in 0..MaxSentinels
  BY HostBufferAssumption DEF LeaseCaller, IInv, TypeOK, SlotIds
<1> QED
  BY <1>1, LeaseSlotPreserves DEF LeaseCaller

\* lease(None, ..) keeps the invariant, whether it is granted or refused.
LEMMA LeaseSentinelPreserves ==
    ASSUME IInv, NEW layout \in Layouts, LeaseSentinel(layout)
    PROVE  IInv'
<1>1. /\ ~poisoned /\ nextSentinel' \in 0..MaxSentinels
      /\ MaxSlot - nextSentinel \in SlotIds
  BY HostBufferAssumption DEF LeaseSentinel, IInv, TypeOK, SlotIds
<1>2. CASE LeaseSlot(MaxSlot - nextSentinel, layout, TRUE)
  BY <1>1, <1>2, LeaseSlotPreserves
<1>3. CASE UNCHANGED <<slots, poisoned, leases, views, windows, staged>>
  <2>1. UNCHANGED slots /\ UNCHANGED <<poisoned, leases, views, windows, staged>>
    BY <1>3
  <2> QED
    BY <2>1, <1>1 DEF IInv, TypeOK, LeaseIsLive, LiveSlot, BorrowAccounting,
         VisibleIsPublished, CapacityFits
<1> QED
  BY <1>2, <1>3 DEF LeaseSentinel

\* An unreleased lease is the only one of its slot.
LEMMA SoleLease ==
    ASSUME IInv, NEW l \in leases, NEW k \in leases,
           ~l.released, ~k.released, l.slot = k.slot
    PROVE  l = k
<1>1. l \in Lease /\ k \in Lease /\ LiveSlot(l) /\ LiveSlot(k)
  BY DEF IInv, TypeOK, LeaseIsLive
<1>2. l.generation = k.generation /\ l.released = k.released
  BY <1>1 DEF LiveSlot, Lease
<1> QED
  BY <1>1, <1>2 DEF Lease

\* release() and the drop of a lease, accepted or swallowed: the slot that is
\* given back was owned by no other lease.
LEMMA ReleasePreserves ==
    ASSUME IInv, NEW lease \in leases, Release(lease) \/ DropLease(lease)
    PROVE  IInv'
<1> USE DEF IInv
<1>1. /\ lease \in Lease
      /\ UNCHANGED <<nextSentinel, poisoned, views, windows, staged>>
  BY DEF TypeOK, Release, DropLease
<1>2. leases' \subseteq Lease
  <2>1. [lease EXCEPT !.released = TRUE] \in Lease
    BY <1>1 DEF Lease
  <2>2. leases' \subseteq leases \cup {[lease EXCEPT !.released = TRUE]}
    BY DEF Release, DropLease
  <2> QED
    BY <2>1, <2>2 DEF TypeOK
<1>3. \A k \in leases' : ~k.released => k \in leases /\ k # lease
  BY <1>1 DEF Release, DropLease, Lease
<1>4. CASE slots' = slots
  <2>1. LeaseIsLive'
    BY <1>3, <1>4 DEF LeaseIsLive, LiveSlot
  <2> QED
    BY <2>1, <1>1, <1>2, <1>4
    DEF TypeOK, BorrowAccounting, VisibleIsPublished, CapacityFits
<1>5. CASE ReleaseOk(lease) /\ slots' = ReleasedSlots(lease)
  <2> DEFINE e == slots[lease.slot]
             n == [e EXCEPT !.leased = FALSE, !.values = [bank \in {0, 1} |-> None]]
  <2>1. ~lease.released /\ LiveSlot(lease) /\ lease.slot \in DOMAIN slots /\ e \in Slot
    BY <1>5, <1>1, LiveGeneration DEF ReleaseOk
  <2>2. slots' = [slots EXCEPT ![lease.slot] = n]
    BY <1>5, <2>1 DEF ReleasedSlots
  <2>3. [bank \in {0, 1} |-> None] \in [{0, 1} -> Tensor \cup {None}]
    OBVIOUS
  <2>4. /\ n \in Slot /\ n.generation = e.generation /\ n.views = e.views
        /\ n.window = e.window /\ n.descriptor = e.descriptor /\ n.capacity = e.capacity
        /\ ActiveValue(n) = None
    BY <2>1, <2>3 DEF Slot, ActiveValue
  <2>5. /\ DOMAIN slots' = DOMAIN slots /\ slots'[lease.slot] = n
        /\ \A s \in DOMAIN slots : s # lease.slot => slots'[s] = slots[s]
    BY <2>1, <2>2
  <2> HIDE DEF n
  <2>6. TypeOK'
    BY <1>1, <1>2, <2>4, <2>5 DEF TypeOK
  <2>7. LeaseIsLive'
    <3>1. ASSUME NEW k \in leases', ~k.released
          PROVE  LiveSlot(k)'
      <4>1. k \in leases /\ k # lease
        BY <1>3, <3>1
      <4>2. k.slot # lease.slot
        BY <2>1, <3>1, <4>1, SoleLease
      <4> QED
        BY <3>1, <4>1, <4>2, <2>5 DEF LeaseIsLive, LiveSlot
    <3> QED
      BY <3>1 DEF LeaseIsLive
  <2>8. BorrowAccounting'
    BY <1>1, <2>4, <2>5 DEF BorrowAccounting
  <2>9. VisibleIsPublished' /\ CapacityFits'
    BY <2>4, <2>5 DEF VisibleIsPublished, CapacityFits
  <2> QED
    BY <2>6, <2>7, <2>8, <2>9
<1> QED
  BY <1>4, <1>5 DEF Release, DropLease

-----------------------------------------------------------------------------
(* Borrows.                                                                *)

\* Only the counters of one live generation of one slot change, and they
\* change together with the handles that the counters stand for.
LEMMA BorrowPreserves ==
    ASSUME IInv, NEW h \in Handles, h.slot \in DOMAIN slots,
           slots[h.slot].generation = h.generation,
           NEW n \in Slot,
           slots' = [slots EXCEPT ![h.slot] = n],
           n.generation = slots[h.slot].generation,
           n.descriptor = slots[h.slot].descriptor,
           n.capacity = slots[h.slot].capacity,
           n.leased = slots[h.slot].leased,
           n.values = slots[h.slot].values,
           n.active = slots[h.slot].active,
           views' \in [Handles -> 0..MaxViews], windows' \in [Handles -> 0..1],
           views'[h] = n.views, windows'[h] = IF n.window THEN 1 ELSE 0,
           \A k \in Handles : k # h => views'[k] = views[k] /\ windows'[k] = windows[k],
           UNCHANGED <<nextSentinel, poisoned, leases, staged>>
    PROVE  IInv'
<1> USE DEF IInv
<1>1. /\ DOMAIN slots' = DOMAIN slots /\ slots'[h.slot] = n
      /\ \A s \in DOMAIN slots : s # h.slot => slots'[s] = slots[s]
  OBVIOUS
<1>2. TypeOK'
  BY <1>1 DEF TypeOK
<1>3. LeaseIsLive'
  BY <1>1 DEF LeaseIsLive, LiveSlot
<1>4. ASSUME NEW k \in Handles, ~poisoned
      PROVE  IF k.slot \in DOMAIN slots' /\ slots'[k.slot].generation = k.generation
             THEN /\ views'[k] = slots'[k.slot].views
                  /\ windows'[k] = IF slots'[k.slot].window THEN 1 ELSE 0
             ELSE views'[k] = 0 /\ windows'[k] = 0
  <2>1. CASE k = h
    BY <2>1, <1>1
  <2>2. CASE k # h /\ k.slot # h.slot
    BY <2>2, <1>1, <1>4 DEF BorrowAccounting
  <2>3. CASE k # h /\ k.slot = h.slot
    <3>1. k.generation # h.generation
      BY <2>3 DEF Handles
    <3> QED
      BY <3>1, <2>3, <1>1, <1>4 DEF BorrowAccounting
  <2> QED
    BY <2>1, <2>2, <2>3
<1>5. BorrowAccounting'
  BY <1>4 DEF BorrowAccounting
<1>6. VisibleIsPublished' /\ CapacityFits'
  BY <1>1 DEF VisibleIsPublished, CapacityFits, ActiveValue, Published
<1> QED
  BY <1>2, <1>3, <1>5, <1>6

\* A poisoned pool changes no slot: handles are dropped without effect.
LEMMA PoisonedPreserves ==
    ASSUME IInv, poisoned, UNCHANGED <<slots, nextSentinel, poisoned, leases, staged>>,
           views' \in [Handles -> 0..MaxViews], windows' \in [Handles -> 0..1]
    PROVE  IInv'
<1>1. slots' = slots /\ leases' = leases
  OBVIOUS
<1> QED
  BY <1>1 DEF IInv, TypeOK, LeaseIsLive, LiveSlot, BorrowAccounting, VisibleIsPublished, CapacityFits

\* view() counts the view it hands out.
LEMMA ViewPreserves ==
    ASSUME IInv, NEW lease \in leases, View(lease)
    PROVE  IInv'
<1> USE DEF IInv
<1> DEFINE h == HandleOf(lease)
           e == slots[h.slot]
           n == [e EXCEPT !.views = @ + 1]
<1>1. /\ lease \in Lease /\ h \in Handles /\ h.slot = lease.slot
      /\ h.generation = lease.generation
  BY HandleOfLease DEF TypeOK
<1>2. /\ h.slot \in DOMAIN slots /\ e \in Slot /\ e.generation = h.generation
      /\ ~poisoned /\ e.views < MaxViews
  BY <1>1, LiveGeneration DEF View
<1>3. /\ slots' = [slots EXCEPT ![h.slot] = n] /\ views' = [views EXCEPT ![h] = @ + 1]
      /\ UNCHANGED <<nextSentinel, poisoned, leases, windows, staged>>
  BY <1>1 DEF View
<1>4. /\ n \in Slot /\ n.views = e.views + 1 /\ n.window = e.window
      /\ n.generation = e.generation /\ n.descriptor = e.descriptor
      /\ n.capacity = e.capacity /\ n.leased = e.leased /\ n.values = e.values
      /\ n.active = e.active
  BY <1>2, HostBufferAssumption DEF Slot
<1>5. views[h] = e.views /\ windows[h] = IF e.window THEN 1 ELSE 0
  BY <1>1, <1>2 DEF BorrowAccounting
<1>6. views' \in [Handles -> 0..MaxViews] /\ views'[h] = n.views
  BY <1>1, <1>2, <1>3, <1>4, <1>5, HostBufferAssumption DEF TypeOK
<1>7. windows' \in [Handles -> 0..1] /\ windows'[h] = IF n.window THEN 1 ELSE 0
  BY <1>3, <1>4, <1>5 DEF TypeOK
<1>8. \A k \in Handles : k # h => views'[k] = views[k] /\ windows'[k] = windows[k]
  BY <1>3 DEF TypeOK
<1> HIDE DEF h, n, IInv
<1> QED
  BY <1>1, <1>2, <1>3, <1>4, <1>6, <1>7, <1>8, BorrowPreserves

\* The drop of a view uncounts it, unless the pool is poisoned.
LEMMA DropViewPreserves ==
    ASSUME IInv, NEW h \in Handles, DropView(h)
    PROVE  IInv'
<1> USE DEF IInv
<1> DEFINE e == slots[h.slot]
           n == [e EXCEPT !.views = @ - 1]
<1>1. /\ views' = [views EXCEPT ![h] = @ - 1] /\ views[h] > 0
      /\ UNCHANGED <<nextSentinel, poisoned, leases, windows, staged>>
  BY DEF DropView
<1>2. views' \in [Handles -> 0..MaxViews] /\ windows' \in [Handles -> 0..1]
  BY <1>1, HostBufferAssumption DEF TypeOK
<1>3. CASE poisoned
  BY <1>1, <1>2, <1>3, PoisonedPreserves DEF DropView, Reaches
<1>4. CASE ~poisoned
  <2>1. /\ h.slot \in DOMAIN slots /\ e.generation = h.generation /\ e \in Slot
        /\ views[h] = e.views /\ windows[h] = IF e.window THEN 1 ELSE 0
    BY <1>1, <1>4 DEF BorrowAccounting, TypeOK
  <2>2. slots' = [slots EXCEPT ![h.slot] = n]
    BY <1>1, <1>4, <2>1 DEF DropView, Reaches, TypeOK
  <2>3. /\ n \in Slot /\ n.views = e.views - 1 /\ n.window = e.window
        /\ n.generation = e.generation /\ n.descriptor = e.descriptor
        /\ n.capacity = e.capacity /\ n.leased = e.leased /\ n.values = e.values
        /\ n.active = e.active
    BY <1>1, <2>1, HostBufferAssumption DEF Slot
  <2>4. views'[h] = n.views /\ windows'[h] = IF n.window THEN 1 ELSE 0
    BY <1>1, <2>1, <2>3 DEF TypeOK
  <2>5. \A k \in Handles : k # h => views'[k] = views[k] /\ windows'[k] = windows[k]
    BY <1>1 DEF TypeOK
  <2> HIDE DEF n, IInv
  <2> QED
    BY <1>1, <1>2, <2>1, <2>2, <2>3, <2>4, <2>5, BorrowPreserves
<1> QED
  BY <1>3, <1>4

\* A mutable window, asked of a lease or of a view, sets the flag it finds clear.
LEMMA TakeWindowPreserves ==
    ASSUME IInv, NEW h \in Handles, NEW siblings \in {0, 1}, TakeWindow(h, siblings)
    PROVE  IInv'
<1> USE DEF IInv
<1> DEFINE e == slots[h.slot]
           n == [e EXCEPT !.window = TRUE]
<1>1. /\ h.slot \in DOMAIN slots /\ e \in Slot /\ e.generation = h.generation
      /\ ~poisoned /\ ~e.window
  BY LiveGeneration DEF TakeWindow, WindowOk
<1>2. /\ slots' = [slots EXCEPT ![h.slot] = n] /\ windows' = [windows EXCEPT ![h] = @ + 1]
      /\ UNCHANGED <<nextSentinel, poisoned, leases, views, staged>>
  BY DEF TakeWindow
<1>3. /\ n \in Slot /\ n.views = e.views /\ n.window = TRUE
      /\ n.generation = e.generation /\ n.descriptor = e.descriptor
      /\ n.capacity = e.capacity /\ n.leased = e.leased /\ n.values = e.values
      /\ n.active = e.active
  BY <1>1 DEF Slot
<1>4. views[h] = e.views /\ windows[h] = 0
  BY <1>1 DEF BorrowAccounting
<1>5. /\ views' \in [Handles -> 0..MaxViews] /\ windows' \in [Handles -> 0..1]
      /\ views'[h] = n.views /\ windows'[h] = 1
      /\ \A k \in Handles : k # h => views'[k] = views[k] /\ windows'[k] = windows[k]
  BY <1>2, <1>3, <1>4 DEF TypeOK
<1> HIDE DEF n, IInv
<1> QED
  BY <1>1, <1>2, <1>3, <1>5, BorrowPreserves

\* The drop of a window clears the flag, unless the pool is poisoned.
LEMMA DropWindowPreserves ==
    ASSUME IInv, NEW h \in Handles, DropWindow(h)
    PROVE  IInv'
<1> USE DEF IInv
<1> DEFINE e == slots[h.slot]
           n == [e EXCEPT !.window = FALSE]
<1>1. /\ windows' = [windows EXCEPT ![h] = @ - 1] /\ windows[h] > 0
      /\ UNCHANGED <<nextSentinel, poisoned, leases, views, staged>>
  BY DEF DropWindow
<1>2. windows[h] = 1 /\ views' \in [Handles -> 0..MaxViews] /\ windows' \in [Handles -> 0..1]
  BY <1>1 DEF TypeOK
<1>3. CASE poisoned
  BY <1>1, <1>2, <1>3, PoisonedPreserves DEF DropWindow, Reaches
<1>4. CASE ~poisoned
  <2>1. /\ h.slot \in DOMAIN slots /\ e.generation = h.generation /\ e \in Slot
        /\ views[h] = e.views
    BY <1>1, <1>4 DEF BorrowAccounting, TypeOK
  <2>2. slots' = [slots EXCEPT ![h.slot] = n]
    BY <1>4, <2>1 DEF DropWindow, Reaches
  <2>3. /\ n \in Slot /\ n.views = e.views /\ n.window = FALSE
        /\ n.generation = e.generation /\ n.descriptor = e.descriptor
        /\ n.capacity = e.capacity /\ n.leased = e.leased /\ n.values = e.values
        /\ n.active = e.active
    BY <2>1 DEF Slot
  <2>4. /\ views'[h] = n.views /\ windows'[h] = 0
        /\ \A k \in Handles : k # h => views'[k] = views[k] /\ windows'[k] = windows[k]
    BY <1>1, <1>2, <2>1, <2>3 DEF TypeOK
  <2> HIDE DEF n, IInv
  <2> QED
    BY <1>1, <1>2, <2>1, <2>2, <2>3, <2>4, BorrowPreserves
<1> QED
  BY <1>3, <1>4

-----------------------------------------------------------------------------
(* The inductive invariant.                                                *)

\* An empty pool that nobody holds a handle of.
LEMMA InitEstablishes == Init => IInv
<1> SUFFICES ASSUME Init PROVE IInv
  OBVIOUS
<1>1. DOMAIN slots = {} /\ leases = {} /\ staged = {}
  BY DEF Init
<1>2. \A h \in Handles : views[h] = 0 /\ windows[h] = 0
  BY DEF Init
<1>3. views \in [Handles -> 0..MaxViews] /\ windows \in [Handles -> 0..1]
  BY HostBufferAssumption DEF Init
<1>4. nextSentinel \in 0..MaxSentinels
  BY HostBufferAssumption, SMT DEF Init
<1>5. poisoned \in BOOLEAN
  BY Zenon DEF Init
<1>6. TypeOK
  BY <1>1, <1>3, <1>4, <1>5 DEF TypeOK
<1> QED
  BY <1>1, <1>2, <1>6 DEF IInv, LeaseIsLive, BorrowAccounting, VisibleIsPublished, CapacityFits

\* Every step of the pool and of the handles callers hold keeps IInv.
LEMMA NextPreserves ==
    ASSUME IInv, [Next]_vars
    PROVE  IInv'
<1>1. CASE \E slot \in CallerSlots, layout \in Layouts : LeaseCaller(slot, layout)
  BY <1>1, LeasePreserves
<1>2. CASE \E layout \in Layouts : LeaseSentinel(layout)
  BY <1>2, LeaseSentinelPreserves
<1>3. ASSUME NEW lease \in leases,
             \/ Release(lease) \/ DropLease(lease) \/ View(lease) \/ LeaseWindow(lease)
             \/ Write(lease) \/ StageWrite(lease)
      PROVE  IInv'
  <2>1. HandleOf(lease) \in Handles
    BY HandleOfLease DEF IInv, TypeOK
  <2>2. CASE LeaseWindow(lease)
    BY <2>1, <2>2, TakeWindowPreserves DEF LeaseWindow
  <2>3. CASE StageWrite(lease)
    <3>1. /\ UNCHANGED <<slots, nextSentinel, poisoned, leases, views, windows>>
          /\ staged' \subseteq Handles
      BY <2>1, <2>3 DEF StageWrite, IInv, TypeOK
    <3> QED
      BY <3>1, BanksPreserve DEF IInv, TypeOK, VisibleIsPublished
  <2> QED
    BY <1>3, <2>2, <2>3, ReleasePreserves, ViewPreserves, WritePreserves
<1>4. ASSUME NEW handle \in Handles,
             DropView(handle) \/ ViewWindow(handle) \/ DropWindow(handle)
      PROVE  IInv'
  BY <1>4, DropViewPreserves, DropWindowPreserves, TakeWindowPreserves DEF ViewWindow
<1>5. CASE \E writes \in (SUBSET staged) \ {{}} : Commit(writes)
  BY <1>5, CommitPreserves
<1>6. ASSUME NEW requests \in Requests \ {{}}, ActiveReadPanics(requests)
      PROVE  IInv'
  <2>1. /\ UNCHANGED <<slots, nextSentinel, leases, views, windows, staged>>
        /\ poisoned' = TRUE
    BY <1>6 DEF ActiveReadPanics
  <2> QED
    BY <2>1, BanksPreserve DEF IInv, TypeOK, VisibleIsPublished
<1>7. ASSUME NEW requests \in Requests \ {{}}, NEW replaced \in SUBSET requests,
             \/ TransactRefused(requests, replaced)
             \/ TransactCommits(requests, replaced)
             \/ \E written \in SUBSET replaced, panics \in BOOLEAN :
                  TransactFails(requests, replaced, written, panics)
      PROVE  IInv'
  BY <1>7, TransactRefusedPreserves, TransactCommitsPreserves, TransactFailsPreserves
<1>8. CASE UNCHANGED vars
  <2>1. UNCHANGED <<slots, nextSentinel, poisoned, leases, views, windows, staged>>
    BY <1>8 DEF vars
  <2> QED
    BY <2>1, BanksPreserve DEF IInv, TypeOK, VisibleIsPublished
<1> QED
  BY <1>1, <1>2, <1>3, <1>4, <1>5, <1>6, <1>7, <1>8 DEF Next

\* The pool's counters and what callers hold never disagree.
THEOREM Inductive == Spec => []IInv
<1>1. Init => IInv
  BY InitEstablishes
<1>2. IInv /\ [Next]_vars => IInv'
  BY NextPreserves
<1> QED
  BY <1>1, <1>2, PTL DEF Spec

\* Type correctness of the pool and of its handles.
THEOREM TypeCorrect == Spec => []TypeOK
BY Inductive, PTL DEF IInv

\* An unreleased lease owns its slot in its own generation, whatever stale
\* handles did meanwhile.
THEOREM LeasesStayLive == Spec => []LeaseIsLive
BY Inductive, PTL DEF IInv

\* A slot's counters are exactly the live borrows of its generation.
THEOREM CountersAreBorrows == Spec => []BorrowAccounting
BY Inductive, PTL DEF IInv

\* Nothing half written, prepared or stale is ever visible.
THEOREM OnlyPublishedIsVisible == Spec => []VisibleIsPublished
BY Inductive, PTL DEF IInv

\* Sentinels and physical slots never take each other's place.
THEOREM SentinelsStayApart == Spec => []SentinelNeverPhysical
<1>1. IInv => SentinelNeverPhysical
  BY DEF IInv, CapacityFits, SentinelNeverPhysical
<1> QED
  BY <1>1, Inductive, PTL

\* Leases, borrows and sentinels agree with what the pool counts.
THEOREM HandlesStaySound == Spec => []HandlesAreSound
BY TypeCorrect, LeasesStayLive, CountersAreBorrows, SentinelsStayApart, PTL DEF HandlesAreSound

-----------------------------------------------------------------------------
(* Action properties.                                                      *)

\* What a step may do to one slot: only the lease of a quiescent slot moves it
\* to another generation, only an unborrowed slot flips its banks, and a
\* poisoned pool does neither.
MayMove(s) ==
    /\ slots'[s].generation # slots[s].generation => ~poisoned /\ Quiescent(slots[s])
    /\ slots'[s].active # slots[s].active =>
         ~poisoned /\ slots[s].views = 0 /\ ~slots[s].window

\* A lease moves its own slot, which is quiescent, and no other.
LEMMA LeaseMoves ==
    ASSUME IInv, ~poisoned, NEW slot, NEW layout, NEW isSentinel,
           LeaseSlot(slot, layout, isSentinel), NEW s \in DOMAIN slots
    PROVE  MayMove(s)
<1>1. slots'[s] = IF s = slot THEN Leased(EntryFor(slot, layout), layout) ELSE slots[s]
  BY DEF LeaseSlot
<1>2. CASE s = slot
  BY <1>2 DEF LeaseSlot, Admits, EntryFor, Quiescent, MayMove
<1>3. CASE s # slot
  BY <1>1, <1>3 DEF MayMove
<1> QED
  BY <1>2, <1>3

\* Releases, borrows, their drops and direct writes move no slot.
LEMMA LeaseAndBorrowMoves ==
    ASSUME IInv, NEW s \in DOMAIN slots, NEW lease \in leases,
           \/ Release(lease) \/ DropLease(lease) \/ View(lease) \/ LeaseWindow(lease)
           \/ Write(lease) \/ StageWrite(lease)
    PROVE  MayMove(s)
<1>1. slots[s] \in Slot
  BY DEF IInv, TypeOK
<1>2. CASE slots' = slots
  BY <1>2 DEF MayMove
<1>3. CASE slots' = ReleasedSlots(lease)
  BY <1>1, <1>3 DEF ReleasedSlots, MayMove, Slot
<1>4. CASE View(lease)
  BY <1>1, <1>4 DEF View, MayMove, Slot
<1>5. CASE LeaseWindow(lease)
  BY <1>1, <1>5 DEF LeaseWindow, TakeWindow, MayMove, Slot
<1>6. CASE Write(lease)
  BY <1>1, <1>6 DEF Write, MayMove, Slot
<1> QED
  BY <1>2, <1>3, <1>4, <1>5, <1>6 DEF Release, DropLease, StageWrite

\* Handles that outlive their lease move no slot either.
LEMMA HandleMoves ==
    ASSUME IInv, NEW s \in DOMAIN slots, NEW handle \in Handles,
           DropView(handle) \/ ViewWindow(handle) \/ DropWindow(handle)
    PROVE  MayMove(s)
<1>1. slots[s] \in Slot
  BY DEF IInv, TypeOK
<1>2. CASE DropView(handle)
  BY <1>1, <1>2 DEF DropView, MayMove, Slot
<1>3. CASE ViewWindow(handle)
  BY <1>1, <1>3 DEF ViewWindow, TakeWindow, MayMove, Slot
<1>4. CASE DropWindow(handle)
  BY <1>1, <1>4 DEF DropWindow, MayMove, Slot
<1> QED
  BY <1>2, <1>3, <1>4

\* commit() flips the slots of its writes, none of which is borrowed.
LEMMA CommitMoves ==
    ASSUME IInv, NEW s \in DOMAIN slots, NEW writes \in (SUBSET staged) \ {{}}, Commit(writes)
    PROVE  MayMove(s)
<1>1. slots[s] \in Slot
  BY DEF IInv, TypeOK
<1>2. CASE ~CommitOk(writes) \/ ~\E w \in writes : w.slot = s
  <2>1. slots'[s] = slots[s]
    BY <1>2 DEF Commit
  <2> QED
    BY <2>1 DEF MayMove
<1>3. CASE CommitOk(writes) /\ \E w \in writes : w.slot = s
  <2>1. PICK w \in writes : w.slot = s
    BY <1>3
  <2>2. ~poisoned /\ slots[s].views = 0 /\ ~slots[s].window
    BY <2>1, <1>3 DEF CommitOk, Unborrowed
  <2>3. \E value : slots'[s] = Flip(slots[s], value)
    BY <1>3 DEF Commit
  <2>4. slots'[s].generation = slots[s].generation
    BY <1>1, <2>3 DEF Flip, Slot
  <2> QED
    BY <2>2, <2>4 DEF MayMove
<1> QED
  BY <1>2, <1>3

\* A transaction flips unborrowed slots only; a refused or failed one flips none.
LEMMA TransactMoves ==
    ASSUME IInv, NEW s \in DOMAIN slots, NEW requests \in Requests,
           NEW replaced \in SUBSET requests,
           \/ TransactRefused(requests, replaced)
           \/ TransactCommits(requests, replaced)
           \/ \E written \in SUBSET replaced, panics \in BOOLEAN :
                TransactFails(requests, replaced, written, panics)
    PROVE  MayMove(s)
<1>1. slots[s] \in Slot
  BY DEF IInv, TypeOK
<1>2. CASE slots'[s] \in {slots[s], Prepared(slots[s]), Dirty(slots[s])}
  <2>1. slots'[s].generation = slots[s].generation /\ slots'[s].active = slots[s].active
    BY <1>1, <1>2 DEF Prepared, Dirty, Slot
  <2> QED
    BY <2>1 DEF MayMove
<1>3. CASE TransactCommits(requests, replaced) /\ \E h \in replaced : h.slot = s
  <2>1. PICK h \in replaced : h.slot = s
    BY <1>3
  <2>2. ~poisoned /\ slots[s].views = 0 /\ ~slots[s].window
    BY <2>1, <1>3 DEF TransactCommits, TransactOk, RequestOk, Unborrowed
  <2>3. slots'[s] = Flip(slots[s], Published(slots[s]))
    BY <1>3 DEF TransactCommits, Updated, StagedFlip
  <2>4. slots'[s].generation = slots[s].generation
    BY <1>1, <2>3 DEF Flip, Slot
  <2> QED
    BY <2>2, <2>4 DEF MayMove
<1>4. CASE TransactRefused(requests, replaced)
  BY <1>4, <1>2 DEF TransactRefused, Updated
<1>5. CASE TransactCommits(requests, replaced) /\ ~\E h \in replaced : h.slot = s
  BY <1>5, <1>2 DEF TransactCommits, Updated
<1>6. ASSUME NEW written \in SUBSET replaced, NEW panics \in BOOLEAN,
             TransactFails(requests, replaced, written, panics)
      PROVE  MayMove(s)
  BY <1>6, <1>2 DEF TransactFails
<1> QED
  BY <1>3, <1>4, <1>5, <1>6

\* Every step obeys MayMove at every slot.
LEMMA StepMoves ==
    ASSUME IInv, [Next]_vars, NEW s \in DOMAIN slots
    PROVE  MayMove(s)
<1>1. CASE slots' = slots
  BY <1>1 DEF MayMove
<1>2. CASE \E slot \in CallerSlots, layout \in Layouts : LeaseCaller(slot, layout)
  BY <1>2, LeaseMoves DEF LeaseCaller
<1>3. ASSUME NEW layout \in Layouts, LeaseSentinel(layout)
      PROVE  MayMove(s)
  BY <1>1, <1>3, LeaseMoves DEF LeaseSentinel
<1>4. CASE \E requests \in Requests \ {{}} : ActiveReadPanics(requests)
  BY <1>1, <1>4 DEF ActiveReadPanics
<1>5. CASE UNCHANGED vars
  BY <1>1, <1>5 DEF vars
<1> QED
  BY <1>2, <1>3, <1>4, <1>5, LeaseAndBorrowMoves, HandleMoves, CommitMoves, TransactMoves DEF Next

\* Nothing reaches a slot through a poisoned mutex.
LEMMA PoisonedIsFixed ==
    ASSUME [Next]_vars, poisoned
    PROVE  slots' = slots
<1>1. ASSUME NEW lease \in leases,
             \/ Release(lease) \/ DropLease(lease) \/ View(lease) \/ LeaseWindow(lease)
             \/ Write(lease) \/ StageWrite(lease)
      PROVE  slots' = slots
  BY <1>1 DEF Release, DropLease, ReleaseOk, View, LeaseWindow, TakeWindow, WindowOk, Write, StageWrite
<1>2. ASSUME NEW handle \in Handles,
             DropView(handle) \/ ViewWindow(handle) \/ DropWindow(handle)
      PROVE  slots' = slots
  BY <1>2 DEF DropView, ViewWindow, TakeWindow, WindowOk, DropWindow, Reaches
<1>3. ASSUME NEW requests, NEW replaced,
             \/ TransactRefused(requests, replaced)
             \/ TransactCommits(requests, replaced)
             \/ \E written \in SUBSET replaced, panics \in BOOLEAN :
                  TransactFails(requests, replaced, written, panics)
      PROVE  slots' = slots
  BY <1>3 DEF TransactRefused, TransactCommits, TransactFails, TransactOk
<1>4. ASSUME NEW writes, Commit(writes)
      PROVE  slots' = slots
  BY <1>4 DEF Commit, CommitOk
<1> QED
  BY <1>1, <1>2, <1>3, <1>4 DEF Next, LeaseCaller, LeaseSentinel, ActiveReadPanics, vars

\* A slot is reused only when nobody holds a lease or a borrow of it.
THEOREM ReuseNeedsQuiescenceAlways == Spec => ReuseNeedsQuiescence
<1> DEFINE A == \A s \in DOMAIN slots :
                  slots'[s].generation # slots[s].generation =>
                    /\ \A lease \in leases : lease.slot = s => lease.released
                    /\ \A h \in Handles : h.slot = s => views[h] = 0 /\ windows[h] = 0
<1>1. IInv /\ [Next]_vars => [A]_vars
  <2> SUFFICES ASSUME IInv, [Next]_vars, NEW s \in DOMAIN slots,
                      slots'[s].generation # slots[s].generation
               PROVE  /\ \A lease \in leases : lease.slot = s => lease.released
                      /\ \A h \in Handles : h.slot = s => views[h] = 0 /\ windows[h] = 0
    OBVIOUS
  <2>1. ~poisoned /\ Quiescent(slots[s])
    BY StepMoves DEF MayMove
  <2> QED
    BY <2>1 DEF IInv, TypeOK, Lease, LeaseIsLive, LiveSlot, BorrowAccounting, Quiescent
<1> QED
  BY <1>1, Inductive, PTL DEF Spec, ReuseNeedsQuiescence

\* No flip happens under a live view or window.
THEOREM BanksFixedUnderBorrowAlways == Spec => BanksFixedUnderBorrow
<1> DEFINE A == \A h \in Handles :
                  views[h] + windows[h] > 0 => slots'[h.slot].active = slots[h.slot].active
<1>1. IInv /\ [Next]_vars => [A]_vars
  <2> SUFFICES ASSUME IInv, [Next]_vars, NEW h \in Handles, views[h] + windows[h] > 0
               PROVE  slots'[h.slot].active = slots[h.slot].active
    OBVIOUS
  <2>1. CASE poisoned
    <3>1. slots' = slots
      BY <2>1, PoisonedIsFixed
    <3> QED
      BY <3>1
  <2>2. CASE ~poisoned
    <3>1. views[h] \in 0..MaxViews /\ windows[h] \in 0..1
      BY DEF IInv, TypeOK
    <3>2. views[h] # 0 \/ windows[h] # 0
      BY <3>1, HostBufferAssumption
    <3>3. h.slot \in DOMAIN slots /\ (slots[h.slot].views # 0 \/ slots[h.slot].window)
      BY <2>2, <3>2 DEF IInv, BorrowAccounting
    <3> QED
      BY <3>3, StepMoves DEF MayMove
  <2> QED
    BY <2>1, <2>2
<1> QED
  BY <1>1, Inductive, PTL DEF Spec, BanksFixedUnderBorrow
=============================================================================
