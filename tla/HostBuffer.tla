----------------------------- MODULE HostBuffer -----------------------------
(***************************************************************************)
(* HostSlotPool (src/src/host_buffer.rs): physical slots that are reused   *)
(* under generation-checked leases, read through counted views, guarded by *)
(* one mutable window, and replaced through a second, inactive bank.       *)
(*                                                                         *)
(* The pool trusts only its own counters (views, mutable_window, leased);  *)
(* the handles that callers hold are separate objects, created and dropped *)
(* in any order and possibly stale.  The model keeps both: slots is the    *)
(* pool's side, leases, views, windows and staged are the callers' side.   *)
(*                                                                         *)
(* A tensor is abstracted to the generation it was stored in and to how it *)
(* came there: "published" by a successful write or transaction, "zero"    *)
(* when a transaction prepared a fresh bank, "dirty" when a failed stage   *)
(* closure left it half written.  A descriptor is its layout: the byte     *)
(* count and an identity that tells apart layouts of the same size.        *)
(***************************************************************************)
EXTENDS Naturals, FiniteSets

CONSTANTS
    CallerSlots,     \* physical slot ids that callers name
    MaxSlot,         \* u64::MAX, the first sentinel id
    Layouts,         \* HostBufferDesc without its buffer id
    Bytes,           \* HostBufferDesc.bytes of every layout
    MaxGeneration,   \* bound on the generations of one slot
    MaxViews,        \* bound on live views of one slot
    MaxSentinels,    \* bound on zero-byte leases
    None

ASSUME HostBufferAssumption ==
    /\ MaxSlot \in Nat /\ CallerSlots \subseteq 0..MaxSlot
    /\ Bytes \in [Layouts -> Nat] /\ None \notin Layouts
    /\ MaxGeneration \in Nat /\ MaxViews \in Nat /\ MaxSentinels \in 1..MaxSlot

VARIABLES
    slots,         \* PoolState.slots
    nextSentinel,  \* PoolState.next_sentinel
    poisoned,      \* the pool mutex is poisoned
    leases,        \* HostBufferLease values that callers hold
    views,         \* live HostBufferView values of each slot and generation
    windows,       \* live mutable HostByteWindow values of each slot and generation
    staged         \* HostBufferWrite values not yet committed

vars == <<slots, nextSentinel, poisoned, leases, views, windows, staged>>

SlotIds     == 0..MaxSlot
Generations == 1..MaxGeneration
Handles     == [slot : SlotIds, generation : Generations]
Lease       == [slot : SlotIds, generation : Generations, released : BOOLEAN]
Tensor      == [generation : Generations, as : {"published", "zero", "dirty"}]

Slot == [generation : 0..MaxGeneration, capacity : Nat, descriptor : Layouts \cup {None},
         values : [{0, 1} -> Tensor \cup {None}], active : {0, 1},
         leased : BOOLEAN, views : 0..MaxViews, window : BOOLEAN]

HandleOf(lease) == [slot |-> lease.slot, generation |-> lease.generation]
Inactive(entry) == 1 - entry.active
ActiveValue(entry) == entry.values[entry.active]
Published(entry) == [generation |-> entry.generation, as |-> "published"]

-----------------------------------------------------------------------------
(* Leases.                                                                 *)

NewSlot(layout) ==
    [generation |-> 0, capacity |-> Bytes[layout], descriptor |-> None,
     values |-> [bank \in {0, 1} |-> None], active |-> 0,
     leased |-> FALSE, views |-> 0, window |-> FALSE]

EntryFor(slot, layout) == IF slot \in DOMAIN slots THEN slots[slot] ELSE NewSlot(layout)

\* Mutants of Quiescent: reuse looks at the lease alone, or at the borrows alone.
IgnoresBorrows(entry) == ~entry.leased
IgnoresLease(entry)   == entry.views = 0 /\ ~entry.window

Quiescent(entry) == ~entry.leased /\ entry.views = 0 /\ ~entry.window

Compatible(entry, layout, isSentinel) ==
    /\ isSentinel \/ entry.capacity = Bytes[layout]
    /\ entry.descriptor \in {None, layout}

Leased(entry, layout) ==
    [entry EXCEPT !.generation = @ + 1, !.descriptor = layout,
                  !.values = [bank \in {0, 1} |-> None], !.active = 0, !.leased = TRUE]

Admits(entry, layout, isSentinel) ==
    Quiescent(entry) /\ Compatible(entry, layout, isSentinel)

LeaseSlot(slot, layout, isSentinel) ==
    LET entry == EntryFor(slot, layout)
    IN  /\ entry.generation < MaxGeneration
        /\ Admits(entry, layout, isSentinel)
        /\ slots' = [s \in DOMAIN slots \cup {slot} |->
                       IF s = slot THEN Leased(entry, layout) ELSE slots[s]]
        /\ leases' = leases \cup
             {[slot |-> slot, generation |-> entry.generation + 1, released |-> FALSE]}
        /\ UNCHANGED <<poisoned, views, windows, staged>>

\* lease(Some(slot), ..): callers name a slot for every value that has bytes.
LeaseCaller(slot, layout) ==
    /\ ~poisoned /\ Bytes[layout] # 0
    /\ LeaseSlot(slot, layout, FALSE)
    /\ UNCHANGED nextSentinel

\* lease(None, ..): the sentinel id is spent before the slot is looked at.
LeaseSentinel(layout) ==
    /\ ~poisoned /\ Bytes[layout] = 0 /\ nextSentinel < MaxSentinels
    /\ nextSentinel' = nextSentinel + 1
    /\ LET slot == MaxSlot - nextSentinel
       IN  IF Admits(EntryFor(slot, layout), layout, TRUE)
           THEN LeaseSlot(slot, layout, TRUE)
           ELSE UNCHANGED <<slots, poisoned, leases, views, windows, staged>>

LiveSlot(handle) ==
    /\ handle.slot \in DOMAIN slots
    /\ slots[handle.slot].generation = handle.generation
    /\ slots[handle.slot].leased

ReleaseOk(lease) ==
    /\ ~lease.released /\ ~poisoned /\ LiveSlot(lease)
    /\ slots[lease.slot].views = 0

ReleasedSlots(lease) ==
    [slots EXCEPT ![lease.slot].leased = FALSE,
                  ![lease.slot].values = [bank \in {0, 1} |-> None]]

\* The handle survives its release, so stale calls through it stay possible.
Release(lease) ==
    /\ ReleaseOk(lease)
    /\ slots' = ReleasedSlots(lease)
    /\ leases' = (leases \ {lease}) \cup {[lease EXCEPT !.released = TRUE]}
    /\ UNCHANGED <<nextSentinel, poisoned, views, windows, staged>>

\* Drop for HostBufferLease: a refused release is swallowed.
DropLease(lease) ==
    /\ leases' = leases \ {lease}
    /\ slots' = IF ReleaseOk(lease) THEN ReleasedSlots(lease) ELSE slots
    /\ UNCHANGED <<nextSentinel, poisoned, views, windows, staged>>

-----------------------------------------------------------------------------
(* Views and mutable windows.                                              *)

View(lease) ==
    /\ ~poisoned /\ LiveSlot(lease) /\ slots[lease.slot].views < MaxViews
    /\ slots' = [slots EXCEPT ![lease.slot].views = @ + 1]
    /\ views' = [views EXCEPT ![HandleOf(lease)] = @ + 1]
    /\ UNCHANGED <<nextSentinel, poisoned, leases, windows, staged>>

\* A drop reaches its slot unless the pool is poisoned or the slot moved on.
Reaches(handle) == ~poisoned /\ slots[handle.slot].generation = handle.generation

DropView(handle) ==
    /\ views[handle] > 0
    /\ views' = [views EXCEPT ![handle] = @ - 1]
    /\ slots' = IF Reaches(handle) /\ slots[handle.slot].views # 0
                THEN [slots EXCEPT ![handle.slot].views = @ - 1] ELSE slots
    /\ UNCHANGED <<nextSentinel, poisoned, leases, windows, staged>>

\* A lease asks for no view at all, a view for no view but itself.
WindowOk(handle, siblings) ==
    /\ ~poisoned /\ LiveSlot(handle)
    /\ slots[handle.slot].views = siblings /\ ~slots[handle.slot].window

TakeWindow(handle, siblings) ==
    /\ WindowOk(handle, siblings)
    /\ slots' = [slots EXCEPT ![handle.slot].window = TRUE]
    /\ windows' = [windows EXCEPT ![handle] = @ + 1]
    /\ UNCHANGED <<nextSentinel, poisoned, leases, views, staged>>

LeaseWindow(lease) == TakeWindow(HandleOf(lease), 0)
ViewWindow(handle) == views[handle] > 0 /\ TakeWindow(handle, 1)

DropWindow(handle) ==
    /\ windows[handle] > 0
    /\ windows' = [windows EXCEPT ![handle] = @ - 1]
    /\ slots' = IF Reaches(handle)
                THEN [slots EXCEPT ![handle.slot].window = FALSE] ELSE slots
    /\ UNCHANGED <<nextSentinel, poisoned, leases, views, staged>>

-----------------------------------------------------------------------------
(* Values: direct writes, staged commits and two-bank transactions.        *)

\* write(): straight into the active bank, borrows are not looked at.
Write(lease) ==
    /\ ~poisoned /\ LiveSlot(lease)
    /\ slots' = [slots EXCEPT ![lease.slot].values[slots[lease.slot].active] =
                                 Published(slots[lease.slot])]
    /\ UNCHANGED <<nextSentinel, poisoned, leases, views, windows, staged>>

\* staged_write(): an owned value; neither the lease nor the slot is checked.
StageWrite(lease) ==
    /\ staged' = staged \cup {HandleOf(lease)}
    /\ UNCHANGED <<slots, nextSentinel, poisoned, leases, views, windows>>

\* Mutant of Unborrowed: only views are looked at.
UnborrowedIgnoresWindow(handle) == slots[handle.slot].views = 0

Unborrowed(handle) == slots[handle.slot].views = 0 /\ ~slots[handle.slot].window

OneEach(handles) == \A h, k \in handles : h.slot = k.slot => h = k

\* The stored tensor keeps the generation of the write that carries it.
CommitOk(writes) ==
    /\ ~poisoned /\ OneEach(writes)
    /\ \A w \in writes : LiveSlot(w) /\ Unborrowed(w)

Flip(entry, value) ==
    [entry EXCEPT !.values[Inactive(entry)] = value, !.active = Inactive(entry)]

\* commit() consumes its writes whether or not it accepts them.
Commit(writes) ==
    /\ staged' = staged \ writes
    /\ slots' = IF CommitOk(writes)
                THEN [s \in DOMAIN slots |->
                       IF \E w \in writes : w.slot = s
                       THEN LET w == CHOOSE w \in writes : w.slot = s
                            IN  Flip(slots[s], [generation |-> w.generation, as |-> "published"])
                       ELSE slots[s]]
                ELSE slots
    /\ UNCHANGED <<nextSentinel, poisoned, leases, views, windows>>

\* prepare_bank_slot of one request.
RequestOk(handle) == LiveSlot(handle) /\ Unborrowed(handle)

\* Mutant of Prepared: the zero bank is stored where the active one is.
PreparedActive(entry) ==
    [entry EXCEPT !.values[entry.active] = [generation |-> entry.generation, as |-> "zero"]]

\* A missing inactive bank is created zeroed; an old one is handed on as it is.
Prepared(entry) ==
    IF entry.values[Inactive(entry)] = None
    THEN [entry EXCEPT !.values[Inactive(entry)] = [generation |-> entry.generation, as |-> "zero"]]
    ELSE entry

\* slots with f applied to the slots of some handles.
Updated(handles, f(_)) ==
    [s \in DOMAIN slots |-> IF \E h \in handles : h.slot = s THEN f(slots[s]) ELSE slots[s]]

TransactOk(requests) ==
    /\ ~poisoned /\ OneEach(requests)
    /\ \A r \in requests : RequestOk(r) /\ ActiveValue(slots[r.slot]) # None

\* A refused transaction has already prepared the banks of the requests that
\* came before the one refused; callers choose the order.
TransactRefused(requests, prepared) ==
    /\ ~poisoned /\ ~TransactOk(requests)
    /\ prepared \subseteq {r \in requests : RequestOk(r)} /\ OneEach(prepared)
    /\ slots' = Updated(prepared, Prepared)
    /\ UNCHANGED <<nextSentinel, poisoned, leases, views, windows, staged>>

\* The stage closure fails, or panics under the lock, after writing some of
\* the inactive banks it was given.
Dirty(entry) ==
    [Prepared(entry) EXCEPT !.values[Inactive(entry)] =
                               [generation |-> entry.generation, as |-> "dirty"]]

TransactFails(requests, replaced, written, panics) ==
    /\ TransactOk(requests)
    /\ slots' = [s \in DOMAIN slots |->
                  IF \E h \in written : h.slot = s THEN Dirty(slots[s])
                  ELSE IF \E h \in replaced : h.slot = s THEN Prepared(slots[s])
                  ELSE slots[s]]
    /\ poisoned' = panics
    /\ UNCHANGED <<nextSentinel, leases, views, windows, staged>>

\* A successful stage closure wrote every replaced bank; each of them flips.
StagedFlip(entry) == Flip(entry, Published(entry))

TransactCommits(requests, replaced) ==
    /\ TransactOk(requests)
    /\ slots' = Updated(replaced, StagedFlip)
    /\ UNCHANGED <<nextSentinel, poisoned, leases, views, windows, staged>>

\* with_active_tensors: the reader changes nothing unless it panics.
ActiveReadPanics(requests) ==
    /\ ~poisoned /\ OneEach(requests)
    /\ \A r \in requests : /\ LiveSlot(r) /\ ~slots[r.slot].window
                           /\ ActiveValue(slots[r.slot]) # None
    /\ poisoned' = TRUE
    /\ UNCHANGED <<slots, nextSentinel, leases, views, windows, staged>>

-----------------------------------------------------------------------------
Init ==
    /\ slots = [s \in {} |-> None]
    /\ nextSentinel = 0 /\ poisoned = FALSE
    /\ leases = {} /\ staged = {}
    /\ views = [h \in Handles |-> 0]
    /\ windows = [h \in Handles |-> 0]

Requests == SUBSET {HandleOf(l) : l \in leases}

Next ==
    \/ \E slot \in CallerSlots, layout \in Layouts : LeaseCaller(slot, layout)
    \/ \E layout \in Layouts : LeaseSentinel(layout)
    \/ \E lease \in leases :
         \/ Release(lease) \/ DropLease(lease) \/ View(lease) \/ LeaseWindow(lease)
         \/ Write(lease) \/ StageWrite(lease)
    \/ \E handle \in Handles : DropView(handle) \/ ViewWindow(handle) \/ DropWindow(handle)
    \/ \E writes \in (SUBSET staged) \ {{}} : Commit(writes)
    \/ \E requests \in Requests \ {{}} :
         \/ \E prepared \in SUBSET requests : TransactRefused(requests, prepared)
         \/ \E replaced \in SUBSET requests :
              \/ TransactCommits(requests, replaced)
              \/ \E written \in SUBSET replaced, panics \in BOOLEAN :
                   TransactFails(requests, replaced, written, panics)
         \/ ActiveReadPanics(requests)

Spec == Init /\ [][Next]_vars

-----------------------------------------------------------------------------
(* Properties.                                                             *)

TypeOK ==
    /\ DOMAIN slots \subseteq SlotIds
    /\ \A s \in DOMAIN slots : slots[s] \in Slot
    /\ nextSentinel \in 0..MaxSentinels /\ poisoned \in BOOLEAN
    /\ leases \subseteq Lease /\ staged \subseteq Handles
    /\ views \in [Handles -> 0..MaxViews]
    /\ windows \in [Handles -> 0..1]

\* A lease that was not released owns its slot: the slot is leased, in the
\* lease's own generation, whatever stale handles did meanwhile.  Two such
\* leases can therefore never share a slot.
LeaseIsLive ==
    \A lease \in leases : ~lease.released => LiveSlot(lease)

\* The pool's counters are the truth about handles: a slot counts exactly the
\* live views of its generation, its window flag stands for exactly one live
\* window of that generation, and no borrow survives into a later generation.
BorrowAccounting ==
    poisoned \/
    \A h \in Handles :
      IF h.slot \in DOMAIN slots /\ slots[h.slot].generation = h.generation
      THEN /\ views[h] = slots[h.slot].views
           /\ windows[h] = IF slots[h.slot].window THEN 1 ELSE 0
      ELSE views[h] = 0 /\ windows[h] = 0

\* What a reader of a slot can see was published, and in this generation:
\* never a prepared zero bank, never what a failed stage closure left in the
\* inactive bank, never a value staged under an earlier lease of the slot.
VisibleIsPublished ==
    \A s \in DOMAIN slots : ActiveValue(slots[s]) \in {None, Published(slots[s])}

\* A slot allocated for bytes is never handed to a zero-byte sentinel and no
\* sentinel becomes a caller's allocation, although both share one id space
\* and a caller may name u64::MAX.
SentinelNeverPhysical ==
    \A s \in DOMAIN slots :
      slots[s].leased => Bytes[slots[s].descriptor] = slots[s].capacity

\* What callers hold and what the pool counts are one story: leases own their
\* slots, counters are the live borrows, and sentinels stay apart.
HandlesAreSound == TypeOK /\ LeaseIsLive /\ BorrowAccounting /\ SentinelNeverPhysical

\* A slot moves to its next generation only when nobody holds an unreleased
\* lease, a view or a mutable window of the last one.
ReuseNeedsQuiescence ==
    [][\A s \in DOMAIN slots :
         slots'[s].generation # slots[s].generation =>
           /\ \A lease \in leases : lease.slot = s => lease.released
           /\ \A h \in Handles : h.slot = s => views[h] = 0 /\ windows[h] = 0]_vars

\* No commit or transaction flips a slot's banks under a live borrow of it.
BanksFixedUnderBorrow ==
    [][\A h \in Handles :
         views[h] + windows[h] > 0 => slots'[h.slot].active = slots[h.slot].active]_vars
=============================================================================
