---------------------------- MODULE CudaAllocator ----------------------------
(***************************************************************************)
(* The pool of device memory of a retained primary CUDA context            *)
(* (src/src/cuda.rs, PrimaryCudaAllocator, PrimaryBufferLease and           *)
(* PrimaryBlock).  Threads allocate, collect, wait, trim and close; leases  *)
(* are launched on, quarantined and returned.  One mutex guards the pool    *)
(* and is dropped around every driver call, so each action below is one     *)
(* critical section (or one driver call between two of them).               *)
(*                                                                         *)
(* A block is named by its heap address, as collect_deferred names it with  *)
(* Arc::as_ptr: once a block is freed the heap may give its address to a    *)
(* new block, whose generation starts again at zero.                        *)
(*                                                                         *)
(* Left out: the byte peaks (statistics), the order of a class's free list  *)
(* (any block of the class may be popped), checked_add overflow of usize,   *)
(* and calls that return an error before they change anything.              *)
(***************************************************************************)
EXTENDS Integers, FiniteSets, FiniteSetsExt, Nothing

CONSTANTS
    Block,      \* heap addresses a PrimaryBlock can have
    Fence,      \* completion events
    Thread,     \* threads that share the allocator
    Request,    \* byte counts asked for
    MinClass,   \* the smallest size class (MIN in size_class)
    MaxShift,   \* size classes go up to 2^MaxShift
    MaxGen     \* a block is leased at most this many times

ASSUME RequestAssumption == Request \subseteq Nat \ {0}
ASSUME NoneAssumption == None \notin Block
ASSUME FiniteAssumption == IsFiniteSet(Block) /\ IsFiniteSet(Thread)
ASSUME ClassAssumption == MinClass \in Nat /\ MaxShift \in Nat /\ MaxGen \in Nat

VARIABLES
    lifecycle,      \* "Open", "Closing", "Closed"
    cached,         \* blocks on the free lists
    classes,        \* the keys of the map of free lists (an emptied list stays)
    cachedBytes,
    deferred,       \* returned blocks whose fences are not known complete
    deferredBytes,
    quarantined,    \* blocks that may never be freed or reused
    inUse,          \* bytes asked for by the live leases
    inUseBlocks,
    reserved,       \* capacity of everything the pool owns
    pending,        \* allocations between their two critical sections
    live,           \* addresses that hold a PrimaryBlock
    cap, gen, marked, \* its capacity, generation and quarantined flag
    lease,          \* the lease of a block, or None
    retained,       \* PRIMARY_QUARANTINE
    fence,          \* "free", "pending" or "done"
    busy,           \* device work recorded by fences and not complete, by block
    unknown,        \* blocks whose submitted work has no completion event
    used, recycled, \* history: addresses that held a block, and that held two
    pc, collecting, ready, got, want  \* the threads

pool == <<lifecycle, cached, classes, cachedBytes, deferred, deferredBytes,
          quarantined, inUse, inUseBlocks, reserved, pending>>
blocks == <<live, cap, gen, marked, used, recycled>>
device == <<fence, busy, unknown>>
threads == <<pc, collecting, ready, got, want>>
allocatorVars == <<pool, blocks, lease, retained, device, threads>>

Lease == [gen : Nat, bytes : Request, fences : SUBSET Fence]
DeferredEntry == [block : Block, gen : Nat, fences : SUBSET Fence]
PromotionKey == Block \X Nat

(* size_class: the next power of two, at least MinClass. *)
SizeClass(n) ==
    Max({MinClass, Min({2^k : k \in {k \in 0..MaxShift : 2^k >= n}})})

(* A request whose class is beyond the largest one is refused. *)
ASSUME SizeAssumption == \A n \in Request : SizeClass(n) \in Nat
ASSUME LeaseAssumption == None \notin Lease

SumOf(f, S) == MapThenSumSet(LAMBDA x : f[x], S)

Bytes(S) == SumOf(cap, S)

Leased == {b \in Block : lease[b] # None}

AllocatorInit ==
    /\ lifecycle = "Open"
    /\ cached = {} /\ classes = {} /\ cachedBytes = 0
    /\ deferred = {} /\ deferredBytes = 0
    /\ quarantined = {} /\ inUse = 0 /\ inUseBlocks = 0
    /\ reserved = 0 /\ pending = 0
    /\ live = {} /\ used = {} /\ recycled = {}
    /\ cap = [b \in Block |-> 0]
    /\ gen = [b \in Block |-> 0]
    /\ marked = [b \in Block |-> FALSE]
    /\ lease = [b \in Block |-> None]
    /\ retained = {}
    /\ fence = [f \in Fence |-> "free"]
    /\ busy = [b \in Block |-> {}]
    /\ unknown = {}
    /\ pc = [t \in Thread |-> "idle"]
    /\ collecting = [t \in Thread |-> {}]
    /\ ready = [t \in Thread |-> {}]
    /\ got = [t \in Thread |-> None]
    /\ want = [t \in Thread |-> 0]

-----------------------------------------------------------------------------
(* allocate *)

(* The free list a request for this capacity looks at: only the first key
   of the map that is large enough, even when that list is empty. *)
FreeList(capacity) ==
    LET large == {c \in classes : c >= capacity}
    IN  IF large = {} THEN {} ELSE {b \in cached : cap[b] = Min(large)}

(* The first critical section: count the allocation and pop a cached block. *)
AllocBegin(t, bytes) ==
    /\ pc[t] = "idle"
    /\ lifecycle = "Open"
    /\ \A b \in live : gen[b] < MaxGen
    /\ pending' = pending + 1
    /\ want' = [want EXCEPT ![t] = bytes]
    /\ LET free == FreeList(SizeClass(bytes))
       IN  \/ /\ free = {}
              /\ pc' = [pc EXCEPT ![t] = "driver"]
              /\ UNCHANGED <<cached, cachedBytes, got>>
           \/ \E b \in free :
              /\ cached' = cached \ {b}
              /\ cachedBytes' = cachedBytes - cap[b]
              /\ got' = [got EXCEPT ![t] = b]
              /\ pc' = [pc EXCEPT ![t] = "reused"]
    /\ UNCHANGED <<lifecycle, classes, deferred, deferredBytes, quarantined,
                   inUse, inUseBlocks, reserved, blocks, lease, retained,
                   device, collecting, ready>>

(* Addresses at which the heap may put a new block. *)
Vacant == Block \ live

(* The driver gives memory, at first or after the trim. *)
AllocFresh(t) ==
    /\ pc[t] \in {"driver", "retry"}
    /\ \E b \in Vacant :
        /\ live' = live \cup {b}
        /\ used' = used \cup {b}
        /\ recycled' = recycled \cup ({b} \cap used)
        /\ cap' = [cap EXCEPT ![b] = SizeClass(want[t])]
        /\ gen' = [gen EXCEPT ![b] = 0]
        /\ marked' = [marked EXCEPT ![b] = FALSE]
        /\ got' = [got EXCEPT ![t] = b]
        /\ busy' = [busy EXCEPT ![b] = {}]
        /\ unknown' = unknown \ {b}
    /\ pc' = [pc EXCEPT ![t] = "fresh"]
    /\ UNCHANGED <<pool, lease, retained, fence, collecting, ready, want>>

(* The pool detaches and frees its cached blocks: trim. *)
Trimmed ==
    /\ cached' = {}
    /\ classes' = {}
    /\ reserved' = reserved - cachedBytes
    /\ cachedBytes' = 0
    /\ live' = live \ cached
    /\ UNCHANGED <<lifecycle, deferred, deferredBytes, quarantined, inUse,
                   inUseBlocks, pending, cap, gen, marked, used, recycled, lease,
                   retained, device>>

(* Out of memory: trim, then ask the driver once more. *)
AllocOutOfMemory(t) ==
    /\ pc[t] = "driver"
    /\ pc' = [pc EXCEPT ![t] = "retry"]
    /\ Trimmed
    /\ UNCHANGED <<collecting, ready, got, want>>

(* The driver refuses. *)
AllocFails(t) ==
    /\ pc[t] \in {"driver", "retry"}
    /\ pending' = pending - 1
    /\ pc' = [pc EXCEPT ![t] = "idle"]
    /\ want' = [want EXCEPT ![t] = 0]
    /\ UNCHANGED <<lifecycle, cached, classes, cachedBytes, deferred,
                   deferredBytes, quarantined, inUse, inUseBlocks, reserved,
                   blocks, lease, retained, device, collecting, ready, got>>

(* The second critical section: account for the block and issue the lease. *)
AllocFinish(t) ==
    /\ pc[t] \in {"reused", "fresh"}
    /\ LET b == got[t]
       IN  /\ gen' = [gen EXCEPT ![b] = @ + 1]
           /\ lease' = [lease EXCEPT ![b] =
                   [gen |-> gen[b] + 1, bytes |-> want[t], fences |-> {}]]
           /\ reserved' = reserved + (IF pc[t] = "reused" THEN 0 ELSE cap[b])
    /\ pending' = pending - 1
    /\ inUse' = inUse + want[t]
    /\ inUseBlocks' = inUseBlocks + 1
    /\ pc' = [pc EXCEPT ![t] = "idle"]
    /\ got' = [got EXCEPT ![t] = None]
    /\ want' = [want EXCEPT ![t] = 0]
    /\ UNCHANGED <<lifecycle, cached, classes, cachedBytes, deferred,
                   deferredBytes, quarantined, live, cap, marked, used, recycled,
                   retained, device, collecting, ready>>

-----------------------------------------------------------------------------
(* Leases.  A lease is borrowed while it is launched on or quarantined, so
   it is not returned in the middle of either. *)

(* A launch or a peer copy is submitted and its fence, recorded after it, is
   attached to every lease it touches. *)
Launch(touched, f) ==
    /\ touched # {} /\ touched \subseteq Leased
    /\ \A b \in touched : lease[b].gen = gen[b]
    /\ fence[f] = "free"
    /\ fence' = [fence EXCEPT ![f] = "pending"]
    /\ busy' = [b \in Block |-> IF b \in touched THEN busy[b] \cup {f} ELSE busy[b]]
    /\ lease' = [b \in Block |->
           IF b \in touched THEN [lease[b] EXCEPT !.fences = @ \cup {f}]
           ELSE lease[b]]
    /\ UNCHANGED <<pool, blocks, retained, unknown, threads>>

(* quarantine: the flag is swapped once, then the block joins the pool's
   quarantine, or the process's when the pool is closed. *)
Quarantined(b) ==
    /\ b \in Leased
    /\ marked' = [marked EXCEPT ![b] = TRUE]
    /\ quarantined' = IF marked[b] \/ lifecycle = "Closed" THEN quarantined
                      ELSE quarantined \cup {b}
    /\ reserved' = IF ~marked[b] /\ lifecycle = "Closed" THEN reserved - cap[b]
                   ELSE reserved
    /\ retained' = IF ~marked[b] /\ lifecycle = "Closed" THEN retained \cup {b}
                   ELSE retained

(* The work was submitted, but neither its event could be recorded nor its
   stream be synchronized. *)
LaunchUncertain(b) ==
    /\ Quarantined(b)
    /\ unknown' = unknown \cup {b}
    /\ UNCHANGED <<lifecycle, cached, classes, cachedBytes, deferred,
                   deferredBytes, inUse, inUseBlocks, pending, live, cap, gen,
                   used, recycled, lease, fence, busy, threads>>

(* Where return_block puts an unmarked block of an open pool. *)
Returned(b) ==
    IF lease[b].fences = {}
    THEN /\ cached' = cached \cup {b}
         /\ classes' = classes \cup {cap[b]}
         /\ cachedBytes' = cachedBytes + cap[b]
         /\ UNCHANGED <<deferred, deferredBytes>>
    ELSE /\ deferred' = deferred \cup
                {[block |-> b, gen |-> lease[b].gen, fences |-> lease[b].fences]}
         /\ deferredBytes' = deferredBytes + cap[b]
         /\ UNCHANGED <<cached, classes, cachedBytes>>

(* What return_block does with an unmarked block of a pool that is closing. *)
Expelled(b) ==
    /\ reserved' = reserved - cap[b]
    /\ IF lease[b].fences # {}
       THEN /\ marked' = [marked EXCEPT ![b] = TRUE]
            /\ retained' = retained \cup {b}
            /\ UNCHANGED live
       ELSE /\ live' = live \ {b}
            /\ UNCHANGED <<marked, retained>>

(* Mutant: the quarantined flag is not read when a lease comes back. *)
ReturnIgnoresMark(b) ==
    /\ b \in Leased
    /\ inUse' = inUse - lease[b].bytes
    /\ inUseBlocks' = inUseBlocks - 1
    /\ lease' = [lease EXCEPT ![b] = None]
    /\ Returned(b)
    /\ UNCHANGED <<lifecycle, quarantined, reserved, pending, blocks, retained,
                   device, threads>>

(* release, and the drop of a lease: return_block. *)
ReturnBlock(b) ==
    /\ b \in Leased
    /\ inUse' = inUse - lease[b].bytes
    /\ inUseBlocks' = inUseBlocks - 1
    /\ lease' = [lease EXCEPT ![b] = None]
    /\ IF marked[b] \/ lifecycle = "Open"
       THEN UNCHANGED <<reserved, marked, retained, live>>
       ELSE Expelled(b)
    /\ IF ~marked[b] /\ lifecycle = "Open"
       THEN Returned(b)
       ELSE UNCHANGED <<cached, classes, cachedBytes, deferred, deferredBytes>>
    /\ UNCHANGED <<lifecycle, quarantined, pending, cap, gen, used, recycled, device, threads>>

-----------------------------------------------------------------------------
(* collect_deferred and wait_deferred *)

(* Both copy the deferred entries' keys and fences, and drop the lock. *)
TakeSnapshot(t, from, to) ==
    /\ pc[t] = from
    /\ pc' = [pc EXCEPT ![t] = to]
    /\ collecting' = [collecting EXCEPT ![t] = deferred]
    /\ UNCHANGED <<pool, blocks, lease, retained, device, ready, got, want>>

Complete(e) == \A f \in e.fences : fence[f] = "done"

(* One entry's fences are queried: it is ready only when all have completed. *)
QueryEntry(t, e) ==
    /\ pc[t] = "collect"
    /\ e \in collecting[t]
    /\ collecting' = [collecting EXCEPT ![t] = @ \ {e}]
    /\ ready' = [ready EXCEPT ![t] =
           IF Complete(e) THEN @ \cup {<<e.block, e.gen>>} ELSE @]
    /\ UNCHANGED <<pool, blocks, lease, retained, device, pc, got, want>>

(* One entry's fences have been waited for. *)
WaitEntry(t, e) ==
    /\ pc[t] \in {"wait", "close_wait"}
    /\ e \in collecting[t]
    /\ Complete(e)
    /\ collecting' = [collecting EXCEPT ![t] = @ \ {e}]
    /\ ready' = [ready EXCEPT ![t] = @ \cup {<<e.block, e.gen>>}]
    /\ UNCHANGED <<pool, blocks, lease, retained, device, pc, got, want>>

(* Mutant: close returns the error of its wait at once. *)
FailedWaitReturns(t) ==
    /\ pc[t] \in {"collect", "wait", "close_wait"}
    /\ collecting[t] # {}
    /\ collecting' = [collecting EXCEPT ![t] = {}]
    /\ ready' = [ready EXCEPT ![t] = {}]
    /\ pc' = [pc EXCEPT ![t] = "idle"]
    /\ UNCHANGED <<pool, blocks, lease, retained, device, got, want>>

(* The driver reports an error: nothing is promoted.  close goes on to give
   up the blocks it could not wait for. *)
FenceFails(t) ==
    /\ pc[t] \in {"collect", "wait", "close_wait"}
    /\ collecting[t] # {}
    /\ collecting' = [collecting EXCEPT ![t] = {}]
    /\ ready' = [ready EXCEPT ![t] = {}]
    /\ pc' = [pc EXCEPT ![t] =
           IF @ = "close_wait" THEN "close_uncertain" ELSE "idle"]
    /\ UNCHANGED <<pool, blocks, lease, retained, device, got, want>>

(* Mutant: promotion matches the block and not the generation. *)
PromotableByKey(t) ==
    {e \in deferred : /\ \E r \in ready[t] : r[1] = e.block
                      /\ lifecycle # "Closed"}

(* The deferred entries promote_deferred moves to the free lists. *)
Promotable(t) ==
    {e \in deferred : /\ <<e.block, e.gen>> \in ready[t]
                      /\ lifecycle # "Closed"
                      /\ gen[e.block] = e.gen}

PromoteDeferred(t) ==
    LET moved == {e.block : e \in Promotable(t)}
    IN  /\ pc[t] \in {"collect", "wait", "close_wait"}
        /\ collecting[t] = {}
        /\ deferred' = deferred \ Promotable(t)
        /\ deferredBytes' = deferredBytes - Bytes(moved)
        /\ cached' = cached \cup moved
        /\ classes' = classes \cup {cap[b] : b \in moved}
        /\ cachedBytes' = cachedBytes + Bytes(moved)
        /\ ready' = [ready EXCEPT ![t] = {}]
        /\ pc' = [pc EXCEPT ![t] =
               IF @ = "close_wait" THEN "close_done" ELSE "idle"]
        /\ UNCHANGED <<lifecycle, quarantined, inUse, inUseBlocks, reserved,
                       pending, blocks, lease, retained, device, collecting, got,
                       want>>

Trim(t) == pc[t] = "idle" /\ Trimmed /\ UNCHANGED threads

-----------------------------------------------------------------------------
(* close *)

(* The first critical section: no lease, no allocation under way. *)
CloseBegin(t) ==
    /\ pc[t] = "idle"
    /\ lifecycle = "Open"
    /\ inUseBlocks = 0
    /\ pending = 0
    /\ lifecycle' = "Closing"
    /\ pc' = [pc EXCEPT ![t] = "close_drain"]
    /\ UNCHANGED <<cached, classes, cachedBytes, deferred, deferredBytes,
                   quarantined, inUse, inUseBlocks, reserved, pending, blocks,
                   lease, retained, device, collecting, ready, got, want>>

(* drain_quarantined_blocks, before the wait and again after it. *)
CloseDrain(t) ==
    /\ pc[t] \in {"close_drain", "close_drain_again"}
    /\ pc' = [pc EXCEPT ![t] =
           IF @ = "close_drain" THEN "close_snapshot" ELSE "close_trim"]
    /\ quarantined' = {}
    /\ reserved' = reserved - Bytes(quarantined)
    /\ retained' = retained \cup quarantined
    /\ UNCHANGED <<lifecycle, cached, classes, cachedBytes, deferred,
                   deferredBytes, inUse, inUseBlocks, pending, blocks, lease,
                   device, collecting, ready, got, want>>

(* Mutant: the deferred list is copied and not taken. *)
UncertainStaysDeferred(t) ==
    LET lost == quarantined \cup {e.block : e \in deferred}
    IN  /\ pc[t] = "close_uncertain"
        /\ pc' = [pc EXCEPT ![t] = "close_reopen"]
        /\ quarantined' = {}
        /\ reserved' = reserved - Bytes(lost)
        /\ marked' = [b \in Block |-> marked[b] \/ b \in lost]
        /\ retained' = retained \cup lost
        /\ UNCHANGED <<lifecycle, cached, classes, cachedBytes, deferred,
                       deferredBytes, inUse, inUseBlocks, pending, live, cap,
                       gen, used, recycled, lease, device, collecting, ready, got, want>>

(* drain_uncertain_blocks_after_wait_failure *)
CloseDrainUncertain(t) ==
    LET lost == quarantined \cup {e.block : e \in deferred}
    IN  /\ pc[t] = "close_uncertain"
        /\ pc' = [pc EXCEPT ![t] = "close_reopen"]
        /\ quarantined' = {}
        /\ deferred' = {}
        /\ deferredBytes' = 0
        /\ reserved' = reserved - Bytes(lost)
        /\ marked' = [b \in Block |-> marked[b] \/ b \in lost]
        /\ retained' = retained \cup lost
        /\ UNCHANGED <<lifecycle, cached, classes, cachedBytes, inUse,
                       inUseBlocks, pending, live, cap, gen, used, recycled, lease,
                       device, collecting, ready, got, want>>

(* The pool is open again after a failed close, or closed after a wait that
   went well. *)
CloseSettle(t) ==
    /\ pc[t] \in {"close_reopen", "close_done"}
    /\ lifecycle' = IF pc[t] = "close_reopen" THEN "Open" ELSE "Closed"
    /\ pc' = [pc EXCEPT ![t] =
           IF @ = "close_reopen" THEN "idle" ELSE "close_drain_again"]
    /\ UNCHANGED <<cached, classes, cachedBytes, deferred, deferredBytes,
                   quarantined, inUse, inUseBlocks, reserved, pending, blocks,
                   lease, retained, device, collecting, ready, got, want>>

CloseTrim(t) ==
    /\ pc[t] = "close_trim"
    /\ pc' = [pc EXCEPT ![t] = "idle"]
    /\ Trimmed
    /\ UNCHANGED <<collecting, ready, got, want>>

-----------------------------------------------------------------------------
(* The device *)

(* The work a fence was recorded after completes. *)
DeviceCompletes(f) ==
    /\ fence[f] = "pending"
    /\ fence' = [fence EXCEPT ![f] = "done"]
    /\ busy' = [b \in Block |-> busy[b] \ {f}]
    /\ UNCHANGED <<pool, blocks, lease, retained, unknown, threads>>

EventHeld(f) ==
    \/ \E b \in Leased : f \in lease[b].fences
    \/ \E e \in deferred : f \in e.fences
    \/ \E t \in Thread : \E e \in collecting[t] : f \in e.fences

(* The last handle to a completed event is dropped: a later launch may use
   an event of the same name. *)
FenceDropped(f) ==
    /\ fence[f] = "done"
    /\ ~EventHeld(f)
    /\ fence' = [fence EXCEPT ![f] = "free"]
    /\ UNCHANGED <<pool, blocks, lease, retained, busy, unknown, threads>>

LeaseStep ==
    \/ \E touched \in SUBSET Block, f \in Fence : Launch(touched, f)
    \/ \E b \in Block : LaunchUncertain(b) \/ ReturnBlock(b)

AllocStep(t) ==
    \/ \E bytes \in Request : AllocBegin(t, bytes)
    \/ AllocFresh(t) \/ AllocOutOfMemory(t) \/ AllocFails(t) \/ AllocFinish(t)

CollectStep(t) ==
    \/ TakeSnapshot(t, "idle", "collect")
    \/ TakeSnapshot(t, "idle", "wait")
    \/ \E e \in collecting[t] : QueryEntry(t, e) \/ WaitEntry(t, e)
    \/ FenceFails(t) \/ PromoteDeferred(t) \/ Trim(t)

CloseStep(t) ==
    \/ CloseBegin(t) \/ CloseDrain(t)
    \/ TakeSnapshot(t, "close_snapshot", "close_wait")
    \/ CloseDrainUncertain(t) \/ CloseSettle(t) \/ CloseTrim(t)

DeviceStep == \E f \in Fence : DeviceCompletes(f) \/ FenceDropped(f)

AllocatorNext ==
    \/ LeaseStep
    \/ DeviceStep
    \/ \E t \in Thread : AllocStep(t) \/ CollectStep(t) \/ CloseStep(t)

AllocatorSpec == AllocatorInit /\ [][AllocatorNext]_allocatorVars

(* The steps of a thread inside an allocation, collect, wait or close. *)
Running(t) ==
    \/ AllocFresh(t) \/ AllocFails(t) \/ AllocFinish(t)
    \/ \E e \in collecting[t] : QueryEntry(t, e) \/ WaitEntry(t, e)
    \/ PromoteDeferred(t) \/ CloseDrain(t)
    \/ TakeSnapshot(t, "close_snapshot", "close_wait")
    \/ CloseDrainUncertain(t) \/ CloseSettle(t) \/ CloseTrim(t)

-----------------------------------------------------------------------------
(* Properties *)

AllocatorTypeOK ==
    /\ lifecycle \in {"Open", "Closing", "Closed"}
    /\ cached \subseteq Block /\ quarantined \subseteq Block
    /\ live \subseteq Block /\ used \subseteq Block /\ recycled \subseteq used
    /\ retained \subseteq Block /\ unknown \subseteq Block
    /\ deferred \subseteq DeferredEntry
    /\ cap \in [Block -> Nat] /\ gen \in [Block -> Nat]
    /\ marked \in [Block -> BOOLEAN]
    /\ lease \in [Block -> Lease \cup {None}]
    /\ fence \in [Fence -> {"free", "pending", "done"}]
    /\ busy \in [Block -> SUBSET Fence]
    /\ got \in [Thread -> Block \cup {None}]
    /\ want \in [Thread -> Request \cup {0}]
    /\ collecting \in [Thread -> SUBSET DeferredEntry]
    /\ ready \in [Thread -> SUBSET PromotionKey]
    /\ {cachedBytes, deferredBytes, inUse, inUseBlocks, reserved, pending}
           \subseteq Nat
    /\ pc \in [Thread -> {"idle", "driver", "retry", "reused", "fresh",
                          "collect", "wait", "close_drain", "close_snapshot",
                          "close_wait", "close_done", "close_drain_again",
                          "close_trim", "close_uncertain", "close_reopen"}]

DeferredBlocks == {e.block : e \in deferred}
InHand == {got[t] : t \in Thread} \ {None}
Allocating == {t \in Thread : pc[t] \in {"driver", "retry", "reused", "fresh"}}
Closing == {t \in Thread : pc[t] \in {"close_drain", "close_snapshot",
               "close_wait", "close_done", "close_uncertain", "close_reopen"}}
Emptying == {t \in Thread : pc[t] \in {"close_drain_again", "close_trim"}}

(* Every physical block is in exactly one place: a free list, the deferred
   list, a lease, the hands of one allocating thread, the pool's quarantine
   after its lease is gone, or the process's.  No interleaving of collectors,
   trims, allocations and a close that fails half way loses a block, frees
   one twice or gives one to two owners. *)
OnePlace ==
    LET idle == quarantined \ Leased
    IN  /\ live = cached \cup DeferredBlocks \cup Leased \cup InHand
                    \cup idle \cup retained
        /\ cached \cap (DeferredBlocks \cup Leased \cup InHand \cup idle \cup retained) = {}
        /\ DeferredBlocks \cap (Leased \cup InHand \cup idle \cup retained) = {}
        /\ Leased \cap (InHand \cup retained) = {}
        /\ InHand \cap (idle \cup retained) = {}
        /\ idle \cap retained = {}
        /\ \A e, o \in deferred : e.block = o.block => e = o
        /\ \A t, u \in Thread : got[t] = got[u] /\ got[t] # None => t = u

(* The counters say what the lists hold, so the subtractions of
   trim, drain_quarantined_blocks and drain_uncertain_blocks never go below
   zero (their expect()s never fire): reserved is the capacity of every block
   the pool owns, a reused block in an allocating thread's hands included and
   a fresh one not yet. *)
Accounting ==
    LET reused == {got[t] : t \in {u \in Thread : pc[u] = "reused"}}
    IN  /\ cachedBytes = Bytes(cached)
        /\ deferredBytes = Bytes(DeferredBlocks)
        /\ inUse = SumOf([b \in Leased |-> lease[b].bytes], Leased)
        /\ reserved = Bytes(cached \cup DeferredBlocks \cup Leased
                               \cup quarantined \cup reused)

(* A pool that is closing or closed has no lease and no allocation under way:
   the debug_assert of allocate holds and return_block never has to expel a
   block. *)
LeasesKeepItOpen ==
    /\ inUseBlocks = Cardinality(Leased)
    /\ pending = Cardinality(Allocating)
    /\ lifecycle # "Open" => Leased = {} /\ Allocating = {}
    /\ lifecycle = "Closing" <=> Closing # {}
    /\ Cardinality(Closing \cup Emptying) <= 1

(* Once close has returned, nothing is left in the pool: every block was
   freed or handed to the process's quarantine, and the pool's account is
   zero, whatever collectors and trims ran beside it. *)
ClosedIsEmpty ==
    lifecycle = "Closed" /\ Emptying = {} =>
        /\ live = retained
        /\ reserved = 0 /\ cachedBytes = 0 /\ deferredBytes = 0

(* The pool is sound: its parts have their types, every block is in one place,
   the counters say what the lists hold, leases keep it open, and a closed pool
   is empty. *)
PoolIsSound ==
    AllocatorTypeOK /\ OnePlace /\ Accounting /\ LeasesKeepItOpen /\ ClosedIsEmpty

(* A quarantined block is never freed and never given out again, nor is its
   flag ever cleared, through every close, failed close and reopening. *)
QuarantineIsForever ==
    [][\A b \in live : marked[b] => b \in live' /\ marked'[b] /\ gen'[b] = gen[b]]_allocatorVars

(* A block on a free list has no device work in flight: what a collector saw
   of the fences before it took the lock again still speaks of this lease. *)
NoEarlyReuse ==
    \A b \in cached : busy[b] = {} /\ b \notin unknown

(* The same of every block whose address has not held another block before. *)
NoEarlyReuseInPlace ==
    \A b \in cached \ recycled : busy[b] = {} /\ b \notin unknown

(* A close that has begun ends: the pool is open again or closed. *)
CloseSettles == lifecycle = "Closing" ~> lifecycle # "Closing"

=============================================================================
