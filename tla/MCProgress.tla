----------------------------- MODULE MCProgress -----------------------------
(***************************************************************************)
(* What must eventually happen, for TLC: five small instances, one of which *)
(* is in use in each behaviour, under the fairness of the threads, devices  *)
(* and compilers that run it.  The larger instances of the same modules are *)
(* checked for safety elsewhere.                                            *)
(***************************************************************************)
EXTENDS Naturals, FiniteSetsExt, Nothing

VARIABLES
    part,    \* the instance in use
    \* CudaAllocator
    lifecycle, cached, classes, cachedBytes, deferred, deferredBytes, quarantined,
    inUse, inUseBlocks, reserved, pending, live, cap, gen, marked, lease, retained,
    fence, busy, unknown, used, recycled, pc, collecting, ready, got, want,
    \* LinkedCache
    entries, flight, linking, dead,
    \* CompileCache
    lib, registry, gate, owner, active, stage, key, round, hit, tmp, job,
    cacheLoads, buildFaults,
    \* Serving
    model, next, order, requests, prefixes, failures, changes,
    \* ModuleState
    cell, lock, call, optimizer, checkpoint, outcome, writes

(* One block, recycled, and two threads that allocate, collect and close. *)
Allocator == INSTANCE CudaAllocator WITH
    Block <- {"b"}, Fence <- {"f"}, Thread <- {"t", "u"},
    Request <- {3}, MinClass <- 4, MaxShift <- 3, MaxGen <- 2

(* Two callers of two kernels of one module; no load panics. *)
Linked == INSTANCE LinkedCache WITH
    Caller <- {"t", "u"}, Kernel <- {"k", "l"}, Module <- {"m"},
    ModuleOf <- [k \in {"k", "l"} |-> "m"], MaxFlight <- 7, MayPanic <- FALSE,
    call <- linking

(* Two threads of one process, a kernel and a module in two units, which
   between them need three compiler processes for two permits. *)
Compile == INSTANCE CompileCache WITH
    Loader <- {"t", "u"}, Process <- {"p"}, ProcessOf <- [t \in {"t", "u"} |-> "p"],
    Kernel <- {"k"}, Combined <- {}, Chunked <- {"c"},
    Permits <- 2, MaxBuildFaults <- 1, MaxCacheLoads <- 2

(* Three requests of two prompts, with a prefix cache of one entry. *)
Selects(snapshot) ==
    (1 + MapThenSumSet(LAMBDA i : i * snapshot[i][2], DOMAIN snapshot)) % 3

Serve == INSTANCE Serving WITH
    Model <- {"m"}, Token <- {0, 1, 2}, Prompt <- {<<0>>, <<0, 1>>}, MaxNew <- {0, 1, 2}, Stop <- {2},
    Sample <- Selects, MaxContext <- 4, BatchSize <- 2, MaxEntries <- 1, MaxBytes <- 5,
    MaxRequests <- 3, MaxFailures <- 1, MaxChanges <- 1

(* One call of a trainer and of each of two other threads, over three
   parameters. *)
Params == INSTANCE ModuleState WITH
    Trainable <- {1, 2}, Buffers <- {3}, VisitOrder <- <<3, 1, 2>>, Entries <- <<2, 1>>,
    Statistics <- <<3>>, Trainer <- "t", Others <- {"u", "v"}, LoadSets <- {{1, 3}},
    Starts <- {0}, MaxU64 <- 2, MaxEpoch <- 2,
    Budgets <- {[t \in {"t", "u", "v"} |-> 1]}

-----------------------------------------------------------------------------
Init ==
    /\ part \in {"allocator", "linked", "compile", "serve", "params"}
    /\ Allocator!AllocatorInit /\ Linked!LinkedInit /\ Compile!CacheInit
    /\ Serve!Init /\ Params!Init
    /\ part # "compile" => lib = [k \in {"k", "c"} |-> "none"]

allocatorVars ==
    <<lifecycle, cached, classes, cachedBytes, deferred, deferredBytes, quarantined,
      inUse, inUseBlocks, reserved, pending, live, cap, gen, marked, lease, retained,
      fence, busy, unknown, used, recycled, pc, collecting, ready, got, want>>
linkedVars == <<entries, flight, linking, dead>>
cacheVars == <<lib, registry, gate, owner, active, stage, key, round, hit, tmp, job,
               cacheLoads, buildFaults>>
serveVars == <<model, next, order, requests, prefixes, failures, changes>>
paramVars == <<cell, lock, call, optimizer, checkpoint, outcome, writes>>
vars == <<part, allocatorVars, linkedVars, cacheVars, serveVars, paramVars>>

Next ==
    \/ /\ part = "allocator" /\ Allocator!AllocatorNext
       /\ UNCHANGED <<part, linkedVars, cacheVars, serveVars, paramVars>>
    \/ /\ part = "linked" /\ Linked!LinkedNext
       /\ UNCHANGED <<part, allocatorVars, cacheVars, serveVars, paramVars>>
    \/ /\ part = "compile" /\ Compile!CacheNext
       /\ UNCHANGED <<part, allocatorVars, linkedVars, serveVars, paramVars>>
    \/ /\ part = "serve" /\ Serve!Next
       /\ UNCHANGED <<part, allocatorVars, linkedVars, cacheVars, paramVars>>
    \/ /\ part = "params" /\ Params!Next
       /\ UNCHANGED <<part, allocatorVars, linkedVars, cacheVars, serveVars>>

(* The operating system runs a thread whose call can go on, the device
   completes the work it was given, compiler processes end, and the caller of
   the scheduler steps as long as requests are pending (WF of Step, with what
   enables it written out).  Nobody has to begin a call, to finish a session or
   to submit a request. *)
Fairness ==
    /\ \A t \in {"t", "u"} :
         /\ WF_allocatorVars(part = "allocator" /\ Allocator!Running(t))
         /\ WF_linkedVars(part = "linked" /\ Linked!Advance(t))
         /\ WF_cacheVars(part = "compile" /\ Compile!Proceed(t))
         /\ \A j \in Compile!Job : WF_cacheVars(part = "compile" /\ Compile!Compile(t, j))
    /\ WF_allocatorVars(part = "allocator" /\ Allocator!DeviceCompletes("f"))
    /\ \A t \in {"t", "u", "v"} : WF_paramVars(part = "params" /\ Params!Continue(t))
    /\ []<>(part # "serve" \/ Serve!Selected = <<>>) \/ []<><<Serve!Step>>_serveVars

Spec == Init /\ [][Next]_vars /\ Fairness

-----------------------------------------------------------------------------
(* Properties *)

(* PrimaryCudaAllocator::close, once begun, ends with the pool open or closed,
   whatever other threads are doing and whichever wait fails. *)
CloseSettles == Allocator!CloseSettles

(* Every call of the linked module and kernel caches returns. *)
EveryLinkReturns == Linked!EveryLinkReturns

(* Every load of a compiled library returns. *)
EveryLoadReturns == Compile!EveryLoadReturns

(* Every request completes or is removed. *)
EveryRequestCompletes == Serve!EveryRequestCompletes

(* Every training step, load, seal and publication returns. *)
EveryCallReturns == Params!EveryCallReturns
=============================================================================
