---------------------------- MODULE CompileCache ----------------------------
(***************************************************************************)
(* The on-disk cache of compiled C libraries of the CPU JIT                 *)
(* (src/src/cpu_jit.rs and src/src/cpu_jit/schedule_module.rs).  A load     *)
(* takes the gate of its key, which serializes the threads of one process;  *)
(* looks for the library; builds it under a temporary name when it is       *)
(* missing, with one compiler process or with concurrent translation units  *)
(* and a link, each under one of the process's permits; renames it; opens   *)
(* it; and evicts and rebuilds an entry that does not open.  Nothing        *)
(* serializes different processes, which share the directory.               *)
(*                                                                         *)
(* Left out: the contents of sources and objects, the timing evidence, and  *)
(* the poisoning of gates (no step of a load panics in a release build).    *)
(***************************************************************************)
EXTENDS Naturals, FiniteSets, Nothing

CONSTANTS
    Loader, Process, ProcessOf,
    Kernel,          \* keys of single kernels (JitKernel::load)
    Combined,        \* keys of schedule modules built by one compiler process
    Chunked,         \* keys of schedule modules built in two units and a link
    Permits,         \* MAX_COMPILER_PROCESS_COUNT
    MaxBuildFaults,  \* bound: compilers and renames that fail, built libraries that do
                     \* not open, and processes that crash
    MaxCacheLoads        \* each thread makes at most this many loads

ASSUME ThreadAssumption == ProcessOf \in [Loader -> Process]
ASSUME PermitAssumption == Permits \in Nat \ {0} /\ MaxCacheLoads \in Nat
ASSUME BuildFaultAssumption == MaxBuildFaults \in Nat

(* A gate object is named by the load that makes it. *)
Gate == Loader \X (1 .. MaxCacheLoads)

Key == Kernel \cup Combined \cup Chunked

(* Compiler jobs of a load: the units of a chunked module, or the one process
   of the other keys, and the link. *)
Unit == {"first", "second"}
Job == Unit \cup {"link"}
Units(k) == IF k \in Chunked THEN Unit ELSE {"first"}

ASSUME LoaderAssumption ==
    /\ IsFiniteSet(Loader)
    /\ None \notin Loader /\ None \notin Gate /\ None \notin Loader \X Job

VARIABLES
    lib,        \* the library of each key: "none", "partial", "good", "damaged"
    registry,   \* per process, the gate object of a key (a Weak), or None
    gate,       \* the gate object a thread holds a reference to, or None
    owner,      \* the thread that has locked a gate object, or None
    active,     \* permits taken in each process
    stage, key, round, hit, tmp, job, cacheLoads,  \* the threads
    buildFaults \* the number of faults so far

locks == <<registry, gate, owner>>
local == <<stage, key, round, hit, tmp, job, cacheLoads>>
cacheVars == <<lib, locks, active, local, buildFaults>>

NoJobs == [j \in Job |-> "none"]

CacheInit ==
    /\ lib \in [Key -> {"none", "good", "damaged"}]
    /\ registry = [p \in Process |-> [k \in Key |-> None]]
    /\ gate = [t \in Loader |-> None]
    /\ owner = [g \in Gate |-> None]
    /\ active = [p \in Process |-> 0]
    /\ stage = [t \in Loader |-> "idle"]
    /\ key = [t \in Loader |-> None]
    /\ round = [t \in Loader |-> 1]
    /\ hit = [t \in Loader |-> FALSE]
    /\ tmp = [t \in Loader |-> "none"]
    /\ job = [t \in Loader |-> NoJobs]
    /\ cacheLoads = [t \in Loader |-> 0]
    /\ buildFaults = 0

BuildFault == buildFaults < MaxBuildFaults /\ buildFaults' = buildFaults + 1

-----------------------------------------------------------------------------
(* Gates *)

Alive(g) == \E u \in Loader : gate[u] = g

(* Mutant: a gate is made for every call. *)
FreshGate(t, k) == <<t, cacheLoads[t] + 1>>

(* compile_gate: the registered gate while somebody still refers to it,
   otherwise a new one. *)
FindGate(t, k) ==
    LET p == ProcessOf[t]
        old == registry[p][k]
    IN  IF old # None /\ Alive(old) THEN old ELSE <<t, cacheLoads[t] + 1>>

BeginLoad(t, k) ==
    /\ stage[t] = "idle"
    /\ cacheLoads[t] < MaxCacheLoads
    /\ LET g == FindGate(t, k)
       IN  /\ gate' = [gate EXCEPT ![t] = g]
           /\ registry' = [registry EXCEPT ![ProcessOf[t]][k] = g]
    /\ stage' = [stage EXCEPT ![t] = "gate"]
    /\ key' = [key EXCEPT ![t] = k]
    /\ cacheLoads' = [cacheLoads EXCEPT ![t] = @ + 1]
    /\ UNCHANGED <<lib, owner, active, round, hit, tmp, job, buildFaults>>

LockGate(t) ==
    /\ stage[t] = "gate"
    /\ owner[gate[t]] = None
    /\ owner' = [owner EXCEPT ![gate[t]] = t]
    /\ stage' = [stage EXCEPT ![t] = "probe"]
    /\ UNCHANGED <<lib, registry, gate, active, key, round, hit, tmp, job, cacheLoads, buildFaults>>

(* Every return drops the guard, the gate and the temporary files. *)
Returned(t) ==
    /\ owner' = [owner EXCEPT ![gate[t]] = None]
    /\ gate' = [gate EXCEPT ![t] = None]
    /\ key' = [key EXCEPT ![t] = None]
    /\ round' = [round EXCEPT ![t] = 1]
    /\ hit' = [hit EXCEPT ![t] = FALSE]
    /\ tmp' = [tmp EXCEPT ![t] = "none"]
    /\ job' = [job EXCEPT ![t] = NoJobs]
    /\ UNCHANGED registry

-----------------------------------------------------------------------------
(* Building: compile_cached_under_gate and
   compile_cached_schedule_module_under_gate *)

(* The library is looked for; when it is missing its units are started. *)
Probe(t) ==
    /\ stage[t] = "probe"
    /\ IF lib[key[t]] # "none"
       THEN /\ stage' = [stage EXCEPT ![t] = "load"]
            /\ hit' = [hit EXCEPT ![t] = TRUE]
            /\ UNCHANGED job
       ELSE /\ stage' = [stage EXCEPT ![t] = "units"]
            /\ hit' = [hit EXCEPT ![t] = FALSE]
            /\ job' = [job EXCEPT ![t] =
                   [j \in Job |-> IF j \in Units(key[t]) THEN "ask" ELSE "none"]]
    /\ UNCHANGED <<lib, locks, active, key, round, tmp, cacheLoads, buildFaults>>

(* Which job writes the library itself, under its temporary name. *)
Writes(t, j) == (key[t] \in Chunked) <=> (j = "link")

(* CompilerProcessPermit::acquire: take a permit, or wait for one. *)
AcquirePermit(t, j) ==
    LET p == ProcessOf[t]
    IN  /\ job[t][j] = "ask"
        /\ IF active[p] < Permits
           THEN /\ active' = [active EXCEPT ![p] = @ + 1]
                /\ job' = [job EXCEPT ![t][j] = "run"]
                /\ tmp' = [tmp EXCEPT ![t] = IF Writes(t, j) THEN "partial" ELSE @]
           ELSE /\ job' = [job EXCEPT ![t][j] = "asleep"]
                /\ UNCHANGED <<active, tmp>>
        /\ UNCHANGED <<lib, locks, stage, key, round, hit, cacheLoads, buildFaults>>

Asleep(p) == {u \in Loader \X Job : ProcessOf[u[1]] = p /\ job[u[1]][u[2]] = "asleep"}

(* Mutant: the permit is dropped without a notification. *)
NotifiedNobody(t, j, outcome, woken) ==
    [job EXCEPT ![t][j] = outcome]

(* job with job j of t ended, and one sleeper of the process notified. *)
Notified(t, j, outcome, woken) ==
    [u \in Loader |-> [i \in Job |->
        IF u = t /\ i = j THEN outcome
        ELSE IF <<u, i>> = woken THEN "ask" ELSE job[u][i]]]

(* The compiler process ends and its permit is dropped. *)
Exit(t, j, outcome, library) ==
    LET p == ProcessOf[t]
    IN  /\ job[t][j] = "run"
        /\ library = "damaged" => Writes(t, j) /\ outcome = "ok"
        /\ IF outcome = "fail" \/ library = "damaged" THEN BuildFault ELSE UNCHANGED buildFaults
        /\ active' = [active EXCEPT ![p] = @ - 1]
        /\ \/ Asleep(p) = {} /\ job' = Notified(t, j, outcome, None)
           \/ \E w \in Asleep(p) : job' = Notified(t, j, outcome, w)
        /\ tmp' = [tmp EXCEPT ![t] =
               IF Writes(t, j) /\ outcome = "ok" THEN library ELSE @]
        /\ UNCHANGED <<lib, locks, stage, key, round, hit, cacheLoads>>

(* Every compiler process of the load has ended. *)
Joined(t) == \A j \in Job : job[t][j] \in {"none", "ok", "fail"}

(* All units have been joined: link them, or publish, or give up. *)
JoinUnits(t) ==
    /\ stage[t] = "units"
    /\ Joined(t)
    /\ \A j \in Job : job[t][j] # "fail"
    /\ IF key[t] \in Chunked /\ job[t]["link"] = "none"
       THEN /\ job' = [job EXCEPT ![t]["link"] = "ask"]
            /\ UNCHANGED stage
       ELSE /\ job' = [job EXCEPT ![t] = NoJobs]
            /\ stage' = [stage EXCEPT ![t] = "rename"]
    /\ UNCHANGED <<lib, locks, active, key, round, hit, tmp, cacheLoads, buildFaults>>

BuildFails(t) ==
    /\ stage[t] = "units"
    /\ Joined(t)
    /\ \E j \in Job : job[t][j] = "fail"
    /\ stage' = [stage EXCEPT ![t] = "idle"]
    /\ Returned(t)
    /\ UNCHANGED <<lib, active, cacheLoads, buildFaults>>

(* The finished file replaces whatever another process has published. *)
PublishLibrary(t) ==
    /\ stage[t] = "rename"
    /\ lib' = [lib EXCEPT ![key[t]] = tmp[t]]
    /\ tmp' = [tmp EXCEPT ![t] = "none"]
    /\ stage' = [stage EXCEPT ![t] = "load"]
    /\ UNCHANGED <<locks, active, key, round, hit, job, cacheLoads, buildFaults>>

(* The rename fails: a file that another process has put there will do. *)
PublishFails(t) ==
    /\ stage[t] = "rename"
    /\ BuildFault
    /\ IF lib[key[t]] # "none"
       THEN /\ stage' = [stage EXCEPT ![t] = "load"]
            /\ tmp' = [tmp EXCEPT ![t] = "none"]
            /\ UNCHANGED <<locks, key, round, hit, job>>
       ELSE stage' = [stage EXCEPT ![t] = "idle"] /\ Returned(t)
    /\ UNCHANGED <<lib, active, cacheLoads>>

-----------------------------------------------------------------------------
(* Loading: JitKernel::load and JitKernel::load_schedule_module *)

LibraryOpens(t) ==
    /\ stage[t] = "load"
    /\ lib[key[t]] = "good"
    /\ stage' = [stage EXCEPT ![t] = "idle"]
    /\ Returned(t)
    /\ UNCHANGED <<lib, active, cacheLoads, buildFaults>>

(* Mutant: a damaged entry is not rebuilt. *)
NeverRebuild(t) == FALSE

(* An entry that does not open is evicted and rebuilt once; of a schedule
   module only an entry that was found, not one just built. *)
MayRebuild(t) == round[t] = 1 /\ (key[t] \in Kernel \/ hit[t])

LibraryRejected(t) ==
    /\ stage[t] = "load"
    /\ lib[key[t]] # "good"
    /\ stage' = [stage EXCEPT ![t] = IF MayRebuild(t) THEN "evict" ELSE "discard"]
    /\ UNCHANGED <<lib, locks, active, key, round, hit, tmp, job, cacheLoads, buildFaults>>

(* evict_cached_library, and the second round. *)
Evict(t) ==
    /\ stage[t] = "evict"
    /\ lib[key[t]] # "none"
    /\ lib' = [lib EXCEPT ![key[t]] = "none"]
    /\ stage' = [stage EXCEPT ![t] = "probe"]
    /\ round' = [round EXCEPT ![t] = 2]
    /\ UNCHANGED <<locks, active, key, hit, tmp, job, cacheLoads, buildFaults>>

(* The entry is already gone: the load returns that error. *)
EvictFails(t) ==
    /\ stage[t] = "evict"
    /\ lib[key[t]] = "none"
    /\ stage' = [stage EXCEPT ![t] = "idle"]
    /\ Returned(t)
    /\ UNCHANGED <<lib, active, cacheLoads, buildFaults>>

(* The last attempt did not open either: evict it if it is there, and return
   the loader's error. *)
Discard(t) ==
    /\ stage[t] = "discard"
    /\ lib' = [lib EXCEPT ![key[t]] = "none"]
    /\ stage' = [stage EXCEPT ![t] = "idle"]
    /\ Returned(t)
    /\ UNCHANGED <<active, cacheLoads, buildFaults>>

-----------------------------------------------------------------------------

(* A process dies: its threads, gates and permits with it.  Temporary files
   stay behind under names nobody uses again. *)
ProcessDies(p) ==
    LET mine == {t \in Loader : ProcessOf[t] = p}
        reset(f, v) == [t \in Loader |-> IF t \in mine THEN v ELSE f[t]]
    IN  /\ BuildFault
        /\ \E t \in mine : stage[t] # "idle"
        /\ stage' = reset(stage, "idle") /\ key' = reset(key, None)
        /\ round' = reset(round, 1) /\ hit' = reset(hit, FALSE)
        /\ tmp' = reset(tmp, "none") /\ job' = reset(job, NoJobs)
        /\ gate' = reset(gate, None)
        /\ owner' = [g \in Gate |-> IF g[1] \in mine THEN None ELSE owner[g]]
        /\ registry' = [registry EXCEPT ![p] = [k \in Key |-> None]]
        /\ active' = [active EXCEPT ![p] = 0]
        /\ UNCHANGED <<lib, cacheLoads>>

Proceed(t) ==
    \/ LockGate(t) \/ Probe(t) \/ JoinUnits(t) \/ BuildFails(t) \/ PublishLibrary(t) \/ PublishFails(t)
    \/ LibraryOpens(t) \/ LibraryRejected(t) \/ Evict(t) \/ EvictFails(t) \/ Discard(t)

Compile(t, j) ==
    \/ AcquirePermit(t, j)
    \/ \E outcome \in {"ok", "fail"}, library \in {"good", "damaged"} :
          Exit(t, j, outcome, library)

CacheNext ==
    \/ \E t \in Loader :
        \/ \E k \in Key : BeginLoad(t, k)
        \/ Proceed(t)
        \/ \E j \in Job : Compile(t, j)
    \/ \E p \in Process : ProcessDies(p)

CacheSpec == CacheInit /\ [][CacheNext]_cacheVars

-----------------------------------------------------------------------------
(* Properties *)

Running(p) == {u \in Loader \X Job : ProcessOf[u[1]] = p /\ job[u[1]][u[2]] = "run"}

(* The permit count is exactly the number of compiler processes, never above
   the limit, and nobody sleeps while a permit is free unless somebody who is
   awake is about to take it: a notification is never lost. *)
PermitsAreExact ==
    \A p \in Process :
        /\ active[p] = Cardinality(Running(p))
        /\ active[p] <= Permits
        /\ Asleep(p) # {} /\ active[p] < Permits =>
             \E t \in Loader, j \in Job : ProcessOf[t] = p /\ job[t][j] = "ask"

(* Two threads of one process never work on one key at the same time, however
   often its gate was dropped from the registry and made anew. *)
OneBuilderPerProcess ==
    \A t, u \in Loader :
        /\ ProcessOf[t] = ProcessOf[u] /\ key[t] = key[u]
        /\ stage[t] \notin {"idle", "gate"} /\ stage[u] \notin {"idle", "gate"}
        => t = u

(* The cache never holds a library some compiler is still writing, whatever
   crashes and whichever processes build the same key. *)
EntriesAreComplete == \A k \in Key : lib[k] # "partial"

(* The cache is sound: permits and gates hold in every process, and what the
   processes share is never half a library. *)
CacheIsSound == PermitsAreExact /\ OneBuilderPerProcess /\ EntriesAreComplete

(* Only one process has used the directory. *)
Alone == \A t, u \in Loader :
    cacheLoads[t] > 0 /\ cacheLoads[u] > 0 => ProcessOf[t] = ProcessOf[u]

(* As long as one process uses the directory and its compilers work, no load
   returns an error, however its threads interleave: a damaged entry is
   replaced by the load that meets it. *)
LoadsHeal ==
    [][Alone /\ buildFaults = 0 =>
         \A t \in Loader : ~(BuildFails(t) \/ EvictFails(t) \/ Discard(t))]_cacheVars

(* Every load returns, although loads hold their gate while their units wait
   for permits that loads of other keys hold. *)
EveryLoadReturns == \A t \in Loader : (stage[t] # "idle") ~> (stage[t] = "idle")
=============================================================================
