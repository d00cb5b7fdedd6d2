----------------------------- MODULE LinkedCache -----------------------------
(***************************************************************************)
(* The two single-flight caches of linked CUDA code (src/src/cuda.rs,       *)
(* PrimaryLinkedModuleCache and PrimaryLinkedKernelCache).  The first       *)
(* caller of a key leads: it inserts a Loading entry, loads with no lock    *)
(* held, publishes the outcome and, when it failed, removes the key in a    *)
(* later critical section.  Callers that find an entry follow: they sleep   *)
(* on its condition variable until it leaves Loading.  The load of a kernel *)
(* calls the module cache, so a kernel leader may follow a module flight    *)
(* that the leader of another kernel leads.                                 *)
(*                                                                         *)
(* A flight is one cache entry object; followers keep it after its key has  *)
(* been removed.  Loaded modules are named by the flight that loaded them.  *)
(***************************************************************************)
EXTENDS Naturals, FiniteSets, Nothing

CONSTANTS
    Caller, Kernel, Module,
    MaxFlight,   \* at most this many entry objects exist at a time
    ModuleOf,    \* the module key (link inputs) of each kernel key
    MayPanic    \* may a load panic?

ASSUME KeysAssumption == Kernel \cap Module = {} /\ ModuleOf \in [Kernel -> Module]
ASSUME PanicAssumption == MayPanic \in BOOLEAN
ASSUME BoundAssumption == MaxFlight \in Nat

Key == Kernel \cup Module
Flight == 1..MaxFlight
Layer == {"kernel", "module"}

VARIABLES
    entries,   \* the two maps: the flight of a key, or None
    flight,    \* the entry objects: state, and the module of a loaded one
    call,      \* each thread's call of each cache, or None
    dead       \* threads whose load panicked

linkedVars == <<entries, flight, call, dead>>

(* Where a call is: "lead" loads, "publish" has loaded, "remove" has published
   a failure, "follow" is about to look at the entry, "asleep" waits on its
   condition variable, "done" is about to return. *)
Frame == [key : Key, flight : Flight,
          at : {"lead", "publish", "remove", "follow", "asleep", "done"},
          module : Flight \cup {None}]

CacheEntry == [state : {"Loading", "Ready", "Failed"}, module : Flight \cup {None}]

ASSUME FrameAssumption == None \notin Flight /\ None \notin Frame

Loading == [state |-> "Loading", module |-> None]

LinkedInit ==
    /\ entries = [k \in Key |-> None]
    /\ flight = [f \in Flight |-> Loading]
    /\ call = [l \in Layer |-> [t \in Caller |-> None]]
    /\ dead = {}

Frames == {call[l][t] : l \in Layer, t \in Caller} \ {None}
Cached == {entries[k] : k \in Key} \ {None}

(* Entry objects and modules that a map, a call or a cached kernel holds. *)
FlightsHeld == Cached \cup {c.flight : c \in Frames} \cup {c.module : c \in Frames}
               \cup {flight[f].module : f \in Cached}

Unused == CHOOSE f \in Flight \ FlightsHeld : \A g \in Flight \ FlightsHeld : f <= g

(* Who may call which cache: a kernel leader calls the module cache once, for
   its own link inputs; other calls are the threads' own. *)
MayCall(t, l, k) ==
    /\ t \notin dead
    /\ call[l][t] = None
    /\ IF l = "kernel" THEN k \in Kernel /\ call["module"][t] = None
       ELSE /\ k \in Module
            /\ call["kernel"][t] # None =>
                 call["kernel"][t].at = "lead" /\ ModuleOf[call["kernel"][t].key] = k

(* The first critical section of get_or_load. *)
Lead(t, l, k) ==
    /\ MayCall(t, l, k)
    /\ entries[k] = None
    /\ Flight \ FlightsHeld # {}
    /\ entries' = [entries EXCEPT ![k] = Unused]
    /\ flight' = [flight EXCEPT ![Unused] = Loading]
    /\ call' = [call EXCEPT ![l][t] =
           [key |-> k, flight |-> Unused, at |-> "lead", module |-> None]]
    /\ UNCHANGED dead

Follow(t, l, k) ==
    /\ MayCall(t, l, k)
    /\ entries[k] # None
    /\ call' = [call EXCEPT ![l][t] =
           [key |-> k, flight |-> entries[k], at |-> "follow", module |-> None]]
    /\ UNCHANGED <<entries, flight, dead>>

(* The driver links the module, or refuses. *)
LoadModule(t, ok) ==
    /\ call["module"][t] # None
    /\ call["module"][t].at = "lead"
    /\ call' = [call EXCEPT
           !["module"][t].at = "publish",
           !["module"][t].module = IF ok THEN call["module"][t].flight ELSE None]
    /\ UNCHANGED <<entries, flight, dead>>

(* The module cache has answered; a module is asked for the kernel's symbol. *)
LoadKernel(t, ok) ==
    /\ call["kernel"][t] # None /\ call["module"][t] # None
    /\ call["module"][t].at = "done"
    /\ call["module"][t].module = None => ~ok
    /\ call' = [call EXCEPT
           !["kernel"][t].at = "publish",
           !["kernel"][t].module = IF ok THEN call["module"][t].module ELSE None,
           !["module"][t] = None]
    /\ UNCHANGED <<entries, flight, dead>>

(* Mutant: the kernel cache publishes without a notification. *)
WokenModulesOnly(l, f) ==
    [t \in Caller |->
        IF l = "module" /\ call[l][t] # None /\ call[l][t].flight = f
           /\ call[l][t].at = "asleep"
        THEN [call[l][t] EXCEPT !.at = "follow"]
        ELSE call[l][t]]

(* Everyone asleep on flight f of layer l looks again. *)
Woken(l, f) ==
    [t \in Caller |->
        IF call[l][t] # None /\ call[l][t].flight = f /\ call[l][t].at = "asleep"
        THEN [call[l][t] EXCEPT !.at = "follow"]
        ELSE call[l][t]]

(* The leader's entry with the outcome c of its load. *)
Published(c) ==
    [state |-> IF c.module = None THEN "Failed" ELSE "Ready", module |-> c.module]

(* Mutant: a failed flight stays in the map. *)
PublishKeepsFailure(t, l) ==
    /\ call[l][t] # None
    /\ call[l][t].at = "publish"
    /\ LET c == call[l][t]
       IN  /\ flight' = [flight EXCEPT ![c.flight] = Published(c)]
           /\ call' = [call EXCEPT ![l] =
                  [Woken(l, c.flight) EXCEPT ![t].at = "done"]]
    /\ UNCHANGED <<entries, dead>>

(* The leader stores the outcome and notifies all, under the entry's lock. *)
PublishEntry(t, l) ==
    /\ call[l][t] # None
    /\ call[l][t].at = "publish"
    /\ LET c == call[l][t]
           loaded == c.module # None
       IN  /\ flight' = [flight EXCEPT ![c.flight] = Published(c)]
           /\ call' = [call EXCEPT ![l] =
                  [Woken(l, c.flight) EXCEPT ![t].at =
                      IF loaded THEN "done" ELSE "remove"]]
    /\ UNCHANGED <<entries, dead>>

(* A failed leader removes its key, so that a later call tries again. *)
RemoveEntry(t, l) ==
    /\ call[l][t] # None
    /\ call[l][t].at = "remove"
    /\ entries' = [entries EXCEPT ![call[l][t].key] = None]
    /\ call' = [call EXCEPT ![l][t].at = "done"]
    /\ UNCHANGED <<flight, dead>>

(* A follower looks at the entry under its lock. *)
Look(t, l) ==
    /\ call[l][t] # None
    /\ call[l][t].at = "follow"
    /\ LET e == flight[call[l][t].flight]
       IN  call' = [call EXCEPT
               ![l][t].at = IF e.state = "Loading" THEN "asleep" ELSE "done",
               ![l][t].module = e.module]
    /\ UNCHANGED <<entries, flight, dead>>

(* A call that no kernel leader waits for returns to the thread. *)
ReturnCall(t, l) ==
    /\ call[l][t] # None
    /\ call[l][t].at = "done"
    /\ l = "module" => call["kernel"][t] = None
    /\ call' = [call EXCEPT ![l][t] = None]
    /\ UNCHANGED <<entries, flight, dead>>

(* The load unwinds the leader's stack: nobody publishes its entries. *)
Panic(t) ==
    /\ MayPanic
    /\ \/ call["module"][t] # None /\ call["module"][t].at = "lead"
       \/ /\ call["kernel"][t] # None /\ call["kernel"][t].at = "lead"
          /\ call["module"][t] # None /\ call["module"][t].at = "done"
    /\ call' = [l \in Layer |-> [call[l] EXCEPT ![t] = None]]
    /\ dead' = dead \cup {t}
    /\ UNCHANGED <<entries, flight>>

(* The steps of a call that has begun. *)
Advance(t) ==
    \/ /\ call["kernel"][t] # None /\ call["kernel"][t].at = "lead"
       /\ \E k \in Module : Lead(t, "module", k) \/ Follow(t, "module", k)
    \/ \E ok \in BOOLEAN : LoadModule(t, ok) \/ LoadKernel(t, ok)
    \/ \E l \in Layer : PublishEntry(t, l) \/ RemoveEntry(t, l) \/ Look(t, l) \/ ReturnCall(t, l)

BeginCall(t) ==
    /\ call["kernel"][t] = None
    /\ \/ \E k \in Kernel : Lead(t, "kernel", k) \/ Follow(t, "kernel", k)
       \/ \E k \in Module : Lead(t, "module", k) \/ Follow(t, "module", k)

LinkedNext == \E t \in Caller : BeginCall(t) \/ Advance(t) \/ Panic(t)

LinkedSpec == LinkedInit /\ [][LinkedNext]_linkedVars

-----------------------------------------------------------------------------
(* Properties *)

LinkedTypeOK ==
    /\ entries \in [Key -> Flight \cup {None}]
    /\ flight \in [Flight -> CacheEntry]
    /\ call \in [Layer -> [Caller -> Frame \cup {None}]]
    /\ dead \subseteq Caller

LayerOf(k) == IF k \in Kernel THEN "kernel" ELSE "module"
Leading(l, t) == call[l][t] # None /\ call[l][t].at \in {"lead", "publish", "remove"}

(* Callers of one key coalesce: no key is loaded by two leaders at once, and
   a leader's entry stays in the map until that leader takes it out, so the
   removal by key never removes another flight's entry. *)
OneLeaderPerKey ==
    \A l \in Layer : \A t \in Caller : Leading(l, t) =>
        /\ entries[call[l][t].key] = call[l][t].flight
        /\ \A u \in Caller : Leading(l, u) /\ call[l][u].key = call[l][t].key => u = t

(* A failure is not remembered: a failed entry is in a map only while the
   leader that failed is still inside its call, so a call that begins after
   that leader returned loads again. *)
FailureIsNotCached ==
    \A k \in Key :
        entries[k] # None /\ flight[entries[k]].state = "Failed" =>
            \E t \in Caller : call[LayerOf(k)][t] # None
                /\ call[LayerOf(k)][t].flight = entries[k]
                /\ call[LayerOf(k)][t].at = "remove"

(* Link inputs are linked once: every cached kernel, and every kernel or
   module a call is about to return, is in the one module the module cache
   holds for its inputs. *)
KernelsShareTheirModule ==
    /\ \A k \in Kernel :
        entries[k] # None /\ flight[entries[k]].state = "Ready" =>
            flight[entries[k]].module = entries[ModuleOf[k]]
    /\ \A l \in Layer : \A t \in Caller :
        call[l][t] # None /\ call[l][t].module # None =>
            call[l][t].module = entries[IF l = "kernel" THEN ModuleOf[call[l][t].key]
                                        ELSE call[l][t].key]

(* Nobody sleeps through the notification: whoever is asleep, its flight is
   still loading. *)
NoLostWakeup ==
    \A l \in Layer : \A t \in Caller :
        call[l][t] # None /\ call[l][t].at = "asleep" =>
            flight[call[l][t].flight].state = "Loading"

(* Both caches are single flight: one leader for each key, failures that are
   forgotten, one module for the kernels of the same inputs, and no sleeper
   whose flight has landed. *)
FlightsAreSound ==
    LinkedTypeOK /\ OneLeaderPerKey /\ FailureIsNotCached /\ KernelsShareTheirModule /\ NoLostWakeup

(* Every call of either cache returns, kernel leaders that wait for another
   kernel's module included. *)
EveryLinkReturns ==
    \A t \in Caller : \A l \in Layer : (call[l][t] # None) ~> (call[l][t] = None)
=============================================================================
