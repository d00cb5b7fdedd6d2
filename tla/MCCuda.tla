------------------------------- MODULE MCCuda -------------------------------
(***************************************************************************)
(* The parts of the CUDA runtime for TLC.  They share no state, so a step   *)
(* of one commutes with every step of another and nothing is lost by        *)
(* exploring them one at a time: in each behaviour one part is in use and   *)
(* the others stay as they are.                                             *)
(***************************************************************************)
EXTENDS CudaAllocator, LinkedCache, Collective, PeerAccess, TLC

CONSTANTS k1, k2, m1

VARIABLE part   \* the part that is in use

-----------------------------------------------------------------------------
(* Two symbols of one module. *)
ModuleOfKernel == [k \in Kernel |-> m1]

(* A broadcast from a rank outside its group, while collectives are not in use. *)
NoBroadcast == [kind |-> "broadcast", root |-> 2, lengths |-> <<0>>]
Refused == {NoBroadcast}

(* Every kind of collective over one to three ranks with zero to three cells,
   unequal lengths and roots outside the group among them; four ranks with up
   to seven cells. *)
AnyRequest ==
    {[kind |-> k, root |-> t, lengths |-> l] :
        k \in Kind, t \in 1 .. 3, l \in UNION {[1 .. n -> 0 .. 3] : n \in 1 .. 3}}
    \cup {[kind |-> k, root |-> 4, lengths |-> [i \in 1 .. 4 |-> c]] : k \in Kind, c \in 0 .. 7}

(* Two groups over contexts of their own. *)
Apart == [g \in Group |-> IF g = "first" THEN <<"a to b", "b to a">> ELSE <<"c to d", "d to c">>]

Symmetric == Permutations(Block) \cup Permutations(Thread)

-----------------------------------------------------------------------------
Init ==
    /\ part \in {"allocator", "cache", "collective", "peers"}
    /\ AllocatorInit /\ LinkedInit /\ PeerInit
    /\ CollectiveInit
    /\ part # "collective" => req = NoBroadcast

Next ==
    /\ UNCHANGED part
    /\ \/ /\ part = "allocator" /\ AllocatorNext
          /\ UNCHANGED <<linkedVars, collectiveVars, peerVars>>
       \/ /\ part = "cache" /\ LinkedNext
          /\ UNCHANGED <<allocatorVars, collectiveVars, peerVars>>
       \/ /\ part = "collective" /\ CollectiveNext
          /\ UNCHANGED <<allocatorVars, linkedVars, peerVars>>
       \/ /\ part = "peers" /\ PeerNext
          /\ UNCHANGED <<allocatorVars, linkedVars, collectiveVars>>

Spec == Init /\ [][Next]_<<part, allocatorVars, linkedVars, collectiveVars, peerVars>>
=============================================================================
