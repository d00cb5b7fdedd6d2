----------------------------- MODULE PeerAccess -----------------------------
(***************************************************************************)
(* Directional peer mappings between CUDA primary contexts                  *)
(* (src/src/cuda.rs: PeerAccess) and the cache of them that every           *)
(* collective group keeps (src/src/collective.rs: ensure_peers).  The       *)
(* driver knows one mapping per pair of contexts; a handle that finds it    *)
(* enabled already is as good as the one that enabled it, and any handle    *)
(* that closes disables it.                                                 *)
(***************************************************************************)
EXTENDS Naturals, Sequences, SequencesExt, Nothing

CONSTANTS
    Group,       \* collective groups, each driven by one thread
    Required,    \* by group, the pairs its plan transfers over, in plan order
    MaxSetups,    \* bound: setups per group
    MaxPeerFaults   \* bound: driver calls that fail

Pair == UNION {ToSet(Required[g]) : g \in Group}

ASSUME PeerAssumption ==
    /\ MaxSetups \in Nat /\ MaxPeerFaults \in Nat /\ None \notin Pair

VARIABLES
    enabled,    \* the mappings the driver has enabled
    peers,      \* by group, the handles in its cache
    acquired,   \* by group, the handles of a call that are not published yet
    dropping,   \* by group, the handles that are being dropped
    stage,      \* by group: "idle", "setup", "run", "unwind", "gone"
    moving,     \* by group, the pair of the transfer whose token is held
    stuck,      \* mappings whose disabling failed
    setups, peerFaults

handles == <<peers, acquired, dropping>>
peerVars == <<enabled, handles, stage, moving, stuck, setups, peerFaults>>

PeerInit ==
    /\ enabled = {} /\ stuck = {}
    /\ peers = [g \in Group |-> {}]
    /\ acquired = [g \in Group |-> {}]
    /\ dropping = [g \in Group |-> {}]
    /\ stage = [g \in Group |-> "idle"]
    /\ moving = [g \in Group |-> None]
    /\ setups = [g \in Group |-> 0]
    /\ peerFaults = 0

PeerFault == peerFaults < MaxPeerFaults /\ peerFaults' = peerFaults + 1
Turn(g, next) == stage' = [stage EXCEPT ![g] = next]

BeginSetup(g) ==
    /\ stage[g] = "idle" /\ setups[g] < MaxSetups
    /\ setups' = [setups EXCEPT ![g] = @ + 1]
    /\ Turn(g, "setup")
    /\ UNCHANGED <<enabled, handles, moving, stuck, peerFaults>>

Missing(g) == {i \in DOMAIN Required[g] : Required[g][i] \notin peers[g] \cup acquired[g]}

(* peer_access_to, for the next pair that has no handle. *)
Acquire(g) ==
    /\ stage[g] = "setup"
    /\ \E i \in Missing(g) :
          /\ \A j \in Missing(g) : i <= j
          /\ acquired' = [acquired EXCEPT ![g] = @ \cup {Required[g][i]}]
          /\ enabled' = enabled \cup {Required[g][i]}
    /\ UNCHANGED <<peers, dropping, stage, moving, stuck, setups, peerFaults>>

(* Mutant: the handles of a call that fails are simply forgotten. *)
ForgetAcquired(g) ==
    /\ stage[g] = "setup" /\ Missing(g) # {} /\ PeerFault
    /\ acquired' = [acquired EXCEPT ![g] = {}]
    /\ Turn(g, "idle")
    /\ UNCHANGED <<enabled, peers, dropping, moving, stuck, setups>>

(* An enable fails: the handles of this call are dropped. *)
AcquireFails(g) ==
    /\ stage[g] = "setup" /\ Missing(g) # {} /\ PeerFault
    /\ dropping' = [dropping EXCEPT ![g] = acquired[g]]
    /\ acquired' = [acquired EXCEPT ![g] = {}]
    /\ Turn(g, "unwind")
    /\ UNCHANGED <<enabled, peers, moving, stuck, setups>>

(* peers.append *)
PublishPeers(g) ==
    /\ stage[g] = "setup" /\ Missing(g) = {}
    /\ peers' = [peers EXCEPT ![g] = @ \cup acquired[g]]
    /\ acquired' = [acquired EXCEPT ![g] = {}]
    /\ Turn(g, "run")
    /\ UNCHANGED <<enabled, dropping, moving, stuck, setups, peerFaults>>

(* PeerAccess::close, from drop; an error is ignored. *)
Close(g) ==
    /\ \E p \in dropping[g] :
          /\ dropping' = [dropping EXCEPT ![g] = @ \ {p}]
          /\ \/ enabled' = enabled \ {p} /\ UNCHANGED <<stuck, peerFaults>>
             \/ PeerFault /\ stuck' = stuck \cup {p} /\ UNCHANGED enabled
    /\ UNCHANGED <<peers, acquired, stage, moving, setups>>

(* The error is returned once everything has been dropped. *)
Unwound(g) ==
    /\ stage[g] = "unwind" /\ dropping[g] = {}
    /\ Turn(g, "idle")
    /\ UNCHANGED <<enabled, handles, moving, stuck, setups, peerFaults>>

(* copy_from_peer_async, and the wait on its token. *)
Submit(g, p) ==
    /\ stage[g] = "run" /\ moving[g] = None
    /\ p \in ToSet(Required[g])
    /\ moving' = [moving EXCEPT ![g] = p]
    /\ UNCHANGED <<enabled, handles, stage, stuck, setups, peerFaults>>

Wait(g) ==
    /\ moving[g] # None
    /\ moving' = [moving EXCEPT ![g] = None]
    /\ UNCHANGED <<enabled, handles, stage, stuck, setups, peerFaults>>

Finish(g) ==
    /\ stage[g] = "run" /\ moving[g] = None
    /\ Turn(g, "idle")
    /\ UNCHANGED <<enabled, handles, moving, stuck, setups, peerFaults>>

(* The group is dropped with its cache. *)
DropGroup(g) ==
    /\ stage[g] = "idle"
    /\ dropping' = [dropping EXCEPT ![g] = peers[g]]
    /\ peers' = [peers EXCEPT ![g] = {}]
    /\ Turn(g, "gone")
    /\ UNCHANGED <<enabled, acquired, moving, stuck, setups, peerFaults>>

PeerNext ==
    \E g \in Group :
        \/ BeginSetup(g) \/ Acquire(g) \/ AcquireFails(g) \/ PublishPeers(g)
        \/ Close(g) \/ Unwound(g)
        \/ \E p \in Pair : Submit(g, p)
        \/ Wait(g) \/ Finish(g) \/ DropGroup(g)

PeerSpec == PeerInit /\ [][PeerNext]_peerVars

-----------------------------------------------------------------------------
(* Properties *)

(* No mapping outlives the handles for it, unless the driver refused to
   disable it: a failed setup gives back what it had acquired. *)
EnabledIsOwned ==
    \A p \in enabled \ stuck :
        \E g \in Group : p \in peers[g] \cup acquired[g] \cup dropping[g]

(* The token of a peer copy keeps the mapping live until completion. *)
MappingIsLive == \A g \in Group : moving[g] # None => moving[g] \in enabled

(* Mappings live exactly as long as somebody needs them, for groups that share
   no pair of contexts. *)
PeersAreOwned == EnabledIsOwned /\ MappingIsLive

=============================================================================
