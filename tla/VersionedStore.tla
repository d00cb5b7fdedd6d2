--------------------------- MODULE VersionedStore ---------------------------
(***************************************************************************)
(* What EffectRuntime promises about persistent buffers: each is           *)
(* registered once and for good, and afterwards its contents change only   *)
(* together with its version, which only grows.  A BufferState (buffer,    *)
(* version) therefore names one value for ever; cursors, checkpoints and   *)
(* frontiers rely on nothing else.                                         *)
(***************************************************************************)
EXTENDS Naturals

CONSTANTS
    Buffers,
    Contents,       \* published tensors
    Unregistered

VARIABLE store      \* the version and contents of every buffer

Entry == [version : Nat, content : Contents]

Init == store = [b \in Buffers |-> Unregistered]

Registers(b) == store[b] = Unregistered /\ store'[b] \in Entry

Advances(b) ==
    /\ store[b] # Unregistered
    /\ store'[b] \in Entry
    /\ store'[b].version > store[b].version

\* One transaction: any set of buffers at once, the others untouched.
Next ==
    /\ DOMAIN store' = Buffers
    /\ \A b \in Buffers : store'[b] = store[b] \/ Registers(b) \/ Advances(b)

Spec == Init /\ [][Next]_store
=============================================================================
