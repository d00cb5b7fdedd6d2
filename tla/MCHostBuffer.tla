---------------------------- MODULE MCHostBuffer ----------------------------
(***************************************************************************)
(* HostBuffer for TLC.  In a behaviour either one slot goes through        *)
(* MaxGeneration generations of three layouts, one without bytes and two   *)
(* of the same size, or commits and transactions range over two slots in   *)
(* their first generation.                                                 *)
(***************************************************************************)
EXTENDS HostBuffer

MCLayouts == {"empty", "row", "column"}
MCBytes == [layout \in MCLayouts |-> IF layout = "empty" THEN 0 ELSE 4]

VARIABLE shape    \* "reuse" of one slot, or a "pair" of slots

Pair == INSTANCE HostBuffer WITH
          CallerSlots <- {0, 1}, Layouts <- {"row"},
          Bytes <- [layout \in {"row"} |-> 4], MaxViews <- 1

MCInit == shape \in {"reuse", "pair"} /\ Init

MCNext ==
    \/ shape = "reuse" /\ Next /\ UNCHANGED shape
    \/ /\ shape = "pair" /\ Pair!Next /\ UNCHANGED shape
       /\ \A s \in DOMAIN slots' : slots'[s].generation <= 1

MCSpec == MCInit /\ [][MCNext]_<<vars, shape>>
=============================================================================
