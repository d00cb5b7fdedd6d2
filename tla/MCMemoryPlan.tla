---------------------------- MODULE MCMemoryPlan ----------------------------
(* Schedules of four items and four buffers for MemoryPlan. *)
EXTENDS MemoryPlan, TLC

\* Every schedule of three items and three buffers, also those that read a
\* buffer before it is produced, followed by an item with the output.
Three == 1 .. 3
AnyThree ==
    {[producer |-> p @@ (4 :> 4), readers |-> r @@ (4 :> {}), class |-> c @@ (4 :> "a"),
      requested |-> {4}, reuse |-> u] :
        p \in [Three -> Three], r \in [Three -> SUBSET Three], c \in [Three -> Class],
        u \in BOOLEAN}

\* Four buffers of one class, each read by one later item or by none; the
\* largest may be requested.
OneClass ==
    {[producer |-> p, readers |-> [b \in Buffer |-> IF r[b] > p[b] THEN {r[b]} ELSE {}],
      class |-> [b \in Buffer |-> "a"], requested |-> q, reuse |-> TRUE] :
        p \in [Buffer -> 1 .. Items], r \in [Buffer -> 1 .. Items], q \in {{}, {4}}}

(* Both sets are planned. *)
Peak == INSTANCE MemoryPlan WITH Schedules <- OneClass

MCSpec == (Init \/ Peak!Init) /\ [][Next]_vars
=============================================================================
