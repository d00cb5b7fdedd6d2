----------------------------- MODULE MCEffects ------------------------------
(***************************************************************************)
(* EffectGraph and EffectRuntime for TLC: graphs over three buffers, and a *)
(* runtime of two buffers with plans and captures whose reads and writes   *)
(* overlap in every way that two buffers allow.                            *)
(*                                                                         *)
(* A graph and a runtime share no state, and neither do two runtimes, so   *)
(* one is used in each behaviour: a graph, a runtime whose writers compete *)
(* up to version MaxVersion, or a runtime that is given all batches of the *)
(* four plans up to BatchVersion.                                          *)
(***************************************************************************)
EXTENDS EffectGraph, EffectRuntime, TLC

CONSTANT BatchVersion

VARIABLE part    \* "graph", "writers" or "batches"

\* Step id of a plan: target[region] := source, AFTER the previous step.
Step(id, target, source, region) ==
    [id |-> id, target |-> target, source |-> source,
     write |-> State(target.buffer, target.version + 1), region |-> region,
     after |-> IF id = 0 THEN {} ELSE {id - 1}]

Swap  == <<Step(0, State(1, 0), State(2, 0), Cells), Step(1, State(2, 0), State(1, 0), Cells)>>
Chain == <<Step(0, State(1, 0), State(2, 0), Cells), Step(1, State(2, 0), State(1, 1), Cells)>>
Twice == <<Step(0, State(1, 0), State(2, 0), Cells), Step(1, State(1, 1), State(1, 0), {1})>>
Reuse == <<Step(0, State(1, 0), State(1, 0), Cells), Step(1, State(1, 1), State(2, 0), {1}),
           Step(2, State(2, 0), State(1, 1), Cells)>>

MCPlans == {Swap, Chain, Twice, Reuse}
MCInterference == {Chain}

\* Buffer 3 is a placeholder source that is never registered.
Both == [plan |-> <<Step(0, State(1, 0), State(3, 0), Cells), Step(1, State(2, 0), State(3, 0), Cells)>>,
         pure |-> {0, 1}, inputs |-> {}, retained |-> {2}]
Patch == [plan |-> <<Step(0, State(1, 0), State(3, 0), {1})>>,
          pure |-> {0}, inputs |-> {}, retained |-> {}]
Recurrence == [plan |-> Twice, pure |-> {}, inputs |-> {}, retained |-> {}]

\* Cursors are interchangeable.
Symmetry == Permutations(Cursors)

\* The captures are of the kind whose replays are proved to go on.
ASSUME CaptureAssumption == \A p \in Programs : CaptureOk(p)

\* No plan is empty: execute and execute_batch differ on the empty one.
ASSUME PlanAssumption == <<>> \notin Plans \cup MCPlans

MCPrograms == {Both, Patch, Recurrence}

\* Contents whose elements are all equal, and contents that all differ.
MCInputs == {[c \in Cells |-> s] : s \in {0, 1}}
MCInitial == [b \in Persistent |-> [c \in Cells |-> b - 1]]
MCDirty == [c \in Cells |-> None]
MCDistinct == [b \in Persistent |-> [c \in Cells |-> 2 * (b - 1) + c - 1]]

-----------------------------------------------------------------------------
Batches == INSTANCE EffectRuntime WITH
             Plans <- MCPlans, Initial <- MCDistinct, MaxVersion <- BatchVersion,
             Programs <- {}, Cursors <- {}

Init ==
    /\ part \in {"graph", "writers", "batches"}
    /\ GraphInit /\ RuntimeInit

Next ==
    \/ part = "graph" /\ GraphNext /\ UNCHANGED <<runtimeVars, part>>
    \/ part = "writers" /\ RuntimeNext /\ UNCHANGED <<graphVars, part>>
    \/ part = "batches" /\ Batches!RuntimeNext /\ UNCHANGED <<graphVars, part>>

Spec == Init /\ [][Next]_<<graphVars, runtimeVars, part>>

\* A batch is its entries in sequence, for all the batches of two of the plans;
\* a plan is a batch at version zero; and none puts a version or a bank out of
\* its range.
BatchesAreSequential ==
    part = "batches" =>
        Batches!RuntimeTypeOK /\ Batches!BatchIsSequential /\ Batches!PlanIsBatchAtZero
=============================================================================
