--------------------------- MODULE WindowProgress ---------------------------
(***************************************************************************)
(* Host-side ledger of one gradient-accumulation window:                   *)
(* CompiledTrainingWindowProgress in                                       *)
(* src/src/session/compiled_training/window_progress.rs.                   *)
(*                                                                         *)
(* The ledger is a plain value; each operation returns either a successor  *)
(* or an error.  An operation Op is modelled by its successor Op(p) and by *)
(* OpOk(p), which holds when the code returns Ok: every checked_add and    *)
(* checked_mul stays within u64 and the trailing                           *)
(* validate_training_window_progress accepts the successor.                *)
(***************************************************************************)
EXTENDS Integers

CONSTANTS
    AccumulationSteps,  \* gradient_accumulation_steps of the program
    MaxU64              \* u64::MAX (a small number in the model-checked instances)

ASSUME WidthAssumption == MaxU64 \in Nat
ASSUME StepsAssumption == AccumulationSteps \in 1..MaxU64

U64 == 0..MaxU64

Progress ==
    [replay_step              : U64,
     optimizer_step           : U64,
     accumulation_index       : U64,
     discarded_microbatches   : U64,
     flushed_window_count     : U64,
     flushed_microbatch_count : U64,
     reset_transition_count   : U64]

InitialProgress ==
    [replay_step              |-> 0,
     optimizer_step           |-> 0,
     accumulation_index       |-> 0,
     discarded_microbatches   |-> 0,
     flushed_window_count     |-> 0,
     flushed_microbatch_count |-> 0,
     reset_transition_count   |-> 0]

\* CompiledTrainingWindowTopology::accumulating
Accumulating == AccumulationSteps > 1

-----------------------------------------------------------------------------
(* validate_training_window_progress, one definition per error it returns. *)

ValidAccumulation(p) == p.accumulation_index < AccumulationSteps

\* Without accumulation no window can be cut short, so no such counter moves.
ValidDiscarded(p) ==
    \/ Accumulating
    \/ /\ p.discarded_microbatches = 0
       /\ p.flushed_window_count = 0
       /\ p.flushed_microbatch_count = 0
       /\ p.reset_transition_count = 0

ValidReset(p) == p.reset_transition_count <= p.discarded_microbatches

\* A flushed window holds at least one and at most AccumulationSteps - 1
\* microbatches.  The upper bound is computed with checked_mul, so a product
\* beyond u64 is an error even when the true count is small.
MaximumFlushed(p) == p.flushed_window_count * (AccumulationSteps - 1)

ValidFlush(p) ==
    /\ MaximumFlushed(p) \in U64
    /\ p.flushed_window_count <= p.optimizer_step
    /\ (p.flushed_window_count = 0) <=> (p.flushed_microbatch_count = 0)
    /\ p.flushed_window_count # 0 =>
         p.flushed_microbatch_count \in p.flushed_window_count..MaximumFlushed(p)

\* Replays are owed to complete windows, flushed windows, the open window and
\* discarded windows.  Every partial sum is at most the total, so the checked
\* chain overflows exactly when the total does.
ExpectedReplay(p) ==
    (p.optimizer_step - p.flushed_window_count) * AccumulationSteps
      + p.flushed_microbatch_count + p.accumulation_index
      + p.discarded_microbatches

ValidReplay(p) == ExpectedReplay(p) \in U64 /\ p.replay_step = ExpectedReplay(p)

ValidProgress(p) ==
    /\ ValidAccumulation(p)
    /\ ValidDiscarded(p)
    /\ ValidReset(p)
    /\ ValidFlush(p)
    /\ ValidReplay(p)

-----------------------------------------------------------------------------
(* advance_replay: one successful microbatch.                              *)

ClosesWindow(p) == p.accumulation_index + 1 = AccumulationSteps

AdvanceReplay(p) ==
    [p EXCEPT !.replay_step        = @ + 1,
              !.accumulation_index = IF ClosesWindow(p) THEN 0 ELSE @ + 1,
              !.optimizer_step     = IF ClosesWindow(p) THEN @ + 1 ELSE @]

AdvanceReplayOk(p) ==
    /\ p.replay_step + 1 \in U64
    /\ p.accumulation_index + 1 \in U64
    /\ ClosesWindow(p) => p.optimizer_step + 1 \in U64
    /\ ValidProgress(AdvanceReplay(p))

(* cancel: discard the open window.  An empty window is returned as it is. *)

\* Mutant of Cancel: the whole window is counted as discarded.
CancelWholeWindow(p) ==
    [p EXCEPT !.accumulation_index     = 0,
              !.discarded_microbatches = @ + AccumulationSteps]

Cancel(p) ==
    [p EXCEPT !.accumulation_index     = 0,
              !.discarded_microbatches = @ + p.accumulation_index]

CancelOk(p) ==
    /\ p.discarded_microbatches + p.accumulation_index \in U64
    /\ ValidProgress(Cancel(p))

(* record_reset_transition: the device reset that goes with a cancel.      *)

RecordResetTransition(p) == [p EXCEPT !.reset_transition_count = @ + 1]

RecordResetTransitionOk(p) == p.reset_transition_count + 1 \in U64

(* flush_partial: commit the open window early.                            *)

FlushPartial(p) ==
    [p EXCEPT !.optimizer_step           = @ + 1,
              !.accumulation_index       = 0,
              !.flushed_window_count     = @ + 1,
              !.flushed_microbatch_count = @ + p.accumulation_index]

FlushPartialOk(p) ==
    /\ p.optimizer_step + 1 \in U64
    /\ p.flushed_window_count + 1 \in U64
    /\ p.flushed_microbatch_count + p.accumulation_index \in U64
    /\ ValidProgress(FlushPartial(p))

=============================================================================
