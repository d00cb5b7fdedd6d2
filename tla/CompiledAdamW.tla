--------------------------- MODULE CompiledAdamW ----------------------------
(***************************************************************************)
(* One prepared AdamW training program: CpuCompiledAdamW and the           *)
(* CpuCompiledTrainingProgram inside it (cpu_adamw_runtime.rs,             *)
(* cpu_training_step.rs, cpu_training_program.rs, adamw_checkpoint.rs and  *)
(* adamw_plan_restore.rs under src/src/session/compiled_training/).        *)
(*                                                                         *)
(* Progress is kept four times: in the host ledger (progress), in scalar   *)
(* tensors that the captured graphs update themselves (value["step"],      *)
(* value["index"], value["tokens"], value["dropout"]), in the version of   *)
(* every persistent buffer (version) and in the replay cursor that must    *)
(* name those versions (cursor).  Four captured phases move them, each     *)
(* over its own set of buffers.  A checkpoint stores no version at all:    *)
(* restoring recomputes every version from the ledger.                     *)
(*                                                                         *)
(* Tensors are abstracted to what they hold of the training history: a     *)
(* parameter or moment to the number of microbatch gradients folded into   *)
(* it, the gradient accumulator and the loss numerator to the number of    *)
(* microbatches summed in them.  All parameters of the program move        *)
(* together, so one key stands for each role.                              *)
(***************************************************************************)
EXTENDS WindowProgress

CONSTANTS
    TokenWeighted,      \* token_weight_policy.is_some()
    AllowZeroTokens,    \* allow_zero_valid_token_microbatches
    TokenElements,      \* elements of the mask or target input of one microbatch
    MaxExactCount,      \* MAX_EXACT_F32_INTEGER_COUNT
    WindowLossReport,   \* window_loss_report
    BlocksPerReplay,    \* dropout blocks one replay reserves; 0 without dropout
    NoCheckpoint

ASSUME PolicyAssumption ==
    /\ TokenWeighted \in BOOLEAN /\ AllowZeroTokens \in BOOLEAN
    /\ WindowLossReport \in BOOLEAN
    /\ BlocksPerReplay \in U64

\* validate_token_weight_policy, run by the builder for both orders of setting
\* the policy and the number of accumulation steps.
ASSUME TokenAssumption ==
    /\ TokenElements \in U64 \ {0} /\ MaxExactCount \in U64
    /\ TokenWeighted => TokenElements * AccumulationSteps <= MaxExactCount

VARIABLES
    progress,    \* CpuCompiledAdamW.progress
    step,        \* CpuCompiledTrainingProgram.step
    value,       \* content of the active bank of every persistent buffer
    version,     \* EffectRuntime slot version of every persistent buffer
    cursor,      \* MixedReplayCursor.frontier: the version each buffer is read at
    checkpoint,  \* the last checkpoint bytes written, or NoCheckpoint
    taken        \* history: the live state when those bytes were written

live == <<progress, step, value, version, cursor>>
vars == <<progress, step, value, version, cursor, checkpoint, taken>>

-----------------------------------------------------------------------------
(* The recurrent state schema and the buffers each phase owns.             *)

RetainsTokenCount == Accumulating /\ TokenWeighted
HasDropout == BlocksPerReplay # 0

UpdatedKeys  == {"parameter", "first_moment", "second_moment"}
ResetKeys    == (IF Accumulating THEN {"accumulator", "index"} ELSE {})
                  \cup (IF RetainsTokenCount THEN {"tokens"} ELSE {})
                  \cup (IF WindowLossReport THEN {"numerator"} ELSE {})
WorkloadKeys == IF HasDropout THEN {"dropout"} ELSE {}
OptimizerKeys == UpdatedKeys \cup {"step"} \cup ResetKeys
Keys == OptimizerKeys \cup WorkloadKeys

\* Gradients the accumulator holds; without accumulation there is none.
Accumulated(v) == IF Accumulating THEN v["accumulator"] ELSE 0

\* Main capture: the graph compares its own index with the threshold and
\* selects between the update and plain accumulation.
MainSuccessor(v, weight) ==
    LET commit == Accumulating => v["index"] + 1 = AccumulationSteps
    IN  [k \in Keys |->
          CASE k \in UpdatedKeys -> IF commit THEN v[k] + Accumulated(v) + 1 ELSE v[k]
            [] k = "step"        -> IF commit THEN v[k] + 1 ELSE v[k]
            [] k = "tokens"      -> IF commit THEN 0 ELSE v[k] + weight
            [] k = "dropout"     -> v[k] + BlocksPerReplay
            [] OTHER             -> IF commit THEN 0 ELSE v[k] + 1]

\* Accumulation sibling: parameters, moments and the optimizer step are retained.
AccumulationSuccessor(v, weight) ==
    [k \in Keys |->
      CASE k \in UpdatedKeys \cup {"step"} -> v[k]
        [] k = "tokens"                    -> v[k] + weight
        [] k = "dropout"                   -> v[k] + BlocksPerReplay
        [] OTHER                           -> v[k] + 1]

\* Mutant of FlushSuccessor: a flush capture whose reset set misses the
\* accumulation index.
FlushKeepsIndex(v) ==
    [k \in OptimizerKeys |->
      CASE k \in UpdatedKeys -> v[k] + Accumulated(v)
        [] k = "step"        -> v[k] + 1
        [] k = "index"       -> v[k]
        [] OTHER             -> 0]

\* Partial flush: AdamW on what the accumulator holds; no workload buffer.
FlushSuccessor(v) ==
    [k \in OptimizerKeys |->
      CASE k \in UpdatedKeys -> v[k] + Accumulated(v)
        [] k = "step"        -> v[k] + 1
        [] OTHER             -> 0]

\* Zero-grad: the accumulation-reset buffers only.
ZeroGradSuccessor == [k \in ResetKeys |-> 0]

(* One recurrent replay over the buffers in DOMAIN successor: each is read  *)
(* at the version its cursor names (a snapshot of any other version is      *)
(* refused), no version may overflow, then the banks, the versions and the  *)
(* cursor advance together.                                                 *)
Replay(successor) ==
    LET Advance(f) == [k \in Keys |-> IF k \in DOMAIN successor THEN f[k] + 1 ELSE f[k]]
    IN  /\ \A k \in DOMAIN successor : cursor[k] = version[k] /\ cursor[k] + 1 \in U64
        /\ value' = [k \in Keys |-> IF k \in DOMAIN successor THEN successor[k] ELSE value[k]]
        /\ version' = Advance(version)
        /\ cursor' = Advance(cursor)

-----------------------------------------------------------------------------
(* step: one microbatch with weight valid tokens (1 when not weighted).     *)

TokenWeights == IF TokenWeighted THEN 0..TokenElements ELSE {1}

\* validate_completed_token_window, which reads the retained count from the
\* device state and not from the ledger.
CompletedTokenWindowOk(next, weight) ==
    (AllowZeroTokens /\ TokenWeighted /\ next.accumulation_index = 0) =>
      LET retained == IF RetainsTokenCount THEN value["tokens"] ELSE 0
      IN  retained + weight \in U64 \ {0}

AdmitStep(weight) ==
    LET next == AdvanceReplay(progress)
    IN  /\ TokenWeighted /\ ~AllowZeroTokens => weight # 0
        /\ AdvanceReplayOk(progress)
        /\ CompletedTokenWindowOk(next, weight)
        /\ next.replay_step * BlocksPerReplay \in U64

\* The ledger picks the capture: the main one when it expects the window to close.
StepWithLearningRate(weight) ==
    LET next == AdvanceReplay(progress)
    IN  /\ AdmitStep(weight)
        /\ step + 1 \in U64
        /\ Replay(IF next.accumulation_index = 0 THEN MainSuccessor(value, weight)
                                                 ELSE AccumulationSuccessor(value, weight))
        /\ step' = step + 1
        /\ progress' = next
        /\ UNCHANGED <<checkpoint, taken>>

\* zero_grad; an empty window is an exact no-op.
ZeroGrad ==
    /\ progress.accumulation_index # 0
    /\ CancelOk(progress)
    /\ RecordResetTransitionOk(Cancel(progress))
    /\ Replay(ZeroGradSuccessor)
    /\ progress' = RecordResetTransition(Cancel(progress))
    /\ UNCHANGED <<step, checkpoint, taken>>

PartialTokenWindowOk ==
    AllowZeroTokens /\ TokenWeighted => value["tokens"] # 0

\* flush_partial_window; an empty window is an exact no-op.
FlushPartialWindow ==
    /\ progress.accumulation_index # 0
    /\ FlushPartialOk(progress)
    /\ PartialTokenWindowOk
    /\ Replay(FlushSuccessor(value))
    /\ progress' = FlushPartial(progress)
    /\ UNCHANGED <<step, checkpoint, taken>>

-----------------------------------------------------------------------------
(* Checkpoints.  A checkpoint holds the ledger fields its format stores and *)
(* the tensors other than the two scalars the ledger duplicates.            *)

TensorKeys == Keys \ {"step", "index"}

\* AdamWCheckpointFormat::for_progress, first match wins.  An accumulating
\* program always owns an accumulation capture.
FormatFor(p) ==
    IF Accumulating THEN 9
    ELSE IF WindowLossReport THEN 8
    ELSE IF p.reset_transition_count # 0 THEN 7
    ELSE IF RetainsTokenCount THEN 6
    ELSE IF p.flushed_window_count # 0 THEN 5
    ELSE IF HasDropout THEN 4
    ELSE IF p.discarded_microbatches # 0 THEN 3
    ELSE 1

\* Mutants of StoredProgress: the flush or the reset counters are not stored.
FlushCountersLost(p) ==
    [p EXCEPT !.flushed_window_count = 0, !.flushed_microbatch_count = 0]
ResetCounterLost(p) == [p EXCEPT !.reset_transition_count = 0]

\* encode_metadata then DecodedAdamWMetadata::parse: format 1 keeps only the
\* optimizer step, later formats add counters.
StoredProgress(p) ==
    LET f == FormatFor(p)
    IN  IF f = 1
        THEN [InitialProgress EXCEPT !.replay_step = p.optimizer_step,
                                     !.optimizer_step = p.optimizer_step]
        ELSE [p EXCEPT !.discarded_microbatches   = IF f >= 3 THEN @ ELSE 0,
                       !.flushed_window_count     = IF f >= 5 THEN @ ELSE 0,
                       !.flushed_microbatch_count = IF f >= 5 THEN @ ELSE 0,
                       !.reset_transition_count   = IF f >= 7 THEN @ ELSE 0]

\* validate_retained_token_count and the count checks of the codec.
TokenCountOk(p, v) ==
    RetainsTokenCount =>
      /\ TokenElements * p.accumulation_index \in U64
      /\ ~AllowZeroTokens => v["tokens"] >= p.accumulation_index
      /\ v["tokens"] <= TokenElements * p.accumulation_index
      /\ v["tokens"] <= MaxExactCount
      /\ p.accumulation_index = 0 => v["tokens"] = 0

DropoutCounterOk(p, v) ==
    HasDropout => /\ p.replay_step * BlocksPerReplay \in U64
                  /\ v["dropout"] = p.replay_step * BlocksPerReplay

\* Everything checkpoint() checks before it returns bytes.
CheckpointOk ==
    /\ ValidProgress(progress)
    /\ value["step"] = progress.optimizer_step
    /\ Accumulating => value["index"] = progress.accumulation_index
    /\ DropoutCounterOk(progress, value)
    /\ TokenCountOk(progress, value)

TakeCheckpoint ==
    /\ CheckpointOk
    /\ checkpoint' = [progress |-> StoredProgress(progress),
                      tensors  |-> [k \in TensorKeys |-> value[k]]]
    /\ taken' = live
    /\ UNCHANGED live

\* The version of a buffer is not stored: it is recomputed from the ledger.
RestoredVersion(p, k) ==
    CASE k \in WorkloadKeys -> p.replay_step
      [] k \in ResetKeys    -> p.replay_step + p.flushed_window_count + p.reset_transition_count
      [] OTHER              -> p.replay_step + p.flushed_window_count

\* Decoding and validate_checkpoint_frontier.
RestoreOk(c) ==
    /\ ValidProgress(c.progress)
    /\ TokenCountOk(c.progress, c.tensors)
    /\ DropoutCounterOk(c.progress, c.tensors)
    /\ c.progress.replay_step + c.progress.flushed_window_count
         + c.progress.reset_transition_count \in U64

\* The tensors and versions of the candidate: the two scalars come from the
\* ledger, everything else from the stored tensors.
RestoredValue(c) ==
    [k \in Keys |-> CASE k = "step"  -> c.progress.optimizer_step
                      [] k = "index" -> c.progress.accumulation_index
                      [] OTHER       -> c.tensors[k]]
RestoredFrontier(c) == [k \in Keys |-> RestoredVersion(c.progress, k)]

\* restore_checkpoint_in_place: a detached candidate replaces the live program.
\* The same frontier is what compile_from_checkpoint prepares.
RestoreCheckpointInPlace ==
    /\ checkpoint # NoCheckpoint
    /\ RestoreOk(checkpoint)
    /\ progress' = checkpoint.progress
    /\ step' = checkpoint.progress.replay_step
    /\ value' = RestoredValue(checkpoint)
    /\ version' = RestoredFrontier(checkpoint)
    /\ cursor' = RestoredFrontier(checkpoint)
    /\ UNCHANGED <<checkpoint, taken>>

-----------------------------------------------------------------------------
(* prepare_cpu of a freshly compiled plan; also what is left of a program   *)
(* after its process ends: only the checkpoint bytes survive.               *)

Init ==
    /\ progress = InitialProgress
    /\ step = 0
    /\ value = [k \in Keys |-> 0]
    /\ version = [k \in Keys |-> 0]
    /\ cursor = [k \in Keys |-> 0]
    /\ checkpoint = NoCheckpoint
    /\ taken = NoCheckpoint

CrashAndRecompile ==
    /\ progress' = InitialProgress
    /\ step' = 0
    /\ value' = [k \in Keys |-> 0]
    /\ version' = [k \in Keys |-> 0]
    /\ cursor' = [k \in Keys |-> 0]
    /\ UNCHANGED <<checkpoint, taken>>

Next ==
    \/ \E weight \in TokenWeights : StepWithLearningRate(weight)
    \/ ZeroGrad
    \/ FlushPartialWindow
    \/ TakeCheckpoint
    \/ RestoreCheckpointInPlace
    \/ CrashAndRecompile

Spec == Init /\ [][Next]_vars

-----------------------------------------------------------------------------
(* Properties.                                                              *)

\* Every component has its type.
TypeOK ==
    /\ progress \in Progress
    /\ step \in U64
    /\ value \in [Keys -> Nat]
    /\ version \in [Keys -> U64]
    /\ cursor \in [Keys -> U64]
    /\ checkpoint \in {NoCheckpoint} \cup [progress : Progress, tensors : [TensorKeys -> Nat]]

\* The host ledger and the state the captured graphs keep on their own agree
\* (cpu_adamw_runtime.rs publish_step against optimizer_lowering.rs
\* lower_updates): same optimizer step, same position in the window, and every
\* successful microbatch is either folded into the parameters and moments
\* exactly once, waiting in the accumulator, or discarded by zero_grad.
LedgerMatchesDevice ==
    /\ step = progress.replay_step
    /\ value["step"] = progress.optimizer_step
    /\ Accumulating => /\ value["index"] = progress.accumulation_index
                       /\ value["accumulator"] = progress.accumulation_index
    /\ \A k \in UpdatedKeys :
         value[k] + progress.accumulation_index + progress.discarded_microbatches
           = progress.replay_step

\* The versions that adamw_plan_restore.rs recomputes from the ledger are the
\* versions the four phases really left in the runtime, and the cursor names
\* exactly those; otherwise a restored program would continue at versions the
\* uninterrupted one never had.
FrontierMatchesLedger ==
    \A k \in Keys : version[k] = RestoredVersion(progress, k) /\ cursor[k] = version[k]

\* The four records of a program's progress, on the host, on the device, in the
\* runtime and in the cursor, are well-formed and never diverge.
RecordsAgree == TypeOK /\ LedgerMatchesDevice /\ FrontierMatchesLedger

\* checkpoint() can be taken after every sequence of successful operations:
\* none of the consistency checks it makes on the ledger, the device scalars,
\* the dropout counter or the retained token count can fail.
CheckpointNeverRefused == CheckpointOk

\* A checkpoint the program wrote passes every check of the decoder and of
\* validate_checkpoint_frontier, the recomputed versions included.
RestoreNeverRefused == checkpoint # NoCheckpoint => RestoreOk(checkpoint)

\* A program can be saved at any time and what it saved can be restored.
NothingIsRefused == CheckpointNeverRefused /\ RestoreNeverRefused

\* An open window can always be discarded: cancel never reports an error, at
\* the counters' limits included (window_progress.rs cancel).
OpenWindowNeverTrapped ==
    progress.accumulation_index # 0 =>
      CancelOk(progress) /\ RecordResetTransitionOk(Cancel(progress))

\* Restoring brings back ledger, step counter, tensors, versions and cursor
\* exactly as they were when the checkpoint was taken, whatever happened since.
RestoreIsExact == [][RestoreCheckpointInPlace => live' = taken]_vars

=============================================================================
