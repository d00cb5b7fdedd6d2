------------------------ MODULE CompiledAdamW_proofs ------------------------
(***************************************************************************)
(* Proofs about CompiledAdamW for every accumulation depth, integer width, *)
(* token policy and dropout plan.                                          *)
(*                                                                         *)
(* The inductive invariant IInv says two things.  The live program is      *)
(* consistent: every one of its four records of progress is a function of  *)
(* the ledger.  The last checkpoint describes a consistent program, and    *)
(* that program is the one that was live when the bytes were written.      *)
(***************************************************************************)
EXTENDS CompiledAdamW, TLAPS

DeviceMatches(p, v) ==
    /\ v["step"] = p.optimizer_step
    /\ Accumulating => v["index"] = p.accumulation_index
    /\ Accumulating => v["accumulator"] = p.accumulation_index
    /\ \A k \in UpdatedKeys :
         v[k] + p.accumulation_index + p.discarded_microbatches = p.replay_step

FrontierMatches(p, f, c) ==
    \A k \in Keys : f[k] = RestoredVersion(p, k) /\ c[k] = f[k]

Consistent(p, s, v, f, c) ==
    /\ p \in Progress /\ s \in U64
    /\ v \in [Keys -> Nat] /\ f \in [Keys -> U64] /\ c \in [Keys -> U64]
    /\ ValidProgress(p)
    /\ s = p.replay_step
    /\ DeviceMatches(p, v)
    /\ FrontierMatches(p, f, c)
    /\ DropoutCounterOk(p, v)
    /\ TokenCountOk(p, v)

CheckpointConsistent ==
    checkpoint # NoCheckpoint =>
      /\ checkpoint \in [progress : Progress, tensors : [TensorKeys -> Nat]]
      /\ Consistent(checkpoint.progress, checkpoint.progress.replay_step,
                    RestoredValue(checkpoint),
                    RestoredFrontier(checkpoint), RestoredFrontier(checkpoint))
      /\ taken = <<checkpoint.progress, checkpoint.progress.replay_step,
                   RestoredValue(checkpoint),
                   RestoredFrontier(checkpoint), RestoredFrontier(checkpoint)>>

IInv == Consistent(progress, step, value, version, cursor) /\ CheckpointConsistent

-----------------------------------------------------------------------------
(* Arithmetic the solver needs to be told.                                 *)

\* The product of two naturals is a natural.
LEMMA MulNat == \A a, b \in Nat : a * b \in Nat
  OBVIOUS

\* Multiplication distributes over a successor.
LEMMA MulSucc == \A a, b \in Nat : (a + 1) * b = a * b + b /\ b * (a + 1) = b * a + b
  OBVIOUS

\* Multiplication is monotone.
LEMMA MulMono == \A a, b, c \in Nat : a <= b => c * a <= c * b
<1> SUFFICES ASSUME NEW a \in Nat, NEW b \in Nat, NEW c \in Nat, a <= b
             PROVE  c * a <= c * b
  OBVIOUS
<1>1. PICK d \in Nat : b = a + d
  <2>1. b - a \in Nat /\ b = a + (b - a)
    OBVIOUS
  <2> QED BY <2>1
<1>2. c * b = c * a + c * d
  BY <1>1
<1>3. c * a \in Nat /\ c * d \in Nat
  BY MulNat
<1> QED BY <1>2, <1>3

-----------------------------------------------------------------------------
(* The state schema.                                                       *)

\* Which keys exist, and which phase owns them.
LEMMA KeyFacts ==
  /\ UpdatedKeys \subseteq Keys /\ "step" \in Keys /\ "step" \notin UpdatedKeys
  /\ Accumulating <=> "index" \in Keys
  /\ Accumulating <=> "accumulator" \in Keys
  /\ RetainsTokenCount <=> "tokens" \in Keys
  /\ HasDropout <=> "dropout" \in Keys
  /\ ResetKeys \subseteq Keys /\ OptimizerKeys \subseteq Keys
  /\ WorkloadKeys = Keys \ OptimizerKeys
  /\ UpdatedKeys \cap ResetKeys = {} /\ "step" \notin ResetKeys
  /\ WorkloadKeys \subseteq {"dropout"}
  /\ ~HasDropout => WorkloadKeys = {}
  BY DEF Keys, OptimizerKeys, UpdatedKeys, ResetKeys, WorkloadKeys

\* A valid ledger survives encode_metadata unchanged, in the format that drops
\* fields too: what the format does not store is zero or implied.
LEMMA StoredProgressExact ==
  ASSUME NEW p \in Progress, ValidProgress(p)
  PROVE  StoredProgress(p) = p
<1>1. CASE Accumulating
  <2>1. FormatFor(p) = 9
    BY <1>1 DEF FormatFor
  <2>2. StoredProgress(p) =
          [p EXCEPT !.discarded_microbatches = @, !.flushed_window_count = @,
                    !.flushed_microbatch_count = @, !.reset_transition_count = @]
    BY <2>1 DEF StoredProgress
  <2> QED BY <2>2 DEF Progress
<1>2. CASE ~Accumulating
  <2>1. AccumulationSteps = 1
    BY <1>2, StepsAssumption, WidthAssumption DEF Accumulating
  <2>2. /\ p.accumulation_index = 0 /\ p.discarded_microbatches = 0
        /\ p.flushed_window_count = 0 /\ p.flushed_microbatch_count = 0
        /\ p.reset_transition_count = 0
    BY <1>2, <2>1, WidthAssumption
    DEF ValidProgress, ValidAccumulation, ValidDiscarded, Progress, U64
  <2>3. p.replay_step = p.optimizer_step
    BY <2>1, <2>2, WidthAssumption DEF ValidProgress, ValidReplay, ExpectedReplay, Progress, U64
  <2>4. FormatFor(p) \in {8, 4, 1}
    BY <1>2, <2>2 DEF FormatFor, RetainsTokenCount
  <2>5. p = [replay_step |-> p.replay_step, optimizer_step |-> p.optimizer_step,
             accumulation_index |-> 0, discarded_microbatches |-> 0,
             flushed_window_count |-> 0, flushed_microbatch_count |-> 0,
             reset_transition_count |-> 0]
    BY <2>2 DEF Progress
  <2>6. CASE FormatFor(p) = 1
    <3>1. StoredProgress(p) = [InitialProgress EXCEPT !.replay_step = p.optimizer_step,
                                                      !.optimizer_step = p.optimizer_step]
      BY <2>6, Zenon DEF StoredProgress
    <3> QED BY <2>2, <2>3, <3>1 DEF InitialProgress, Progress
  <2>7. CASE FormatFor(p) \in {8, 4}
    <3>1. StoredProgress(p) =
            [p EXCEPT !.discarded_microbatches = 0, !.flushed_window_count = 0,
                      !.flushed_microbatch_count = 0, !.reset_transition_count = 0]
      BY <2>2, <2>7 DEF StoredProgress
    <3> QED BY <2>2, <3>1 DEF Progress
  <2> QED BY <2>4, <2>6, <2>7
<1> QED BY <1>1, <1>2

-----------------------------------------------------------------------------
(* The initial state, also the state after a crash.                        *)

\* A freshly prepared program is consistent.
LEMMA FreshConsistent ==
  Consistent(InitialProgress, 0, [k \in Keys |-> 0], [k \in Keys |-> 0], [k \in Keys |-> 0])
<1>1. InitialProgress \in Progress /\ 0 \in U64
  BY WidthAssumption DEF InitialProgress, Progress, U64
<1>2. ValidProgress(InitialProgress)
  BY WidthAssumption, StepsAssumption
  DEF ValidProgress, ValidAccumulation, ValidDiscarded, ValidReset, ValidFlush,
      MaximumFlushed, ExpectedReplay, ValidReplay, InitialProgress, U64
<1>3. DeviceMatches(InitialProgress, [k \in Keys |-> 0])
  BY KeyFacts DEF DeviceMatches, InitialProgress
<1>4. FrontierMatches(InitialProgress, [k \in Keys |-> 0], [k \in Keys |-> 0])
  BY DEF FrontierMatches, RestoredVersion, InitialProgress
<1>5. DropoutCounterOk(InitialProgress, [k \in Keys |-> 0])
  BY KeyFacts, PolicyAssumption, WidthAssumption DEF DropoutCounterOk, InitialProgress, U64
<1>6. TokenCountOk(InitialProgress, [k \in Keys |-> 0])
  BY KeyFacts, TokenAssumption, WidthAssumption DEF TokenCountOk, InitialProgress, U64
<1>7. InitialProgress.replay_step = 0
  BY DEF InitialProgress
<1>8. [k \in Keys |-> 0] \in [Keys -> Nat] /\ [k \in Keys |-> 0] \in [Keys -> U64]
  BY <1>1
<1> QED BY <1>1, <1>2, <1>3, <1>4, <1>5, <1>6, <1>7, <1>8 DEF Consistent

-----------------------------------------------------------------------------
(* Each phase preserves consistency.                                       *)

Live == Consistent(progress, step, value, version, cursor)

\* What a step publishes when it closes the window, and when it does not.
LEMMA AdvanceReplayFields ==
  ASSUME NEW p \in Progress, AdvanceReplayOk(p)
  PROVE  LET n == AdvanceReplay(p)
         IN  /\ n \in Progress
             /\ n.replay_step = p.replay_step + 1
             /\ n.discarded_microbatches = p.discarded_microbatches
             /\ n.flushed_window_count = p.flushed_window_count
             /\ n.flushed_microbatch_count = p.flushed_microbatch_count
             /\ n.reset_transition_count = p.reset_transition_count
             /\ ClosesWindow(p) <=> n.accumulation_index = 0
             /\ ClosesWindow(p) => n.optimizer_step = p.optimizer_step + 1
             /\ ~ClosesWindow(p) => /\ n.optimizer_step = p.optimizer_step
                                    /\ n.accumulation_index = p.accumulation_index + 1
<1>1. /\ p.replay_step \in U64 /\ p.accumulation_index \in U64 /\ p.optimizer_step \in U64
      /\ p.replay_step + 1 \in U64 /\ p.accumulation_index + 1 \in U64
      /\ ClosesWindow(p) => p.optimizer_step + 1 \in U64
  BY DEF AdvanceReplayOk, Progress
<1>2. p.accumulation_index + 1 # 0 /\ 0 \in U64
  BY <1>1, WidthAssumption DEF U64
<1>3. CASE ClosesWindow(p)
  <2>1. AdvanceReplay(p) = [p EXCEPT !.replay_step = p.replay_step + 1,
                                     !.accumulation_index = 0,
                                     !.optimizer_step = p.optimizer_step + 1]
    BY <1>3 DEF AdvanceReplay
  <2> QED BY <1>1, <1>2, <1>3, <2>1 DEF Progress
<1>4. CASE ~ClosesWindow(p)
  <2>1. AdvanceReplay(p) = [p EXCEPT !.replay_step = p.replay_step + 1,
                                     !.accumulation_index = p.accumulation_index + 1,
                                     !.optimizer_step = p.optimizer_step]
    BY <1>4 DEF AdvanceReplay
  <2> QED BY <1>1, <1>2, <1>4, <2>1 DEF Progress
<1> QED BY <1>3, <1>4

\* step_with_learning_rate, whichever capture the ledger selects.
LEMMA StepConsistent ==
  ASSUME Live, NEW weight \in TokenWeights, StepWithLearningRate(weight)
  PROVE  Live'
<1> DEFINE next == AdvanceReplay(progress)
           successor == IF next.accumulation_index = 0 THEN MainSuccessor(value, weight)
                                                       ELSE AccumulationSuccessor(value, weight)
<1>1. progress \in Progress /\ AdvanceReplayOk(progress) /\ progress' = next
  BY DEF Live, Consistent, StepWithLearningRate, AdmitStep
<1>2. next \in Progress /\ ValidProgress(next)
  BY <1>1, AdvanceReplayFields DEF AdvanceReplayOk
<1>3. weight \in Nat
  BY TokenAssumption, WidthAssumption DEF TokenWeights, U64
<1>4. DOMAIN successor = Keys /\ Replay(successor)
  BY DEF StepWithLearningRate, MainSuccessor, AccumulationSuccessor
<1> HIDE DEF next, successor
<1>5. /\ value' = [k \in Keys |-> successor[k]]
      /\ version' = [k \in Keys |-> version[k] + 1]
      /\ cursor' = [k \in Keys |-> cursor[k] + 1]
      /\ \A k \in Keys : cursor[k] = version[k] /\ cursor[k] + 1 \in U64
  BY <1>4 DEF Replay
<1>6. step' = next.replay_step /\ step' \in U64
  BY <1>1, <1>2, AdvanceReplayFields
  DEF next, Live, Consistent, StepWithLearningRate, Progress
<1>7. FrontierMatches(progress', version', cursor')
      /\ version' \in [Keys -> U64] /\ cursor' \in [Keys -> U64]
  <2>1. \A k \in Keys : RestoredVersion(next, k) = RestoredVersion(progress, k) + 1
    BY <1>1, <1>2, AdvanceReplayFields, WidthAssumption
    DEF next, RestoredVersion, Progress, U64
  <2>2. \A k \in Keys : version[k] = RestoredVersion(progress, k) /\ cursor[k] = version[k]
    BY DEF Live, Consistent, FrontierMatches
  <2> QED BY <1>1, <1>5, <2>1, <2>2 DEF FrontierMatches
<1>8. \A k \in Keys : value[k] \in Nat
  BY DEF Live, Consistent
<1>9. Accumulating => /\ value["index"] = progress.accumulation_index
                      /\ value["accumulator"] = progress.accumulation_index
  BY DEF Live, Consistent, DeviceMatches
<1>10. progress.accumulation_index \in Nat /\ progress.replay_step \in Nat
       /\ progress.optimizer_step \in Nat /\ progress.discarded_microbatches \in Nat
  BY <1>1, WidthAssumption DEF Progress, U64
<1>11. /\ next.replay_step = progress.replay_step + 1
       /\ next.discarded_microbatches = progress.discarded_microbatches
  BY <1>1, AdvanceReplayFields DEF next
<1>12. DropoutCounterOk(next, value') /\ (HasDropout => value'["dropout"] \in Nat)
  <2> SUFFICES ASSUME HasDropout
               PROVE  /\ next.replay_step * BlocksPerReplay \in U64
                      /\ value'["dropout"] = next.replay_step * BlocksPerReplay
                      /\ value'["dropout"] \in Nat
    BY DEF DropoutCounterOk
  <2>1. value["dropout"] = progress.replay_step * BlocksPerReplay /\ "dropout" \in Keys
    BY KeyFacts DEF Live, Consistent, DropoutCounterOk
  <2>2. value'["dropout"] = value["dropout"] + BlocksPerReplay
    BY <1>5, <2>1 DEF successor, MainSuccessor, AccumulationSuccessor, UpdatedKeys
  <2>3. next.replay_step * BlocksPerReplay = value["dropout"] + BlocksPerReplay
    <3>1. BlocksPerReplay \in Nat
      BY PolicyAssumption, WidthAssumption DEF U64
    <3> QED BY <1>10, <1>11, <2>1, <3>1, MulSucc
  <2>4. next.replay_step * BlocksPerReplay \in U64
    BY DEF next, StepWithLearningRate, AdmitStep
  <2> QED BY <2>2, <2>3, <2>4, WidthAssumption DEF U64
<1>13. CASE ClosesWindow(progress)
  <2>1. /\ next.accumulation_index = 0
        /\ next.optimizer_step = progress.optimizer_step + 1
        /\ progress.accumulation_index + 1 = AccumulationSteps
    BY <1>1, <1>13, AdvanceReplayFields DEF next, ClosesWindow
  <2>2. Accumulating => value["index"] + 1 = AccumulationSteps
    BY <1>9, <2>1
  <2>3. successor = MainSuccessor(value, weight)
    BY <2>1 DEF successor
  <2>4. \A k \in Keys : value'[k] =
           CASE k \in UpdatedKeys -> value[k] + Accumulated(value) + 1
             [] k = "step"        -> value[k] + 1
             [] k = "tokens"      -> 0
             [] k = "dropout"     -> value[k] + BlocksPerReplay
             [] OTHER             -> 0
    BY <1>5, <2>2, <2>3 DEF MainSuccessor, UpdatedKeys
  <2>5. Accumulated(value) = progress.accumulation_index
    <3>1. CASE Accumulating
      BY <1>9, <3>1 DEF Accumulated
    <3>2. CASE ~Accumulating
      BY <1>10, <2>1, <3>2, StepsAssumption, WidthAssumption DEF Accumulated, Accumulating
    <3> QED BY <3>1, <3>2
  <2>6. value' \in [Keys -> Nat]
    BY <1>5, <1>8, <1>10, <1>12, <2>4, <2>5, KeyFacts DEF UpdatedKeys
  <2>7. DeviceMatches(next, value')
    <3>1. \A k \in UpdatedKeys : value'[k] = value[k] + progress.accumulation_index + 1
      BY <2>4, <2>5, KeyFacts DEF UpdatedKeys
    <3>2. \A k \in UpdatedKeys :
             /\ value[k] \in Nat
             /\ value[k] + progress.accumulation_index + progress.discarded_microbatches
                  = progress.replay_step
      BY <1>8, KeyFacts DEF Live, Consistent, DeviceMatches
    <3>3. value'["step"] = progress.optimizer_step + 1
      BY <2>4, KeyFacts DEF Live, Consistent, DeviceMatches
    <3>4. Accumulating => value'["index"] = 0 /\ value'["accumulator"] = 0
      BY <2>4, KeyFacts DEF UpdatedKeys
    <3> QED BY <1>10, <1>11, <2>1, <3>1, <3>2, <3>3, <3>4 DEF DeviceMatches
  <2>8. TokenCountOk(next, value')
    <3>1. RetainsTokenCount => value'["tokens"] = 0
      BY <2>4, KeyFacts DEF UpdatedKeys
    <3> QED BY <2>1, <3>1, TokenAssumption, WidthAssumption DEF TokenCountOk, U64
  <2> QED BY <1>1, <1>2, <1>6, <1>7, <1>12, <2>6, <2>7, <2>8 DEF Live, Consistent
<1>14. CASE ~ClosesWindow(progress)
  <2>1. /\ next.accumulation_index = progress.accumulation_index + 1
        /\ next.optimizer_step = progress.optimizer_step
        /\ next.accumulation_index # 0
    BY <1>1, <1>14, AdvanceReplayFields DEF next
  <2>2. successor = AccumulationSuccessor(value, weight)
    BY <2>1 DEF successor
  <2>3. \A k \in Keys : value'[k] =
           CASE k \in UpdatedKeys \cup {"step"} -> value[k]
             [] k = "tokens"                    -> value[k] + weight
             [] k = "dropout"                   -> value[k] + BlocksPerReplay
             [] OTHER                           -> value[k] + 1
    BY <1>5, <2>2 DEF AccumulationSuccessor, UpdatedKeys
  <2>4. value' \in [Keys -> Nat]
    BY <1>3, <1>5, <1>8, <1>12, <2>3, KeyFacts DEF UpdatedKeys
  <2>5. DeviceMatches(next, value')
    <3>1. \A k \in UpdatedKeys : value'[k] = value[k]
      BY <2>3, KeyFacts DEF UpdatedKeys
    <3>2. \A k \in UpdatedKeys :
             /\ value[k] \in Nat
             /\ value[k] + progress.accumulation_index + progress.discarded_microbatches
                  = progress.replay_step
      BY <1>8, KeyFacts DEF Live, Consistent, DeviceMatches
    <3>3. value'["step"] = progress.optimizer_step
      BY <2>3, KeyFacts DEF Live, Consistent, DeviceMatches
    <3>4. Accumulating => /\ value'["index"] = value["index"] + 1
                          /\ value'["accumulator"] = value["accumulator"] + 1
      BY <2>3, KeyFacts DEF UpdatedKeys
    <3> QED BY <1>9, <1>10, <1>11, <2>1, <3>1, <3>2, <3>3, <3>4 DEF DeviceMatches
  <2>6. TokenCountOk(next, value')
    <3> SUFFICES ASSUME RetainsTokenCount
                 PROVE  TokenCountOk(next, value')
      BY DEF TokenCountOk
    <3> DEFINE index == progress.accumulation_index
    <3>1. value'["tokens"] = value["tokens"] + weight /\ value["tokens"] \in Nat
      BY <1>8, <2>3, KeyFacts DEF UpdatedKeys
    <3>2. /\ ~AllowZeroTokens => value["tokens"] >= index
          /\ value["tokens"] <= TokenElements * index
      BY DEF Live, Consistent, TokenCountOk
    <3>3. weight <= TokenElements /\ (~AllowZeroTokens => weight >= 1)
      BY <1>3, TokenAssumption, WidthAssumption
      DEF TokenWeights, RetainsTokenCount, StepWithLearningRate, AdmitStep, U64
    <3>4. TokenElements \in Nat /\ AccumulationSteps \in Nat /\ MaxExactCount \in U64
      BY TokenAssumption, StepsAssumption, WidthAssumption DEF U64
    <3>5. TokenElements * (index + 1) = TokenElements * index + TokenElements
      BY <1>10, <3>4, MulSucc
    <3>6. index + 1 <= AccumulationSteps
      BY <1>2, <1>10, <2>1, <3>4 DEF ValidProgress, ValidAccumulation
    <3>7. TokenElements * (index + 1) <= TokenElements * AccumulationSteps
      BY <1>10, <3>4, <3>6, MulMono
    <3>8. TokenElements * AccumulationSteps <= MaxExactCount
      BY TokenAssumption DEF RetainsTokenCount
    <3>9. TokenElements * (index + 1) \in Nat /\ TokenElements * index \in Nat
          /\ TokenElements * AccumulationSteps \in Nat
      BY <1>10, <3>4, MulNat
    <3> HIDE DEF index
    <3>10. index \in Nat
      BY <1>10 DEF index
    <3>11. /\ ~AllowZeroTokens => value'["tokens"] >= index + 1
           /\ value'["tokens"] <= TokenElements * (index + 1)
           /\ value'["tokens"] <= MaxExactCount
           /\ TokenElements * (index + 1) \in U64
      BY <1>3, <3>1, <3>2, <3>3, <3>4, <3>5, <3>7, <3>8, <3>9, <3>10, WidthAssumption DEF U64
    <3> QED BY <2>1, <3>11 DEF TokenCountOk, index
  <2> QED BY <1>1, <1>2, <1>6, <1>7, <1>12, <2>4, <2>5, <2>6 DEF Live, Consistent
<1> QED BY <1>13, <1>14

\* An open window implies accumulation, and its discard keeps the ledger valid.
LEMMA OpenWindow ==
  ASSUME NEW p \in Progress, ValidProgress(p), p.accumulation_index # 0
  PROVE  /\ Accumulating
         /\ CancelOk(p)
         /\ RecordResetTransitionOk(Cancel(p))
         /\ RecordResetTransition(Cancel(p)) \in Progress
         /\ ValidProgress(RecordResetTransition(Cancel(p)))
<1>1. /\ \A x \in U64 : x \in Nat /\ x <= MaxU64
      /\ \A x \in Nat : x <= MaxU64 => x \in U64
      /\ 0 \in U64
  BY WidthAssumption DEF U64
<1>2. /\ p.replay_step \in U64 /\ p.optimizer_step \in U64 /\ p.accumulation_index \in U64
      /\ p.discarded_microbatches \in U64 /\ p.flushed_window_count \in U64
      /\ p.flushed_microbatch_count \in U64 /\ p.reset_transition_count \in U64
  BY DEF Progress
<1>3. Accumulating
  BY <1>1, <1>2, StepsAssumption DEF ValidProgress, ValidAccumulation, Accumulating
<1> DEFINE complete == (p.optimizer_step - p.flushed_window_count) * AccumulationSteps
<1>4. complete \in Nat
  <2>1. p.optimizer_step - p.flushed_window_count \in Nat
    BY <1>1, <1>2 DEF ValidProgress, ValidFlush
  <2>2. AccumulationSteps \in Nat
    BY StepsAssumption, WidthAssumption
  <2> QED BY <2>1, <2>2, MulNat
<1>5. p.replay_step = complete + p.flushed_microbatch_count + p.accumulation_index
                        + p.discarded_microbatches
  BY DEF ValidProgress, ValidReplay, ExpectedReplay
<1> HIDE DEF complete
<1>6. p.discarded_microbatches + p.accumulation_index \in U64
  BY <1>2, <1>4, <1>5, WidthAssumption DEF U64
<1> DEFINE c == Cancel(p)
           r == RecordResetTransition(c)
<1>7. /\ c \in Progress /\ c.accumulation_index = 0
      /\ c.discarded_microbatches = p.discarded_microbatches + p.accumulation_index
      /\ c.replay_step = p.replay_step /\ c.optimizer_step = p.optimizer_step
      /\ c.flushed_window_count = p.flushed_window_count
      /\ c.flushed_microbatch_count = p.flushed_microbatch_count
      /\ c.reset_transition_count = p.reset_transition_count
  BY <1>1, <1>2, <1>6 DEF Cancel, Progress
<1>8. p.reset_transition_count + 1 <= p.discarded_microbatches + p.accumulation_index
  BY <1>1, <1>2 DEF ValidProgress, ValidReset
<1>9. p.reset_transition_count + 1 \in U64
  BY <1>2, <1>6, <1>8, WidthAssumption DEF U64
<1> HIDE DEF c
<1>10. /\ r \in Progress /\ r.reset_transition_count = p.reset_transition_count + 1
       /\ r.accumulation_index = 0
       /\ r.discarded_microbatches = p.discarded_microbatches + p.accumulation_index
       /\ r.replay_step = p.replay_step /\ r.optimizer_step = p.optimizer_step
       /\ r.flushed_window_count = p.flushed_window_count
       /\ r.flushed_microbatch_count = p.flushed_microbatch_count
  BY <1>7, <1>9 DEF RecordResetTransition, Progress
<1> HIDE DEF r
<1>11. \A q \in Progress :
          /\ q.accumulation_index = 0
          /\ q.discarded_microbatches = p.discarded_microbatches + p.accumulation_index
          /\ q.replay_step = p.replay_step /\ q.optimizer_step = p.optimizer_step
          /\ q.flushed_window_count = p.flushed_window_count
          /\ q.flushed_microbatch_count = p.flushed_microbatch_count
          /\ q.reset_transition_count <= q.discarded_microbatches
          => ValidProgress(q)
  <2> SUFFICES ASSUME NEW q \in Progress,
                      q.accumulation_index = 0,
                      q.discarded_microbatches = p.discarded_microbatches + p.accumulation_index,
                      q.replay_step = p.replay_step, q.optimizer_step = p.optimizer_step,
                      q.flushed_window_count = p.flushed_window_count,
                      q.flushed_microbatch_count = p.flushed_microbatch_count,
                      q.reset_transition_count <= q.discarded_microbatches
               PROVE  ValidProgress(q)
    OBVIOUS
  <2>1. ValidAccumulation(q) /\ ValidDiscarded(q) /\ ValidReset(q)
    BY <1>3, StepsAssumption, WidthAssumption DEF ValidAccumulation, ValidDiscarded, ValidReset
  <2>2. ValidFlush(q)
    BY DEF ValidProgress, ValidFlush, MaximumFlushed
  <2>3. ExpectedReplay(q) = complete + p.flushed_microbatch_count + 0
                              + (p.discarded_microbatches + p.accumulation_index)
    BY DEF ExpectedReplay, complete
  <2>4. ExpectedReplay(q) = p.replay_step
    BY <1>1, <1>2, <1>4, <1>5, <2>3
  <2>5. ValidReplay(q)
    BY <1>2, <2>4 DEF ValidReplay
  <2> QED BY <2>1, <2>2, <2>5 DEF ValidProgress
<1>12. ValidProgress(c) /\ ValidProgress(r)
  BY <1>1, <1>2, <1>7, <1>8, <1>10, <1>11
<1> QED BY <1>3, <1>6, <1>7, <1>9, <1>10, <1>12
        DEF CancelOk, RecordResetTransitionOk, c, r

\* zero_grad: only the accumulation-reset buffers and the discard counters move.
LEMMA ZeroGradConsistent ==
  ASSUME Live, ZeroGrad
  PROVE  Live'
<1> DEFINE p == progress
           n == RecordResetTransition(Cancel(p))
<1>1. p \in Progress /\ ValidProgress(p) /\ p.accumulation_index # 0 /\ progress' = n
  BY DEF Live, Consistent, ZeroGrad
<1>2. Accumulating /\ n \in Progress /\ ValidProgress(n)
  BY <1>1, OpenWindow
<1>3. /\ n.replay_step = p.replay_step /\ n.optimizer_step = p.optimizer_step
      /\ n.accumulation_index = 0
      /\ n.discarded_microbatches = p.discarded_microbatches + p.accumulation_index
      /\ n.flushed_window_count = p.flushed_window_count
      /\ n.reset_transition_count = p.reset_transition_count + 1
  <2>1. /\ Cancel(p).replay_step = p.replay_step /\ Cancel(p).optimizer_step = p.optimizer_step
        /\ Cancel(p).accumulation_index = 0
        /\ Cancel(p).discarded_microbatches = p.discarded_microbatches + p.accumulation_index
        /\ Cancel(p).flushed_window_count = p.flushed_window_count
        /\ Cancel(p).reset_transition_count = p.reset_transition_count
        /\ DOMAIN Cancel(p) = DOMAIN p
    BY <1>1 DEF Cancel, Progress
  <2>2. DOMAIN p = {"replay_step", "optimizer_step", "accumulation_index",
                    "discarded_microbatches", "flushed_window_count",
                    "flushed_microbatch_count", "reset_transition_count"}
    BY <1>1 DEF Progress
  <2> HIDE DEF p
  <2> QED BY <2>1, <2>2 DEF RecordResetTransition
<1>4. DOMAIN ZeroGradSuccessor = ResetKeys /\ Replay(ZeroGradSuccessor)
      /\ \A k \in ResetKeys : ZeroGradSuccessor[k] = 0
  BY DEF ZeroGrad, ZeroGradSuccessor
<1>5. /\ value' = [k \in Keys |-> IF k \in ResetKeys THEN 0 ELSE value[k]]
      /\ version' = [k \in Keys |-> IF k \in ResetKeys THEN version[k] + 1 ELSE version[k]]
      /\ cursor' = [k \in Keys |-> IF k \in ResetKeys THEN cursor[k] + 1 ELSE cursor[k]]
      /\ \A k \in ResetKeys : cursor[k] = version[k] /\ cursor[k] + 1 \in U64
  BY <1>4 DEF Replay
<1>6. /\ value \in [Keys -> Nat] /\ version \in [Keys -> U64] /\ cursor \in [Keys -> U64]
      /\ step \in U64 /\ step' = step /\ step = p.replay_step
  BY DEF Live, Consistent, ZeroGrad
<1>7. /\ p.replay_step \in Nat /\ p.accumulation_index \in Nat /\ p.discarded_microbatches \in Nat
      /\ p.flushed_window_count \in Nat /\ p.reset_transition_count \in Nat
  BY <1>1, WidthAssumption DEF Progress, U64
<1> HIDE DEF p, n
<1>8. value' \in [Keys -> Nat] /\ version' \in [Keys -> U64] /\ cursor' \in [Keys -> U64]
  BY <1>5, <1>6
<1>9. FrontierMatches(n, version', cursor')
  <2>1. \A k \in Keys : version[k] = RestoredVersion(p, k) /\ cursor[k] = version[k]
    BY DEF Live, Consistent, FrontierMatches, p
  <2>2. \A k \in Keys : RestoredVersion(n, k)
           = IF k \in ResetKeys THEN RestoredVersion(p, k) + 1 ELSE RestoredVersion(p, k)
    BY <1>3, <1>7, KeyFacts DEF RestoredVersion, WorkloadKeys, ResetKeys
  <2> QED BY <1>5, <2>1, <2>2 DEF FrontierMatches
<1>10. DeviceMatches(n, value')
  <2>1. "index" \in ResetKeys /\ "accumulator" \in ResetKeys
    BY <1>2 DEF ResetKeys
  <2>2. \A k \in UpdatedKeys \cup {"step"} : value'[k] = value[k]
    BY <1>5, KeyFacts
  <2>3. \A k \in UpdatedKeys : /\ value[k] \in Nat
                               /\ value[k] + p.accumulation_index + p.discarded_microbatches
                                    = p.replay_step
    BY <1>6, KeyFacts DEF Live, Consistent, DeviceMatches, p
  <2>4. value["step"] = p.optimizer_step
    BY DEF Live, Consistent, DeviceMatches, p
  <2>5. value'["index"] = 0 /\ value'["accumulator"] = 0
    BY <1>5, <2>1, KeyFacts
  <2> QED BY <1>3, <1>7, <2>2, <2>3, <2>4, <2>5 DEF DeviceMatches
<1>11. DropoutCounterOk(n, value')
  <2>1. HasDropout => value'["dropout"] = value["dropout"]
    BY <1>5, KeyFacts DEF ResetKeys
  <2> QED BY <1>3, <2>1 DEF DropoutCounterOk, Live, Consistent, p
<1>12. TokenCountOk(n, value')
  <2>1. RetainsTokenCount => value'["tokens"] = 0
    BY <1>5, KeyFacts DEF ResetKeys
  <2> QED BY <1>3, <2>1, TokenAssumption, WidthAssumption DEF TokenCountOk, U64
<1>13. n.replay_step = step'
  BY <1>3, <1>6
<1> QED BY <1>1, <1>2, <1>6, <1>8, <1>9, <1>10, <1>11, <1>12, <1>13 DEF Live, Consistent

\* flush_partial_window: the workload buffers stay where they are.
LEMMA FlushConsistent ==
  ASSUME Live, FlushPartialWindow
  PROVE  Live'
<1> DEFINE p == progress
           n == FlushPartial(p)
<1>1. /\ p \in Progress /\ ValidProgress(p) /\ p.accumulation_index # 0 /\ progress' = n
      /\ FlushPartialOk(p)
  BY DEF Live, Consistent, FlushPartialWindow
<1>2. Accumulating /\ ValidProgress(n)
  BY <1>1, OpenWindow DEF FlushPartialOk
<1>3. /\ n.replay_step = p.replay_step /\ n.optimizer_step = p.optimizer_step + 1
      /\ n.accumulation_index = 0
      /\ n.discarded_microbatches = p.discarded_microbatches
      /\ n.flushed_window_count = p.flushed_window_count + 1
      /\ n.reset_transition_count = p.reset_transition_count
      /\ n \in Progress
  <2>1. /\ p.optimizer_step + 1 \in U64 /\ p.flushed_window_count + 1 \in U64
        /\ p.flushed_microbatch_count + p.accumulation_index \in U64 /\ 0 \in U64
    BY <1>1, WidthAssumption DEF FlushPartialOk, U64
  <2> QED BY <1>1, <2>1 DEF FlushPartial, Progress
<1> DEFINE successor == FlushSuccessor(value)
<1>4. DOMAIN successor = OptimizerKeys /\ Replay(successor)
  BY DEF FlushPartialWindow, FlushSuccessor
<1>5. /\ value["index"] = p.accumulation_index /\ value["accumulator"] = p.accumulation_index
  BY <1>2 DEF Live, Consistent, DeviceMatches
<1>6. \A k \in OptimizerKeys : successor[k] =
         CASE k \in UpdatedKeys -> value[k] + p.accumulation_index
           [] k = "step"        -> value[k] + 1
           [] OTHER             -> 0
  BY <1>2, <1>5 DEF FlushSuccessor, Accumulated, UpdatedKeys
<1> HIDE DEF successor
<1>7. /\ value' = [k \in Keys |-> IF k \in OptimizerKeys THEN successor[k] ELSE value[k]]
      /\ version' = [k \in Keys |-> IF k \in OptimizerKeys THEN version[k] + 1 ELSE version[k]]
      /\ cursor' = [k \in Keys |-> IF k \in OptimizerKeys THEN cursor[k] + 1 ELSE cursor[k]]
      /\ \A k \in OptimizerKeys : cursor[k] = version[k] /\ cursor[k] + 1 \in U64
  BY <1>4 DEF Replay
<1>8. /\ value \in [Keys -> Nat] /\ version \in [Keys -> U64] /\ cursor \in [Keys -> U64]
      /\ step \in U64 /\ step' = step /\ step = p.replay_step
  BY DEF Live, Consistent, FlushPartialWindow
<1>9. /\ p.replay_step \in Nat /\ p.accumulation_index \in Nat /\ p.discarded_microbatches \in Nat
      /\ p.flushed_window_count \in Nat /\ p.reset_transition_count \in Nat
  BY <1>1, WidthAssumption DEF Progress, U64
<1> HIDE DEF p, n
<1>10. \A k \in OptimizerKeys : successor[k] \in Nat
  BY <1>6, <1>8, <1>9, KeyFacts DEF UpdatedKeys
<1>11. value' \in [Keys -> Nat] /\ version' \in [Keys -> U64] /\ cursor' \in [Keys -> U64]
  BY <1>7, <1>8, <1>10
<1>12. FrontierMatches(n, version', cursor')
  <2>1. \A k \in Keys : version[k] = RestoredVersion(p, k) /\ cursor[k] = version[k]
    BY DEF Live, Consistent, FrontierMatches, p
  <2>2. \A k \in Keys : RestoredVersion(n, k)
           = IF k \in OptimizerKeys THEN RestoredVersion(p, k) + 1 ELSE RestoredVersion(p, k)
    BY <1>3, <1>9, KeyFacts DEF RestoredVersion, WorkloadKeys, ResetKeys
  <2> QED BY <1>7, <2>1, <2>2 DEF FrontierMatches
<1>13. DeviceMatches(n, value')
  <2>1. /\ UpdatedKeys \subseteq OptimizerKeys
        /\ {"step", "index", "accumulator"} \subseteq OptimizerKeys
    BY <1>2 DEF ResetKeys, OptimizerKeys
  <2>2. \A k \in UpdatedKeys : value'[k] = value[k] + p.accumulation_index
    BY <1>6, <1>7, <2>1, KeyFacts DEF UpdatedKeys
  <2>3. \A k \in UpdatedKeys : /\ value[k] \in Nat
                               /\ value[k] + p.accumulation_index + p.discarded_microbatches
                                    = p.replay_step
    BY <1>8, KeyFacts DEF Live, Consistent, DeviceMatches, p
  <2>4. value["step"] = p.optimizer_step
    BY DEF Live, Consistent, DeviceMatches, p
  <2>5. value'["index"] = 0 /\ value'["accumulator"] = 0 /\ value'["step"] = value["step"] + 1
    BY <1>6, <1>7, <2>1, KeyFacts DEF UpdatedKeys
  <2> QED BY <1>3, <1>9, <2>2, <2>3, <2>4, <2>5 DEF DeviceMatches
<1>14. DropoutCounterOk(n, value')
  <2>1. HasDropout => value'["dropout"] = value["dropout"]
    BY <1>7, KeyFacts DEF OptimizerKeys, UpdatedKeys, ResetKeys
  <2> QED BY <1>3, <2>1 DEF DropoutCounterOk, Live, Consistent, p
<1>15. TokenCountOk(n, value')
  <2>1. RetainsTokenCount => "tokens" \in OptimizerKeys
    BY DEF OptimizerKeys, ResetKeys
  <2>2. RetainsTokenCount => value'["tokens"] = 0
    BY <1>6, <1>7, <2>1, KeyFacts DEF UpdatedKeys
  <2> QED BY <1>3, <2>2, TokenAssumption, WidthAssumption DEF TokenCountOk, U64
<1>16. n.replay_step = step'
  BY <1>3, <1>8
<1> QED BY <1>1, <1>2, <1>3, <1>8, <1>11, <1>12, <1>13, <1>14, <1>15, <1>16 DEF Live, Consistent

-----------------------------------------------------------------------------
(* Checkpoint, restore and crash.                                          *)

\* The bytes written describe exactly the live program.
LEMMA CheckpointDescribesLive ==
  ASSUME Live, TakeCheckpoint
  PROVE  /\ checkpoint' \in [progress : Progress, tensors : [TensorKeys -> Nat]]
         /\ checkpoint'.progress = progress
         /\ checkpoint'.progress.replay_step = step
         /\ RestoredValue(checkpoint') = value
         /\ RestoredFrontier(checkpoint') = version
         /\ cursor = version
         /\ taken' = <<progress, step, value, version, cursor>>
<1> DEFINE c == [progress |-> progress, tensors |-> [k \in TensorKeys |-> value[k]]]
<1>1. progress \in Progress /\ ValidProgress(progress) /\ value \in [Keys -> Nat]
  BY DEF Live, Consistent
<1>2. checkpoint' = c
  BY <1>1, StoredProgressExact DEF TakeCheckpoint
<1>3. c \in [progress : Progress, tensors : [TensorKeys -> Nat]]
      /\ c.progress = progress /\ \A k \in TensorKeys : c.tensors[k] = value[k]
  BY <1>1 DEF TensorKeys
<1>4. step = progress.replay_step
  BY DEF Live, Consistent
<1>5. RestoredValue(c) = value
  <2>1. /\ value["step"] = progress.optimizer_step
        /\ Accumulating => value["index"] = progress.accumulation_index
    BY DEF Live, Consistent, DeviceMatches
  <2>2. \A k \in Keys : RestoredValue(c)[k] = value[k]
    BY <1>3, <2>1, KeyFacts DEF RestoredValue, TensorKeys
  <2>3. RestoredValue(c) = [k \in Keys |-> RestoredValue(c)[k]]
    BY DEF RestoredValue
  <2> HIDE DEF c
  <2> QED BY <1>1, <2>2, <2>3
<1>6. RestoredFrontier(c) = version /\ cursor = version
  <2>1. \A k \in Keys : version[k] = RestoredVersion(progress, k) /\ cursor[k] = version[k]
    BY DEF Live, Consistent, FrontierMatches
  <2>2. version \in [Keys -> U64] /\ cursor \in [Keys -> U64]
    BY DEF Live, Consistent
  <2> QED BY <1>3, <2>1, <2>2 DEF RestoredFrontier
<1>7. taken' = <<progress, step, value, version, cursor>>
  BY DEF TakeCheckpoint, live
<1> HIDE DEF c
<1> QED BY <1>2, <1>3, <1>4, <1>5, <1>6, <1>7

\* Every step keeps the invariant.
LEMMA IInvNext == IInv /\ [Next]_vars => IInv'
<1> SUFFICES ASSUME IInv, [Next]_vars
             PROVE  IInv'
  OBVIOUS
<1>1. Live /\ CheckpointConsistent
  BY DEF IInv, Live
<1>2. ASSUME UNCHANGED <<checkpoint, taken>>
      PROVE  CheckpointConsistent'
  BY <1>1, <1>2 DEF CheckpointConsistent
<1>3. ASSUME NEW weight \in TokenWeights, StepWithLearningRate(weight)
      PROVE  IInv'
  BY <1>1, <1>2, <1>3, StepConsistent DEF IInv, Live, StepWithLearningRate
<1>4. CASE ZeroGrad
  BY <1>1, <1>2, <1>4, ZeroGradConsistent DEF IInv, Live, ZeroGrad
<1>5. CASE FlushPartialWindow
  BY <1>1, <1>2, <1>5, FlushConsistent DEF IInv, Live, FlushPartialWindow
<1>6. CASE TakeCheckpoint
  <2>1. Live'
    BY <1>1, <1>6 DEF TakeCheckpoint, Live, live
  <2>2. Consistent(checkpoint'.progress, checkpoint'.progress.replay_step,
                   RestoredValue(checkpoint'),
                   RestoredFrontier(checkpoint'), RestoredFrontier(checkpoint'))
    BY <1>1, <1>6, CheckpointDescribesLive DEF Live
  <2>3. CheckpointConsistent'
    BY <1>1, <1>6, <2>2, CheckpointDescribesLive DEF CheckpointConsistent
  <2> QED BY <2>1, <2>3 DEF IInv, Live
<1>7. CASE RestoreCheckpointInPlace
  <2>1. Live'
    BY <1>1, <1>7 DEF CheckpointConsistent, RestoreCheckpointInPlace, Live
  <2> QED BY <1>2, <1>7, <2>1 DEF RestoreCheckpointInPlace, IInv, Live
<1>8. CASE CrashAndRecompile
  <2>1. Live'
    BY <1>8, FreshConsistent DEF CrashAndRecompile, Live
  <2> QED BY <1>2, <1>8, <2>1 DEF CrashAndRecompile, IInv, Live
<1>9. CASE UNCHANGED vars
  BY <1>1, <1>2, <1>9 DEF vars, IInv, Live
<1> QED BY <1>3, <1>4, <1>5, <1>6, <1>7, <1>8, <1>9 DEF Next

\* IInv is an invariant of the specification.
THEOREM IInvInvariant == Spec => []IInv
<1>1. Init => IInv
  BY FreshConsistent DEF Init, IInv, CheckpointConsistent
<1> QED BY <1>1, IInvNext, PTL DEF Spec

-----------------------------------------------------------------------------
(* The properties the runs check, for every value of the constants.        *)

\* Type correctness; no counter or version ever leaves u64.
THEOREM TypeCorrect == Spec => []TypeOK
<1>1. IInv => TypeOK
  BY DEF IInv, Consistent, CheckpointConsistent, TypeOK
<1> QED BY <1>1, IInvInvariant, PTL

\* The ledger and the state kept by the captured graphs never diverge.
THEOREM LedgerMatchesDeviceAlways == Spec => []LedgerMatchesDevice
<1>1. IInv => LedgerMatchesDevice
  BY DEF IInv, Consistent, DeviceMatches, LedgerMatchesDevice
<1> QED BY <1>1, IInvInvariant, PTL

\* Versions and cursor are the ones a restore would recompute.
THEOREM FrontierMatchesLedgerAlways == Spec => []FrontierMatchesLedger
<1>1. IInv => FrontierMatchesLedger
  BY DEF IInv, Consistent, FrontierMatches, FrontierMatchesLedger
<1> QED BY <1>1, IInvInvariant, PTL

\* The four records of progress are well-formed and never diverge.
THEOREM RecordsAgreeAlways == Spec => []RecordsAgree
BY TypeCorrect, LedgerMatchesDeviceAlways, FrontierMatchesLedgerAlways, PTL DEF RecordsAgree

\* checkpoint() never fails one of its own consistency checks.
THEOREM CheckpointNeverRefusedAlways == Spec => []CheckpointNeverRefused
<1>1. IInv => CheckpointNeverRefused
  BY DEF IInv, Consistent, DeviceMatches, CheckpointNeverRefused, CheckpointOk
<1> QED BY <1>1, IInvInvariant, PTL

\* A checkpoint the program wrote is never refused by the restore.
THEOREM RestoreNeverRefusedAlways == Spec => []RestoreNeverRefused
<1>1. IInv => RestoreNeverRefused
  <2> SUFFICES ASSUME IInv, checkpoint # NoCheckpoint
               PROVE  RestoreOk(checkpoint)
    BY DEF RestoreNeverRefused
  <2> DEFINE p == checkpoint.progress
             f == RestoredFrontier(checkpoint)
             v == RestoredValue(checkpoint)
  <2>1. /\ p \in Progress /\ ValidProgress(p) /\ f \in [Keys -> U64]
        /\ DropoutCounterOk(p, v) /\ TokenCountOk(p, v)
    BY DEF IInv, CheckpointConsistent, Consistent
  <2>2. /\ RetainsTokenCount => v["tokens"] = checkpoint.tensors["tokens"]
        /\ HasDropout => v["dropout"] = checkpoint.tensors["dropout"]
    BY KeyFacts DEF RestoredValue
  <2>3. DropoutCounterOk(p, checkpoint.tensors) /\ TokenCountOk(p, checkpoint.tensors)
    BY <2>1, <2>2 DEF DropoutCounterOk, TokenCountOk
  <2>4. p.replay_step + p.flushed_window_count + p.reset_transition_count \in U64
    <3>1. CASE Accumulating
      <4>1. "index" \in Keys /\ "index" \in ResetKeys /\ "index" \notin WorkloadKeys
        BY <3>1, KeyFacts DEF ResetKeys
      <4>2. f["index"] = p.replay_step + p.flushed_window_count + p.reset_transition_count
        BY <4>1 DEF RestoredFrontier, RestoredVersion
      <4> QED BY <2>1, <4>1, <4>2
    <3>2. CASE ~Accumulating
      BY <2>1, <3>2, WidthAssumption DEF ValidProgress, ValidDiscarded, Progress, U64
    <3> QED BY <3>1, <3>2
  <2> QED BY <2>1, <2>3, <2>4 DEF RestoreOk
<1> QED BY <1>1, IInvInvariant, PTL

\* A program can be saved at any time and what it saved can be restored.
THEOREM NothingIsRefusedAlways == Spec => []NothingIsRefused
BY CheckpointNeverRefusedAlways, RestoreNeverRefusedAlways, PTL DEF NothingIsRefused

\* An open window can always be discarded, at the limit of the counters too.
THEOREM OpenWindowNeverTrappedAlways == Spec => []OpenWindowNeverTrapped
<1>1. IInv => OpenWindowNeverTrapped
  BY OpenWindow DEF IInv, Consistent, OpenWindowNeverTrapped
<1> QED BY <1>1, IInvInvariant, PTL

\* A restore brings back exactly the program that was checkpointed.
THEOREM RestoreIsExactAlways == Spec => RestoreIsExact
<1>1. IInv /\ [Next]_vars => [RestoreCheckpointInPlace => live' = taken]_vars
  BY DEF IInv, CheckpointConsistent, RestoreCheckpointInPlace, live
<1> QED BY <1>1, IInvInvariant, PTL DEF Spec, RestoreIsExact

=============================================================================
