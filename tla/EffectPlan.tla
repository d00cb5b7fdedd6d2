----------------------------- MODULE EffectPlan -----------------------------
(***************************************************************************)
(* Effect plans (src/src/effects/mod.rs, batch.rs and the staging half of  *)
(* EffectRuntime::execute and execute_batch in runtime.rs): ordered STORE  *)
(* steps over versioned buffers, their validation, and what one            *)
(* transaction computes from them before it commits.                       *)
(*                                                                         *)
(* All buffers have one descriptor, so the descriptor comparisons always   *)
(* succeed and are left out.  A tensor is a function on Cells: a STORE     *)
(* into a view or an index plan replaces the cells of its region, a        *)
(* whole-buffer STORE all of them.                                         *)
(***************************************************************************)
EXTENDS Naturals, Sequences, SequencesExt

CONSTANTS
    Buffers,    \* logical buffer ids
    Cells,      \* elements of a tensor
    Scalars,    \* what an element may hold
    None

Content == [Cells -> Scalars]

State(b, v) == [buffer |-> b, version |-> v]
States == [buffer : Buffers, version : Nat]

\* EffectStep: reads[0] is target, reads[1] is source.
Steps == [id : Nat, target : States, source : States, write : States,
          region : SUBSET Cells, after : SUBSET Nat]

-----------------------------------------------------------------------------
(* EffectPlan::validate.                                                   *)

WritesBefore(plan, i, b) == {j \in 1..(i - 1) : plan[j].write.buffer = b}

\* The version an earlier step of the plan left in b, 0 before the first one.
VersionBefore(plan, i, b) ==
    LET writes == WritesBefore(plan, i, b)
    IN  IF writes = {} THEN 0 ELSE plan[Max(writes)].write.version

IdsBefore(plan, i) == {plan[j].id : j \in 1..(i - 1)}

\* Mutant of ReadOk: any earlier version may be read again.
ReadsAnyVersion(plan, i, read) == read.version <= VersionBefore(plan, i, read.buffer)

\* A read names the external version 0 or exactly the latest earlier write.
ReadOk(plan, i, read) ==
    read.version \in {0, VersionBefore(plan, i, read.buffer)}

ValidateStep(plan, i) ==
    LET step == plan[i]
    IN  /\ step.id \notin IdsBefore(plan, i)
        /\ step.after \subseteq IdsBefore(plan, i)
        /\ step.target.buffer = step.write.buffer
        /\ step.write.version = step.target.version + 1
        /\ step.write.version = VersionBefore(plan, i, step.write.buffer) + 1
        /\ ReadOk(plan, i, step.target) /\ ReadOk(plan, i, step.source)

Validate(plan) == \A i \in 1..Len(plan) : ValidateStep(plan, i)

-----------------------------------------------------------------------------
(* Staging: every step adds the state it writes to a map of snapshots.     *)

Assigned(target, source, region) ==
    [c \in Cells |-> IF c \in region THEN source[c] ELSE target[c]]

\* Snapshots(live): the live state of every registered buffer.
Snapshots(live) ==
    [s \in {State(b, live[b].version) : b \in DOMAIN live} |-> live[s.buffer].content]

\* sources: contents computed by a pure schedule, by step id.
Reads(step, sources) ==
    {step.target} \cup (IF step.id \in DOMAIN sources THEN {} ELSE {step.source})

StageStep(acc, step, sources) ==
    IF ~acc.ok \/ ~(Reads(step, sources) \subseteq DOMAIN acc.snapshots)
    THEN [acc EXCEPT !.ok = FALSE]
    ELSE LET sn == acc.snapshots
             source == IF step.id \in DOMAIN sources THEN sources[step.id]
                       ELSE sn[step.source]
             candidate == Assigned(sn[step.target], source, step.region)
         IN  [acc EXCEPT !.snapshots =
                [s \in DOMAIN sn \cup {step.write} |->
                   IF s = step.write THEN candidate ELSE sn[s]]]

Stage(acc, steps, sources) ==
    FoldLeft(LAMBDA a, step : StageStep(a, step, sources), acc, steps)

Staging(snapshots) == [ok |-> TRUE, snapshots |-> snapshots]

-----------------------------------------------------------------------------
(* Commit: the last state written to each buffer, nothing in between.      *)

Written(steps) == {steps[i].write.buffer : i \in DOMAIN steps}

FinalState(steps, b) ==
    steps[Max({i \in DOMAIN steps : steps[i].write.buffer = b})].write

\* live after a transaction that staged steps.
Committed(live, steps, snapshots) ==
    [b \in DOMAIN live |->
       IF b \in Written(steps)
       THEN [version |-> FinalState(steps, b).version,
             content |-> snapshots[FinalState(steps, b)]]
       ELSE live[b]]

\* No source is overridden.
NoSources == [id \in {} |-> None]

\* The outcome of a transaction on a store: refused, or the store it leaves.
Refused(live) == [ok |-> FALSE, live |-> live]

\* execute_with_sources.
PlanOutcome(live, plan, sources) ==
    LET staged == Stage(Staging(Snapshots(live)), plan, sources)
    IN  IF Validate(plan) /\ Written(plan) \subseteq DOMAIN live /\ staged.ok
        THEN [ok |-> TRUE, live |-> Committed(live, plan, staged.snapshots)]
        ELSE Refused(live)

-----------------------------------------------------------------------------
(* Batches: plans rebased from their local version 0 onto given starts.    *)
(* An entry is [plan, starts, sources]; starts maps buffers to versions.   *)

Rebase(state, starts) == State(state.buffer, starts[state.buffer] + state.version)

RebaseStep(step, starts) ==
    [step EXCEPT !.target = Rebase(step.target, starts),
                 !.source = Rebase(step.source, starts),
                 !.write  = Rebase(step.write, starts)]

RebasedSteps(entry) ==
    [i \in DOMAIN entry.plan |-> RebaseStep(entry.plan[i], entry.starts)]

\* Buffers whose start must be exact: all but the sources that are overridden.
Required(entry) ==
    Written(entry.plan) \cup
      {entry.plan[i].source.buffer :
         i \in {j \in DOMAIN entry.plan : entry.plan[j].id \notin DOMAIN entry.sources}}

Named(entry) ==
    Written(entry.plan) \cup {entry.plan[i].source.buffer : i \in DOMAIN entry.plan}

ProducersBefore(batch, i, b) == {j \in 1..(i - 1) : b \in Written(batch[j].plan)}

\* The state of b that the entries before the i-th leave behind.
ProducedBefore(batch, i, b) ==
    FinalState(RebasedSteps(batch[Max(ProducersBefore(batch, i, b))]), b)

StartsFollow(batch, i, buffers) ==
    \A b \in buffers :
      ProducersBefore(batch, i, b) # {} =>
        ProducedBefore(batch, i, b) = State(b, batch[i].starts[b])

\* EffectBatch::rebased_steps.
RebaseOk(batch) ==
    /\ batch # <<>>
    /\ \A i \in DOMAIN batch :
         /\ batch[i].plan # <<>> /\ Validate(batch[i].plan)
         /\ Named(batch[i]) \subseteq DOMAIN batch[i].starts
         /\ StartsFollow(batch, i, Required(batch[i]))

\* Mutant of Checked: the starts of overridden sources are compared too.
ChecksEveryStart(entry) == DOMAIN entry.starts

\* Starts the runtime compares: not those of sources that are only overridden.
Checked(entry) == DOMAIN entry.starts \ (Named(entry) \ Required(entry))

\* Mutant of StartsLive: a start that lies behind the live version passes.
StartsNotAhead(live, batch, i) ==
    \A b \in Checked(batch[i]) :
      ProducersBefore(batch, i, b) = {} =>
        b \in DOMAIN live /\ batch[i].starts[b] <= live[b].version

StartsLive(live, batch, i) ==
    \A b \in Checked(batch[i]) :
      ProducersBefore(batch, i, b) = {} =>
        b \in DOMAIN live /\ live[b].version = batch[i].starts[b]

BatchSnapshots(live, batch) ==
    LET starts == UNION {{State(b, batch[i].starts[b]) :
                            b \in {c \in Checked(batch[i]) : ProducersBefore(batch, i, c) = {}}} :
                         i \in DOMAIN batch}
    IN  [s \in starts |-> live[s.buffer].content]

StageBatch(acc, batch) ==
    FoldLeft(LAMBDA a, entry : Stage(a, RebasedSteps(entry), entry.sources), acc, batch)

BatchSteps(batch) ==
    FoldLeft(LAMBDA steps, entry : steps \o RebasedSteps(entry), <<>>, batch)

\* execute_batch.
BatchOk(live, batch) ==
    /\ RebaseOk(batch)
    /\ \A i \in DOMAIN batch :
         /\ StartsFollow(batch, i, Checked(batch[i])) /\ StartsLive(live, batch, i)
         /\ Written(batch[i].plan) \subseteq DOMAIN live

BatchOutcome(live, batch) ==
    IF ~BatchOk(live, batch) THEN Refused(live)
    ELSE LET staged == StageBatch(Staging(BatchSnapshots(live, batch)), batch)
         IN  IF staged.ok
             THEN [ok |-> TRUE, live |-> Committed(live, BatchSteps(batch), staged.snapshots)]
             ELSE Refused(live)
=============================================================================
