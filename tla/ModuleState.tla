----------------------------- MODULE ModuleState -----------------------------
(***************************************************************************)
(* The versioned parameters of a module (src/src/nn/parameter.rs) under     *)
(* the calls that read several of them one lock at a time and write them    *)
(* back together: training steps with an optimizer and a scheduler          *)
(* (session/train.rs, optim.rs, nn/norm.rs), loading a state dictionary     *)
(* (nn/state.rs), compiled sessions that seal a module and publish into it  *)
(* (session/compiled_training/module_state.rs), replacing one parameter,    *)
(* and in-process checkpoints (training_checkpoint/mod.rs).                 *)
(*                                                                         *)
(* Handles of a parameter are cloned freely, so every call is a thread of   *)
(* its own; only the optimizer and its scheduler have one owner.  Reading   *)
(* takes the read lock of one parameter and copies value and version.  A    *)
(* value is the number of the write that stored it.                         *)
(***************************************************************************)
EXTENDS Naturals, Sequences, FiniteSets

CONSTANTS
    Trainable,    \* identities the optimizer owns
    Buffers,      \* the others: frozen parameters and running statistics
    VisitOrder,   \* order of Module::visit
    Entries,      \* order of the optimizer's entries, by name
    Statistics,   \* order in which the buffers of the normalisations are prepared
    Trainer,      \* the thread that borrows optimizer and scheduler
    Others,       \* threads with handles of the same parameters
    LoadSets,     \* sets of parameters that a state dictionary names
    Starts,       \* versions a module starts with: 0, or those of a restored checkpoint
    MaxU64,       \* largest version and step count
    MaxEpoch,     \* first epoch at which the schedule has no valid learning rate
    Budgets,      \* bounds: how many calls each thread makes
    None

Params == Trainable \cup Buffers
Threads == Others \cup {Trainer}

Elements(s) == {s[i] : i \in 1 .. Len(s)}

ASSUME ModuleStateAssumption ==
    /\ Params \subseteq Nat /\ IsFiniteSet(Params) /\ Trainable \cap Buffers = {}
    /\ Trainable # {}
    /\ VisitOrder \in Seq(Params) /\ Elements(VisitOrder) = Params
    /\ Entries \in Seq(Trainable) /\ Elements(Entries) = Trainable
    /\ Statistics \in Seq(Buffers) /\ Elements(Statistics) = Buffers
    /\ Trainer \notin Others /\ None \notin Threads
    /\ LoadSets \subseteq SUBSET Params
    /\ MaxU64 \in Nat /\ Starts \subseteq 0 .. MaxU64
    /\ MaxEpoch \in Nat /\ Budgets \subseteq [Threads -> Nat]

VARIABLES
    cell,        \* value and version of every parameter
    lock,        \* the thread that holds its write lock
    call,        \* what each thread is doing
    optimizer,   \* entry versions, step count and the scheduler's epoch
    checkpoint,  \* the last TrainingCheckpoint
    outcome,     \* of the trainer's last call, and the optimizer before it
    writes       \* number of writes so far
vars == <<cell, lock, call, optimizer, checkpoint, outcome, writes>>

Snapshot == [data : Nat, version : 0 .. MaxU64]
Checkpoint == [stamps : [Params -> Snapshot \cup {None}], step : 0 .. MaxU64, epoch : 0 .. MaxEpoch]
ASSUME SnapshotAssumption == None \notin Snapshot /\ None \notin Checkpoint
Unread == [p \in Params |-> None]
Idle(left) == [op |-> "idle", phase |-> "idle", todo |-> <<>>, targets |-> {},
               base |-> Unread, stamp |-> Unread, read |-> Unread, left |-> left]

(* A portable checkpoint is restored into fresh objects before anybody reads
   them: values, versions and the optimizer's versions at once. *)
Init ==
    \E version \in [Params -> Starts], budget \in Budgets :
        /\ cell = [p \in Params |-> [data |-> 0, version |-> version[p]]]
        /\ lock = [p \in Params |-> None]
        /\ call = [t \in Threads |-> Idle(budget[t])]
        /\ optimizer = [version |-> [p \in Trainable |-> version[p]], step |-> 0, epoch |-> 0]
        /\ checkpoint = None
        /\ outcome = [op |-> "idle", failed |-> FALSE, before |-> optimizer]
        /\ writes = 0

-----------------------------------------------------------------------------
(* Calls as sequences of phases.  A phase reads parameters one by one; what
   follows is decided from the copies alone. *)

Reading(c, phase, order) == [c EXCEPT !.phase = phase, !.todo = order, !.read = Unread]
Locking(c, targets) == [c EXCEPT !.phase = "lock", !.targets = targets, !.todo = <<>>]

(* A session is compiled from a module, or restored from a module checkpoint,
   which brings its own values of what is not trained. *)
Session == {"session", "restored"}

(* A failed call returns; the session of a failed finish stays sealed. *)
Failed(c) ==
    IF c.op \in Session /\ c.base # Unread
    THEN [c EXCEPT !.phase = "sealed", !.targets = {}, !.read = Unread]
    ELSE Idle(c.left)

(* next_version *)
Advances(snapshot) == snapshot.version < MaxU64

(* What a publication stores under the version the seal has: what is neither
   trained nor restored. *)
Retained(op) == IF op = "restored" THEN {} ELSE Buffers

Unmoved(c, s) == \A p \in s : c.read[p].version = c.base[p].version

(* Mutant: the entry's version is not compared. *)
PrepareIgnoresEntry(c) ==
    /\ optimizer.step < MaxU64
    /\ \A p \in Trainable : /\ c.stamp[p].version = c.read[p].version
                            /\ Advances(c.read[p])

(* Optimizer::prepare_step: the stamp of the gradient, the entry and the
   parameter name one version. *)
PrepareOk(c) ==
    /\ optimizer.step < MaxU64
    /\ \A p \in Trainable : /\ c.stamp[p].version = optimizer.version[p]
                            /\ c.read[p].version = optimizer.version[p]
                            /\ Advances(c.read[p])

(* PendingBatchNormStats::prepare *)
StatsOk(c) == Unmoved(c, Buffers) /\ \A p \in Buffers : Advances(c.read[p])

(* CompiledModuleSeal::validate_unchanged *)
Unchanged(c) ==
    /\ \A p \in Params : c.read[p] = c.base[p]
    /\ \A p \in Trainable : Advances(c.read[p])

(* TrainingCheckpoint::resume *)
StampsMatch(c) == checkpoint # None /\ c.read = checkpoint.stamps

(* LearningRateScheduler::step accepts the next learning rate: a one-cycle
   schedule, for one, goes below zero after its last step. *)
SchedulerOk == optimizer.epoch < MaxEpoch

(* What a call does once it has read the last parameter of its phase. *)
After(c) ==
    LET else(ok, next) == IF ok THEN next ELSE Failed(c)
        kept == [c EXCEPT !.base = c.read]
    IN  CASE c.phase = "forward" -> Reading(kept, "node", Entries)
          [] c.phase = "node" -> else(Unmoved(c, Trainable), Reading(c, "gradient", Entries))
          [] c.phase = "gradient" -> Reading([c EXCEPT !.stamp = c.read], "prepare", Entries)
          [] c.phase = "prepare" /\ c.op = "plain" -> else(PrepareOk(c), Locking(c, Trainable))
          [] c.phase = "prepare" /\ c.op = "mode" ->
                else(PrepareOk(c) /\ SchedulerOk,
                     IF Buffers = {} THEN Locking(c, Trainable)
                     ELSE Reading(c, "statistics", Statistics))
          [] c.phase = "statistics" -> else(StatsOk(c), Locking(c, Params))
          [] c.phase = "entries" ->
                else(\A p \in c.targets : Advances(c.read[p]), Locking(kept, c.targets))
          [] c.phase = "seal" -> else(\A p \in Params \ Retained(c.op) : Advances(c.read[p]),
                                      [kept EXCEPT !.phase = "sealed"])
          [] c.phase = "validate" -> else(Unchanged(c), Reading(c, "publish", VisitOrder))
          [] c.phase = "publish" -> else(Unchanged(c), Locking(c, Params))
          [] c.phase = "stamps" -> else(StampsMatch(c), Reading(c, "apply", Entries))
          [] c.phase \in {"apply", "save"} -> [c EXCEPT !.phase = "assign"]

Opened(c, op) == [c EXCEPT !.op = op, !.left = c.left - 1]

(* A call begins. *)
Begin(t) ==
    /\ call[t].op = "idle" /\ call[t].left > 0
    /\ \/ /\ t = Trainer
          /\ \E op \in {"plain", "mode", "capture", "resume"} :
                LET phase == CASE op \in {"plain", "mode"} -> "forward"
                               [] op = "capture" -> "save"
                               [] op = "resume" -> "stamps"
                IN  /\ call' = [call EXCEPT ![t] = Reading(Opened(@, op), phase, VisitOrder)]
                    /\ outcome' = [op |-> op, failed |-> FALSE, before |-> optimizer]
       \/ /\ t # Trainer
          /\ \/ \E s \in LoadSets : call' = [call EXCEPT ![t] =
                   Reading([Opened(@, "load") EXCEPT !.targets = s], "entries", VisitOrder)]
             \/ \E op \in Session :
                   call' = [call EXCEPT ![t] = Reading(Opened(@, op), "seal", VisitOrder)]
             \/ \E p \in Params : call' = [call EXCEPT ![t] = Locking(Opened(@, "replace"), {p})]
          /\ UNCHANGED outcome
    /\ UNCHANGED <<cell, lock, optimizer, checkpoint, writes>>

(* Parameter::snapshot *)
Read(t) ==
    LET c == call[t]
        p == Head(c.todo)
        copied == [c EXCEPT !.read[p] = cell[p], !.todo = Tail(c.todo)]
        next == IF copied.todo = <<>> THEN After(copied) ELSE copied
    IN  /\ c.todo # <<>> /\ lock[p] = None
        /\ call' = [call EXCEPT ![t] = next]
        /\ outcome' = IF t = Trainer /\ next.op = "idle" THEN [outcome EXCEPT !.failed = TRUE] ELSE outcome
        /\ UNCHANGED <<cell, lock, optimizer, checkpoint, writes>>

(* CompiledModuleTrainingSession::finish and its siblings *)
Finish(t) ==
    /\ call[t].phase = "sealed"
    /\ call[t].left > 0
    /\ call' = [call EXCEPT ![t] = Reading([call[t] EXCEPT !.left = @ - 1], "validate", VisitOrder)]
    /\ UNCHANGED <<cell, lock, optimizer, checkpoint, outcome, writes>>

(* into_module_without_publication *)
Abandon(t) ==
    /\ call[t].phase = "sealed"
    /\ call' = [call EXCEPT ![t] = Idle(@.left)]
    /\ UNCHANGED <<cell, lock, optimizer, checkpoint, outcome, writes>>

-----------------------------------------------------------------------------
(* restore_parameters *)

Held(t) == {p \in Params : lock[p] = t}

(* Mutant: a load locks in the order of its names. *)
AsListed(c, left) ==
    IF c.op = "load" THEN CHOOSE p \in left : \A q \in left : p >= q
    ELSE CHOOSE p \in left : \A q \in left : p <= q

(* One lock order for all callers: by identity. *)
NextLock(c, left) == CHOOSE p \in left : \A q \in left : p <= q

Lock(t) ==
    LET c == call[t]
        left == c.targets \ Held(t)
        p == NextLock(c, left)
    IN  /\ c.phase = "lock"
        /\ IF left = {} THEN UNCHANGED lock ELSE lock[p] = None /\ lock' = [lock EXCEPT ![p] = t]
        /\ call' = IF Cardinality(left) <= 1 THEN [call EXCEPT ![t].phase = "commit"] ELSE call
        /\ UNCHANGED <<cell, optimizer, checkpoint, outcome, writes>>

(* The expected version: the one the new value was computed from. *)
Expected(c, p) ==
    IF c.op \in {"plain", "mode"} /\ p \in Trainable THEN c.stamp[p].version ELSE c.base[p].version

(* Mutant: the versions are not compared again under the locks. *)
CommitAnyway(c) == c.op = "replace" => \A p \in c.targets : Advances(cell[p])

CommitOk(c) ==
    IF c.op = "replace" THEN \A p \in c.targets : Advances(cell[p])
    ELSE \A p \in c.targets : cell[p].version = Expected(c, p)

(* What the transaction stores: a publication stores what the session has
   trained or was restored with, and the rest as it was sealed. *)
Stored(c, p) ==
    IF c.op \in Session /\ p \in Retained(c.op) THEN c.base[p]
    ELSE [data |-> writes + 1,
          version |-> IF c.op = "replace" THEN cell[p].version + 1 ELSE Expected(c, p) + 1]

Written(c) == [p \in Params |-> IF p \in c.targets THEN Stored(c, p) ELSE cell[p]]

(* Optimizer::step, then LearningRateScheduler::step *)
Stepped(c) ==
    [version |-> [p \in Trainable |-> Expected(c, p) + 1],
     step |-> optimizer.step + 1,
     epoch |-> IF SchedulerOk THEN optimizer.epoch + 1 ELSE optimizer.epoch]

(* Mutant: the optimizer's successor is assigned before the parameters are
   known to be replaced. *)
CommitLate(t) ==
    LET c == call[t]
        ok == CommitOk(c)
    IN  /\ c.phase = "commit"
        /\ lock' = [p \in Params |-> IF lock[p] = t THEN None ELSE lock[p]]
        /\ cell' = IF ok THEN Written(c) ELSE cell
        /\ writes' = IF ok THEN writes + 1 ELSE writes
        /\ call' = [call EXCEPT ![t] = IF ok THEN Idle(c.left) ELSE Failed(c)]
        /\ optimizer' = IF t = Trainer THEN Stepped(c) ELSE optimizer
        /\ outcome' = IF t = Trainer /\ ~(ok /\ SchedulerOk) THEN [outcome EXCEPT !.failed = TRUE] ELSE outcome
        /\ UNCHANGED checkpoint

(* Under all locks: compare every version, then write all or nothing.  The
   trainers assign the optimizer's successor afterwards; the plain one has its
   scheduler step last, when it may still fail. *)
Commit(t) ==
    LET c == call[t]
        ok == CommitOk(c)
    IN  /\ c.phase = "commit"
        /\ lock' = [p \in Params |-> IF lock[p] = t THEN None ELSE lock[p]]
        /\ cell' = IF ok THEN Written(c) ELSE cell
        /\ writes' = IF ok THEN writes + 1 ELSE writes
        /\ call' = [call EXCEPT ![t] = IF ok THEN Idle(c.left) ELSE Failed(c)]
        /\ optimizer' = IF ok /\ t = Trainer THEN Stepped(c) ELSE optimizer
        /\ outcome' = IF t = Trainer /\ ~(ok /\ SchedulerOk) THEN [outcome EXCEPT !.failed = TRUE] ELSE outcome
        /\ UNCHANGED checkpoint

(* The end of TrainingCheckpoint::capture and resume. *)
Assign(t) ==
    LET c == call[t] IN
    /\ c.phase = "assign"
    /\ IF c.op = "capture"
       THEN /\ checkpoint' = [stamps |-> c.read, step |-> optimizer.step, epoch |-> optimizer.epoch]
            /\ UNCHANGED optimizer
       ELSE /\ optimizer' = [version |-> [p \in Trainable |-> c.read[p].version],
                             step |-> checkpoint.step, epoch |-> checkpoint.epoch]
            /\ UNCHANGED checkpoint
    /\ call' = [call EXCEPT ![t] = Idle(c.left)]
    /\ UNCHANGED <<cell, lock, outcome, writes>>

(* The steps of a call that has begun. *)
Continue(t) == Read(t) \/ Lock(t) \/ Commit(t) \/ Assign(t)

Next == \E t \in Threads : Begin(t) \/ Finish(t) \/ Abandon(t) \/ Continue(t)

Spec == Init /\ [][Next]_vars

-----------------------------------------------------------------------------
(* Properties *)

TypeOK ==
    /\ cell \in [Params -> Snapshot]
    /\ lock \in [Params -> Threads \cup {None}]
    /\ \A t \in Threads : \A p \in Params :
         /\ call[t].base[p] \in Snapshot \cup {None}
         /\ call[t].read[p] \in Snapshot \cup {None}
    /\ optimizer.version \in [Trainable -> 0 .. MaxU64]
    /\ optimizer.epoch \in 0 .. MaxEpoch
    /\ writes \in Nat

(* Copies that somebody still holds. *)
Copies(p) ==
    {call[t].base[p] : t \in Threads} \cup {call[t].read[p] : t \in Threads}
    \cup (IF checkpoint = None THEN {} ELSE {checkpoint.stamps[p]})

(* Versions stay within u64 and name one value: a copy with the current version of a parameter
   is its current value, however long it has been held ("they must never wrap
   and make an obsolete snapshot appear current again", parameter.rs). *)
VersionNamesValue ==
    TypeOK /\ \A p \in Params : \A s \in Copies(p) \ {None} :
        s.version = cell[p].version => s.data = cell[p].data

(* No update is lost: a training step, a load or a publication that commits
   replaces exactly the values it started from.  The gradients of a step were
   computed from the values they are applied to, although they are stamped with
   versions at a later moment; and finish publishes into the module it sealed,
   with the frozen parameters and buffers the session was compiled for. *)
NoLostUpdate ==
    [][\A t \in Threads :
         /\ call[t].phase = "commit" /\ call[t].op # "replace"
         /\ call'[t].phase # "commit" /\ writes' # writes
         => \A p \in call[t].targets : call[t].base[p] = cell[p]]_vars

(* A training step that returns an error has changed neither the optimizer nor
   the scheduler. *)
FailedStepChangesNothing == outcome.failed => optimizer = outcome.before

(* The mode-aware trainer, checkpoints and resumes keep that promise: their
   scheduler steps on a clone before anything is replaced. *)
FailedModeStepChangesNothing ==
    outcome.failed /\ outcome.op # "plain" => optimizer = outcome.before

(* Every call returns, or leaves a sealed session: threads that lock several
   parameters never wait for each other in a circle. *)
EveryCallReturns == \A t \in Threads : []<>(call[t].phase \in {"idle", "sealed"})
=============================================================================
