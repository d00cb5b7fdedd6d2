------------------------- MODULE ModuleState_proofs -------------------------
(***************************************************************************)
(* A version names one value, and no update is lost, for any module, any    *)
(* number of threads and any order of traversal.                            *)
(***************************************************************************)
EXTENDS ModuleState, TLAPS

OptimizerType == [version : [Trainable -> 0 .. MaxU64], step : 0 .. MaxU64, epoch : 0 .. MaxEpoch]

USE DEF Session

Copied == [Params -> Snapshot \cup {None}]

TrainerOps == {"plain", "mode", "capture", "resume"}
OtherOps == {"load", "session", "restored", "replace"}
ReadingPhases == {"forward", "node", "gradient", "prepare", "statistics", "entries", "seal",
                  "validate", "publish", "stamps", "apply", "save"}

CallType ==
    [op : {"idle"} \cup TrainerOps \cup OtherOps,
     phase : {"idle", "sealed", "lock", "commit", "assign"} \cup ReadingPhases,
     todo : Seq(Params), targets : SUBSET Params,
     base : Copied, stamp : Copied, read : Copied, left : Nat]

(* The phases of each call. *)
PhasesOf(op) ==
    CASE op = "idle" -> {"idle"}
      [] op = "plain" -> {"forward", "node", "gradient", "prepare", "lock", "commit"}
      [] op = "mode" -> {"forward", "node", "gradient", "prepare", "statistics", "lock", "commit"}
      [] op = "capture" -> {"save", "assign"}
      [] op = "resume" -> {"stamps", "apply", "assign"}
      [] op = "load" -> {"entries", "lock", "commit"}
      [] op \in Session -> {"seal", "sealed", "validate", "publish", "lock", "commit"}
      [] op = "replace" -> {"lock", "commit"}

(* The parameters that a phase has copied when it has read its last one. *)
Needs(phase) ==
    CASE phase \in {"node", "gradient", "prepare", "apply"} -> Trainable
      [] phase = "statistics" -> Buffers
      [] OTHER -> Params

(* A copy is older than its parameter, or equal to it. *)
Kept(copies) ==
    \A p \in Params : copies[p] # None =>
        copies[p].version < cell[p].version \/ copies[p] = cell[p]

CallShape(t, c) ==
    /\ c \in CallType
    /\ c.phase \in PhasesOf(c.op)
    /\ c.op \in TrainerOps => t = Trainer
    /\ c.op \in OtherOps => t # Trainer
    /\ c.op = "idle" => c = Idle(c.left)

(* A training step: what the forward pass read is no older than the entries of
   the optimizer, and what is to be committed has been compared with them. *)
TrainingOK(c) ==
    /\ c.phase = "forward" =>
         \A p \in Trainable : c.read[p] # None => c.read[p].version >= optimizer.version[p]
    /\ c.phase # "forward" =>
         /\ \A p \in Params : c.base[p] # None
         /\ \A p \in Trainable : c.base[p].version >= optimizer.version[p]
    /\ c.phase \in {"prepare", "statistics", "lock", "commit"} =>
         \A p \in Trainable : c.stamp[p] # None
    /\ c.phase \in {"statistics", "lock", "commit"} =>
         /\ optimizer.step < MaxU64
         /\ \A p \in Trainable : /\ c.stamp[p].version = optimizer.version[p]
                                 /\ c.stamp[p].version < MaxU64
         /\ c.op = "mode" => SchedulerOk
    /\ c.phase \in {"lock", "commit"} =>
         Trainable \subseteq c.targets /\ \A p \in c.targets \ Trainable : c.base[p].version < MaxU64

CallData(c) ==
    /\ c.op \in {"plain", "mode"} => TrainingOK(c)
    /\ c.op = "load" /\ c.phase \in {"lock", "commit"} =>
         \A p \in c.targets : c.base[p] # None /\ c.base[p].version < MaxU64
    /\ c.op \in Session =>
         /\ c.phase = "seal" => c.base = Unread
         /\ c.phase # "seal" =>
              /\ \A p \in Params : c.base[p] # None
              /\ \A p \in Params \ Retained(c.op) : c.base[p].version < MaxU64
    /\ c.op = "resume" /\ c.phase \in {"apply", "assign"} => checkpoint # None
    /\ c.phase = "assign" => \A p \in Trainable : c.read[p] # None

TodoOK(c) ==
    /\ c.todo # <<>> <=> c.phase \in ReadingPhases
    /\ \A p \in Needs(c.phase) : c.todo = <<>> \/ p \in Elements(c.todo) \/ c.read[p] # None

CallOK(t, c) == CallShape(t, c) /\ Kept(c.base) /\ Kept(c.read) /\ CallData(c) /\ TodoOK(c)

(* The optimizer does not move while its owner's call runs. *)
OutcomeOK ==
    /\ outcome \in [op : {"idle"} \cup TrainerOps, failed : BOOLEAN, before : OptimizerType]
    /\ call[Trainer].op # "idle" =>
         optimizer = outcome.before /\ outcome.op = call[Trainer].op /\ ~outcome.failed

StateType ==
    /\ cell \in [Params -> Snapshot]
    /\ lock \in [Params -> Threads \cup {None}]
    /\ optimizer \in OptimizerType
    /\ writes \in Nat
    /\ checkpoint # None =>
         checkpoint \in Checkpoint
    /\ call \in [Threads -> CallType]

CheckpointOK == checkpoint # None => Kept(checkpoint.stamps)

EntriesOK == \A p \in Trainable : optimizer.version[p] <= cell[p].version

(* The inductive invariant. *)
ParamsInv ==
    /\ StateType
    /\ \A t \in Threads : CallOK(t, call[t])
    /\ OutcomeOK /\ CheckpointOK /\ EntriesOK
    /\ FailedModeStepChangesNothing

-----------------------------------------------------------------------------
(* Facts about records of calls *)

(* What the constants say of the orders of traversal. *)
LEMMA Orders ==
    /\ VisitOrder \in Seq(Params) /\ VisitOrder # <<>>
    /\ Entries \in Seq(Params) /\ Entries # <<>>
    /\ Statistics \in Seq(Params) /\ (Buffers # {} => Statistics # <<>>)
    /\ Trainable \subseteq Params /\ Buffers \subseteq Params
    /\ Unread \in Copied /\ None \notin Snapshot
  <1>1. Trainable \subseteq Params /\ Buffers \subseteq Params /\ Params # {} /\ Trainable # {}
    BY ModuleStateAssumption DEF Params
  <1>2. Elements(<<>>) = {}
    BY DEF Elements
  <1>3. Unread \in Copied
    BY DEF Unread, Copied
  <1>4. Entries \in Seq(Params) /\ Statistics \in Seq(Params)
    <2>1. \A S : \A s \in Seq(S) : S \subseteq Params => s \in Seq(Params)
      OBVIOUS
    <2> QED
      BY <1>1, <2>1, ModuleStateAssumption
  <1> QED
    BY <1>1, <1>2, <1>3, <1>4, ModuleStateAssumption, SnapshotAssumption

(* A thread that does nothing. *)
LEMMA IdleOK ==
    ASSUME NEW t \in Threads, NEW n \in Nat
    PROVE  CallOK(t, Idle(n)) /\ Idle(n).op = "idle"
  <1>1. Idle(n) \in CallType /\ Idle(n).op = "idle" /\ Idle(n).phase = "idle" /\ Idle(n).left = n
        /\ Idle(n).todo = <<>> /\ Idle(n).base = Unread /\ Idle(n).read = Unread
    BY Orders DEF Idle, CallType
  <1>2. Kept(Unread)
    BY DEF Kept, Unread
  <1> QED
    BY <1>1, <1>2 DEF CallOK, CallShape, CallData, TodoOK, PhasesOf, TrainerOps, OtherOps, ReadingPhases

(* A call that has its next parameters to read. *)
LEMMA ReadingOK ==
    ASSUME NEW t \in Threads, NEW c \in CallType, NEW phase \in ReadingPhases,
           NEW order \in Seq(Params), order # <<>>, Needs(phase) \subseteq Elements(order),
           CallShape(t, Reading(c, phase, order)), Kept(c.base), CallData(Reading(c, phase, order))
    PROVE  CallOK(t, Reading(c, phase, order))
  <1> DEFINE d == Reading(c, phase, order)
  <1>1. d.phase = phase /\ d.todo = order /\ d.read = Unread /\ d.base = c.base
    BY DEF Reading, CallType
  <1>2. Kept(d.read)
    BY <1>1 DEF Kept, Unread
  <1>3. TodoOK(d)
    BY <1>1 DEF TodoOK
  <1> QED
    BY <1>1, <1>2, <1>3 DEF CallOK

(* The fields of such a record. *)
LEMMA ReadingFields ==
    ASSUME NEW c \in CallType, NEW phase \in ReadingPhases, NEW order \in Seq(Params)
    PROVE  LET d == Reading(c, phase, order) IN
           /\ d \in CallType
           /\ d.op = c.op /\ d.phase = phase /\ d.todo = order /\ d.targets = c.targets
           /\ d.base = c.base /\ d.stamp = c.stamp /\ d.read = Unread /\ d.left = c.left
  BY Orders DEF Reading, CallType

(* A call that takes its locks. *)
LEMMA LockingFields ==
    ASSUME NEW c \in CallType, NEW targets \in SUBSET Params
    PROVE  LET d == Locking(c, targets) IN
           /\ d \in CallType
           /\ d.op = c.op /\ d.phase = "lock" /\ d.todo = <<>> /\ d.targets = targets
           /\ d.base = c.base /\ d.stamp = c.stamp /\ d.read = c.read /\ d.left = c.left
  <1>1. <<>> \in Seq(Params)
    OBVIOUS
  <1> QED
    BY <1>1 DEF Locking, CallType

(* A call that fails returns, or leaves its session sealed. *)
LEMMA FailedOK ==
    ASSUME NEW t \in Threads, NEW c, CallShape(t, c), Kept(c.base), CallData(c), c.todo = <<>>
    PROVE  CallOK(t, Failed(c)) /\ Failed(c).op \in {c.op, "idle"}
  <1>1. CASE c.op \in Session /\ c.base # Unread
    <2> DEFINE d == Failed(c)
    <2>1. /\ d \in CallType /\ d.op = c.op /\ d.phase = "sealed" /\ d.todo = <<>>
          /\ d.base = c.base /\ d.read = Unread
      BY <1>1, Orders DEF Failed, CallShape, CallType
    <2>2. /\ \A p \in Params : c.base[p] # None
          /\ \A p \in Params \ Retained(c.op) : c.base[p].version < MaxU64
      BY <1>1 DEF CallData
    <2>3. Kept(d.read)
      BY <2>1 DEF Kept, Unread
    <2> HIDE DEF d
    <2>4. CallShape(t, d)
      BY <1>1, <2>1 DEF CallShape, PhasesOf, TrainerOps, OtherOps
    <2>5. CallData(d)
      BY <1>1, <2>1, <2>2 DEF CallData
    <2>6. TodoOK(d)
      BY <2>1 DEF TodoOK, ReadingPhases
    <2> QED
      BY <1>1, <2>1, <2>3, <2>4, <2>5, <2>6 DEF CallOK, d
  <1>2. CASE ~(c.op \in Session /\ c.base # Unread)
    <2>1. Failed(c) = Idle(c.left) /\ c.left \in Nat
      BY <1>2 DEF Failed, CallShape, CallType
    <2> QED
      BY <2>1, IdleOK
  <1> QED
    BY <1>1, <1>2

(* After the last copy of a phase the call goes on, fails or returns. *)
LEMMA AfterOK ==
    ASSUME StateType, NEW t \in Threads, NEW c, CallShape(t, c), Kept(c.base), Kept(c.read),
           CallData(c), c.todo = <<>>, c.phase \in ReadingPhases,
           \A p \in Needs(c.phase) : c.read[p] # None
    PROVE  CallOK(t, After(c)) /\ After(c).op \in {c.op, "idle"}
  <1> USE Orders
  <1>t. c \in CallType /\ c.targets \subseteq Params
    BY DEF CallShape, CallType
  <1>p. c.phase \in PhasesOf(c.op) /\ (c.op \in TrainerOps <=> t = Trainer) /\ c.op # "idle"
    BY <1>t DEF CallShape, CallType, PhasesOf, ReadingPhases, TrainerOps, OtherOps
  <1>f. CallOK(t, Failed(c)) /\ Failed(c).op \in {c.op, "idle"}
    BY FailedOK
  <1> DEFINE kept == [c EXCEPT !.base = c.read]
  <1>k. /\ kept \in CallType /\ kept.op = c.op /\ kept.phase = c.phase /\ kept.todo = c.todo
        /\ kept.targets = c.targets /\ kept.base = c.read /\ kept.stamp = c.stamp
        /\ kept.read = c.read /\ kept.left = c.left
    BY <1>t DEF CallType
  <1> HIDE DEF kept
  <1>n. /\ Needs("node") = Trainable /\ Needs("gradient") = Trainable
        /\ Needs("prepare") = Trainable /\ Needs("apply") = Trainable
        /\ Needs("statistics") = Buffers /\ Needs("publish") = Params
    BY DEF Needs
  <1>e. Elements(Entries) = Trainable /\ Elements(VisitOrder) = Params /\ Elements(Statistics) = Buffers
    BY ModuleStateAssumption
  <1>1. CASE c.phase = "forward"
    <2> DEFINE d == Reading(kept, "node", Entries)
    <2>1. After(c) = d
      BY <1>1 DEF After, kept
    <2>2. /\ d \in CallType /\ d.op = c.op /\ d.phase = "node" /\ d.base = c.read
      BY <1>k, ReadingFields DEF ReadingPhases
    <2>3. c.op \in {"plain", "mode"} /\ \A p \in Params : c.read[p] # None
      BY <1>1, <1>p, <1>t DEF PhasesOf, CallType, TrainerOps, OtherOps, Needs
    <2> HIDE DEF d
    <2>4. CallShape(t, d)
      BY <2>2, <2>3, <1>p DEF CallShape, PhasesOf, TrainerOps, OtherOps
    <2>5. CallData(d)
      BY <2>2, <2>3, <1>1 DEF CallData, TrainingOK
    <2> QED
      BY <2>1, <2>2, <2>4, <2>5, <1>k, <1>n, <1>e, ReadingOK DEF d, ReadingPhases
  <1>2. CASE c.phase = "node"
    <2> DEFINE d == Reading(c, "gradient", Entries)
    <2>1. After(c) \in {d, Failed(c)}
      BY <1>2 DEF After
    <2>2. /\ d \in CallType /\ d.op = c.op /\ d.phase = "gradient" /\ d.base = c.base
      BY <1>t, ReadingFields DEF ReadingPhases
    <2>3. c.op \in {"plain", "mode"}
      BY <1>2, <1>p, <1>t DEF PhasesOf, CallType, TrainerOps, OtherOps
    <2> HIDE DEF d
    <2>4. CallShape(t, d)
      BY <2>2, <2>3, <1>p DEF CallShape, PhasesOf, TrainerOps, OtherOps
    <2>5. CallData(d)
      BY <2>2, <2>3, <1>2 DEF CallData, TrainingOK
    <2>6. CallOK(t, d)
      BY <2>2, <2>4, <2>5, <1>t, <1>n, <1>e, ReadingOK DEF d, ReadingPhases
    <2> QED
      BY <2>1, <2>2, <2>6, <1>f
  <1>3. CASE c.phase = "gradient"
    <2> DEFINE e == [c EXCEPT !.stamp = c.read]
               d == Reading(e, "prepare", Entries)
    <2>1. After(c) = d
      BY <1>3 DEF After
    <2>e. e \in CallType /\ e.op = c.op /\ e.base = c.base /\ e.stamp = c.read
      BY <1>t DEF CallType
    <2> HIDE DEF e
    <2>2. /\ d \in CallType /\ d.op = c.op /\ d.phase = "prepare" /\ d.base = c.base /\ d.stamp = c.read
      BY <2>e, ReadingFields DEF ReadingPhases
    <2>3. c.op \in {"plain", "mode"} /\ \A p \in Trainable : c.read[p] # None
      BY <1>3, <1>p, <1>t, <1>n DEF PhasesOf, CallType, TrainerOps, OtherOps
    <2> HIDE DEF d
    <2>4. CallShape(t, d)
      BY <2>2, <2>3, <1>p DEF CallShape, PhasesOf, TrainerOps, OtherOps
    <2>5. CallData(d)
      BY <2>2, <2>3, <1>3 DEF CallData, TrainingOK
    <2> QED
      BY <2>1, <2>2, <2>e, <2>4, <2>5, <1>n, <1>e, ReadingOK DEF d, ReadingPhases
  <1>4. CASE c.phase = "prepare"
    <2>1. c.op \in {"plain", "mode"}
      BY <1>4, <1>p, <1>t DEF PhasesOf, CallType, TrainerOps, OtherOps
    <2> DEFINE l == Locking(c, Trainable)
               s == Reading(c, "statistics", Statistics)
    <2>2. \/ After(c) = Failed(c)
          \/ PrepareOk(c) /\ (c.op = "mode" => SchedulerOk) /\ After(c) = l /\ (c.op = "mode" => Buffers = {})
          \/ PrepareOk(c) /\ SchedulerOk /\ c.op = "mode" /\ Buffers # {} /\ After(c) = s
      BY <1>4, <2>1 DEF After
    <2>3. /\ l \in CallType /\ l.op = c.op /\ l.phase = "lock" /\ l.base = c.base /\ l.stamp = c.stamp
          /\ l.targets = Trainable /\ l.todo = <<>> /\ l.read = c.read
      BY <1>t, LockingFields
    <2>4. /\ s \in CallType /\ s.op = c.op /\ s.phase = "statistics" /\ s.base = c.base /\ s.stamp = c.stamp
      BY <1>t, ReadingFields DEF ReadingPhases
    <2>5. TrainingOK(c)
      BY <2>1 DEF CallData
    <2> HIDE DEF l, s
    <2>6. ASSUME PrepareOk(c), c.op = "mode" => SchedulerOk, After(c) = l
          PROVE  CallOK(t, l)
      <3>1. CallShape(t, l)
        BY <2>1, <2>3, <1>p DEF CallShape, PhasesOf, TrainerOps, OtherOps
      <3>2. CallData(l)
        BY <2>1, <2>3, <2>5, <2>6, <1>4 DEF CallData, TrainingOK, PrepareOk, Advances
      <3> QED
        BY <3>1, <3>2, <2>3 DEF CallOK, TodoOK, ReadingPhases
    <2>7. ASSUME PrepareOk(c), SchedulerOk, c.op = "mode", Buffers # {}
          PROVE  CallOK(t, s)
      <3>1. CallShape(t, s)
        BY <2>7, <2>4, <1>p DEF CallShape, PhasesOf, TrainerOps, OtherOps
      <3>2. CallData(s)
        BY <2>4, <2>5, <2>7, <1>4 DEF CallData, TrainingOK, PrepareOk, Advances
      <3> QED
        BY <3>1, <3>2, <2>7, <1>t, <1>n, <1>e, ReadingOK DEF s, ReadingPhases
    <2> QED
      BY <2>2, <2>3, <2>4, <2>6, <2>7, <1>f
  <1>5. CASE c.phase = "statistics"
    <2> DEFINE l == Locking(c, Params)
    <2>1. c.op = "mode"
      BY <1>5, <1>p, <1>t DEF PhasesOf, CallType, TrainerOps, OtherOps
    <2>2. After(c) = Failed(c) \/ (StatsOk(c) /\ After(c) = l)
      BY <1>5 DEF After
    <2>3. /\ l \in CallType /\ l.op = c.op /\ l.phase = "lock" /\ l.base = c.base /\ l.stamp = c.stamp
          /\ l.targets = Params /\ l.todo = <<>> /\ l.read = c.read
      BY <1>t, LockingFields
    <2> HIDE DEF l
    <2>4. ASSUME StatsOk(c) PROVE CallOK(t, l)
      <3>1. CallShape(t, l)
        BY <2>1, <2>3, <1>p DEF CallShape, PhasesOf, TrainerOps, OtherOps
      <3>2. \A p \in Params \ Trainable : c.base[p].version < MaxU64
        BY <2>4 DEF StatsOk, Unmoved, Advances, Params
      <3>3. CallData(l)
        BY <2>1, <2>3, <3>2, <1>5 DEF CallData, TrainingOK
      <3> QED
        BY <3>1, <3>3, <2>3 DEF CallOK, TodoOK, ReadingPhases
    <2> QED
      BY <2>2, <2>3, <2>4, <1>f
  <1>6. CASE c.phase = "entries"
    <2> DEFINE l == Locking(kept, c.targets)
    <2>1. c.op = "load" /\ \A p \in Params : c.read[p] # None
      BY <1>6, <1>p, <1>t DEF PhasesOf, CallType, TrainerOps, OtherOps, Needs
    <2>2. After(c) = Failed(c) \/ ((\A p \in c.targets : Advances(c.read[p])) /\ After(c) = l)
      BY <1>6 DEF After, kept
    <2>3. /\ l \in CallType /\ l.op = c.op /\ l.phase = "lock" /\ l.base = c.read
          /\ l.targets = c.targets /\ l.todo = <<>> /\ l.read = c.read
      BY <1>t, <1>k, LockingFields
    <2> HIDE DEF l
    <2>4. ASSUME \A p \in c.targets : Advances(c.read[p]) PROVE CallOK(t, l)
      <3>1. CallShape(t, l)
        BY <2>1, <2>3, <1>p DEF CallShape, PhasesOf, TrainerOps, OtherOps
      <3>2. CallData(l)
        BY <2>1, <2>3, <2>4, <1>t DEF CallData, Advances
      <3> QED
        BY <3>1, <3>2, <2>3 DEF CallOK, TodoOK, ReadingPhases
    <2> QED
      BY <2>2, <2>3, <2>4, <1>f
  <1>7. CASE c.phase = "seal"
    <2> DEFINE d == [kept EXCEPT !.phase = "sealed"]
    <2>1. c.op \in Session /\ \A p \in Params : c.read[p] # None
      BY <1>7, <1>p, <1>t DEF PhasesOf, CallType, TrainerOps, OtherOps, Needs
    <2>2. \/ After(c) = Failed(c)
          \/ (\A p \in Params \ Retained(c.op) : Advances(c.read[p])) /\ After(c) = d
      BY <1>7 DEF After, kept
    <2>3. /\ d \in CallType /\ d.op = c.op /\ d.phase = "sealed" /\ d.base = c.read
          /\ d.todo = <<>> /\ d.read = c.read
      BY <1>k DEF CallType
    <2> HIDE DEF d
    <2>4. CallShape(t, d)
      BY <2>1, <2>3, <1>p DEF CallShape, PhasesOf, TrainerOps, OtherOps
    <2>5. ASSUME \A p \in Params \ Retained(c.op) : Advances(c.read[p]) PROVE CallData(d)
      BY <2>1, <2>3, <2>5 DEF CallData, Advances
    <2>6. ASSUME \A p \in Params \ Retained(c.op) : Advances(c.read[p]) PROVE CallOK(t, d)
      BY <2>3, <2>4, <2>5, <2>6 DEF CallOK, TodoOK, ReadingPhases
    <2> QED
      BY <2>2, <2>3, <2>6, <1>f
  <1>8. CASE c.phase = "validate"
    <2> DEFINE d == Reading(c, "publish", VisitOrder)
    <2>1. c.op \in Session
      BY <1>8, <1>p, <1>t DEF PhasesOf, CallType, TrainerOps, OtherOps
    <2>2. After(c) \in {d, Failed(c)}
      BY <1>8 DEF After
    <2>3. /\ d \in CallType /\ d.op = c.op /\ d.phase = "publish" /\ d.base = c.base
      BY <1>t, ReadingFields DEF ReadingPhases
    <2> HIDE DEF d
    <2>4. CallShape(t, d)
      BY <2>1, <2>3, <1>p DEF CallShape, PhasesOf, TrainerOps, OtherOps
    <2>5. CallData(d)
      BY <2>1, <2>3, <1>8 DEF CallData
    <2>6. CallOK(t, d)
      BY <2>4, <2>5, <1>t, <1>n, <1>e, ReadingOK DEF d, ReadingPhases
    <2> QED
      BY <2>2, <2>3, <2>6, <1>f
  <1>9. CASE c.phase = "publish"
    <2> DEFINE l == Locking(c, Params)
    <2>1. c.op \in Session
      BY <1>9, <1>p, <1>t DEF PhasesOf, CallType, TrainerOps, OtherOps
    <2>2. After(c) = Failed(c) \/ (Unchanged(c) /\ After(c) = l)
      BY <1>9 DEF After
    <2>3. /\ l \in CallType /\ l.op = c.op /\ l.phase = "lock" /\ l.base = c.base
          /\ l.todo = <<>> /\ l.read = c.read
      BY <1>t, LockingFields
    <2> HIDE DEF l
    <2>4. ASSUME Unchanged(c) PROVE CallOK(t, l)
      <3>1. CallShape(t, l)
        BY <2>1, <2>3, <1>p DEF CallShape, PhasesOf, TrainerOps, OtherOps
      <3>2. CallData(l)
        BY <2>1, <2>3, <2>4, <1>9 DEF CallData, Unchanged, Advances
      <3> QED
        BY <3>1, <3>2, <2>3 DEF CallOK, TodoOK, ReadingPhases
    <2> QED
      BY <2>2, <2>3, <2>4, <1>f
  <1>10. CASE c.phase = "stamps"
    <2> DEFINE d == Reading(c, "apply", Entries)
    <2>1. c.op = "resume"
      BY <1>10, <1>p, <1>t DEF PhasesOf, CallType, TrainerOps, OtherOps
    <2>2. After(c) = Failed(c) \/ (checkpoint # None /\ After(c) = d)
      BY <1>10 DEF After, StampsMatch
    <2>3. /\ d \in CallType /\ d.op = c.op /\ d.phase = "apply" /\ d.base = c.base
      BY <1>t, ReadingFields DEF ReadingPhases
    <2> HIDE DEF d
    <2>4. CallShape(t, d)
      BY <2>1, <2>3, <1>p DEF CallShape, PhasesOf, TrainerOps, OtherOps
    <2>5. ASSUME checkpoint # None PROVE CallData(d)
      BY <2>1, <2>3, <2>5 DEF CallData
    <2>6. ASSUME checkpoint # None PROVE CallOK(t, d)
      BY <2>4, <2>5, <2>6, <1>t, <1>n, <1>e, ReadingOK DEF d, ReadingPhases
    <2> QED
      BY <2>2, <2>3, <2>6, <1>f
  <1>11. CASE c.phase \in {"apply", "save"}
    <2> DEFINE d == [c EXCEPT !.phase = "assign"]
    <2>1. c.op \in {"resume", "capture"} /\ \A p \in Trainable : c.read[p] # None
      BY <1>11, <1>p, <1>t DEF PhasesOf, CallType, TrainerOps, OtherOps, Needs
    <2>2. After(c) = d
      BY <1>11 DEF After
    <2>3. /\ d \in CallType /\ d.op = c.op /\ d.phase = "assign" /\ d.base = c.base
          /\ d.todo = <<>> /\ d.read = c.read
      BY <1>t DEF CallType
    <2> HIDE DEF d
    <2>4. CallShape(t, d)
      BY <2>1, <2>3, <1>p DEF CallShape, PhasesOf, TrainerOps, OtherOps
    <2>5. CallData(d)
      BY <2>1, <2>3, <1>p, <1>11 DEF CallData, PhasesOf
    <2>6. CallOK(t, d)
      BY <2>3, <2>4, <2>5 DEF CallOK, TodoOK, ReadingPhases
    <2> QED
      BY <2>2, <2>3, <2>6
  <1> QED
    BY <1>1, <1>2, <1>3, <1>4, <1>5, <1>6, <1>7, <1>8, <1>9, <1>10, <1>11 DEF ReadingPhases

-----------------------------------------------------------------------------
(* Steps that write no parameter *)

(* The steps of a call that change nothing but its own record, its locks and
   the outcome. *)
LEMMA OwnStep ==
    ASSUME ParamsInv, NEW t \in Threads, NEW next, CallOK(t, next),
           call' = [call EXCEPT ![t] = next],
           UNCHANGED <<cell, optimizer, checkpoint, writes>>,
           lock' \in [Params -> Threads \cup {None}], OutcomeOK', FailedModeStepChangesNothing'
    PROVE  ParamsInv'
  <1>1. \A u \in Threads : call'[u] = IF u = t THEN next ELSE call[u]
    BY DEF ParamsInv, StateType
  <1>2. \A u \in Threads : CallOK(u, call'[u])
    BY <1>1 DEF ParamsInv
  <1>3. \A u \in Threads : \A c : CallOK(u, c) => CallOK(u, c)'
    BY DEF CallOK, Kept, CallData, TrainingOK, SchedulerOk, CallShape, TodoOK
  <1>4. (\A u \in Threads : CallOK(u, call[u]))'
    BY <1>2, <1>3
  <1>5. StateType'
    <2>1. next \in CallType
      BY DEF CallOK, CallShape
    <2> QED
      BY <2>1 DEF ParamsInv, StateType
  <1>6. CheckpointOK' /\ EntriesOK'
    BY DEF ParamsInv, CheckpointOK, EntriesOK, Kept
  <1> QED
    BY <1>4, <1>5, <1>6 DEF ParamsInv

(* The outcome of a step of another thread. *)
LEMMA OutcomeStays ==
    ASSUME ParamsInv, UNCHANGED <<outcome, optimizer>>, call'[Trainer].op \in {call[Trainer].op, "idle"}
    PROVE  OutcomeOK' /\ FailedModeStepChangesNothing'
  BY DEF ParamsInv, OutcomeOK, FailedModeStepChangesNothing

(* Parameter::snapshot, and what follows the last one of a phase. *)
LEMMA ReadInv ==
    ASSUME ParamsInv, NEW t \in Threads, Read(t)
    PROVE  ParamsInv'
  <1> DEFINE c == call[t]
             p == Head(c.todo)
             copied == [c EXCEPT !.read[p] = cell[p], !.todo = Tail(c.todo)]
             next == IF copied.todo = <<>> THEN After(copied) ELSE copied
  <1>1. /\ c.todo # <<>> /\ call' = [call EXCEPT ![t] = next]
        /\ outcome' = IF t = Trainer /\ next.op = "idle" THEN [outcome EXCEPT !.failed = TRUE] ELSE outcome
        /\ UNCHANGED <<cell, lock, optimizer, checkpoint, writes>>
    BY DEF Read
  <1>2. CallOK(t, c) /\ c \in CallType /\ StateType
    BY DEF ParamsInv, StateType
  <1>3. /\ c.todo \in Seq(Params) /\ p \in Params /\ Tail(c.todo) \in Seq(Params)
        /\ \A q \in Elements(c.todo) : q = p \/ q \in Elements(Tail(c.todo))
    <2>1. c.todo \in Seq(Params)
      BY <1>2 DEF CallType
    <2>2. p \in Params /\ Tail(c.todo) \in Seq(Params) /\ Len(Tail(c.todo)) = Len(c.todo) - 1
          /\ Len(c.todo) \in Nat /\ p = c.todo[1]
          /\ \A i \in 1 .. Len(c.todo) - 1 : Tail(c.todo)[i] = c.todo[i + 1]
      BY <1>1, <2>1
    <2>3. ASSUME NEW i \in 1 .. Len(c.todo)
          PROVE  c.todo[i] = p \/ c.todo[i] \in Elements(Tail(c.todo))
      <3>1. CASE i = 1
        BY <3>1, <2>2
      <3>2. CASE i # 1
        <4>1. i - 1 \in 1 .. Len(c.todo) - 1 /\ Tail(c.todo)[i - 1] = c.todo[i]
          BY <3>2, <2>2
        <4> QED
          BY <4>1, <2>2 DEF Elements
      <3> QED
        BY <3>1, <3>2
    <2> QED
      BY <2>1, <2>2, <2>3 DEF Elements
  <1>4. cell[p] \in Snapshot /\ cell[p] # None
    BY <1>2, <1>3, Orders DEF StateType
  <1>5. /\ copied \in CallType /\ copied.op = c.op /\ copied.phase = c.phase
        /\ copied.todo = Tail(c.todo) /\ copied.targets = c.targets /\ copied.base = c.base
        /\ copied.stamp = c.stamp /\ copied.left = c.left
        /\ \A q \in Params : copied.read[q] = IF q = p THEN cell[p] ELSE c.read[q]
    BY <1>2, <1>3, <1>4 DEF CallType, Copied
  <1>6. c.phase \in ReadingPhases /\ c.op # "idle"
    BY <1>1, <1>2 DEF CallOK, TodoOK, CallShape, Idle, ReadingPhases, PhasesOf
  <1> HIDE DEF copied, p, c
  <1>7. CallShape(t, copied) /\ Kept(copied.base) /\ Kept(copied.read)
    <2>1. CallShape(t, copied)
      BY <1>2, <1>5, <1>6 DEF CallOK, CallShape
    <2>2. Kept(copied.read)
      BY <1>2, <1>5 DEF CallOK, Kept
    <2> QED
      BY <1>2, <1>5, <2>1, <2>2 DEF CallOK
  <1>8. CallData(copied)
    <2>1. CallData(c)
      BY <1>2 DEF CallOK
    <2>2. c.op \in {"plain", "mode"} => TrainingOK(copied)
      <3> SUFFICES ASSUME c.op \in {"plain", "mode"} PROVE TrainingOK(copied)
        OBVIOUS
      <3>1. TrainingOK(c)
        BY <2>1 DEF CallData
      <3>2. ASSUME NEW q \in Trainable, copied.read[q] # None, c.phase = "forward"
            PROVE  copied.read[q].version >= optimizer.version[q]
        <4>1. optimizer.version[q] <= cell[q].version /\ optimizer.version[q] \in Nat /\ cell[q].version \in Nat
          <5>1. EntriesOK /\ q \in Params
            BY Orders DEF ParamsInv
          <5> QED
            BY <1>2, <5>1 DEF EntriesOK, StateType, OptimizerType, Snapshot
        <4>2. q \in Params
          BY Orders
        <4> QED
          BY <1>5, <3>1, <3>2, <4>1, <4>2 DEF TrainingOK
      <3> QED
        BY <1>5, <3>1, <3>2 DEF TrainingOK
    <2>3. c.phase # "assign"
      BY <1>6 DEF ReadingPhases
    <2> QED
      BY <1>5, <2>1, <2>2, <2>3 DEF CallData
  <1>9. \A q \in Needs(copied.phase) : q \in Elements(copied.todo) \/ copied.read[q] # None
    <2>1. Needs(c.phase) \subseteq Params
      BY Orders DEF Needs
    <2> QED
      BY <1>1, <1>2, <1>3, <1>4, <1>5, <2>1 DEF CallOK, TodoOK, c
  <1>10. CallOK(t, next) /\ next.op \in {c.op, "idle"}
    <2>1. CASE copied.todo = <<>>
      <3>1. Elements(copied.todo) = {}
        BY <2>1 DEF Elements
      <3>2. CallOK(t, After(copied)) /\ After(copied).op \in {copied.op, "idle"}
        BY <1>2, <1>5, <1>6, <1>7, <1>8, <1>9, <2>1, <3>1, AfterOK
      <3> QED
        BY <2>1, <3>2, <1>5
    <2>2. CASE copied.todo # <<>>
      <3>1. TodoOK(copied)
        BY <1>5, <1>6, <1>9, <2>2 DEF TodoOK
      <3> QED
        BY <2>2, <3>1, <1>5, <1>7, <1>8 DEF CallOK
    <2> QED
      BY <2>1, <2>2
  <1> HIDE DEF next
  <1>11. OutcomeOK' /\ FailedModeStepChangesNothing'
    <2>1. call'[t] = next /\ \A u \in Threads : u # t => call'[u] = call[u]
      BY <1>1, <1>2 DEF StateType
    <2>2. Trainer \in Threads
      BY DEF Threads
    <2>3. CASE t = Trainer /\ next.op = "idle"
      <3>1. OutcomeOK /\ call[Trainer].op # "idle"
        BY <1>6, <2>3 DEF ParamsInv, c
      <3> QED
        BY <1>1, <2>1, <2>3, <3>1 DEF OutcomeOK, FailedModeStepChangesNothing
    <2>4. CASE ~(t = Trainer /\ next.op = "idle")
      <3>1. outcome' = outcome
        BY <1>1, <2>4
      <3>2. call'[Trainer].op \in {call[Trainer].op, "idle"}
        BY <1>10, <2>1, <2>2 DEF c
      <3> QED
        BY <1>1, <3>1, <3>2, OutcomeStays
    <2> QED
      BY <2>3, <2>4
  <1> QED
    BY <1>1, <1>2, <1>10, <1>11, OwnStep DEF StateType

(* The initial states. *)
LEMMA InitInv == Init => ParamsInv
  <1> SUFFICES ASSUME Init PROVE ParamsInv
    OBVIOUS
  <1>1. PICK version \in [Params -> Starts], budget \in Budgets :
        /\ cell = [p \in Params |-> [data |-> 0, version |-> version[p]]]
        /\ lock = [p \in Params |-> None]
        /\ call = [t \in Threads |-> Idle(budget[t])]
        /\ optimizer = [version |-> [p \in Trainable |-> version[p]], step |-> 0, epoch |-> 0]
        /\ checkpoint = None
        /\ outcome = [op |-> "idle", failed |-> FALSE, before |-> optimizer]
        /\ writes = 0
    BY DEF Init
  <1>2. \A t \in Threads : budget[t] \in Nat /\ call[t] = Idle(budget[t])
    BY <1>1, ModuleStateAssumption
  <1>3. \A t \in Threads : CallOK(t, call[t]) /\ call[t].op = "idle"
    BY <1>2, IdleOK
  <1>4. \A p \in Params : version[p] \in 0 .. MaxU64
    BY ModuleStateAssumption
  <1>5. optimizer \in OptimizerType /\ cell \in [Params -> Snapshot]
    <2>1. MaxU64 \in Nat /\ MaxEpoch \in Nat
      BY ModuleStateAssumption
    <2> QED
      BY <1>1, <1>4, <2>1, Orders DEF OptimizerType, Snapshot
  <1>6. StateType
    <2>1. \A t \in Threads : call[t] \in CallType
      BY <1>3 DEF CallOK, CallShape
    <2> QED
      BY <1>1, <1>5, <2>1 DEF StateType
  <1>7. OutcomeOK /\ FailedModeStepChangesNothing
    <2>1. Trainer \in Threads
      BY DEF Threads
    <2> QED
      BY <1>1, <1>3, <1>5, <2>1 DEF OutcomeOK, FailedModeStepChangesNothing
  <1>8. CheckpointOK /\ EntriesOK
    BY <1>1, <1>4, Orders DEF CheckpointOK, EntriesOK
  <1> QED
    BY <1>3, <1>6, <1>7, <1>8 DEF ParamsInv

(* The first record of a call. *)
LEMMA OpenedFields ==
    ASSUME NEW t \in Threads, NEW c, CallOK(t, c), c.op = "idle", c.left > 0,
           NEW op \in TrainerOps \cup OtherOps
    PROVE  LET d == Opened(c, op) IN
           /\ d \in CallType /\ d.op = op /\ d.base = Unread /\ d.todo = <<>>
           /\ d.read = Unread /\ Kept(d.base)
  <1>1. c = Idle(c.left) /\ c \in CallType
    BY DEF CallOK, CallShape
  <1>2. c.left \in Nat /\ c.left - 1 \in Nat
    BY <1>1 DEF CallType
  <1>3. c.base = Unread /\ c.read = Unread /\ c.todo = <<>>
    BY <1>1 DEF Idle
  <1>4. Kept(Unread)
    BY DEF Kept, Unread
  <1> QED
    BY <1>1, <1>2, <1>3, <1>4 DEF Opened, CallType

(* A call begins. *)
LEMMA BeginInv ==
    ASSUME ParamsInv, NEW t \in Threads, Begin(t)
    PROVE  ParamsInv'
  <1> DEFINE c == call[t]
  <1>1. /\ c.op = "idle" /\ c.left > 0 /\ CallOK(t, c) /\ c \in CallType /\ StateType
        /\ UNCHANGED <<cell, lock, optimizer, checkpoint, writes>>
        /\ lock' \in [Params -> Threads \cup {None}]
    BY DEF Begin, ParamsInv, StateType
  <1>2. Elements(VisitOrder) = Params /\ VisitOrder \in Seq(Params) /\ VisitOrder # <<>>
    BY Orders, ModuleStateAssumption
  <1>3. \A phase \in ReadingPhases : Needs(phase) \subseteq Params
    BY Orders DEF Needs
  <1>4. ASSUME NEW next, call' = [call EXCEPT ![t] = next]
        PROVE  call'[t] = next /\ \A u \in Threads : u # t => call'[u] = call[u]
    BY <1>1, <1>4 DEF StateType
  <1>t. Trainer \in Threads
    BY DEF Threads
  <1>5. ASSUME t = Trainer, NEW op \in TrainerOps, NEW phase \in ReadingPhases,
               phase = CASE op \in {"plain", "mode"} -> "forward"
                         [] op = "capture" -> "save"
                         [] op = "resume" -> "stamps",
               call' = [call EXCEPT ![t] = Reading(Opened(c, op), phase, VisitOrder)],
               outcome' = [op |-> op, failed |-> FALSE, before |-> optimizer]
        PROVE  ParamsInv'
    <2> DEFINE o == Opened(c, op)
               d == Reading(o, phase, VisitOrder)
    <2>1. o \in CallType /\ o.op = op /\ o.base = Unread /\ o.todo = <<>> /\ Kept(o.base)
      BY <1>1, OpenedFields
    <2> HIDE DEF o
    <2>2. d \in CallType /\ d.op = op /\ d.phase = phase /\ d.read = Unread
      BY <2>1, <1>2, ReadingFields
    <2> HIDE DEF d
    <2>3. CallShape(t, d)
      BY <2>2, <1>5 DEF CallShape, PhasesOf, TrainerOps, OtherOps
    <2>4. CallData(d)
      <3>1. \A p \in Trainable : d.read[p] = None
        BY <2>2, Orders DEF Unread
      <3> QED
        BY <2>2, <3>1, <1>5 DEF CallData, TrainingOK, TrainerOps
    <2>5. CallOK(t, d)
      BY <2>1, <2>3, <2>4, <1>2, <1>3, ReadingOK DEF d
    <2>6. call'[t] = d
      BY <1>4, <1>5 DEF d, o
    <2>7. OutcomeOK' /\ FailedModeStepChangesNothing'
      BY <2>2, <2>6, <1>1, <1>5 DEF OutcomeOK, FailedModeStepChangesNothing, StateType
    <2> QED
      BY <1>1, <1>5, <2>5, <2>7, OwnStep DEF d, o
  <1>6. ASSUME t # Trainer, NEW d, CallOK(t, d), call' = [call EXCEPT ![t] = d], outcome' = outcome
        PROVE  ParamsInv'
    <2>1. call'[Trainer] = call[Trainer]
      BY <1>4, <1>6, <1>t
    <2>2. OutcomeOK' /\ FailedModeStepChangesNothing'
      BY <1>1, <1>6, <2>1, OutcomeStays
    <2> QED
      BY <1>1, <1>6, <2>2, OwnStep
  <1>7. ASSUME t # Trainer, NEW s \in LoadSets,
               call' = [call EXCEPT ![t] =
                   Reading([Opened(c, "load") EXCEPT !.targets = s], "entries", VisitOrder)],
               outcome' = outcome
        PROVE  ParamsInv'
    <2> DEFINE o == Opened(c, "load")
               e == [o EXCEPT !.targets = s]
               d == Reading(e, "entries", VisitOrder)
    <2>1. o \in CallType /\ o.op = "load" /\ o.base = Unread /\ o.todo = <<>> /\ Kept(o.base)
      BY <1>1, OpenedFields DEF OtherOps
    <2> HIDE DEF o
    <2>2. e \in CallType /\ e.op = "load" /\ e.base = Unread /\ Kept(e.base)
      BY <2>1, ModuleStateAssumption DEF CallType
    <2> HIDE DEF e
    <2>3. d \in CallType /\ d.op = "load" /\ d.phase = "entries"
      <3>1. "entries" \in ReadingPhases
        BY DEF ReadingPhases
      <3> HIDE DEF d
      <3> QED
        BY <2>2, <1>2, <3>1, ReadingFields DEF d
    <2> HIDE DEF d
    <2>4. CallShape(t, d)
      BY <2>3, <1>7 DEF CallShape, PhasesOf, TrainerOps, OtherOps
    <2>5. CallData(d)
      BY <2>3 DEF CallData
    <2>6. CallOK(t, d)
      BY <2>2, <2>4, <2>5, <1>2, <1>3, ReadingOK DEF d, ReadingPhases
    <2> QED
      BY <1>6, <1>7, <2>6 DEF d, e, o
  <1>8. ASSUME t # Trainer, NEW op \in Session,
               call' = [call EXCEPT ![t] = Reading(Opened(c, op), "seal", VisitOrder)],
               outcome' = outcome
        PROVE  ParamsInv'
    <2> DEFINE o == Opened(c, op)
               d == Reading(o, "seal", VisitOrder)
    <2>1. o \in CallType /\ o.op = op /\ o.base = Unread /\ o.todo = <<>> /\ Kept(o.base)
      BY <1>1, OpenedFields DEF OtherOps
    <2> HIDE DEF o
    <2>2. d \in CallType /\ d.op = op /\ d.phase = "seal" /\ d.base = Unread
      <3>1. "seal" \in ReadingPhases
        BY DEF ReadingPhases
      <3> HIDE DEF d
      <3> QED
        BY <2>1, <1>2, <3>1, ReadingFields DEF d
    <2> HIDE DEF d
    <2>3. CallShape(t, d)
      BY <2>2, <1>8 DEF CallShape, PhasesOf, TrainerOps, OtherOps
    <2>4. CallData(d)
      BY <2>2 DEF CallData
    <2>5. CallOK(t, d)
      BY <2>1, <2>3, <2>4, <1>2, <1>3, ReadingOK DEF d, ReadingPhases
    <2> QED
      BY <1>6, <1>8, <2>5 DEF d, o
  <1>9. ASSUME t # Trainer, NEW p \in Params,
               call' = [call EXCEPT ![t] = Locking(Opened(c, "replace"), {p})],
               outcome' = outcome
        PROVE  ParamsInv'
    <2> DEFINE o == Opened(c, "replace")
               d == Locking(o, {p})
    <2>1. o \in CallType /\ o.op = "replace" /\ o.base = Unread /\ o.read = Unread /\ Kept(o.base)
      BY <1>1, OpenedFields DEF OtherOps
    <2> HIDE DEF o
    <2>2. /\ d \in CallType /\ d.op = "replace" /\ d.phase = "lock" /\ d.todo = <<>>
          /\ d.base = Unread /\ d.read = Unread
      <3>1. {p} \in SUBSET Params
        OBVIOUS
      <3> QED
        BY <2>1, <3>1, LockingFields
    <2> HIDE DEF d
    <2>3. CallShape(t, d)
      BY <2>2, <1>9 DEF CallShape, PhasesOf, TrainerOps, OtherOps
    <2>4. CallData(d) /\ TodoOK(d) /\ Kept(d.base) /\ Kept(d.read)
      BY <2>1, <2>2 DEF CallData, TodoOK, ReadingPhases
    <2>5. CallOK(t, d)
      BY <2>3, <2>4 DEF CallOK
    <2> QED
      BY <1>6, <1>9, <2>5 DEF d, o
  <1>10. CASE t = Trainer
    <2>1. PICK op \in TrainerOps :
            LET phase == CASE op \in {"plain", "mode"} -> "forward"
                           [] op = "capture" -> "save"
                           [] op = "resume" -> "stamps"
            IN  /\ call' = [call EXCEPT ![t] = Reading(Opened(c, op), phase, VisitOrder)]
                /\ outcome' = [op |-> op, failed |-> FALSE, before |-> optimizer]
      BY <1>10, <1>1 DEF Begin, TrainerOps, StateType
    <2> DEFINE phase == CASE op \in {"plain", "mode"} -> "forward"
                          [] op = "capture" -> "save"
                          [] op = "resume" -> "stamps"
    <2>2. phase \in ReadingPhases
      BY DEF TrainerOps, ReadingPhases
    <2> QED
      BY <1>5, <1>10, <2>1, <2>2
  <1>11. CASE t # Trainer
    <2>1. outcome' = outcome
      BY <1>11 DEF Begin
    <2>2. \/ \E s \in LoadSets : call' = [call EXCEPT ![t] =
               Reading([Opened(c, "load") EXCEPT !.targets = s], "entries", VisitOrder)]
          \/ \E op \in Session :
                call' = [call EXCEPT ![t] = Reading(Opened(c, op), "seal", VisitOrder)]
          \/ \E p \in Params : call' = [call EXCEPT ![t] = Locking(Opened(c, "replace"), {p})]
      BY <1>11, <1>1 DEF Begin, StateType
    <2> QED
      BY <1>7, <1>8, <1>9, <1>11, <2>1, <2>2
  <1> QED
    BY <1>10, <1>11

(* CompiledModuleTrainingSession::finish reads the sealed module again. *)
LEMMA FinishInv ==
    ASSUME ParamsInv, NEW t \in Threads, Finish(t)
    PROVE  ParamsInv'
  <1> DEFINE c == call[t]
             e == [c EXCEPT !.left = @ - 1]
             d == Reading(e, "validate", VisitOrder)
  <1>1. /\ c.phase = "sealed" /\ c.left > 0 /\ CallOK(t, c) /\ c \in CallType /\ StateType
        /\ UNCHANGED <<cell, lock, optimizer, checkpoint, outcome, writes>>
        /\ lock' \in [Params -> Threads \cup {None}]
    BY DEF Finish, ParamsInv, StateType
  <1>2. call' = [call EXCEPT ![t] = d]
    BY DEF Finish
  <1>3. c.op \in Session /\ t # Trainer
    BY <1>1 DEF CallOK, CallShape, PhasesOf, CallType, TrainerOps, OtherOps
  <1>4. e \in CallType /\ e.op = c.op /\ e.base = c.base
    BY <1>1, <1>3 DEF CallType
  <1> HIDE DEF e
  <1> HIDE DEF d
  <1>5. d \in CallType /\ d.op = c.op /\ d.phase = "validate" /\ d.base = c.base
    <2>1. "validate" \in ReadingPhases
      BY DEF ReadingPhases
    <2> QED
      BY <1>4, <2>1, Orders, ReadingFields DEF d
  <1>6. CallShape(t, d)
    BY <1>3, <1>5 DEF CallShape, PhasesOf, TrainerOps, OtherOps
  <1>7. CallData(d)
    BY <1>1, <1>3, <1>5 DEF CallOK, CallData
  <1>8. CallOK(t, d)
    <2>1. Needs("validate") = Params /\ Elements(VisitOrder) = Params
      BY ModuleStateAssumption DEF Needs
    <2>2. "validate" \in ReadingPhases /\ Kept(e.base)
      BY <1>1, <1>4 DEF ReadingPhases, CallOK
    <2> QED
      BY <1>4, <1>6, <1>7, <2>1, <2>2, Orders, ReadingOK DEF d
  <1>9. call'[Trainer] = call[Trainer]
    BY <1>1, <1>2, <1>3 DEF StateType, Threads
  <1>10. OutcomeOK' /\ FailedModeStepChangesNothing'
    BY <1>1, <1>9, OutcomeStays
  <1> QED
    BY <1>1, <1>2, <1>8, <1>10, OwnStep

(* A session is given up. *)
LEMMA AbandonInv ==
    ASSUME ParamsInv, NEW t \in Threads, Abandon(t)
    PROVE  ParamsInv'
  <1> DEFINE c == call[t]
             d == Idle(c.left)
  <1>1. /\ c.phase = "sealed" /\ CallOK(t, c) /\ c \in CallType /\ StateType
        /\ UNCHANGED <<cell, lock, optimizer, checkpoint, outcome, writes>>
        /\ lock' \in [Params -> Threads \cup {None}]
    BY DEF Abandon, ParamsInv, StateType
  <1>2. call' = [call EXCEPT ![t] = d]
    BY <1>1 DEF Abandon, StateType
  <1>3. t # Trainer
    BY <1>1 DEF CallOK, CallShape, PhasesOf, CallType, TrainerOps, OtherOps
  <1>4. CallOK(t, d)
    BY <1>1, IdleOK DEF CallType
  <1>5. call'[Trainer] = call[Trainer]
    BY <1>1, <1>2, <1>3 DEF StateType, Threads
  <1>6. OutcomeOK' /\ FailedModeStepChangesNothing'
    BY <1>1, <1>5, OutcomeStays
  <1> QED
    BY <1>1, <1>2, <1>4, <1>6, OwnStep

(* restore_parameters takes its next lock. *)
LEMMA LockInv ==
    ASSUME ParamsInv, NEW t \in Threads, Lock(t)
    PROVE  ParamsInv'
  <1> DEFINE c == call[t]
             left == c.targets \ Held(t)
             p == NextLock(c, left)
             d == IF Cardinality(left) <= 1 THEN [c EXCEPT !.phase = "commit"] ELSE c
  <1>1. /\ c.phase = "lock" /\ CallOK(t, c) /\ c \in CallType /\ StateType
        /\ lock' = lock \/ lock' = [lock EXCEPT ![p] = t]
        /\ UNCHANGED <<cell, optimizer, checkpoint, outcome, writes>>
    BY DEF Lock, ParamsInv, StateType
  <1> HIDE DEF p
  <1>2. lock' \in [Params -> Threads \cup {None}]
    BY <1>1 DEF StateType
  <1>3. call' = [call EXCEPT ![t] = d]
    <2>1. call' = IF Cardinality(left) <= 1 THEN [call EXCEPT ![t].phase = "commit"] ELSE call
      BY DEF Lock
    <2> HIDE DEF left
    <2> QED
      BY <1>1, <2>1 DEF StateType
  <1>4. /\ d \in CallType /\ d.op = c.op /\ d.phase \in {"lock", "commit"} /\ d.todo = c.todo
        /\ d.targets = c.targets /\ d.base = c.base /\ d.stamp = c.stamp /\ d.read = c.read
    <2> HIDE DEF left
    <2> QED
      BY <1>1 DEF CallType
  <1> HIDE DEF d
  <1>5. CallShape(t, d)
    BY <1>1, <1>4 DEF CallOK, CallShape, PhasesOf, Idle, TrainerOps, OtherOps, CallType
  <1>6. CallData(d)
    <2>1. c.op \in {"plain", "mode"} => TrainingOK(d)
      BY <1>1, <1>4 DEF CallOK, CallData, TrainingOK
    <2>2. c.op = "load" => \A q \in d.targets : d.base[q] # None /\ d.base[q].version < MaxU64
      BY <1>1, <1>4 DEF CallOK, CallData
    <2>3. c.op \in Session =>
            /\ \A q \in Params : d.base[q] # None
            /\ \A q \in Params \ Retained(d.op) : d.base[q].version < MaxU64
      BY <1>1, <1>4 DEF CallOK, CallData
    <2> QED
      BY <1>4, <2>1, <2>2, <2>3 DEF CallData
  <1>7. TodoOK(d) /\ Kept(d.base) /\ Kept(d.read)
    BY <1>1, <1>4 DEF CallOK, TodoOK, ReadingPhases
  <1>8. CallOK(t, d)
    BY <1>5, <1>6, <1>7 DEF CallOK
  <1>9. call'[Trainer].op = call[Trainer].op
    BY <1>1, <1>3, <1>4 DEF StateType, Threads
  <1>10. OutcomeOK' /\ FailedModeStepChangesNothing'
    BY <1>1, <1>9, OutcomeStays
  <1> QED
    BY <1>1, <1>2, <1>3, <1>8, <1>10, OwnStep

-----------------------------------------------------------------------------
(* Steps that write *)

(* What a step does to the parameters: none becomes older or changes its value
   under the same version. *)
Grows == \A p \in Params : cell'[p] = cell[p] \/ cell[p].version < cell'[p].version

(* Copies stay copies. *)
LEMMA KeptStays ==
    ASSUME StateType, StateType', Grows, NEW f \in Copied, Kept(f)
    PROVE  Kept(f)'
  <1> SUFFICES ASSUME NEW p \in Params, f[p] # None
               PROVE  f[p].version < cell'[p].version \/ f[p] = cell'[p]
    BY DEF Kept
  <1>1. f[p] \in Snapshot /\ cell[p] \in Snapshot /\ cell'[p] \in Snapshot
    BY DEF Copied, StateType
  <1>2. f[p].version \in Nat /\ cell[p].version \in Nat /\ cell'[p].version \in Nat
    BY <1>1 DEF Snapshot
  <1>3. f[p].version < cell[p].version \/ f[p] = cell[p]
    BY DEF Kept
  <1>4. cell'[p] = cell[p] \/ cell[p].version < cell'[p].version
    BY DEF Grows
  <1> QED
    BY <1>2, <1>3, <1>4

(* The invariant of a call that a step does not touch. *)
LEMMA CallStays ==
    ASSUME StateType, StateType', Grows, checkpoint # None => checkpoint' # None,
           NEW t \in Threads, NEW c, CallOK(t, c),
           c.op \in {"plain", "mode"} => optimizer' = optimizer
    PROVE  CallOK(t, c)'
  <1>1. c \in CallType /\ c.base \in Copied /\ c.read \in Copied
    BY DEF CallOK, CallShape, CallType
  <1>2. Kept(c.base)' /\ Kept(c.read)'
    BY <1>1, KeptStays DEF CallOK
  <1>3. CallShape(t, c)' /\ TodoOK(c)'
    BY DEF CallOK, CallShape, TodoOK
  <1>4. c.op \in {"plain", "mode"} => TrainingOK(c)'
    BY DEF CallOK, CallData, TrainingOK, SchedulerOk
  <1>5. CallData(c)'
    BY <1>4 DEF CallOK, CallData
  <1> QED
    BY <1>2, <1>3, <1>5 DEF CallOK

(* restore_parameters commits only over the values the call started from. *)
LEMMA BaseIsCurrent ==
    ASSUME ParamsInv, NEW t \in Threads, call[t].phase = "commit", call[t].op # "replace",
           CommitOk(call[t]), NEW p \in call[t].targets
    PROVE  /\ p \in Params /\ call[t].base[p] = cell[p]
           /\ Expected(call[t], p) = cell[p].version
           /\ ~(call[t].op \in Session /\ p \in Retained(call[t].op)) => cell[p].version < MaxU64
           /\ call[t].op \in {"plain", "mode"} /\ p \in Trainable =>
                Expected(call[t], p) = optimizer.version[p]
  <1> DEFINE c == call[t]
  <1>1. CallOK(t, c) /\ c \in CallType /\ StateType /\ EntriesOK
    BY DEF ParamsInv, StateType
  <1>2. p \in Params /\ cell[p] \in Snapshot /\ cell[p].version \in Nat
    BY <1>1 DEF CallType, StateType, Snapshot
  <1>3. cell[p].version = Expected(c, p)
    BY DEF CommitOk
  <1>4. c.op \in {"plain", "mode", "load"} \cup Session
    BY <1>1 DEF CallOK, CallShape, PhasesOf, CallType, TrainerOps, OtherOps
  <1>5. c.base[p] # None /\ c.base[p] \in Snapshot /\ c.base[p].version \in Nat
    <2>1. c.base[p] # None
      BY <1>1, <1>2, <1>4 DEF CallOK, CallData, TrainingOK
    <2> QED
      BY <1>1, <1>2, <2>1 DEF CallType, Copied, Snapshot
  <1>6. c.base[p].version < cell[p].version \/ c.base[p] = cell[p]
    BY <1>1, <1>2, <1>5 DEF CallOK, Kept
  <1>7. CASE c.op \in {"plain", "mode"} /\ p \in Trainable
    <2>1. Expected(c, p) = c.stamp[p].version
      BY <1>7 DEF Expected
    <2>2. /\ c.stamp[p].version = optimizer.version[p] /\ c.stamp[p].version < MaxU64
          /\ c.base[p].version >= optimizer.version[p]
      BY <1>1, <1>7 DEF CallOK, CallData, TrainingOK
    <2>3. optimizer.version[p] \in Nat
      BY <1>1, <1>7 DEF StateType, OptimizerType
    <2> QED
      BY <1>2, <1>3, <1>5, <1>6, <1>7, <2>1, <2>2, <2>3
  <1>8. CASE ~(c.op \in {"plain", "mode"} /\ p \in Trainable)
    <2>1. Expected(c, p) = c.base[p].version
      BY <1>8 DEF Expected
    <2>2. ~(c.op \in Session /\ p \in Retained(c.op)) => c.base[p].version < MaxU64
      BY <1>1, <1>2, <1>4, <1>8 DEF CallOK, CallData, TrainingOK, Params
    <2> QED
      BY <1>2, <1>3, <1>5, <1>6, <1>8, <2>1, <2>2
  <1> QED
    BY <1>7, <1>8

(* The end of TrainingCheckpoint::capture and resume. *)
LEMMA AssignInv ==
    ASSUME ParamsInv, NEW t \in Threads, Assign(t)
    PROVE  ParamsInv'
  <1> DEFINE c == call[t]
  <1>1. /\ c.phase = "assign" /\ CallOK(t, c) /\ c \in CallType /\ StateType
        /\ call' = [call EXCEPT ![t] = Idle(c.left)]
        /\ UNCHANGED <<cell, lock, outcome, writes>>
    BY DEF Assign, ParamsInv, StateType
  <1>2. t = Trainer /\ c.op \in {"capture", "resume"}
    BY <1>1 DEF CallOK, CallShape, PhasesOf, CallType, TrainerOps, OtherOps
  <1>3. CallOK(t, Idle(c.left)) /\ Idle(c.left).op = "idle" /\ Idle(c.left) \in CallType
    <2>1. c.left \in Nat
      BY <1>1 DEF CallType
    <2> QED
      BY <2>1, IdleOK DEF CallOK, CallShape
  <1>4. \A u \in Threads : call'[u] = IF u = t THEN Idle(c.left) ELSE call[u]
    BY <1>1 DEF StateType
  <1>5. optimizer' \in OptimizerType /\ EntriesOK'
    <2>1. CASE c.op = "capture"
      BY <1>1, <2>1 DEF Assign, StateType, ParamsInv, EntriesOK
    <2>2. CASE c.op # "capture"
      <3>1. /\ optimizer' = [version |-> [p \in Trainable |-> c.read[p].version],
                             step |-> checkpoint.step, epoch |-> checkpoint.epoch]
            /\ checkpoint # None
        BY <1>1, <1>2, <2>2 DEF Assign, CallOK, CallData
      <3>2. ASSUME NEW p \in Trainable
            PROVE  /\ c.read[p] \in Snapshot /\ cell[p] \in Snapshot
                   /\ c.read[p].version < cell[p].version \/ c.read[p] = cell[p]
        BY <1>1, Orders DEF CallOK, CallData, CallType, Copied, Kept, StateType
      <3>3. \A p \in Trainable : c.read[p].version \in 0 .. MaxU64 /\ cell[p].version \in Nat
        BY <3>2 DEF Snapshot
      <3>4. checkpoint.step \in 0 .. MaxU64 /\ checkpoint.epoch \in 0 .. MaxEpoch
        BY <1>1, <3>1 DEF StateType, Checkpoint
      <3>5. optimizer' \in OptimizerType
        BY <3>1, <3>3, <3>4 DEF OptimizerType
      <3>6. \A p \in Trainable : optimizer'.version[p] = c.read[p].version
        BY <3>1
      <3>7. \A p \in Trainable : c.read[p].version <= cell[p].version
        BY <3>2, <3>3
      <3> QED
        BY <1>1, <3>5, <3>6, <3>7 DEF EntriesOK
    <2> QED
      BY <2>1, <2>2
  <1>6. /\ checkpoint # None => checkpoint' # None
        /\ checkpoint' # None =>
             checkpoint' \in Checkpoint
        /\ CheckpointOK'
    <2>1. CASE c.op = "capture"
      <3>1. checkpoint' = [stamps |-> c.read, step |-> optimizer.step, epoch |-> optimizer.epoch]
        BY <2>1 DEF Assign
      <3>2. checkpoint' \in Checkpoint
        BY <1>1, <3>1 DEF CallType, StateType, Checkpoint, Copied, OptimizerType
      <3>3. checkpoint'.stamps = c.read /\ Kept(c.read)
        BY <1>1, <3>1 DEF CallOK
      <3>4. CheckpointOK'
        BY <1>1, <3>3 DEF CheckpointOK, Kept
      <3>5. checkpoint' # None
        BY SnapshotAssumption, <3>2 DEF Checkpoint, Copied
      <3> QED
        BY <3>2, <3>4, <3>5
    <2>2. CASE c.op # "capture"
      BY <1>1, <2>2 DEF Assign, ParamsInv, StateType, CheckpointOK, Kept
    <2> QED
      BY <2>1, <2>2
  <1>7. StateType'
    BY <1>1, <1>3, <1>5, <1>6 DEF StateType
  <1>8. ASSUME NEW u \in Threads, NEW d, d = call'[u] PROVE CallOK(u, d)'
    <2>1. CallOK(u, d)
      BY <1>3, <1>4, <1>8 DEF ParamsInv
    <2>2. d.op \in {"plain", "mode"} => optimizer' = optimizer
      <3>1. d.op \notin {"plain", "mode"}
        BY <1>2, <1>3, <1>4, <1>8 DEF ParamsInv, CallOK, CallShape, TrainerOps
      <3> QED
        BY <3>1
    <2>3. Grows
      BY <1>1 DEF Grows
    <2> QED
      BY <1>1, <1>6, <1>7, <2>1, <2>2, <2>3, CallStays
  <1>9. (\A u \in Threads : CallOK(u, call[u]))'
    BY <1>8
  <1>10. OutcomeOK' /\ FailedModeStepChangesNothing'
    <2>1. OutcomeOK /\ ~outcome.failed
      BY <1>2 DEF ParamsInv, OutcomeOK
    <2> QED
      BY <1>1, <1>2, <1>3, <1>4, <2>1 DEF OutcomeOK, FailedModeStepChangesNothing
  <1> QED
    BY <1>5, <1>6, <1>7, <1>9, <1>10 DEF ParamsInv

(* restore_parameters, and what the trainers assign after it. *)
LEMMA CommitInv ==
    ASSUME ParamsInv, NEW t \in Threads, Commit(t)
    PROVE  ParamsInv'
  <1> DEFINE c == call[t]
             d == IF CommitOk(c) THEN Idle(c.left) ELSE Failed(c)
  <1>1. /\ c.phase = "commit" /\ CallOK(t, c) /\ c \in CallType /\ StateType
        /\ lock' = [p \in Params |-> IF lock[p] = t THEN None ELSE lock[p]]
        /\ cell' = IF CommitOk(c) THEN Written(c) ELSE cell
        /\ writes' = IF CommitOk(c) THEN writes + 1 ELSE writes
        /\ optimizer' = IF CommitOk(c) /\ t = Trainer THEN Stepped(c) ELSE optimizer
        /\ outcome' = IF t = Trainer /\ ~(CommitOk(c) /\ SchedulerOk)
                      THEN [outcome EXCEPT !.failed = TRUE] ELSE outcome
        /\ checkpoint' = checkpoint
        /\ call' = [call EXCEPT ![t] = d]
    BY DEF Commit, ParamsInv, StateType
  <1>2. /\ c.op \in {"plain", "mode", "load", "replace"} \cup Session
        /\ t = Trainer <=> c.op \in {"plain", "mode"}
    BY <1>1 DEF CallOK, CallShape, PhasesOf, CallType, TrainerOps, OtherOps
  <1>3. CallOK(t, d) /\ d.op \in {c.op, "idle"} /\ (t = Trainer => d.op = "idle") /\ d \in CallType
    <2>1. CallOK(t, Idle(c.left)) /\ Idle(c.left).op = "idle"
      BY <1>1, IdleOK DEF CallType
    <2>2. CallOK(t, Failed(c)) /\ Failed(c).op \in {c.op, "idle"}
      <3>1. c.todo = <<>>
        BY <1>1 DEF CallOK, TodoOK, ReadingPhases
      <3> QED
        BY <1>1, <3>1, FailedOK DEF CallOK
    <2>3. t = Trainer => Failed(c) = Idle(c.left)
      BY <1>2 DEF Failed
    <2>4. d \in {Idle(c.left), Failed(c)}
      OBVIOUS
    <2> HIDE DEF d
    <2> QED
      BY <2>1, <2>2, <2>3, <2>4 DEF CallOK, CallShape
  <1> HIDE DEF d
  <1>4. ASSUME CommitOk(c), NEW p \in c.targets
        PROVE  /\ p \in Params /\ Stored(c, p) \in Snapshot
               /\ Stored(c, p) = cell[p] \/ cell[p].version < Stored(c, p).version
               /\ c.op \in {"plain", "mode"} => Stored(c, p).version = Expected(c, p) + 1
    <2>1. p \in Params /\ cell[p] \in Snapshot /\ cell[p].version \in 0 .. MaxU64 /\ MaxU64 \in Nat
          /\ writes + 1 \in Nat
      BY <1>1, ModuleStateAssumption DEF CallType, StateType, Snapshot
    <2>2. CASE c.op = "replace"
      <3>1. cell[p].version < MaxU64
        BY <1>4, <2>2 DEF CommitOk, Advances
      <3>2. Stored(c, p) = [data |-> writes + 1, version |-> cell[p].version + 1]
        BY <2>2 DEF Stored
      <3> QED
        BY <2>1, <2>2, <3>1, <3>2 DEF Snapshot
    <2>3. CASE c.op # "replace"
      <3>1. /\ c.base[p] = cell[p] /\ Expected(c, p) = cell[p].version
            /\ ~(c.op \in Session /\ p \in Retained(c.op)) => cell[p].version < MaxU64
        BY <1>1, <1>4, <2>3, BaseIsCurrent
      <3>2. CASE c.op \in Session /\ p \in Retained(c.op)
        BY <2>1, <3>1, <3>2 DEF Stored
      <3>3. CASE ~(c.op \in Session /\ p \in Retained(c.op))
        <4>1. Stored(c, p) = [data |-> writes + 1, version |-> Expected(c, p) + 1]
          BY <2>3, <3>3 DEF Stored
        <4> QED
          BY <2>1, <3>1, <3>3, <4>1 DEF Snapshot
      <3> QED
        BY <3>2, <3>3
    <2> QED
      BY <2>2, <2>3
  <1>5. cell' \in [Params -> Snapshot] /\ Grows
    <2>1. CASE CommitOk(c)
      <3>1. /\ cell' = [p \in Params |-> IF p \in c.targets THEN Stored(c, p) ELSE cell[p]]
            /\ \A p \in Params : cell[p] \in Snapshot
        BY <1>1, <2>1 DEF Written, StateType
      <3> HIDE DEF c
      <3> QED
        BY <1>4, <2>1, <3>1 DEF Grows
    <2>2. CASE ~CommitOk(c)
      BY <1>1, <2>2 DEF Grows, StateType
    <2> QED
      BY <2>1, <2>2
  <1>6. CASE CommitOk(c) /\ t = Trainer
    <2>1. /\ TrainingOK(c) /\ Trainable \subseteq c.targets /\ optimizer.step < MaxU64
          /\ c.op = "mode" => SchedulerOk
      BY <1>1, <1>2, <1>6 DEF CallOK, CallData, TrainingOK
    <2>2. optimizer' = Stepped(c)
      BY <1>1, <1>6
    <2>3. ASSUME NEW p \in Trainable
          PROVE  /\ Expected(c, p) + 1 \in 0 .. MaxU64
                 /\ cell'[p].version = Expected(c, p) + 1
      <3>1. p \in c.targets /\ p \in Params
        BY <2>1, Orders
      <3>2. Stored(c, p) \in Snapshot /\ Stored(c, p).version = Expected(c, p) + 1
        BY <1>2, <1>4, <1>6, <3>1
      <3>3. cell'[p] = Stored(c, p)
        BY <1>1, <1>6, <3>1 DEF Written
      <3> QED
        BY <3>2, <3>3 DEF Snapshot
    <2>4. \A p \in Trainable : optimizer'.version[p] = Expected(c, p) + 1
      BY <2>2 DEF Stepped
    <2>5. optimizer.step + 1 \in 0 .. MaxU64 /\ optimizer.epoch \in 0 .. MaxEpoch
          /\ (SchedulerOk => optimizer.epoch + 1 \in 0 .. MaxEpoch)
      BY <1>1, <2>1, ModuleStateAssumption DEF StateType, OptimizerType, SchedulerOk
    <2>6. optimizer' \in OptimizerType
      BY <2>2, <2>3, <2>5 DEF Stepped, OptimizerType
    <2>7. EntriesOK'
      BY <2>3, <2>4 DEF EntriesOK
    <2>8. StateType'
      BY <1>1, <1>3, <1>5, <2>6 DEF StateType
    <2>9. ASSUME NEW u \in Threads, NEW e, e = call'[u] PROVE CallOK(u, e)'
      <3>1. e = IF u = t THEN d ELSE call[u]
        BY <1>1, <2>9 DEF StateType
      <3>2. CallOK(u, e)
        BY <1>3, <3>1 DEF ParamsInv
      <3>3. e.op \notin {"plain", "mode"}
        BY <1>3, <1>6, <3>1 DEF ParamsInv, CallOK, CallShape, TrainerOps
      <3> QED
        BY <1>1, <1>5, <2>8, <3>2, <3>3, CallStays
    <2>10. (\A u \in Threads : CallOK(u, call[u]))'
      BY <2>9
    <2>11. OutcomeOK' /\ FailedModeStepChangesNothing'
      <3>1. OutcomeOK /\ outcome.op = c.op /\ ~outcome.failed
        BY <1>2, <1>6 DEF ParamsInv, OutcomeOK
      <3>2. call'[Trainer].op = "idle"
        BY <1>1, <1>3, <1>6 DEF StateType
      <3>3. CASE SchedulerOk
        <4>1. outcome' = outcome
          BY <1>1, <1>6, <3>3
        <4> QED
          BY <3>1, <3>2, <4>1 DEF OutcomeOK, FailedModeStepChangesNothing
      <3>4. CASE ~SchedulerOk
        <4>1. c.op = "plain" /\ outcome' = [outcome EXCEPT !.failed = TRUE]
          BY <1>1, <1>2, <1>6, <2>1, <3>4
        <4> QED
          BY <3>1, <3>2, <4>1 DEF OutcomeOK, FailedModeStepChangesNothing
      <3> QED
        BY <3>3, <3>4
    <2>12. CheckpointOK'
      <3>1. checkpoint # None => checkpoint.stamps \in Copied /\ Kept(checkpoint.stamps)
        BY <1>1 DEF ParamsInv, CheckpointOK, StateType, Checkpoint, Copied
      <3> QED
        BY <1>1, <1>5, <2>8, <3>1, KeptStays DEF CheckpointOK, Kept
    <2> QED
      BY <2>7, <2>8, <2>10, <2>11, <2>12 DEF ParamsInv
  <1>7. CASE ~(CommitOk(c) /\ t = Trainer)
    <2>1. optimizer' = optimizer
      BY <1>1, <1>7
    <2>2. EntriesOK'
      <3> SUFFICES ASSUME NEW p \in Trainable PROVE optimizer.version[p] <= cell'[p].version
        BY <2>1 DEF EntriesOK
      <3>1. /\ p \in Params /\ optimizer.version[p] <= cell[p].version
            /\ cell'[p] = cell[p] \/ cell[p].version < cell'[p].version
        BY <1>5, Orders DEF ParamsInv, EntriesOK, Grows
      <3>2. optimizer.version[p] \in Nat /\ cell[p].version \in Nat /\ cell'[p].version \in Nat
        BY <1>1, <1>5, <3>1 DEF StateType, OptimizerType, Snapshot
      <3> QED
        BY <3>1, <3>2
    <2>3. StateType'
      BY <1>1, <1>3, <1>5, <2>1 DEF StateType
    <2>4. ASSUME NEW u \in Threads, NEW e, e = call'[u] PROVE CallOK(u, e)'
      <3>1. e = IF u = t THEN d ELSE call[u]
        BY <1>1, <2>4 DEF StateType
      <3>2. CallOK(u, e)
        BY <1>3, <3>1 DEF ParamsInv
      <3> QED
        BY <1>1, <1>5, <2>1, <2>3, <3>2, CallStays
    <2>5. (\A u \in Threads : CallOK(u, call[u]))'
      BY <2>4
    <2>6. OutcomeOK' /\ FailedModeStepChangesNothing'
      <3>1. call'[t] = d /\ \A u \in Threads : u # t => call'[u] = call[u]
        BY <1>1 DEF StateType
      <3>2. CASE t = Trainer
        <4>1. OutcomeOK /\ outcome.before = optimizer
          BY <1>2, <3>2 DEF ParamsInv, OutcomeOK
        <4>2. outcome' = [outcome EXCEPT !.failed = TRUE]
          BY <1>1, <1>7, <3>2
        <4> QED
          BY <1>3, <2>1, <3>1, <3>2, <4>1, <4>2 DEF OutcomeOK, FailedModeStepChangesNothing
      <3>3. CASE t # Trainer
        <4>1. outcome' = outcome /\ call'[Trainer] = call[Trainer]
          BY <1>1, <3>1, <3>3 DEF Threads
        <4> QED
          BY <2>1, <4>1, OutcomeStays
      <3> QED
        BY <3>2, <3>3
    <2>7. CheckpointOK'
      <3>1. checkpoint # None => checkpoint.stamps \in Copied /\ Kept(checkpoint.stamps)
        BY <1>1 DEF ParamsInv, CheckpointOK, StateType, Checkpoint, Copied
      <3> QED
        BY <1>1, <1>5, <2>3, <3>1, KeptStays DEF CheckpointOK, Kept
    <2> QED
      BY <2>2, <2>3, <2>5, <2>6, <2>7 DEF ParamsInv
  <1> QED
    BY <1>6, <1>7

-----------------------------------------------------------------------------
(* Theorems *)

(* Every step preserves the invariant. *)
LEMMA NextInv == ParamsInv /\ [Next]_vars => ParamsInv'
  <1> SUFFICES ASSUME ParamsInv, [Next]_vars PROVE ParamsInv'
    OBVIOUS
  <1>1. CASE UNCHANGED vars
    BY <1>1 DEF vars, ParamsInv, StateType, CallOK, CallShape, CallData, TrainingOK, TodoOK, Kept,
                SchedulerOk, OutcomeOK, CheckpointOK, EntriesOK, FailedModeStepChangesNothing
  <1>2. CASE Next
    <2>1. PICK t \in Threads : Begin(t) \/ Finish(t) \/ Abandon(t) \/ Continue(t)
      BY <1>2 DEF Next
    <2> QED
      BY <2>1, BeginInv, ReadInv, FinishInv, AbandonInv, LockInv, CommitInv, AssignInv DEF Continue
  <1> QED
    BY <1>1, <1>2

(* Every reachable state satisfies the invariant: each copy that a call or the
   checkpoint holds is older than its parameter or equal to it, the optimizer's
   entries are never ahead of the parameters, and the optimizer does not move
   while its owner's call runs. *)
THEOREM ParamsInvariance == Spec => []ParamsInv
  BY InitInv, NextInv, PTL DEF Spec

(* Parameter versions never wrap, and a copy with the current version of a
   parameter is its current value, however long it was held. *)
THEOREM VersionsNameValues == Spec => []VersionNamesValue
  <1>1. ParamsInv => VersionNamesValue
    <2> SUFFICES ASSUME ParamsInv PROVE VersionNamesValue
      OBVIOUS
    <2>1. StateType /\ CheckpointOK
      BY DEF ParamsInv
    <2>2. ASSUME NEW t \in Threads
          PROVE  /\ call[t].base \in Copied /\ call[t].read \in Copied
                 /\ Kept(call[t].base) /\ Kept(call[t].read)
      BY DEF ParamsInv, CallOK, CallShape, CallType
    <2>3. TypeOK
      BY <2>1, <2>2 DEF TypeOK, StateType, Copied, OptimizerType
    <2>4. ASSUME NEW p \in Params, NEW s \in Copies(p) \ {None}, s.version = cell[p].version
          PROVE  s.data = cell[p].data
      <3>1. PICK f : f \in Copied /\ Kept(f) /\ s = f[p]
        BY <2>1, <2>2, <2>4 DEF Copies, StateType, Checkpoint, Copied, CheckpointOK
      <3>2. s.version < cell[p].version \/ s = cell[p]
        BY <2>4, <3>1 DEF Kept
      <3>3. cell[p].version \in Nat
        BY <2>1 DEF StateType, Snapshot
      <3> QED
        BY <2>4, <3>2, <3>3
    <2> QED
      BY <2>3, <2>4 DEF VersionNamesValue
  <1> QED
    BY <1>1, ParamsInvariance, PTL

(* A training step of the mode-aware trainer, a capture or a resume that fails
   has changed neither the optimizer nor the scheduler. *)
THEOREM FailedModeStepsChangeNothing == Spec => []FailedModeStepChangesNothing
  <1>1. ParamsInv => FailedModeStepChangesNothing
    BY DEF ParamsInv
  <1> QED
    BY <1>1, ParamsInvariance, PTL

(* A training step, a load or a publication that commits replaces exactly the
   values it started from. *)
THEOREM UpdatesAreNotLost == Spec => NoLostUpdate
  <1> DEFINE Replaces == \A t \in Threads :
         /\ call[t].phase = "commit" /\ call[t].op # "replace"
         /\ call'[t].phase # "commit" /\ writes' # writes
         => \A p \in call[t].targets : call[t].base[p] = cell[p]
  <1>1. ParamsInv /\ [Next]_vars => [Replaces]_vars
    <2> SUFFICES ASSUME ParamsInv, Next, NEW t \in Threads,
                        call[t].phase = "commit", call[t].op # "replace",
                        call'[t].phase # "commit", writes' # writes,
                        NEW p \in call[t].targets
                 PROVE  call[t].base[p] = cell[p]
      BY DEF vars
    <2>1. PICK u \in Threads : Begin(u) \/ Finish(u) \/ Abandon(u) \/ Continue(u)
      BY DEF Next
    <2>2. Commit(u)
      BY <2>1 DEF Begin, Finish, Abandon, Continue, Read, Lock, Assign
    <2>3. u = t /\ CommitOk(call[t])
      <3>1. call \in [Threads -> CallType]
        BY DEF ParamsInv, StateType
      <3> QED
        BY <2>2, <3>1 DEF Commit
    <2> QED
      BY <2>3, BaseIsCurrent
  <1> QED
    BY <1>1, ParamsInvariance, PTL DEF Spec, NoLostUpdate
=============================================================================
