----------------------------- MODULE Collective -----------------------------
(***************************************************************************)
(* Collective plans (src/src/collective.rs): the planner, the dense         *)
(* executor that follows a plan in memory, and the CUDA executor of sum     *)
(* all-reduce, which overwrites the callers' buffers in place, may fail at  *)
(* every driver call, and rolls back.                                       *)
(*                                                                         *)
(* A value is the sequence of the contributions that were added up, in the  *)
(* order of the additions, so that two sums that round differently are      *)
(* different values.  Ranks and cells count from 1.  A fault is a driver    *)
(* call that returns an error; a kernel whose launch succeeded may run      *)
(* after the call that waits for it has failed.                             *)
(***************************************************************************)
EXTENDS Naturals, Sequences, SequencesExt, Nothing

CONSTANTS
    Requests,    \* the requests that are made: [kind, root, lengths]
    MaxCalls,    \* bound: calls of the CUDA executor
    MaxFaults   \* bound: driver calls that fail

Kind == {"broadcast", "gather", "scatter", "reduce"}

ASSUME CollectiveAssumption ==
    /\ \A r \in Requests : /\ r.kind \in Kind /\ r.lengths \in Seq(Nat)
                           /\ r.lengths # <<>> /\ r.root \in Nat
    /\ MaxCalls \in Nat /\ MaxFaults \in Nat
    /\ None \notin {"done", "refused", "failed"}

-----------------------------------------------------------------------------
(* The planner *)

Size(r) == Len(r.lengths)
Ranks(r) == [i \in 1 .. Size(r) |-> i]
Others(r, d) == RemoveAt(Ranks(r), d)

(* validate *)
Valid(r) ==
    /\ r.kind # "gather" => \A i \in 1 .. Size(r) : r.lengths[i] = r.lengths[1]
    /\ r.kind = "broadcast" => r.root \in 1 .. Size(r)

Total(r) == IF r.kind = "gather" THEN FoldLeft(+, 0, r.lengths) ELSE r.lengths[1]

(* Mutant: the remainder goes to the last chunk, the starts ignore it. *)
UnevenChunk(count, n, i) ==
    [start |-> (i - 1) * (count \div n),
     len |-> count \div n + (IF i <= count % n THEN 1 ELSE 0)]

(* chunks: quotient and remainder, the remainder spread over the first. *)
Chunk(count, n, i) ==
    [start |-> (i - 1) * (count \div n) + (IF i - 1 < count % n THEN i - 1 ELSE count % n),
     len |-> count \div n + (IF i <= count % n THEN 1 ELSE 0)]

Action(op, src, dst, range, deps) ==
    [op |-> op, src |-> src, dst |-> dst, range |-> range, deps |-> deps]

(* The actions Emit makes for each element, given the number made so far. *)
Each(base, seq, Emit(_, _)) ==
    FoldLeft(LAMBDA made, i : made \o Emit(i, base + Len(made)), <<>>, seq)

(* A rank's part of a broadcast or a gather: through the inbox, unless the
   source is the rank itself. *)
Delivered(src, dst, range, base) ==
    IF src = dst
    THEN <<Action("copy", src, dst, range, {})>>
    ELSE <<Action("transfer", src, dst, range, {}),
           Action("copy", src, dst, range, {base + 1})>>

(* A rank's reduction: its own contribution, then the others in order, each
   added after its transfer and after the addition before it. *)
Reduced(r, dst, range, base) ==
    <<Action("copy", dst, dst, range, {})>> \o
    Each(base + 1, Others(r, dst), LAMBDA src, last :
        <<Action("transfer", src, dst, range, {}),
          Action("sum", src, dst, range, {last, last + 1})>>)

Before(r, src) == FoldLeft(+, 0, SubSeq(r.lengths, 1, src - 1))

(* CollectivePlanner::plan *)
Plan(r) ==
    LET whole == [start |-> 0, len |-> Total(r)] IN
    CASE r.kind = "broadcast" ->
           Each(0, <<r.root>> \o Others(r, r.root), LAMBDA dst, base :
               Delivered(r.root, dst, whole, base))
      [] r.kind = "gather" ->
           Each(0, Ranks(r), LAMBDA src, first : Each(first, Ranks(r), LAMBDA dst, base :
               Delivered(src, dst, [start |-> Before(r, src), len |-> r.lengths[src]], base)))
      [] r.kind = "scatter" ->
           Each(0, Ranks(r), LAMBDA dst, base :
               Reduced(r, dst, Chunk(Total(r), Size(r), dst), base))
      [] r.kind = "reduce" ->
           Each(0, Ranks(r), LAMBDA dst, base : Reduced(r, dst, whole, base))

-----------------------------------------------------------------------------
(* InMemoryCollectiveExecutor *)

Add(a, b) == a \o b
Cells(range) == range.start + 1 .. range.start + range.len

(* source_base: cells of a gather are numbered over all inputs. *)
SourceBase(r, src) == IF r.kind = "gather" THEN Before(r, src) ELSE 0

(* A buffer after the cells of a range have been set. *)
Overwrite(buffer, range, New(_)) ==
    [k \in DOMAIN buffer |-> IF k \in Cells(range) THEN New(k) ELSE buffer[k]]

Apply(r, inputs, st, a) ==
    LET sent(k) == inputs[a.src][k - SourceBase(r, a.src)]
        staged(k) == st.inbox[a.dst][k]
    IN  CASE a.op = "transfer" -> [st EXCEPT !.inbox[a.dst] = Overwrite(@, a.range, sent)]
          [] a.op = "copy" /\ a.src = a.dst -> [st EXCEPT !.output[a.dst] = Overwrite(@, a.range, sent)]
          [] a.op = "copy" /\ a.src # a.dst -> [st EXCEPT !.output[a.dst] = Overwrite(@, a.range, staged)]
          [] a.op = "sum" -> [st EXCEPT !.output[a.dst] =
                 Overwrite(@, a.range, LAMBDA k : Add(st.output[a.dst][k], staged(k)))]

(* The workspace of every rank is as long as the longest input or output. *)
Dense(r, inputs) ==
    LET blank == [i \in 1 .. Size(r) |-> [k \in 1 .. Total(r) |-> None]]
        final == FoldLeft(LAMBDA st, a : Apply(r, inputs, st, a),
                          [inbox |-> blank, output |-> blank], Plan(r))
        kept(d) == IF r.kind = "scatter" THEN Chunk(Total(r), Size(r), d)
                                         ELSE [start |-> 0, len |-> Total(r)]
    IN  [d \in 1 .. Size(r) |->
            SubSeq(final.output[d], kept(d).start + 1, kept(d).start + kept(d).len)]

-----------------------------------------------------------------------------
(* CudaCollectiveGroup::all_reduce_sum *)

VARIABLES
    req,        \* the request whose plan is executed
    phase,      \* "idle", "snapshot", "act", "sync", "restore", or "lost"
    at,         \* the next rank or action of the phase
    input,      \* the callers' leases, by rank
    original,   \* the snapshots of one call
    scratch,    \* the staging leases of one call
    inFlight,    \* by rank, an action whose kernel or copy is still on the stream
    before,     \* history: input when the call began
    outcome,    \* what the last call returned: "done", "refused", "failed", or None
    calls, faults

buffers == <<input, original, scratch>>
collectiveVars == <<req, phase, at, buffers, inFlight, before, outcome, calls, faults>>

Contributions(r) == [i \in 1 .. Size(r) |-> [k \in 1 .. r.lengths[i] |-> <<<<i, k>>>>]]
Blank(r) == [i \in 1 .. Size(r) |-> [k \in 1 .. Total(r) |-> None]]

CollectiveInit ==
    /\ req \in Requests
    /\ phase = "idle" /\ at = 1
    /\ input = Contributions(req) /\ before = input
    /\ original = <<>> /\ scratch = <<>>
    /\ inFlight = [i \in 1 .. Size(req) |-> None]
    /\ outcome = None /\ calls = 0 /\ faults = 0

Fault == faults < MaxFaults /\ faults' = faults + 1
Sound == UNCHANGED faults
ReturnResult(result) == phase' = "idle" /\ at' = 1 /\ outcome' = result

Proceed(last, next) ==
    /\ phase' = IF at = last THEN next ELSE phase
    /\ at' = IF at = last THEN 1 ELSE at + 1
    /\ UNCHANGED outcome

Admitted == req.kind = "reduce" /\ Valid(req) /\ Size(req) <= 4

(* The checks, the peers, the collection of deferred blocks and the
   allocations, all before anything is written. *)
BeginCollective ==
    /\ phase = "idle" /\ calls < MaxCalls
    /\ calls' = calls + 1
    /\ before' = input
    /\ \/ ~Admitted /\ Sound /\ ReturnResult("refused")
       \/ Admitted /\ (Total(req) = 0 \/ Size(req) = 1) /\ Sound /\ ReturnResult("done")
       \/ /\ Admitted /\ Total(req) > 0 /\ Size(req) > 1
          /\ \/ Fault /\ ReturnResult("refused")
             \/ Sound /\ phase' = "snapshot" /\ at' = 1 /\ outcome' = None
    /\ original' = Blank(req) /\ scratch' = Blank(req)
    /\ UNCHANGED <<req, input, inFlight>>

SnapshotInputs ==
    /\ phase = "snapshot"
    /\ \/ /\ Sound
          /\ original' = [original EXCEPT ![at] = input[at]]
          /\ Proceed(Size(req), "act")
       \/ Fault /\ ReturnResult("refused") /\ UNCHANGED original
    /\ UNCHANGED <<req, input, scratch, inFlight, before, calls>>

(* Transfers and first copies read the snapshots. *)
Source == original

(* What an action leaves in the callers' buffers and in the staging leases. *)
Performed(a) == Apply(req, Source, [inbox |-> scratch, output |-> input], a)

(* Every dependency of the next action has completed. *)
DepsDone(a) == a.deps \subseteq 1 .. at - 1

Writes(a) == input' = Performed(a).output /\ scratch' = Performed(a).inbox

(* An action is performed and waited for, or its driver call fails: with or
   without its effect, or while its work is still on the stream. *)
Act ==
    /\ phase = "act"
    /\ LET a == Plan(req)[at] IN
       \/ /\ Sound /\ DepsDone(a)
          /\ Writes(a)
          /\ IF at = Len(Plan(req)) THEN ReturnResult("done") ELSE Proceed(0, "act")
          /\ UNCHANGED inFlight
       \/ /\ Fault \/ (Sound /\ ~DepsDone(a))
          /\ phase' = "sync" /\ at' = 1
          /\ \/ DepsDone(a) /\ Writes(a) /\ UNCHANGED inFlight
             \/ UNCHANGED <<input, scratch, inFlight>>
             \/ /\ a.op # "copy" /\ DepsDone(a)
                /\ inFlight' = [inFlight EXCEPT ![a.dst] = a]
                /\ UNCHANGED <<input, scratch>>
          /\ UNCHANGED outcome
    /\ UNCHANGED <<req, original, before, calls>>

(* The device runs work that nobody has waited for, or loses it. *)
Land(d) ==
    /\ inFlight[d] # None
    /\ inFlight' = [inFlight EXCEPT ![d] = None]
    /\ \/ Writes(inFlight[d])
       \/ UNCHANGED <<input, scratch>>
    /\ UNCHANGED <<req, phase, at, original, before, outcome, calls, faults>>

(* Mutant: the streams are not waited for before the roll-back. *)
SynchronizeNothing ==
    /\ phase = "sync"
    /\ Sound
    /\ Proceed(Size(req), "restore")
    /\ UNCHANGED <<req, buffers, inFlight, before, calls>>

(* synchronize_before_rollback: stream after stream. *)
SynchronizeBeforeRollback ==
    /\ phase = "sync"
    /\ \/ Sound /\ inFlight[at] = None /\ Proceed(Size(req), "restore")
       \/ Fault /\ phase' = "lost" /\ UNCHANGED <<at, outcome>>
    /\ UNCHANGED <<req, buffers, inFlight, before, calls>>

(* Every rank's buffer is restored from its snapshot, then the error of the
   action is returned. *)
Restore ==
    /\ phase = "restore"
    /\ \/ /\ Sound
          /\ input' = [input EXCEPT ![at] = original[at]]
          /\ IF at = Size(req) THEN ReturnResult("failed") ELSE Proceed(0, "restore")
       \/ Fault /\ phase' = "lost" /\ UNCHANGED <<input, at, outcome>>
    /\ UNCHANGED <<req, original, scratch, inFlight, before, calls>>

CollectiveNext ==
    \/ BeginCollective
    \/ SnapshotInputs
    \/ Act
    \/ \E d \in DOMAIN inFlight : Land(d)
    \/ SynchronizeBeforeRollback
    \/ Restore

CollectiveSpec == CollectiveInit /\ [][CollectiveNext]_collectiveVars

-----------------------------------------------------------------------------
(* Properties *)

(* Types; the next rank or action exists. *)
CollectiveTypeOK ==
    /\ phase \in {"idle", "snapshot", "act", "sync", "restore", "lost"}
    /\ outcome \in {None, "done", "refused", "failed"}
    /\ calls \in 0 .. MaxCalls /\ faults \in 0 .. MaxFaults
    /\ phase = "act" => at \in 1 .. Len(Plan(req))
    /\ phase \in {"snapshot", "sync", "restore"} => at \in 1 .. Size(req)

(* Every contribution of a cell, once and in some order. *)
IsSum(value, r, k) ==
    Len(value) = Size(r) /\ ToSet(value) = {<<i, k>> : i \in 1 .. Size(r)}

(* A plan followed by the dense executor delivers what its kind says, for
   empty and uneven partitions too: the root's input, all the inputs one
   after the other, the sum, or the sum cut into the ranks' chunks. *)
DenseIsReference ==
    Valid(req) =>
        LET given == Contributions(req)
            out == Dense(req, given)
            sum(vector) == /\ Len(vector) = Total(req)
                           /\ \A k \in 1 .. Total(req) : IsSum(vector[k], req, k)
        IN  CASE req.kind = "broadcast" -> \A d \in DOMAIN out : out[d] = given[req.root]
              [] req.kind = "gather" -> \A d \in DOMAIN out : out[d] = FlattenSeq(given)
              [] req.kind = "scatter" -> sum(FlattenSeq(out))
              [] req.kind = "reduce" -> \A d \in DOMAIN out : sum(out[d])

(* A call that succeeds has overwritten every rank's buffer with what the
   dense executor computes from the buffers as they were when it began, to
   the order of the additions, whatever failed in earlier calls. *)
AgreesWithDense ==
    phase = "idle" /\ outcome = "done" => input = Dense(req, before)

(* A call that returns the error of an action, or is refused, leaves every
   rank's buffer as it was, and nothing on a stream that could still change
   it: a retry sees the original contributions. *)
FailureIsRestored ==
    phase = "idle" /\ outcome \in {"failed", "refused"} =>
        /\ input = before
        /\ \A d \in DOMAIN inFlight : inFlight[d] = None

(* An all-reduce on the devices is all or nothing: the dense result in every
   buffer, or the buffers as they were. *)
AllOrNothing == CollectiveTypeOK /\ AgreesWithDense /\ FailureIsRestored

=============================================================================
