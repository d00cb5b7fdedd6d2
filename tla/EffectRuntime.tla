--------------------------- MODULE EffectRuntime ----------------------------
(***************************************************************************)
(* EffectRuntime (src/src/effects/runtime.rs), the owner of persistent     *)
(* buffers, with the replay cursors that drive it                          *)
(* (src/src/engine/mixed_capture/mod.rs, recurrent_transaction.rs).        *)
(*                                                                         *)
(* Each buffer has a version and a leased slot with two banks in a private *)
(* HostSlotPool; leases are never released and views never outlive a call, *)
(* so of the pool only the banks and the poisoned lock remain (HostBuffer  *)
(* models the rest).  Three writers compete for the buffers: effect plans, *)
(* batches, and recurrent replays.  A replay names the versions it expects *)
(* in a cursor that callers own, may clone, and may keep after somebody    *)
(* else moved the buffers.                                                 *)
(***************************************************************************)
EXTENDS EffectPlan

CONSTANTS
    Persistent,    \* buffers that callers register
    Initial,       \* contents that callers register, by buffer
    Inputs,        \* contents that pure prefixes compute
    Plans,         \* plans that callers submit
    Programs,      \* recurrent captures: [plan, pure, inputs, retained]
    Cursors,       \* cursors that callers hold
    MaxVersion,    \* bound on versions
    Dirty          \* contents a failed stage closure leaves behind

ASSUME EffectRuntimeAssumption ==
    /\ MaxVersion \in Nat
    /\ Persistent \subseteq Buffers
    /\ Initial \in [Persistent -> Content] /\ Inputs \subseteq Content
    /\ Plans \subseteq Seq(Steps)
    /\ \A p \in Programs : p.plan \in Seq(Steps)
    /\ None \notin [version : Nat, content : Content]

VARIABLES
    version,    \* PersistentStateSlot.state.version of the registered buffers
    bank,       \* contents of the two banks of their slots
    active,     \* index of the visible bank
    poisoned,   \* the pool lock is poisoned
    cursor      \* MixedReplayCursor of every cursor in use, and as a history
                \* variable what its last replay left in the frontier buffers

runtimeVars == <<version, bank, active, poisoned, cursor>>

Registered == DOMAIN version
Visible(b) == bank[b][active[b]]

\* The state of every registered buffer, as snapshot() reads it.
Live == [b \in Registered |-> [version |-> version[b], content |-> Visible(b)]]

-----------------------------------------------------------------------------
(* register and register_initial_snapshots: all or nothing, and only       *)
(* buffers that are not registered yet.                                    *)

RegisterInitialSnapshots(values) ==
    /\ ~poisoned /\ DOMAIN values \cap Registered = {}
    /\ version' = [b \in Registered \cup DOMAIN values |->
                     IF b \in DOMAIN values THEN values[b].version ELSE version[b]]
    /\ bank' = [b \in Registered \cup DOMAIN values |->
                  IF b \in DOMAIN values THEN <<values[b].content, None>> ELSE bank[b]]
    /\ active' = [b \in Registered \cup DOMAIN values |->
                    IF b \in DOMAIN values THEN 1 ELSE active[b]]
    /\ UNCHANGED <<poisoned, cursor>>

Register(b, content) ==
    RegisterInitialSnapshots([c \in {b} |-> [version |-> 0, content |-> content]])

-----------------------------------------------------------------------------
(* Publication of a transaction's outcome.                                 *)

\* HostSlotPool::commit: fill the inactive banks, then flip them.
PublishBanks(written, live) ==
    /\ bank' = [b \in Registered |->
                  IF b \in written THEN [bank[b] EXCEPT ![3 - active[b]] = live[b].content]
                  ELSE bank[b]]
    /\ active' = [b \in Registered |-> IF b \in written THEN 3 - active[b] ELSE active[b]]

Publish(written, live) ==
    /\ \A b \in written : live[b].version <= MaxVersion
    /\ PublishBanks(written, live)
    /\ version' = [b \in Registered |-> live[b].version]
    /\ UNCHANGED poisoned

ExecutePlan(plan) ==
    LET outcome == PlanOutcome(Live, plan, NoSources)
    IN  /\ ~poisoned /\ outcome.ok
        /\ Publish(Written(plan), outcome.live)
        /\ UNCHANGED cursor

BatchWritten(batch) == UNION {Written(batch[i].plan) : i \in DOMAIN batch}

ExecuteBatch(batch) ==
    LET outcome == BatchOutcome(Live, batch)
    IN  /\ ~poisoned /\ outcome.ok
        /\ Publish(BatchWritten(batch), outcome.live)
        /\ UNCHANGED cursor

-----------------------------------------------------------------------------
(* Cursors and recurrent replay.                                           *)

SetCursor(c, value) ==
    cursor' = [d \in DOMAIN cursor \cup {c} |-> IF d = c THEN value ELSE cursor[d]]

\* A cursor that has replayed: frontier and contents after the replay.
Advance(c, frontier, content) ==
    SetCursor(c, [program |-> cursor[c].program, frontier |-> frontier, left |-> content])

\* recurrent_initial_frontier: what the pure prefix reads and what the plan
\* touches, except the placeholder sources that the prefix overrides.
Frontier(program) ==
    program.inputs \cup Required([plan |-> program.plan, sources |-> [id \in program.pure |-> None]])

\* MixedReplayCursor::resume: any frontier at or above version zero.  With
\* all versions zero it is MixedReplayCursor::new and initial_recurrent_cursor.
ResumeCursor(c, program, frontier) ==
    /\ SetCursor(c, [program |-> program, frontier |-> frontier, left |-> None])
    /\ UNCHANGED <<version, bank, active, poisoned>>

CloneCursor(c, d) ==
    /\ SetCursor(d, cursor[c])
    /\ UNCHANGED <<version, bank, active, poisoned>>

\* recurrent_rebase_starts: a placeholder source starts at version 0, and one
\* that is also a frontier buffer at another version is refused.
Placeholders(program) ==
    {program.plan[i].source : i \in {j \in DOMAIN program.plan : program.plan[j].id \in program.pure}}

RebaseStartsOk(program, frontier) ==
    \A s \in Placeholders(program) :
      s.version = 0 /\ (s.buffer \in DOMAIN frontier => frontier[s.buffer] = 0)

RebaseStarts(program, frontier) ==
    [b \in DOMAIN frontier \cup {s.buffer : s \in Placeholders(program)} |->
       IF b \in DOMAIN frontier THEN frontier[b] ELSE 0]

\* recurrent_advanced_frontier.
AdvancedFrontier(program, frontier) ==
    LET steps == RebasedSteps([plan |-> program.plan, starts |-> RebaseStarts(program, frontier)])
    IN  [b \in DOMAIN frontier |->
           IF b \in Written(steps) THEN FinalState(steps, b).version ELSE frontier[b]]

\* Mutant of Current: a cursor behind the live versions is admitted.
NotAhead(frontier) ==
    \A b \in DOMAIN frontier : b \in Registered /\ frontier[b] <= version[b]

\* Every state a frontier names must be the live one.
Current(frontier) ==
    \A b \in DOMAIN frontier : b \in Registered /\ version[b] = frontier[b]

ReplayOutcome(program, frontier, sources) ==
    IF Current(frontier) /\ RebaseStartsOk(program, frontier)
    THEN BatchOutcome(Live, <<[plan |-> program.plan,
                               starts |-> RebaseStarts(program, frontier),
                               sources |-> sources]>>)
    ELSE Refused(Live)

\* replay_recurrent_checked_impl: the pure prefix computes contents for the
\* placeholder sources, the plan commits as a batch of one entry, and only
\* then does the cursor move.
ReplayRecurrent(c, sources) ==
    LET program == cursor[c].program
        outcome == ReplayOutcome(program, cursor[c].frontier, sources)
    IN  /\ ~poisoned /\ outcome.ok
        /\ Publish(Written(program.plan), outcome.live)
        /\ Advance(c, AdvancedFrontier(program, cursor[c].frontier),
                   [b \in Frontier(program) |-> outcome.live[b].content])

\* Mutant of Native: a STORE into a part of a buffer counts as a replacement.
NativeInPart(program) ==
    /\ Written(program.plan) = Frontier(program)
    /\ \A i \in DOMAIN program.plan :
         program.plan[i].id \in program.pure /\ program.plan[i].write.version = 1

\* from_capture_and_frontier: every frontier buffer is
\* replaced as a whole, once, by a value of the pure prefix.
Native(program) ==
    /\ Written(program.plan) = Frontier(program)
    /\ \A i \in DOMAIN program.plan :
         /\ program.plan[i].id \in program.pure
         /\ program.plan[i].region = Cells
         /\ program.plan[i].write.version = 1

NativeAdmitted(c) ==
    ~poisoned /\ Native(cursor[c].program) /\ Current(cursor[c].frontier)

NextFrontier(frontier) == [b \in DOMAIN frontier |-> frontier[b] + 1]

\* What the store holds after a native replay.
NativeOutcome(frontier, successor) ==
    [b \in Registered |->
       IF b \in DOMAIN frontier
       THEN [version |-> NextFrontier(frontier)[b], content |-> successor[b]]
       ELSE Live[b]]

\* replay_recurrent_selected_checked_impl over the prepared transaction: the
\* stage closure writes every replaced bank, the pool flips them, a retained
\* bank stays, all versions move, then the cursor.
NativeReplay(c, successor) ==
    LET program == cursor[c].program
        outcome == NativeOutcome(cursor[c].frontier, successor)
    IN  /\ NativeAdmitted(c)
        /\ \A b \in Frontier(program) : outcome[b].version <= MaxVersion
        /\ PublishBanks(Frontier(program) \ program.retained, outcome)
        /\ version' = [b \in Registered |-> outcome[b].version]
        /\ Advance(c, NextFrontier(cursor[c].frontier), successor)
        /\ UNCHANGED poisoned

\* Mutant of Spoil: a failing stage closure was handed the active bank.
SpoilActive(b) == [bank[b] EXCEPT ![active[b]] = Dirty]

Spoil(b) == [bank[b] EXCEPT ![3 - active[b]] = Dirty]

\* The stage closure fails after writing some of the replaced banks, or panics
\* under the pool lock.
NativeReplayFails(c, written, panics) ==
    /\ NativeAdmitted(c)
    /\ written \subseteq Frontier(cursor[c].program) \ cursor[c].program.retained
    /\ bank' = [b \in Registered |-> IF b \in written THEN Spoil(b) ELSE bank[b]]
    /\ poisoned' = panics
    /\ UNCHANGED <<version, active, cursor>>

-----------------------------------------------------------------------------
RuntimeInit ==
    /\ version = [b \in {} |-> 0]
    /\ bank = [b \in {} |-> None]
    /\ active = [b \in {} |-> 1]
    /\ poisoned = FALSE
    /\ cursor = [c \in {} |-> None]

\* Starts that callers give a plan: any versions.
StartsOf(plan) == [Named([plan |-> plan]) -> 0..MaxVersion]

Entries == UNION {[plan : {plan}, starts : StartsOf(plan), sources : {NoSources}] : plan \in Plans}

\* What the pure prefix may compute: a retained buffer is copied from itself.
Successors(program) ==
    {[b \in Frontier(program) |->
        IF b \in program.retained \cap Registered THEN Visible(b) ELSE values[b]] :
       values \in [Frontier(program) -> Inputs]}

SourcesOf(program, successor) ==
    LET producers(id) == CHOOSE i \in DOMAIN program.plan : program.plan[i].id = id
    IN  [id \in program.pure |-> successor[program.plan[producers(id)].write.buffer]]

RuntimeNext ==
    \/ \E b \in Persistent : Register(b, Initial[b])
    \/ \E buffers \in SUBSET Persistent : \E versions \in [buffers -> 0..MaxVersion] :
         /\ buffers # {}
         /\ RegisterInitialSnapshots(
              [b \in buffers |-> [version |-> versions[b], content |-> Initial[b]]])
    \/ \E plan \in Plans : ExecutePlan(plan)
    \/ \E e, f \in Entries : ExecuteBatch(<<e, f>>)
    \/ \E c \in Cursors, program \in Programs :
         \E frontier \in [Frontier(program) -> 0..MaxVersion] : ResumeCursor(c, program, frontier)
    \/ \E c \in DOMAIN cursor, d \in Cursors : CloneCursor(c, d)
    \/ \E c \in DOMAIN cursor : \E successor \in Successors(cursor[c].program) :
         \/ ReplayRecurrent(c, SourcesOf(cursor[c].program, successor))
         \/ NativeReplay(c, successor)
    \/ \E c \in DOMAIN cursor, written \in SUBSET Persistent, panics \in BOOLEAN :
         NativeReplayFails(c, written, panics)

RuntimeSpec == RuntimeInit /\ [][RuntimeNext]_runtimeVars

-----------------------------------------------------------------------------
(* Properties.                                                             *)

RuntimeTypeOK ==
    /\ Registered \subseteq Buffers
    /\ version \in [Registered -> 0..MaxVersion]
    /\ bank \in [Registered -> [1..2 -> Content \cup {None, Dirty}]]
    /\ active \in [Registered -> 1..2]
    /\ poisoned \in BOOLEAN
    /\ DOMAIN cursor \subseteq Cursors
    /\ \A c \in DOMAIN cursor :
         /\ cursor[c].program \in Programs
         /\ cursor[c].frontier \in [Frontier(cursor[c].program) -> 0..MaxVersion]
         /\ cursor[c].left \in [Frontier(cursor[c].program) -> Content] \cup {None}

\* What callers can read is a versioned store: no plan, batch or replay, and
\* none that fails or panics half way, changes a buffer without its version or
\* shows contents that were not committed.
Store == INSTANCE VersionedStore WITH
           Contents <- Content,
           Unregistered <- None,
           store <- [b \in Buffers |-> IF b \in Registered THEN Live[b] ELSE None]

ImplementsStore == Store!Spec

\* A cursor continues only from what its own last replay (or that of the
\* cursor it was cloned from) left: a replay is never admitted onto contents
\* that a plan, a batch, another cursor or a failed replay put in their place.
AdmittedCursorSeesItsOwnWrites ==
    \A c \in DOMAIN cursor :
      cursor[c].left # None /\ Current(cursor[c].frontier) =>
        \A b \in DOMAIN cursor[c].left : Visible(b) = cursor[c].left[b]

\* What a capture must be for its replays to go on: a valid plan whose
\* placeholder sources are read at version zero and are not among the buffers
\* that the replay carries along.
CaptureOk(program) ==
    /\ program.plan # <<>> /\ Validate(program.plan)
    /\ \A s \in Placeholders(program) : s.version = 0 /\ s.buffer \notin Frontier(program)

\* A cursor that names the live versions can be replayed: no sequence of
\* replays, failures and other writers' commits makes a program refuse a
\* frontier that is current.  It holds of programs that are CaptureOk; the code
\* also accepts captures with a placeholder among their frontier buffers, which
\* the interpreter refuses from the second replay on.
ReplayNeverTrapped ==
    \A c \in DOMAIN cursor :
      ~poisoned /\ Current(cursor[c].frontier) =>
        \A successor \in Successors(cursor[c].program) :
          ReplayOutcome(cursor[c].program, cursor[c].frontier,
                        SourcesOf(cursor[c].program, successor)).ok

\* Wherever the native path admits a replay it leaves the buffers, versions
\* and cursor that the interpreter leaves for the same computed values, the
\* banks it keeps instead of copying included.  It holds of programs that are
\* CaptureOk; for the others the native path, which never looks at the
\* placeholder, goes on where the interpreter refuses.
NativeIsInterpreted ==
    \A c \in DOMAIN cursor : NativeAdmitted(c) =>
      LET program == cursor[c].program
          frontier == cursor[c].frontier
      IN  /\ NextFrontier(frontier) = AdvancedFrontier(program, frontier)
          /\ \A successor \in Successors(program) :
               ReplayOutcome(program, frontier, SourcesOf(program, successor))
                 = [ok |-> TRUE, live |-> NativeOutcome(frontier, successor)]

\* A batch is its entries in sequence: accepted exactly when each entry alone
\* would be accepted on what the ones before it leave, with the same result.
BatchIsSequential ==
    \A e, f \in Entries :
      LET first == BatchOutcome(Live, <<e>>)
          second == BatchOutcome(first.live, <<f>>)
          both == BatchOutcome(Live, <<e, f>>)
      IN  /\ both.ok = (first.ok /\ second.ok)
          /\ both.ok => both.live = second.live

\* Executing a plan directly is executing it as a batch that starts at the
\* version-zero states its text names.
PlanIsBatchAtZero ==
    \A plan \in Plans :
      PlanOutcome(Live, plan, NoSources) =
        BatchOutcome(Live, <<[plan |-> plan, starts |-> [b \in Named([plan |-> plan]) |-> 0],
                              sources |-> NoSources]>>)
=============================================================================
