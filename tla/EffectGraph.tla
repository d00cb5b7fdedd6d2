---------------------------- MODULE EffectGraph -----------------------------
(***************************************************************************)
(* EffectGraph (src/src/effects/mod.rs): the builder of effect plans and   *)
(* its own transactional executor.  A StateHandle names a buffer at a      *)
(* version; callers keep every handle they were given, so assign may be    *)
(* called with any state that ever existed.                                *)
(***************************************************************************)
EXTENDS EffectPlan

CONSTANTS
    MaxAssignments    \* bound on the assignments of a graph

ASSUME EffectGraphAssumption == MaxAssignments \in Nat

VARIABLES
    initial,       \* EffectGraph.initial
    states,        \* EffectGraph.states: the current version of each buffer
    assignments    \* EffectGraph.assignments

graphVars == <<initial, states, assignments>>

Handles == {State(b, v) : b \in DOMAIN states, v \in 0..MaxAssignments}

\* The caller's value for b.  Assignments only copy elements, so contents that
\* differ in every element stand for all contents.
InitialContent(b) == [c \in Cells |-> <<b, c>>]

Insert(b) ==
    /\ b \notin DOMAIN states
    /\ initial' = [c \in DOMAIN initial \cup {b} |-> IF c = b THEN InitialContent(b) ELSE initial[c]]
    /\ states' = [c \in DOMAIN states \cup {b} |-> IF c = b THEN 0 ELSE states[c]]
    /\ UNCHANGED assignments

\* The target must be current; the source may be any version that existed.
AssignOk(target, source) ==
    /\ target.version = states[target.buffer]
    /\ source.version <= states[source.buffer]

\* assign, assign_view, assign_affine_view and static_index_assign.
Assign(target, source, region) ==
    LET next == State(target.buffer, states[target.buffer] + 1)
        id == Len(assignments)
    IN  /\ Len(assignments) < MaxAssignments
        /\ AssignOk(target, source)
        /\ assignments' = Append(assignments,
             [id |-> id, target |-> target, source |-> source, write |-> next,
              region |-> region, after |-> IF id = 0 THEN {} ELSE {id - 1}])
        /\ states' = [states EXCEPT ![target.buffer] = next.version]
        /\ UNCHANGED initial

\* plan().
Plan == assignments

\* execute(): the final contents and versions, or a refusal.
Execute ==
    LET base == [s \in {State(b, 0) : b \in DOMAIN initial} |-> initial[s.buffer]]
        staged == Stage(Staging(base), assignments, NoSources)
    IN  IF Validate(Plan) /\ staged.ok
        THEN [ok |-> TRUE,
              values |-> [b \in DOMAIN initial |->
                 IF b \in Written(Plan) THEN staged.snapshots[FinalState(Plan, b)]
                 ELSE initial[b]],
              states |-> [b \in DOMAIN initial |->
                 IF b \in Written(Plan) THEN FinalState(Plan, b).version ELSE 0]]
        ELSE [ok |-> FALSE]

GraphInit ==
    /\ initial = [b \in {} |-> None]
    /\ states = [b \in {} |-> None]
    /\ assignments = <<>>

GraphNext ==
    \/ \E b \in Buffers : Insert(b)
    \/ \E target, source \in Handles, region \in SUBSET Cells :
         Assign(target, source, region)

GraphSpec == GraphInit /\ [][GraphNext]_graphVars

-----------------------------------------------------------------------------
(* Properties.                                                             *)

\* What a caller expects of a list of assignments: one store that is updated
\* in place, in order, where a source is either the contents the graph began
\* with or those the store holds now.
InPlace(store, step) ==
    [store EXCEPT ![step.write.buffer] =
       Assigned(@, IF step.source.version = 0 THEN initial[step.source.buffer]
                   ELSE store[step.source.buffer], step.region)]

\* execute() computes from its versioned snapshots what in-place execution in
\* source order would, and ends in the states the handles promised: no read
\* sees a write it should not, overlapping and repeated targets included.
ExecuteIsInPlace ==
    Execute.ok =>
      /\ Execute.values = FoldLeft(InPlace, initial, assignments)
      /\ Execute.states = states

\* A graph whose assignments all succeeded can be executed: source handles are
\* frozen states that later writes do not invalidate.
AcceptedGraphExecutes == Execute.ok
=============================================================================
