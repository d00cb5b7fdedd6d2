------------------------------ MODULE Serving ------------------------------
(***************************************************************************)
(* The continuous Llama scheduler of src/src/models/transformer/serving/.   *)
(* Requests wait in arrival order; a step takes the first unfinished ones,  *)
(* looks their prompts up in a cache of prefixes, runs one batch, adds its  *)
(* states to the cache and selects one token each.  All of a step is staged *)
(* on copies and committed at its end, so that a failure changes nothing.   *)
(*                                                                         *)
(* A snapshot of keys and values is the sequence of the positions that were *)
(* computed, each with the model that computed it, and the logits of its    *)
(* last position are a function of it.  Sampling is deterministic: Sample   *)
(* stands for greedy selection or for a request's own tape.  The cache is a *)
(* sequence in the order of last use, which is what its clock is for.       *)
(* Left out: tokenizers, chat templates, statistics, the 64-bit limits of   *)
(* identifiers, and collisions of the 64-bit model fingerprints.            *)
(***************************************************************************)
EXTENDS Naturals, Sequences, SequencesExt, FiniteSets, FiniteSetsExt

CONSTANTS
    Model,           \* models, by their identity
    Token,           \* the vocabulary
    Prompt,          \* prompts that are submitted
    MaxNew,          \* the limits of new tokens that are asked for
    Stop,            \* the stop tokens
    Sample(_),       \* the token selected after a snapshot's last position
    MaxContext,
    BatchSize, MaxEntries, MaxBytes,  \* LlamaServingConfig
    MaxRequests,     \* bound: requests submitted
    MaxFailures,     \* bound: steps that fail
    MaxChanges,      \* bound: invalidations and changes of model
    None

ASSUME ConfigAssumption ==
    /\ BatchSize \in Nat \ {0}
    /\ MaxEntries \in Nat /\ MaxBytes \in Nat /\ MaxContext \in Nat
ASSUME TokenAssumption ==
    /\ \A prompt \in Prompt : prompt \in Seq(Token)
    /\ MaxNew \subseteq Nat
    /\ \A n \in 1 .. MaxContext : \A snapshot \in [1 .. n -> Model \X Token] :
         Sample(snapshot) \in Token /\ None # snapshot
    /\ \A n \in 1 .. MaxContext : \A key \in Model \X [1 .. n -> Token] : None # key
    /\ None \notin Token
ASSUME BoundAssumption ==
    MaxRequests \in Nat /\ MaxFailures \in Nat /\ MaxChanges \in Nat

VARIABLES
    model,      \* the model the scheduler is bound to
    next,       \* next_id
    order,      \* the requests in arrival order
    requests,   \* their states
    prefixes,   \* the prefix cache: identity, generation, bytes, entries
    failures, changes

vars == <<model, next, order, requests, prefixes, failures, changes>>

(* retain and filter: the elements that are in a set, in their order. *)
Retain(seq, S) ==
    FoldLeft(LAMBDA kept, x : IF x \in S THEN Append(kept, x) ELSE kept, <<>>, seq)

(* The positions that model m computes for a sequence of tokens. *)
Computed(m, tokens) == [i \in DOMAIN tokens |-> <<m, tokens[i]>>]

EmptyCache(m, generation) ==
    [identity |-> m, generation |-> generation, bytes |-> 0, entries |-> <<>>]

Init ==
    /\ model \in Model
    /\ next = 0
    /\ order = <<>>
    /\ requests = [id \in {} |-> None]
    /\ prefixes = EmptyCache(model, 0)
    /\ failures = 0
    /\ changes = 0

-----------------------------------------------------------------------------
(* PrefixCache *)

Key(e) == <<e.model, e.tokens>>
ButKeys(entries, gone) ==
    Retain(entries, {e \in ToSet(entries) : Key(e) \notin gone})
EntryBytes(entries) == MapThenSumSet(LAMBDA i : entries[i].bytes, DOMAIN entries)
Saturating(a, b) == IF a > b THEN a - b ELSE 0

(* release: without effect when the entry is gone. *)
LetGo(e) == [e EXCEPT !.references = Saturating(@, 1)]
Release(pre, key) ==
    [pre EXCEPT !.entries =
        [i \in DOMAIN @ |-> IF Key(@[i]) = key THEN LetGo(@[i]) ELSE @[i]]]

Current(pre, e) == e.model = pre.identity /\ e.generation = pre.generation

(* longest, the removal of entries of another model or generation first. *)
Live(pre) ==
    LET live == Retain(pre.entries, {e \in ToSet(pre.entries) : Current(pre, e)})
    IN  [pre EXCEPT !.entries = live,
                    !.bytes = Saturating(@, EntryBytes(pre.entries) - EntryBytes(live))]

(* longest, the search: the longest entry that the prompt starts with. *)
Hits(pre, prompt) ==
    {i \in DOMAIN pre.entries : pre.entries[i].model = pre.identity
                                /\ IsPrefix(pre.entries[i].tokens, prompt)}
Best(pre, prompt) ==
    CHOOSE i \in Hits(pre, prompt) : \A j \in Hits(pre, prompt) :
        Len(pre.entries[j].tokens) <= Len(pre.entries[i].tokens)

(* The entry found is now the last one used and is held by one more request. *)
Touch(pre, i) ==
    LET e == pre.entries[i]
        held == [e EXCEPT !.references = @ + 1]
    IN  [pre EXCEPT !.entries = Append(ButKeys(@, {Key(e)}), held)]

(* insert, the eviction: entries that nobody holds go in the order of their
   last use until the new one fits. *)
Unheld(entries) == {i \in DOMAIN entries : entries[i].references = 0}
Without(entries, n) ==
    LET gone == {Key(entries[i]) : i \in
                   {j \in Unheld(entries) : Cardinality(Unheld(entries) \cap (1 .. j)) <= n}}
    IN  ButKeys(entries, gone)
Fits(entries, bytes) ==
    Len(entries) < MaxEntries /\ EntryBytes(entries) + bytes <= MaxBytes
Evictions(entries, bytes) ==
    LET enough == {n \in 0 .. Cardinality(Unheld(entries)) : Fits(Without(entries, n), bytes)}
    IN  IF enough = {} THEN Cardinality(Unheld(entries)) ELSE Min(enough)

(* insert: an entry of the same key is replaced, whoever holds it.  When too
   much is held nothing is added, but what was removed is gone. *)
Insert(pre, tokens, snapshot, bytes) ==
    IF MaxEntries = 0 \/ bytes > MaxBytes THEN pre
    ELSE LET new == [model |-> pre.identity, tokens |-> tokens, snapshot |-> snapshot,
                     bytes |-> bytes, generation |-> pre.generation, references |-> 0]
             others == ButKeys(pre.entries, {Key(new)})
             left == Without(others, Evictions(others, bytes))
             used == pre.bytes - (EntryBytes(pre.entries) - EntryBytes(left))
         IN  IF Fits(left, bytes)
             THEN [pre EXCEPT !.entries = Append(left, new), !.bytes = used + bytes]
             ELSE [pre EXCEPT !.entries = left, !.bytes = used]

-----------------------------------------------------------------------------
(* Submission, removal and model changes *)

(* Mutant: only the prompt is compared with the context. *)
PromptFits(prompt, max) == prompt # <<>> /\ Len(prompt) <= MaxContext

ValidRequest(prompt, max) == prompt # <<>> /\ Len(prompt) + max <= MaxContext

SubmitIds(prompt, max) ==
    /\ next < MaxRequests
    /\ ValidRequest(prompt, max)
    /\ next' = next + 1
    /\ order' = Append(order, next)
    /\ requests' = [id \in DOMAIN requests \cup {next} |->
           IF id # next THEN requests[id]
           ELSE [prompt |-> prompt, max |-> max, by |-> model,
                 status |-> IF max = 0 THEN "complete" ELSE "queued",
                 generated |-> <<>>, stopped |-> FALSE, snapshot |-> None,
                 reference |-> None, logits |-> None, pending |-> None]]
    /\ UNCHANGED <<model, prefixes, failures, changes>>

(* Mutant: the request goes and its hold on the cache stays. *)
KeepHold(r) == prefixes

Unhold(r) == IF r.reference # None THEN Release(prefixes, r.reference) ELSE prefixes

RemoveRequest(id) ==
    /\ id \in DOMAIN requests
    /\ requests' = [i \in DOMAIN requests \ {id} |-> requests[i]]
    /\ prefixes' = Unhold(requests[id])
    /\ order' = Retain(order, DOMAIN requests \ {id})
    /\ UNCHANGED <<model, next, failures, changes>>

Invalidated(m) == EmptyCache(m, prefixes.generation + 1)

InvalidatePrefixCache ==
    /\ changes < MaxChanges
    /\ changes' = changes + 1
    /\ prefixes' = Invalidated(prefixes.identity)
    /\ requests' = [id \in DOMAIN requests |-> [requests[id] EXCEPT !.reference = None]]
    /\ UNCHANGED <<model, next, order, failures>>

Pending == {id \in DOMAIN requests : requests[id].status # "complete"}

(* Mutant: the cache is kept when the model changes. *)
KeepCache(m) == prefixes

Rebound(m) == IF m = model THEN prefixes ELSE Invalidated(m)

Rebind(m) ==
    /\ Pending = {}
    /\ changes < MaxChanges
    /\ changes' = changes + 1
    /\ model' = m
    /\ prefixes' = Rebound(m)
    /\ UNCHANGED <<next, order, requests, failures>>

-----------------------------------------------------------------------------
(* step *)

(* Mutant: only requests that have not started are taken. *)
QueuedOnly ==
    LET open == Retain(order, {id \in Pending : requests[id].status = "queued"})
    IN  SubSeq(open, 1, Min({BatchSize, Len(open)}))

Selected ==
    LET open == Retain(order, Pending)
    IN  SubSeq(open, 1, Min({BatchSize, Len(open)}))

(* The staged copies: requests, cache, and the chunk each row computes. *)
Staged == [requests |-> requests, prefixes |-> prefixes,
           chunks |-> [id \in DOMAIN requests |-> <<>>]]

(* A request continues with its last token, or starts with its prompt: the
   whole of it, what a cached prefix leaves of it, or nothing when all of it
   is cached and its logits are too. *)
Begin(st, id) ==
    LET r == [st.requests[id] EXCEPT !.status = "running"]
        pre == Live(st.prefixes)
        hit == Hits(pre, r.prompt) # {}
        i == Best(pre, r.prompt)
        found == pre.entries[i].snapshot
        whole == Len(found) = Len(r.prompt)
    IN  CASE r.pending # None ->
               [st EXCEPT !.requests[id] = [r EXCEPT !.pending = None],
                          !.chunks[id] = <<r.pending>>]
          [] r.pending = None /\ ~hit ->
               [st EXCEPT !.requests[id] = r, !.prefixes = pre, !.chunks[id] = r.prompt]
          [] r.pending = None /\ hit ->
               [st EXCEPT !.requests[id] = [r EXCEPT !.reference = Key(pre.entries[i]),
                                                     !.snapshot = found,
                                                     !.logits = IF whole THEN found ELSE None],
                          !.prefixes = Touch(pre, i),
                          !.chunks[id] = SubSeq(r.prompt, Len(found) + 1, Len(r.prompt))]

(* Mutant: the state is cached under the prompt alone. *)
PromptOnly(r, snapshot) == r.prompt

(* cached_tokens *)
CachedTokens(r, snapshot) ==
    SubSeq(r.prompt \o r.generated, 1, Min({Len(snapshot), Len(r.prompt \o r.generated)}))

(* The batch has computed a row: its state is kept and offered to the cache. *)
Compute(st, id) ==
    LET r == st.requests[id]
        chunk == st.chunks[id]
        past == IF r.snapshot = None THEN <<>> ELSE r.snapshot
        snapshot == past \o Computed(model, chunk)
        pre == IF r.reference = None THEN st.prefixes ELSE Release(st.prefixes, r.reference)
        bytes == Len(snapshot) + Len(chunk)
    IN  IF chunk = <<>> THEN st
        ELSE [st EXCEPT !.requests[id] = [r EXCEPT !.reference = None, !.snapshot = snapshot,
                                                   !.logits = snapshot],
                        !.prefixes = Insert(pre, CachedTokens(r, snapshot), snapshot, bytes)]

(* A token is selected from the last logits; a request that is done lets go
   of its state and its hold on the cache. *)
Emit(st, id) ==
    LET r == st.requests[id]
        token == Sample(r.logits)
        generated == Append(r.generated, token)
        stopped == token \in Stop
        done == stopped \/ Len(generated) = r.max
        held == done /\ r.reference # None
        advanced == [r EXCEPT !.generated = generated, !.stopped = stopped, !.logits = None,
                              !.status = IF done THEN "complete" ELSE @,
                              !.snapshot = IF done THEN None ELSE @,
                              !.pending = IF done THEN None ELSE token,
                              !.reference = IF done THEN None ELSE @]
    IN  [st EXCEPT !.requests[id] = advanced,
                   !.prefixes = IF held THEN Release(@, r.reference) ELSE @]

Stepped ==
    FoldLeft(Emit, FoldLeft(Compute, FoldLeft(Begin, Staged, Selected), Selected), Selected)

Step ==
    /\ Selected # <<>>
    /\ requests' = Stepped.requests
    /\ prefixes' = Stepped.prefixes
    /\ UNCHANGED <<model, next, order, failures, changes>>

(* The batch, the selection or the decoding fails: the copies are dropped. *)
StepFails ==
    /\ Selected # <<>>
    /\ failures < MaxFailures
    /\ failures' = failures + 1
    /\ UNCHANGED <<model, next, order, requests, prefixes, changes>>

Next ==
    \/ \E prompt \in Prompt, max \in MaxNew : SubmitIds(prompt, max)
    \/ \E id \in 0 .. MaxRequests - 1 : RemoveRequest(id)
    \/ InvalidatePrefixCache
    \/ \E m \in Model : Rebind(m)
    \/ Step
    \/ StepFails

Spec == Init /\ [][Next]_vars

-----------------------------------------------------------------------------
(* Properties *)

(* What a request generates does not depend on its neighbours in a batch, on
   hits, evictions and invalidations, on failed steps, or on models bound
   before: each token is the one its own model selects after the prompt and
   the tokens before it, and generation ends at a stop token or the limit. *)
OutputIsIndependent ==
    \A id \in DOMAIN requests :
        LET r == requests[id]
        IN  /\ \A i \in DOMAIN r.generated :
                 /\ r.generated[i] = Sample(Computed(r.by, r.prompt \o SubSeq(r.generated, 1, i - 1)))
                 /\ r.generated[i] \in Stop => i = Len(r.generated) /\ r.status = "complete"
            /\ r.status = "complete" =>
                 r.stopped \/ Len(r.generated) = r.max

(* Every entry of the prefix cache holds the state of exactly the tokens in
   its key, computed by the model the cache is for, and the keys differ. *)
CacheIsTrue ==
    /\ \A i \in DOMAIN prefixes.entries :
         LET e == prefixes.entries[i]
         IN  Current(prefixes, e) /\ e.snapshot = Computed(model, e.tokens)
    /\ Cardinality({Key(prefixes.entries[i]) : i \in DOMAIN prefixes.entries})
         = Len(prefixes.entries)

Holders(key) == {id \in DOMAIN requests : requests[id].reference = key}

(* No entry is kept from eviction by requests that are gone: its count never
   exceeds the unfinished requests that started from it. *)
HeldByRequests ==
    \A i \in DOMAIN prefixes.entries :
        prefixes.entries[i].references <= Cardinality(Holders(Key(prefixes.entries[i])))

(* The byte count of the cache is that of its entries and stays, like their
   number, within the configured limit through replacement and eviction. *)
CacheIsBounded ==
    /\ prefixes.bytes = EntryBytes(prefixes.entries)
    /\ prefixes.bytes <= MaxBytes
    /\ Len(prefixes.entries) <= MaxEntries

(* The cache keeps its limits, and nothing in it for requests that are gone. *)
CacheIsHeld == HeldByRequests /\ CacheIsBounded

(* Between steps the state of an unfinished request covers all its tokens but
   the one it continues with, and another step always fits the context. *)
NextStepFits ==
    \A id \in Pending :
        LET r == requests[id]
            tokens == r.prompt \o r.generated
        IN  /\ r.pending # None =>
                 r.snapshot = Computed(r.by, SubSeq(tokens, 1, Len(tokens) - 1))
            /\ r.pending # None <=> r.status = "running"
            /\ Len(tokens) < MaxContext

(* Requests are served in arrival order: while an earlier one waits for its
   first token no later one has any. *)
NoOvertaking ==
    \A i, j \in DOMAIN order : i < j /\ requests[order[i]].status = "queued" =>
        requests[order[j]].generated = <<>>

(* Every unfinished request can be taken into the next batch, and they are
   taken in turn. *)
ScheduleIsSound == NextStepFits /\ NoOvertaking

(* As long as the caller steps and steps do not fail forever, every request
   completes, unless it is removed. *)
EveryRequestCompletes ==
    \A id \in 0 .. MaxRequests - 1 : id \in Pending ~> id \notin Pending

=============================================================================
