-------------------------- MODULE StreamedSession --------------------------
(***************************************************************************)
(* A session of the streamed FlashMoE engine (src/streamed_engine.cpp) and *)
(* the slot cache of expert weights it computes from                       *)
(* (ComputeReadySlotCache, src/decode_harness.cpp), driven by the requests *)
(* of StreamedService.  The service answers one connection at a time, so a *)
(* step is one token: its attention row and the experts of all its layers. *)
(* An exception leaves run() and ends the service.                         *)
(*                                                                         *)
(* Routes come from the trace, as in the command line tool, or from the    *)
(* router, which may pick any of RouterRoutes.  The same requests drive    *)
(* the caches of ExpertCaches, the simulator of the policies.              *)
(***************************************************************************)
EXTENDS ExpertCaches

CONSTANTS
    Traces,         \* trace files: lines of [layer, experts]; <<>> is the router
    RouterRoutes,   \* what the router may answer for a layer
    Layers,         \* spec.num_layers, at least 1
    ExpertBytes,    \* experts of the manifest -> size once ready to compute
    LayerOf,        \* expert -> layer
    Capacity,       \* hot cache budget
    KvTokens,       \* tokens the KV budget holds
    AttnWindow,     \* 32: rows the attention looks back over
    Cuda,           \* use_cuda_expert_backend
    Prompts,        \* encoded prompts, never empty: at least token 0
    Tokens,         \* what may be sampled
    MaxTokens,      \* values of max_tokens
    MaxRequests,    \* bound on the requests
    MaxFaults       \* bound on unreadable expert files

ASSUME SessionAssumption ==
    /\ Layers \in Nat \ {0} /\ Capacity \in Nat /\ KvTokens \in Nat /\ AttnWindow \in Nat \ {0}
    /\ Prompts \subseteq Seq(Nat) \ {<<>>} /\ Tokens \subseteq Nat /\ MaxTokens \subseteq Nat
    /\ ExpertBytes \in [DOMAIN ExpertBytes -> Nat] /\ IsFiniteSet(DOMAIN ExpertBytes)

ASSUME RoutesAssumption ==
    /\ RouterRoutes \subseteq Seq(DOMAIN LayerOf)
    /\ Traces \subseteq Seq([layer : Nat, experts : Seq(DOMAIN LayerOf)])

VARIABLES
    doing,          \* "idle", "prefill", "decode" or "ended"
    trace, rewind,  \* the trace the engine was loaded with, and rewind_trace
    open,           \* the session exists
    todo,           \* tokens left to prefill
    want,           \* tokens left to generate after it
    kv,             \* KvCacheState: per row the token evaluated into it
    position,       \* decode_state_.position
    last,           \* dense_state_.last_token_id
    tokenIds,       \* decode_state_.token_ids
    counts,         \* prompt_tokens_, prefill_tokens_, generated_tokens_
    finishReason,   \* finish_reason of the last answer
    cursor,         \* trace_cursor_
    cache,          \* slots, clock, bytes used and statistics of the slot cache
    materialized,   \* expert -> "bytes", "ready" or "device"
    device,         \* experts whose device buffers are allocated
    produced,       \* history: how each token of tokenIds came about, from which rows
    accesses,       \* history: the requests for experts
    requests, faults

fvars == <<doing, trace, rewind, open, todo, want, kv, position, last, tokenIds, counts, finishReason,
          cursor, cache, materialized, device, produced, accesses, requests, faults>>

Unwritten == -1

-----------------------------------------------------------------------------
(* The slot cache: a sequence of [id, bytes, touch] in order of promotion. *)
NoSlots == [slots |-> <<>>, clock |-> 0, used |-> 0, hits |-> 0, promotions |-> 0, evictions |-> 0]
Slots(c) == {c.slots[i].id : i \in DOMAIN c.slots}
SlotOf(c, id) == CHOOSE i \in DOMAIN c.slots : c.slots[i].id = id
Oldest(c) == CHOOSE i \in DOMAIN c.slots : \A j \in DOMAIN c.slots : c.slots[i].touch <= c.slots[j].touch

\* mutant: an eviction is not counted
DropUncounted(c) ==
    [c EXCEPT !.slots = RemoveAt(@, Oldest(c)), !.used = @ - c.slots[Oldest(c)].bytes]

DropOldest(c) ==
    [c EXCEPT !.slots = RemoveAt(@, Oldest(c)),
              !.used = @ - c.slots[Oldest(c)].bytes,
              !.evictions = @ + 1]

(* Slots are dropped until the expert fits or none is left: one larger than
   the whole budget is promoted all the same.                              *)
MakeRoom(c, bytes) ==
    LET after[k \in 0..Len(c.slots)] == IF k = 0 THEN c ELSE DropOldest(after[k - 1])
        enough == {k \in DOMAIN after : after[k].used + bytes <= Capacity}
    IN  after[Min(enough \cup {Len(c.slots)})]

\* mutant: an access of a resident expert does not refresh it
PromoteOnly(c, id) ==
    IF id \in Slots(c) THEN [c EXCEPT !.clock = @ + 1, !.hits = @ + 1]
    ELSE LET room == MakeRoom(c, ExpertBytes[id])
         IN  [room EXCEPT !.clock = @ + 1,
                          !.slots = Append(@, [id |-> id, bytes |-> ExpertBytes[id], touch |-> c.clock + 1]),
                          !.used = @ + ExpertBytes[id], !.promotions = @ + 1]

TouchOrPromote(c, id) ==
    LET now == c.clock + 1
        room == MakeRoom(c, ExpertBytes[id])
    IN  IF id \in Slots(c)
        THEN [c EXCEPT !.clock = now, !.slots[SlotOf(c, id)].touch = now, !.hits = @ + 1]
        ELSE [room EXCEPT
                 !.clock = now,
                 !.slots = Append(@, [id |-> id, bytes |-> ExpertBytes[id], touch |-> now]),
                 !.used = @ + ExpertBytes[id],
                 !.promotions = @ + 1]

\* mutant: evicted experts keep their weights
KeepEvicted(e, gone) == e

(* release_evicted_materialized frees host and device copies. *)
ReleaseEvicted(e, gone) ==
    [e EXCEPT !.materialized = [id \in DOMAIN @ \ gone |-> @[id]], !.device = @ \ gone]

(* An expert that runs on the device is uploaded, once, and its host copy
   dropped; elsewhere it is unpacked where it is.                          *)
Computed(e, id) ==
    [e EXCEPT !.materialized = With(@, id, IF Cuda THEN "device" ELSE "ready"),
              !.device = IF Cuda THEN @ \cup {id} ELSE @]

(* Materialise on a miss, promote, release what was evicted, compute. *)
UseExpert(e, id) ==
    LET loaded == IF id \in Slots(e.cache) \/ id \in DOMAIN e.materialized THEN e.materialized
                  ELSE With(e.materialized, id, "bytes")
        promoted == TouchOrPromote(e.cache, id)
        kept == ReleaseEvicted([e EXCEPT !.materialized = loaded],
                               Slots(e.cache) \ Slots(promoted))
    IN  Computed([kept EXCEPT !.cache = promoted, !.accesses = Append(@, id)], id)

-----------------------------------------------------------------------------
(* The trace: execute_step takes the next route, from the start again when
   the trace is over and rewinding is on; otherwise the layer has no expert. *)
\* mutant: the cursor is not brought back to the start
NextRouteStuck(c) == IF c < Len(trace) THEN <<c + 1, trace[c + 1].experts>> ELSE <<c, <<>>>>

NextRoute(c) ==
    IF c < Len(trace) THEN <<c + 1, trace[c + 1].experts>>
    ELSE IF rewind THEN <<1, trace[1].experts>>
    ELSE <<c, <<>>>>

(* The routes of the layers of one token, from the trace or what the router
   answers layer by layer, in the order the layers are computed.            *)
InOrder(answers) ==
    LET upTo[l \in 0..Layers] == IF l = 0 THEN <<>> ELSE upTo[l - 1] \o answers[l]
    IN  upTo[Layers]
Cursors ==
    LET at[l \in 0..Layers] == IF l = 0 THEN cursor ELSE NextRoute(at[l - 1])[1]
    IN  at
TraceRoutes ==
    [at |-> Cursors[Layers],
     experts |-> InOrder([l \in 1..Layers |-> NextRoute(Cursors[l - 1])[2]])]

RoutesOfToken ==
    IF trace # <<>> THEN {TraceRoutes}
    ELSE {[at |-> cursor, experts |-> InOrder(answers)] : answers \in [1..Layers -> RouterRoutes]}

(* execute_step for all layers: experts that the manifest lacks are skipped. *)
ExecuteLayers(routes) ==
    LET ids == routes.experts
        done[k \in 0..Len(ids)] ==
            IF k = 0
            THEN [cache |-> cache, materialized |-> materialized, device |-> device, accesses |-> accesses]
            ELSE IF ids[k] \in DOMAIN ExpertBytes THEN UseExpert(done[k - 1], ids[k]) ELSE done[k - 1]
        after == done[Len(ids)]
    IN  /\ cursor' = routes.at
        /\ cache' = after.cache
        /\ materialized' = after.materialized
        /\ device' = after.device
        /\ accesses' = after.accesses

-----------------------------------------------------------------------------
(* A line without experts is dropped when the file is read. *)
Loaded(lines) ==
    LET kept[i \in 0..Len(lines)] ==
            IF i = 0 THEN <<>>
            ELSE IF lines[i].experts = <<>> THEN kept[i - 1] ELSE Append(kept[i - 1], lines[i])
    IN  kept[Len(lines)]

NoCounts == [prompt |-> 0, prefill |-> 0, generated |-> 0]

FInit ==
    /\ doing = "idle" /\ open = FALSE
    /\ trace \in {Loaded(lines) : lines \in Traces} /\ rewind \in IF trace = <<>> THEN {TRUE} ELSE BOOLEAN
    /\ todo = <<>> /\ want = 0
    /\ kv = <<>> /\ position = 0 /\ last = 0 /\ tokenIds = <<>>
    /\ counts = NoCounts /\ finishReason = "none" /\ cursor = 0
    /\ cache = NoSlots
    /\ materialized = <<>> /\ device = {}
    /\ produced = <<>> /\ accesses = <<>>
    /\ requests = 0 /\ faults = 0

Unchanged ==
    UNCHANGED <<trace, rewind, kv, position, last, tokenIds, cursor, cache, materialized, device,
                produced, accesses, faults>>

(* POST /v1/sessions (max = 0) and a completion without session_id: the
   constructor prefills the prompt.                                        *)
CreateSession ==
    /\ doing = "idle" /\ ~open /\ requests < MaxRequests
    /\ \E prompt \in Prompts, max \in MaxTokens \cup {0} :
           /\ todo' = prompt /\ want' = max
           /\ counts' = [counts EXCEPT !.prompt = Len(prompt)]
    /\ open' = TRUE /\ doing' = "prefill" /\ finishReason' = "none"
    /\ requests' = requests + 1
    /\ Unchanged

(* A completion of an existing session appends the rendered messages to what
   it already evaluated; without a prompt it only goes on generating.      *)
ContinueSession ==
    /\ doing = "idle" /\ open /\ requests < MaxRequests
    /\ \E prompt \in Prompts \cup {<<>>}, max \in MaxTokens :
           /\ todo' = prompt /\ want' = max
           /\ counts' = [counts EXCEPT !.prompt = @ + Len(prompt)]
    /\ doing' = "prefill" /\ finishReason' = "none"
    /\ requests' = requests + 1
    /\ UNCHANGED open
    /\ Unchanged

(* kv_cache_append makes a row; the attention writes row "at", if there is
   one, and reads the rows below it.                                       *)
KvFull == Len(kv) >= KvTokens
\* mutant: the row is written one past the position
WritesNextRow(token) ==
    kv' = [i \in 1..(Len(kv) + 1) |->
              IF i = position + 2 THEN token ELSE IF i <= Len(kv) THEN kv[i] ELSE Unwritten]
Evaluate(token) ==
    kv' = [i \in 1..(Len(kv) + 1) |->
              IF i = position + 1 THEN token ELSE IF i <= Len(kv) THEN kv[i] ELSE Unwritten]

(* The rows run_attention reads for the token at "at", the newest first. *)
Context(rows, at) ==
    [back \in 1..Min({at + 1, AttnWindow}) |-> rows[at + 2 - back]]
Step(how) == [how |-> how, context |-> Context(kv', position)]

PrefillToken ==
    /\ doing = "prefill" /\ todo # <<>> /\ ~KvFull
    /\ Evaluate(Head(todo))
    /\ \E routes \in RoutesOfToken : ExecuteLayers(routes)
    /\ last' = Head(todo)
    /\ tokenIds' = Append(tokenIds, Head(todo))
    /\ produced' = Append(produced, Step("prefill"))
    /\ position' = position + 1
    /\ counts' = [counts EXCEPT !.prefill = @ + 1]
    /\ todo' = Tail(todo)
    /\ UNCHANGED <<doing, trace, rewind, open, want, finishReason, requests, faults>>

(* The prompt is done, or breaks off silently at the KV budget. *)
PrefillEnds ==
    /\ doing = "prefill" /\ (todo = <<>> \/ KvFull)
    /\ todo' = <<>>
    /\ doing' = IF want > 0 THEN "decode" ELSE "idle"
    /\ finishReason' = IF want > 0 THEN "length" ELSE finishReason
    /\ UNCHANGED <<open, want, counts, requests>>
    /\ Unchanged

(* One iteration of generate: the last token is evaluated, also when it is
   the last one of the prompt, and the next is sampled.                    *)
\* mutant: the sampled token is not handed to the next step
DecodeForgets ==
    /\ doing = "decode" /\ want > 0 /\ ~KvFull
    /\ Evaluate(last)
    /\ \E routes \in RoutesOfToken : ExecuteLayers(routes)
    /\ \E token \in Tokens : tokenIds' = Append(tokenIds, token)
    /\ produced' = Append(produced, Step("sampled"))
    /\ position' = position + 1
    /\ counts' = [counts EXCEPT !.generated = @ + 1]
    /\ want' = want - 1
    /\ UNCHANGED <<doing, trace, rewind, open, todo, last, finishReason, requests, faults>>

DecodeToken ==
    /\ doing = "decode" /\ want > 0 /\ ~KvFull
    /\ Evaluate(last)
    /\ \E routes \in RoutesOfToken : ExecuteLayers(routes)
    /\ \E token \in Tokens : last' = token /\ tokenIds' = Append(tokenIds, token)
    /\ produced' = Append(produced, Step("sampled"))
    /\ position' = position + 1
    /\ counts' = [counts EXCEPT !.generated = @ + 1]
    /\ want' = want - 1
    /\ UNCHANGED <<doing, trace, rewind, open, todo, finishReason, requests, faults>>

GenerateEnds ==
    /\ doing = "decode" /\ (want = 0 \/ KvFull)
    /\ doing' = "idle" /\ want' = 0
    /\ finishReason' = IF want > 0 THEN "kv_budget" ELSE finishReason
    /\ UNCHANGED <<open, todo, counts, requests>>
    /\ Unchanged

(* An expert file that cannot be opened, or breaks off so that it cannot be
   unpacked: the exception ends the program.                               *)
EngineThrows ==
    /\ doing \in {"prefill", "decode"} /\ faults < MaxFaults
    /\ doing' = "ended" /\ faults' = faults + 1
    /\ UNCHANGED <<trace, rewind, open, todo, want, kv, position, last, tokenIds, counts, finishReason,
                   cursor, cache, materialized, device, produced, accesses, requests>>

FNext ==
    \/ CreateSession \/ ContinueSession
    \/ PrefillToken \/ PrefillEnds
    \/ DecodeToken \/ GenerateEnds
    \/ EngineThrows

FSpec == FInit /\ [][FNext]_fvars
-----------------------------------------------------------------------------
(* The cache rows follow the transcript: a prompt token has its own row, a
   step of generate evaluates the token before the one it samples.  So the
   last token of a prompt has two rows, and the last token sampled in a turn
   has none once another prompt follows (generate, prefill_tokens).  And
   kv_cache_.tokens and decode_state_.position, counted one before the step
   and one after it, agree within the budget (run_attention).              *)
RowsFollowTranscript ==
    /\ Len(kv) = Len(tokenIds) /\ Len(kv) = position /\ Len(kv) <= KvTokens
    /\ \A i \in DOMAIN kv :
           /\ kv[i] = IF produced[i].how = "prefill" THEN tokenIds[i] ELSE tokenIds[i - 1]
           /\ produced[i].context = Reverse(SubSeq(kv, Max({1, i + 1 - AttnWindow}), i))

TotalBytes(slots) ==
    LET sum[i \in 0..Len(slots)] == IF i = 0 THEN 0 ELSE sum[i - 1] + slots[i].bytes
    IN  sum[Len(slots)]

(* Between steps exactly the experts with a slot have weights, on the host or
   on the device, and the slots fit the budget unless one expert alone is
   larger than it (release_evicted_materialized, touch_or_promote).        *)
WeightsOfSlots ==
    /\ DOMAIN materialized = Slots(cache)
    /\ device = IF Cuda THEN Slots(cache) ELSE {}
    /\ cache.used = TotalBytes(cache.slots)
    /\ cache.used <= Capacity \/ Len(cache.slots) = 1
    /\ cache.promotions - cache.evictions = Len(cache.slots)

-----------------------------------------------------------------------------
(* The requests the trace makes: every layer step takes its next route, around
   its end only when rewinding is on.  A trace that is over leaves layers
   without experts, and their tokens are sampled all the same
   (execute_step); the router's choices are taken as they came.            *)
Known(ids) ==
    LET kept[k \in 0..Len(ids)] ==
            IF k = 0 THEN <<>>
            ELSE IF ids[k] \in DOMAIN ExpertBytes THEN Append(kept[k - 1], ids[k]) ELSE kept[k - 1]
    IN  kept[Len(ids)]
AskedBy(taken) ==
    LET asked[i \in 0..taken] ==
            IF i = 0 THEN <<>> ELSE asked[i - 1] \o Known(trace[((i - 1) % Len(trace)) + 1].experts)
    IN  asked[taken]
Asked ==
    LET steps == position * Layers
    IN  IF trace = <<>> THEN accesses
        ELSE AskedBy(IF rewind \/ steps < Len(trace) THEN steps ELSE Len(trace))

\* As the trace simulator numbers them.
ExpertRequests(bytes) ==
    LET asked == Asked
    IN  [i \in DOMAIN asked |-> [id |-> asked[i], layer |-> LayerOf[asked[i]],
                                 bytes |-> bytes[asked[i]], step |-> i - 1]]
AnyOrder == SetToSeq(DOMAIN ExpertBytes)
One == [id \in DOMAIN ExpertBytes |-> 1]

(* The slot cache computes with is the LRU cache the simulator predicts from
   the trace: same experts, same hits, as long as no expert is larger than
   the budget (touch_or_promote against ExpertCache with kLru).            *)
SlotCacheIsLru ==
    (\A id \in DOMAIN ExpertBytes : ExpertBytes[id] <= Capacity) =>
        LET lru == Simulate(AnyOrder, "lru", Capacity, ExpertRequests(ExpertBytes))
        IN  /\ Resident(lru) = Slots(cache) /\ lru.used = cache.used
            /\ lru.hits = cache.hits /\ Len(Asked) = cache.hits + cache.promotions

\* A larger LRU cache holds what a smaller one does.
LruInclusion ==
    \A cap \in 1..2 :
        Resident(Simulate(AnyOrder, "lru", cap, ExpertRequests(One)))
            \subseteq Resident(Simulate(AnyOrder, "lru", cap + 1, ExpertRequests(One)))

\* No policy exceeds its budget or loses count of a layer.
BudgetKept ==
    \A cap \in 0..3, policy \in Policies :
        LET c == Simulate(AnyOrder, policy, cap, ExpertRequests(ExpertBytes))
        IN  /\ c.used <= cap
            /\ c.used = FoldFunction(LAMBDA e, sum : e.bytes + sum, 0, c.entries)
            /\ \A l \in DOMAIN c.layers :
                   c.layers[l] = Cardinality({id \in Resident(c) : c.entries[id].layer = l})

(* The experts a route step of the scheduler asks for are all resident after
   it when they fit together: its own experts have age 0 and go last
   (process).                                                              *)
StepStaysResident ==
    \A cap \in 1..3 :
        LET state == [c |-> Empty, step |-> 0]
            run == FoldLeft(LAMBDA s, r : [c |-> ProcessRoute(s.c, AnyOrder, "lru", cap, s.step, r,
                                                        [id \in DOMAIN ExpertBytes |-> 1]),
                                           step |-> s.step + 1], state, trace)
            asked == IF trace = <<>> THEN {} ELSE ToSet(Last(trace).experts) \cap DOMAIN ExpertBytes
        IN  Cardinality(asked) <= cap => asked \subseteq Resident(run.c)

(* The policies compare as they are meant to over any trace the engine leaves
   when it ends, at whatever token.  On experts of one size the oracle misses
   no more than any other, so that it is the bound the policies are measured
   against; the hit rate of lru cannot fall when the budget grows; every
   policy keeps to its budget; and the experts of one step stay together while
   it runs (next_use_after, touch_or_insert, ensure_space, process).        *)
OracleIsBest ==
    doing = "ended" =>
        /\ \A cap \in 1..3 :
               LET misses(policy) == Simulate(AnyOrder, policy, cap, ExpertRequests(One)).misses
                   least == misses("oracle")
               IN  \A policy \in Policies : least <= misses(policy)
        /\ LruInclusion /\ BudgetKept /\ StepStaysResident
=============================================================================
