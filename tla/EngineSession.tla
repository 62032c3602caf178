--------------------------- MODULE EngineSession ---------------------------
(***************************************************************************)
(* One ds4_session: the token checkpoint, the logits, and the caches that   *)
(* stand for the checkpoint in the backend (src/ds4_gb10/ds4.c and the      *)
(* compressor kernels of ds4_cuda.cu).                                      *)
(*                                                                         *)
(* Numbers are abstracted to provenance.  What a cached row, a compressor   *)
(* state row or the logits hold is the token history they are a function    *)
(* of: the history itself when every input was the right one, <<>> when the *)
(* row is cleared (score -inf), and Stale when an input was not what the    *)
(* history calls for.  A forward pass that can see one wrong row yields     *)
(* Stale.  The 43 layers fall into three kinds of compressor: the attention *)
(* and the indexer compressor of ratio-4 layers, whose windows overlap, and *)
(* the attention compressor of ratio-128 layers; one of each kind stands    *)
(* for all, and the uncompressed layers are the raw ring alone.             *)
(***************************************************************************)
EXTENDS Integers, Sequences, FiniteSets

CONSTANTS
  Token,        \* token ids
  Window,       \* DS4_N_SWA: positions a raw attention head can see
  FineRatio,    \* 4 in the code: overlapping windows
  CoarseRatio,  \* 128 in the code
  Chunk,        \* prefill chunk: 2048 by default
  Align,        \* the raw ring is padded to a multiple of this: 256
  ResumeMin,    \* DS4_METAL_RESUME_PREFILL_MIN: 32 by default
  MaxDraft,     \* drafts the MTP block may propose in one cycle
  Ctxs,         \* context sizes a session may be created with
  Backends,     \* subset of {"cpu", "graph"}
  Prompts,      \* token sequences a caller may ask for
  Greedy(_),    \* the target model's argmax after a history
  Slots,        \* payload files or snapshots
  MaxOps,       \* calls on the sessions in one behaviour, saves not counted
  Stale         \* what a computation on a wrong input holds

Kinds == {"attn4", "index4", "attn128"}

ASSUME SizesAssumption ==
  /\ Window \in Nat \ {0} /\ Align \in Nat \ {0} /\ ResumeMin \in Nat \ {0}
  /\ FineRatio \in Nat /\ FineRatio > 2      \* a two-token verify is never a whole window
  /\ CoarseRatio \in Nat \ {0} /\ Chunk \in Nat \ {0}
  /\ Chunk % FineRatio = 0 /\ Chunk % CoarseRatio = 0
  /\ \A c \in Ctxs : c \in Nat /\ c > Chunk /\ c >= Window
  /\ Backends \subseteq {"cpu", "graph"}
  /\ MaxDraft \in Nat

\* ds4_session_sync refuses an empty prompt.
ASSUME PromptsAssumption == Prompts \subseteq Seq(Token) \ {<<>>}

ASSUME StaleAssumption == Stale \notin Seq(Token)

Lesser(a, b) == IF a < b THEN a ELSE b

VARIABLES
  backend,
  ctx,
  checkpoint, checkpoint_valid, logits,
  cache,      \* raw rows, compressed rows and compressor states
  job,        \* the ds4_session_sync call under way
  emitted,    \* accepted[] of the last speculative call
  ragged,     \* the live prefix began with an unaligned graph prefill
  slot,       \* saved payloads
  ops

session == <<checkpoint, checkpoint_valid, logits, cache, ragged>>
vars == <<backend, ctx, session, job, emitted, slot, ops>>

-----------------------------------------------------------------------------
(* Layout. *)

Ratio(k) == IF k = "attn128" THEN CoarseRatio ELSE FineRatio
Overlaps(k) == k # "attn128"
Rows(k) == IF Overlaps(k) THEN 2 * Ratio(k) ELSE Ratio(k)

CompCap(c, k) == c \div Ratio(k) + 2

RawCapForContext(c) ==
  LET wanted == Lesser(Window + Chunk, c)
  IN  ((wanted + Align - 1) \div Align) * Align

RawCap == IF backend = "cpu" THEN Lesser(Window, ctx) ELSE RawCapForContext(ctx)

\* Room for cap raw rows and for the compressed rows and states of a context of
\* c: the states are filled with zero and -inf, no compressed row counts.
AllocatedCache(cap, c) ==
  [raw    |-> [i \in 0 .. cap - 1 |-> <<>>],
   n_raw  |-> 0,
   comp   |-> [k \in Kinds |-> [i \in 0 .. CompCap(c, k) - 1 |-> <<>>]],
   n_comp |-> [k \in Kinds |-> 0],
   win    |-> [k \in Kinds |-> [r \in 0 .. Rows(k) - 1 |-> <<>>]]]

EmptyCache(b, c) ==
  AllocatedCache(IF b = "cpu" THEN Lesser(Window, c) ELSE RawCapForContext(c), c)

\* What position p of history h contributes to a cache.
At(h, p) == SubSeq(h, 1, p + 1)

-----------------------------------------------------------------------------
(* Compressors. *)

\* The history d positions before the end of h; nothing before its start.
Back(h, d) == IF d >= Len(h) THEN <<>> ELSE SubSeq(h, 1, Len(h) - d)

\* Softmax pooling of one window: exact when every row is the row of its place.
Pooled(k, w) ==
  LET last == w[Rows(k) - 1]
  IN  IF \/ last \in {Stale, <<>>}
         \/ \E r \in DOMAIN w : w[r] # Back(last, Rows(k) - 1 - r)
      THEN Stale ELSE last

StateRow(k, p) == IF Overlaps(k) THEN Ratio(k) + (p % Ratio(k)) ELSE p % Ratio(k)
Emits(k, p) == (p + 1) % Ratio(k) = 0

\* After a row is emitted the current half becomes the previous one.
Shifted(k, w) ==
  IF Overlaps(k) THEN [r \in DOMAIN w |-> w[IF r < Ratio(k) THEN r + Ratio(k) ELSE r]]
                 ELSE w

\* One compressor: its state rows, its compressed rows and how many are live.
Lane(c, k) == [win |-> c.win[k], comp |-> c.comp[k], n |-> c.n_comp[k]]

CompressorUpdate(k, lane, p, x) ==
  LET w == [lane.win EXCEPT ![StateRow(k, p)] = x]
  IN  IF ~ Emits(k, p)
      THEN [lane EXCEPT !.win = w]
      ELSE [win  |-> Shifted(k, w),
            comp |-> [lane.comp EXCEPT ![lane.n] = Pooled(k, w)],
            n    |-> lane.n + 1]

\* The tokens xs, the first at position pos0, fed one at a time.
CompressorStream(k, lane, pos0, xs) ==
  LET fed[t \in 0 .. Len(xs)] ==
        IF t = 0 THEN lane ELSE CompressorUpdate(k, fed[t - 1], pos0 + t - 1, xs[t])
  IN  fed[Len(xs)]

\* Window i of a batch: the half before it comes from the batch, or from prev.
BatchWindow(k, xs, i, prev) ==
  LET cur(r) == xs[i * Ratio(k) + r + 1]
  IN  [r \in 0 .. Rows(k) - 1 |->
         IF ~ Overlaps(k) THEN cur(r)
         ELSE IF r >= Ratio(k) \/ i > 0 THEN cur(r - Ratio(k))
         ELSE prev[r]]

\* The state a batch leaves: the last whole window, then the remainder.
BatchState(k, xs) ==
  LET whole == (Len(xs) \div Ratio(k)) * Ratio(k)
      first == IF Overlaps(k) THEN whole - Ratio(k) ELSE whole
  IN  [r \in 0 .. Rows(k) - 1 |->
         IF first + r \in 0 .. Len(xs) - 1 THEN xs[first + r + 1] ELSE <<>>]

\* metal_graph_refresh_ratio4_compressor_state: the last window of the chunk
\* into the previous half, the current half cleared.
RefreshedState(k, xs) ==
  [r \in 0 .. Rows(k) - 1 |->
     IF r < Ratio(k) THEN xs[Len(xs) - Ratio(k) + r + 1] ELSE <<>>]

CompressorPrefill(k, lane, pos0, xs) ==
  LET base == IF pos0 = 0 THEN 0 ELSE lane.n
      prev == IF pos0 = 0 THEN [r \in 0 .. Rows(k) - 1 |-> <<>>] ELSE lane.win
      rows == Len(xs) \div Ratio(k)
  IN  [win  |-> IF Overlaps(k) THEN RefreshedState(k, xs) ELSE BatchState(k, xs),
       comp |-> [i \in DOMAIN lane.comp |->
                   IF i \in base .. base + rows - 1
                   THEN Pooled(k, BatchWindow(k, xs, i - base, prev))
                   ELSE lane.comp[i]],
       n    |-> base + rows]

CompressorBatch(k, lane, pos0, xs) ==
  IF pos0 = 0 \/ (pos0 % Ratio(k) = 0 /\ Len(xs) % Ratio(k) = 0)
  THEN CompressorPrefill(k, lane, pos0, xs)
  ELSE CompressorStream(k, lane, pos0, xs)

WithLanes(c, lane) ==
  [c EXCEPT !.win = [k \in Kinds |-> lane[k].win],
            !.comp = [k \in Kinds |-> lane[k].comp],
            !.n_comp = [k \in Kinds |-> lane[k].n]]

-----------------------------------------------------------------------------
(* Raw rows. *)

PushRaw(c, p, x) ==
  IF backend = "graph" THEN [c EXCEPT !.raw[p % RawCap] = x]
  ELSE IF c.n_raw < RawCap THEN [c EXCEPT !.raw[c.n_raw] = x, !.n_raw = @ + 1]
  ELSE [c EXCEPT !.raw = [i \in DOMAIN @ |-> IF i = RawCap - 1 THEN x ELSE @[i + 1]]]

PushRaws(c, pos0, xs) ==
  LET pushed[t \in 0 .. Len(xs)] ==
        IF t = 0 THEN c ELSE PushRaw(pushed[t - 1], pos0 + t - 1, xs[t])
  IN  pushed[Len(xs)]

RawSpan(pos0, n) ==
  Lesser(RawCap, Lesser(pos0 + n, n + IF n = 1 THEN Window - 1 ELSE Window))

\* Position q as the attention kernel finds it in a span ending at position last.
RawRow(c, q, last, span) ==
  LET first == last + 1 - span
  IN  IF backend = "graph"
      THEN IF q < first THEN Stale ELSE c.raw[((first % RawCap) + (q - first)) % RawCap]
      ELSE IF last - q >= c.n_raw THEN Stale ELSE c.raw[c.n_raw - 1 - (last - q)]

VisibleFrom(p) == IF p + 1 > Window THEN p + 1 - Window ELSE 0

\* The rows position p of h attends to, read from a batch of n that began at pos0.
SeesRaw(c, h, p, pos0, n) ==
  \A q \in VisibleFrom(p) .. p : RawRow(c, q, pos0 + n - 1, RawSpan(pos0, n)) = At(h, q)

SeesCompressed(c, h, p) ==
  \A k \in Kinds :
    /\ c.n_comp[k] >= (p + 1) \div Ratio(k)
    /\ \A i \in 0 .. (p + 1) \div Ratio(k) - 1 : c.comp[k][i] = At(h, (i + 1) * Ratio(k) - 1)

-----------------------------------------------------------------------------
(* Forward passes: [c |-> the cache after, out |-> what the logits hold]. *)

\* One token: the last of h, at position Len(h) - 1.
Decode(c, h) ==
  LET p == Len(h) - 1
      after(x) == LET pushed == PushRaw(c, p, x)
                  IN  WithLanes(pushed, [k \in Kinds |-> CompressorUpdate(k, Lane(c, k), p, x)])
      right == after(h)
      good == /\ SeesRaw(right, h, p, p, 1)
              /\ SeesCompressed(right, h, p)
              /\ \A k \in Kinds : right.n_comp[k] = Len(h) \div Ratio(k)
  IN  IF good THEN [c |-> right, out |-> h] ELSE [c |-> after(Stale), out |-> Stale]

\* The tokens of h from position pos0 on, layer by layer.
Batch(c, h, pos0) ==
  LET n == Len(h) - pos0
      after(xs) == WithLanes(PushRaws(c, pos0, xs),
                             [k \in Kinds |-> CompressorBatch(k, Lane(c, k), pos0, xs)])
      right == after([t \in 1 .. n |-> At(h, pos0 + t - 1)])
      good == \A p \in pos0 .. Len(h) - 1 :
                /\ pos0 = 0 \/ SeesRaw(right, h, p, pos0, n)
                /\ SeesCompressed(right, h, p)
  IN  IF good THEN [c |-> right, out |-> h]
              ELSE [c |-> after([t \in 1 .. n |-> Stale]), out |-> Stale]

\* prefill_layer_major_cpu: every layer streams the prompt, then the unused
\* state rows are cleared.
CpuPrefill(h) ==
  LET fed[n \in 0 .. Len(h)] ==
        IF n = 0 THEN [c |-> EmptyCache("cpu", ctx), out |-> <<>>]
                 ELSE Decode(fed[n - 1].c, SubSeq(h, 1, n))
      live(k) == (IF Overlaps(k) THEN Ratio(k) ELSE 0) + (Len(h) % Ratio(k))
      end == fed[Len(h)]
  IN  [end EXCEPT !.c.win = [k \in Kinds |-> [r \in DOMAIN @[k] |->
                                IF r < live(k) THEN @[k][r] ELSE <<>>]]]

\* A pass that failed half way: any layer may have been written.
Torn(c) ==
  [c EXCEPT !.raw = [i \in DOMAIN @ |-> Stale],
            !.comp = [k \in Kinds |-> [i \in DOMAIN @[k] |-> Stale]],
            !.win = [k \in Kinds |-> [r \in DOMAIN @[k] |-> Stale]]]

-----------------------------------------------------------------------------
(* Calls. *)

NoJob == [kind |-> "none"]
Idle == job = NoJob
NoPayload == [tokens |-> <<>>]

Init ==
  /\ backend \in Backends /\ ctx \in Ctxs
  /\ checkpoint = <<>> /\ checkpoint_valid = FALSE /\ logits = <<>>
  /\ cache = EmptyCache(backend, ctx)
  /\ job = NoJob /\ emitted = <<>> /\ ragged = FALSE
  /\ slot = [s \in Slots |-> NoPayload]
  /\ ops = 0

\* A new call on a session at rest.
Call ==
  /\ Idle /\ ops < MaxOps /\ ops' = ops + 1
  /\ UNCHANGED <<backend, ctx>>

\* ds4_session_free and ds4_session_create: another context, another backend.
Recreate(b, c) ==
  /\ Idle
  /\ backend' = b /\ ctx' = c
  /\ checkpoint' = <<>> /\ checkpoint_valid' = FALSE /\ logits' = <<>>
  /\ cache' = EmptyCache(b, c)
  /\ emitted' = <<>> /\ ragged' = FALSE
  /\ UNCHANGED <<job, slot, ops>>

Become(h, r) ==
  /\ checkpoint' = h /\ checkpoint_valid' = TRUE
  /\ logits' = r.out /\ cache' = r.c

\* The checkpoint can no longer be trusted; any row may have been written.
Lose ==
  /\ checkpoint_valid' = FALSE /\ cache' = Torn(cache)
  /\ UNCHANGED <<checkpoint, logits, ragged>>

Extends(prompt) ==
  /\ checkpoint_valid
  /\ Len(prompt) >= Len(checkpoint)
  /\ SubSeq(prompt, 1, Len(checkpoint)) = checkpoint

Suffix(prompt) == Len(prompt) - Len(checkpoint)

\* ds4_session_sync, cold, in one pass over the whole prompt.
SyncWhole(prompt) ==
  /\ Call /\ Len(prompt) < ctx /\ ~ Extends(prompt)
  /\ \/ /\ backend = "cpu"
        /\ Become(prompt, CpuPrefill(prompt))
        /\ ragged' = FALSE
     \/ /\ backend = "graph" /\ Len(prompt) \in FineRatio .. Chunk
        /\ Become(prompt, Batch(cache, prompt, 0))
        /\ ragged' = (Len(prompt) % FineRatio # 0)
  /\ emitted' = <<>>
  /\ UNCHANGED <<job, slot>>

\* The same when a layer fails, or when the prompt is shorter than the window
\* the ratio-4 refresh copies.
SyncWholeFails(prompt) ==
  /\ Call /\ Len(prompt) < ctx /\ ~ Extends(prompt)
  /\ backend = "graph" /\ Len(prompt) <= Chunk
  /\ Lose
  /\ emitted' = <<>>
  /\ UNCHANGED <<job, slot>>

\* ds4_session_sync in chunks: cold and long, or a long suffix.  The progress
\* callback sees the session between the chunks.
SyncChunks(prompt) ==
  /\ Call /\ Len(prompt) < ctx /\ backend = "graph"
  /\ \/ ~ Extends(prompt) /\ Len(prompt) > Chunk
     \/ Extends(prompt) /\ Suffix(prompt) >= ResumeMin
  /\ job' = [kind |-> "chunks", prompt |-> prompt,
             start |-> IF Extends(prompt) THEN Len(checkpoint) ELSE 0,
             pos |-> IF Extends(prompt) THEN Len(checkpoint) ELSE 0]
  /\ emitted' = <<>>
  /\ UNCHANGED <<session, slot>>

\* metal_graph_prefill_chunked_range: a resumed chunk stops at chunk boundaries.
ChunkLen ==
  LET most == IF job.start # 0
              THEN Lesser(Lesser(Chunk, RawCap), Chunk - (job.pos % Chunk)) ELSE Chunk
  IN  Lesser(Len(job.prompt) - job.pos, most)

Chunked ==
  /\ job.kind = "chunks"
  /\ LET end == job.pos + ChunkLen
         h   == SubSeq(job.prompt, 1, end)
     IN  /\ Become(h, Batch(cache, h, job.pos))
         /\ job' = IF end = Len(job.prompt) THEN NoJob ELSE [job EXCEPT !.pos = end]
         /\ ragged' = IF job.pos = 0 THEN ChunkLen % FineRatio # 0 ELSE ragged
  /\ UNCHANGED <<backend, ctx, emitted, slot, ops>>

\* ds4_session_sync with a short suffix, or any suffix on the CPU: token by token.
SyncTokens(prompt) ==
  /\ Call /\ Len(prompt) < ctx /\ Extends(prompt) /\ Suffix(prompt) > 0
  /\ backend = "cpu" \/ Suffix(prompt) < ResumeMin
  /\ job' = [kind |-> "tokens", prompt |-> prompt]
  /\ emitted' = <<>>
  /\ UNCHANGED <<session, slot>>

TokenSynced ==
  /\ job.kind = "tokens"
  /\ LET h == SubSeq(job.prompt, 1, Len(checkpoint) + 1)
     IN  /\ Become(h, Decode(cache, h))
         /\ job' = IF h = job.prompt THEN NoJob ELSE job
  /\ UNCHANGED <<backend, ctx, emitted, ragged, slot, ops>>

SyncFails ==
  /\ ~ Idle /\ backend = "graph"
  /\ Lose
  /\ job' = NoJob
  /\ UNCHANGED <<backend, ctx, emitted, slot, ops>>

\* ds4_session_eval
Eval(t) ==
  /\ Call /\ checkpoint_valid /\ Len(checkpoint) < ctx
  /\ Become(Append(checkpoint, t), Decode(cache, Append(checkpoint, t)))
  /\ emitted' = <<>>
  /\ UNCHANGED <<job, ragged, slot>>

EvalFails ==
  /\ Call /\ checkpoint_valid /\ Len(checkpoint) < ctx /\ backend = "graph"
  /\ Lose
  /\ emitted' = <<>>
  /\ UNCHANGED <<job, slot>>

\* ds4_session_invalidate
Invalidate ==
  /\ Call
  /\ checkpoint' = <<>> /\ checkpoint_valid' = FALSE
  /\ emitted' = <<>>
  /\ UNCHANGED <<logits, cache, ragged, job, slot>>

-----------------------------------------------------------------------------
(* ds4_session_eval_speculative_argmax: t is committed, then the drafts d. *)

\* sample_argmax of logits that hold x.
Tops(x) == IF x = Stale THEN Token ELSE {Greedy(x)}

Committed(t) == Append(checkpoint, t)
First(t) == Decode(cache, Committed(t))

\* A cycle whose MTP block proposed d: the context has room for d and one more.
Cycle(t, d) ==
  /\ Call /\ backend = "graph" /\ checkpoint_valid
  /\ Len(d) < ctx - Len(Committed(t))
  /\ UNCHANGED <<job, ragged, slot>>

Accept(t, d, n, r) ==
  /\ Become(Committed(t) \o SubSeq(d, 1, n), r)
  /\ emitted' = <<t>> \o SubSeq(d, 1, n)

\* The first draft is not what the target chooses.
SpecMiss(t, d) ==
  /\ Cycle(t, d) /\ Len(d) = 1
  /\ \E top \in Tops(First(t).out) : top # d[1]
  /\ Accept(t, d, 0, First(t))

\* Two drafts with too small a margin: the first is decoded, the second dropped.
SpecMargin(t, d) ==
  /\ Cycle(t, d) /\ Len(d) = 2 /\ d[1] \in Tops(First(t).out)
  /\ Accept(t, d, 1, Decode(First(t).c, Append(Committed(t), d[1])))

RowsKept(c, f) == [c EXCEPT !.win = f.win]   \* mutant: the row counts stay ahead

\* spec_frontier_restore and spec_frontier_commit_prefix1: the compressor states
\* and row counts of another cache; raw and compressed rows stay as written.
WithFrontier(c, f) == [c EXCEPT !.win = f.win, !.n_comp = f.n_comp]

\* metal_graph_verify_decode2_exact and what follows it (--quality).
SpecDecode2(t, d) ==
  /\ Cycle(t, d) /\ Len(d) = 2 /\ d[1] \in Tops(First(t).out)
  /\ LET h  == Committed(t)
         r1 == Decode(First(t).c, Append(h, d[1]))
         r2 == Decode(r1.c, h \o d)
     IN  \E top0 \in Tops(r1.out) :
           IF top0 = d[2]
           THEN Accept(t, d, 2, r2)
           ELSE Accept(t, d, 1, [c |-> WithFrontier(r2.c, r1.c), out |-> r1.out])

ConfirmedByOwnRow(d, tops) ==   \* mutant: a draft compared with the row after it
  CHOOSE n \in 1 .. Len(d) :
    /\ \A i \in 2 .. n : i \in DOMAIN tops => tops[i] = d[i]
    /\ n < Len(d) => n + 1 \in DOMAIN tops /\ tops[n + 1] # d[n + 1]

\* How many drafts the row tops confirm.
Confirmed(d, tops) ==
  CHOOSE n \in 1 .. Len(d) :
    /\ \A i \in 2 .. n : tops[i - 1] = d[i]
    /\ n < Len(d) => tops[n] # d[n + 1]

\* metal_graph_verify_suffix_tops: all drafts in one batch.
SpecBatch(t, d) ==
  /\ Cycle(t, d) /\ Len(d) \in 1 .. Chunk /\ d[1] \in Tops(First(t).out)
  /\ LET h == Committed(t)
         b == Batch(First(t).c, h \o d, Len(h))
         row(i) == IF b.out = Stale THEN Stale ELSE h \o SubSeq(d, 1, i)
         restored == WithFrontier(b.c, First(t).c)
         prefix1 == Decode(First(t).c, Append(h, d[1])).c
     IN  \E tops \in {f \in [1 .. Len(d) - 1 -> Token] :
                        \A i \in DOMAIN f : f[i] \in Tops(row(i))} :
           LET n == Confirmed(d, tops)
           IN  \/ n = Len(d) /\ Accept(t, d, n, b)
               \/ \* capture_prefix1
                  /\ n = 1 /\ Len(d) = 2
                  /\ Accept(t, d, 1, [c |-> WithFrontier(b.c, prefix1), out |-> row(1)])
               \/ \* the frontier was snapshot; one token is decoded again
                  /\ n = 1 /\ Len(d) = 2
                  /\ Accept(t, d, 1, Decode(restored, Append(h, d[1])))
               \/ \* more drafts: the confirmed prefix is verified again
                  /\ n < Len(d) /\ Len(d) > 2
                  /\ Accept(t, d, n, Batch(restored, h \o SubSeq(d, 1, n), Len(h)))

\* A verifier that failed after the snapshot: what it wrote lies ahead of the
\* restored frontier.
AheadTorn(c, from, n) ==
  [c EXCEPT !.raw = [i \in DOMAIN @ |->
                       IF \E q \in from .. from + n - 1 : i = q % RawCap THEN Stale ELSE @[i]],
            !.comp = [k \in Kinds |-> [i \in DOMAIN @[k] |->
                        IF i >= c.n_comp[k] THEN Stale ELSE @[k][i]]]]

\* The fallback: drafts are decoded one by one while the target agrees.  More
\* drafts than a chunk holds the verifier refuses before it writes a row.
SpecSequential(t, d) ==
  /\ Cycle(t, d) /\ Len(d) >= 2 /\ d[1] \in Tops(First(t).out)
  /\ LET h == Committed(t)
         torn == IF Len(d) <= Chunk THEN AheadTorn(First(t).c, Len(h), Len(d)) ELSE First(t).c
         start == [c |-> torn, out |-> First(t).out]
         run[n \in 0 .. Len(d)] ==
           IF n = 0 THEN start ELSE Decode(run[n - 1].c, h \o SubSeq(d, 1, n))
     IN  \E n \in 1 .. Len(d) :
           /\ \A i \in 1 .. n : d[i] \in Tops(run[i - 1].out)
           /\ n < Len(d) => \E top \in Tops(run[n].out) : top # d[n + 1]
           /\ Accept(t, d, n, run[n])

\* A failed decode, or a failed verifier without a snapshot.
SpecFails(t) ==
  /\ \E top \in Tops(First(t).out) : Cycle(t, <<top>>)
  /\ checkpoint' = Committed(t) /\ checkpoint_valid' = FALSE
  /\ logits' = First(t).out /\ cache' = Torn(First(t).c)
  /\ emitted' = <<>>

-----------------------------------------------------------------------------
(* Payloads: ds4_session_save_payload and ds4_session_load_payload, through   *)
(* a file or a memory snapshot.                                              *)

RawLive(n) == Lesser(Window, n)

PhysicalPayload ==   \* mutant: the ring is written slot by slot
  [tokens |-> checkpoint, logits |-> logits, ctx |-> ctx,
   raw    |-> [i \in 0 .. RawLive(Len(checkpoint)) - 1 |-> cache.raw[i]],
   n_comp |-> cache.n_comp,
   comp   |-> [k \in Kinds |-> [i \in 0 .. cache.n_comp[k] - 1 |-> cache.comp[k][i]]],
   win    |-> cache.win,
   ragged |-> ragged]

Payload ==
  LET n == Len(checkpoint)
      live == RawLive(n)
      phys(i) == IF backend = "graph" THEN (n - live + i) % RawCap ELSE cache.n_raw - live + i
  IN  [tokens |-> checkpoint, logits |-> logits, ctx |-> ctx,
       raw    |-> [i \in 0 .. live - 1 |-> cache.raw[phys(i)]],
       n_comp |-> cache.n_comp,
       comp   |-> [k \in Kinds |-> [i \in 0 .. cache.n_comp[k] - 1 |-> cache.comp[k][i]]],
       win    |-> cache.win,
       ragged |-> ragged]

\* The session may be saved at rest and from the progress callback.
Save(s) ==
  /\ checkpoint_valid
  /\ \/ Idle
     \/ job.kind = "chunks"
     \/ job.kind = "tokens" /\ backend = "cpu"
  /\ slot' = [slot EXCEPT ![s] = Payload]
  /\ UNCHANGED <<backend, ctx, session, job, emitted, ops>>

Fits(y) ==
  /\ y.tokens # <<>>
  /\ y.ctx <= ctx /\ Len(y.tokens) < ctx
  /\ Cardinality(DOMAIN y.raw) = RawLive(Len(y.tokens))
  /\ \A k \in Kinds : y.n_comp[k] <= CompCap(ctx, k)

\* The rows of y laid over c; what y does not hold stays.
Restored(c, y) ==
  LET n == Len(y.tokens)
      live == RawLive(n)
      base == IF backend = "graph" THEN (n - live) % RawCap ELSE 0
  IN  [c EXCEPT
        !.raw = [i \in DOMAIN @ |->
                   IF (i + RawCap - base) % RawCap < live
                   THEN y.raw[(i + RawCap - base) % RawCap] ELSE @[i]],
        !.n_raw = IF backend = "cpu" THEN live ELSE 0,
        !.comp = [k \in Kinds |-> [i \in DOMAIN @[k] |->
                    IF i < y.n_comp[k] THEN y.comp[k][i] ELSE @[k][i]]],
        !.n_comp = y.n_comp,
        !.win = y.win]

Load(s) ==
  /\ Call /\ Fits(slot[s])
  /\ LET y == slot[s]
         c == IF backend = "cpu" THEN EmptyCache("cpu", ctx) ELSE cache
     IN  /\ Become(y.tokens, [c |-> Restored(c, y), out |-> y.logits])
         /\ ragged' = y.ragged
  /\ emitted' = <<>>
  /\ UNCHANGED <<job, slot>>

\* A payload that does not fit, or breaks off while it is read: the logits and
\* any rows may already be the file's, and the caller invalidates the session.
LoadFails(s) ==
  /\ Call /\ slot[s] # NoPayload
  /\ \/ ~ Fits(slot[s]) /\ UNCHANGED <<logits, cache>>
     \/ Fits(slot[s]) /\ logits' = slot[s].logits /\ cache' = Torn(cache)
  /\ checkpoint' = <<>> /\ checkpoint_valid' = FALSE
  /\ emitted' = <<>>
  /\ UNCHANGED <<ragged, job, slot>>

-----------------------------------------------------------------------------

Drafts == UNION {[1 .. n -> Token] : n \in 1 .. MaxDraft}

Next ==
  \/ \E b \in Backends, c \in Ctxs : Recreate(b, c)
  \/ \E p \in Prompts : SyncWhole(p)
  \/ \E p \in Prompts : SyncWholeFails(p)
  \/ \E p \in Prompts : SyncChunks(p)
  \/ \E p \in Prompts : SyncTokens(p)
  \/ Chunked
  \/ TokenSynced
  \/ SyncFails
  \/ \E t \in Token : Eval(t)
  \/ EvalFails
  \/ Invalidate
  \/ \E t \in Token, d \in Drafts : SpecMiss(t, d)
  \/ \E t \in Token, d \in Drafts : SpecMargin(t, d)
  \/ \E t \in Token, d \in Drafts : SpecDecode2(t, d)
  \/ \E t \in Token, d \in Drafts : SpecBatch(t, d)
  \/ \E t \in Token, d \in Drafts : SpecSequential(t, d)
  \/ \E t \in Token : SpecFails(t)
  \/ \E s \in Slots : Save(s)
  \/ \E s \in Slots : Load(s)
  \/ \E s \in Slots : LoadFails(s)

Spec == Init /\ [][Next]_vars

-----------------------------------------------------------------------------
(* Properties. *)

\* Who may look at the session: a caller between calls, the progress callback.
Observable == Idle \/ job.kind = "chunks"

WindowOf(h, k, r) ==   \* state row r of compressor k after history h
  LET whole == (Len(h) \div Ratio(k)) * Ratio(k)
      q == IF Overlaps(k) THEN whole - Ratio(k) + r ELSE whole + r
  IN  IF q < 0 THEN <<>> ELSE At(h, q)

LiveRows(h, k) == (IF Overlaps(k) THEN Ratio(k) ELSE 0) + (Len(h) % Ratio(k))

\* Every visible row of c, and what decode will still read, is the row of h.
Holds(c, h) ==
  LET last == Len(h) - 1
  IN  /\ \A q \in VisibleFrom(last) .. last : RawRow(c, q, last, RawSpan(last, 1)) = At(h, q)
      /\ \A k \in Kinds :
           /\ c.n_comp[k] = Len(h) \div Ratio(k)
           /\ \A i \in 0 .. c.n_comp[k] - 1 : c.comp[k][i] = At(h, (i + 1) * Ratio(k) - 1)
           /\ \A r \in 0 .. LiveRows(h, k) - 1 : c.win[k][r] = WindowOf(h, k, r)

\* The checkpoint is the whole truth about the backend: however the tokens got
\* there (whole prefill, chunks, single tokens, drafts accepted in part, a
\* payload of another context or backend), the logits and every row decode can
\* still see are those of exactly these tokens.  Prefixes that began with an
\* unaligned graph prefill are excepted (RaggedPrefillHarmless).
CacheOfCheckpoint ==
  checkpoint_valid /\ Observable /\ ~ ragged =>
    logits = checkpoint /\ Holds(cache, checkpoint)

\* A payload written at any moment the code writes one, the progress callback
\* included, is the state of the tokens it names.
PayloadOfTokens ==
  \A s \in Slots :
    LET y == slot[s]
    IN  y # NoPayload /\ ~ y.ragged =>
          /\ y.logits = y.tokens
          /\ \A i \in DOMAIN y.raw : y.raw[i] = At(y.tokens, Len(y.tokens) - RawLive(Len(y.tokens)) + i)
          /\ \A k \in Kinds :
               /\ y.n_comp[k] = Len(y.tokens) \div Ratio(k)
               /\ \A r \in 0 .. LiveRows(y.tokens, k) - 1 : y.win[k][r] = WindowOf(y.tokens, k, r)

\* The drafter proposes, the target decides: what a speculative call returns is
\* the end of the checkpoint, and every token after the first is the target's
\* own greedy choice, whichever verifier or fallback accepted it.
SpeculationIsGreedy ==
  emitted # <<>> =>
    LET base == Len(checkpoint) - Len(emitted)
    IN  /\ SubSeq(checkpoint, base + 1, Len(checkpoint)) = emitted
        /\ ~ ragged => \A i \in 2 .. Len(emitted) :
                         emitted[i] = Greedy(SubSeq(checkpoint, 1, base + i - 1))

\* ds4.c:10725 "so a following decode token sees the same rolling compression
\* window": the logits of a valid checkpoint are those of its tokens, also
\* after a first prefill of any length.
RaggedPrefillHarmless ==
  checkpoint_valid /\ Observable => logits = checkpoint

=============================================================================
