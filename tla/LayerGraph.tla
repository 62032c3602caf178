----------------------------- MODULE LayerGraph -----------------------------
(***************************************************************************)
(* The graph executor of src/ds4_gb10/ds4.c: tokens one at a time, prompt   *)
(* chunks and speculative suffixes in batches, and the MTP draft, each as   *)
(* tapes of kernels over the buffers of ds4_gpu_graph.  LayerTape has the   *)
(* terms and the reference, CpuLayers what a process without a GPU runs.    *)
(*                                                                         *)
(* Scratch buffers hold what an earlier command left: at the start of every *)
(* call that is taken to be Stale, so a read before the write shows.  The   *)
(* raw ring and the rolling rows of the compressors belong to EngineSession;*)
(* here a raw row and a compressor's pair are found under their position.   *)
(***************************************************************************)
EXTENDS CpuLayers, FiniteSets, TLC

CONSTANTS
  SwitchSets,   \* the combinations of flags a process may run with
  MaxLen,       \* positions evaluated in one behaviour
  MaxBatch,     \* rows of one batch
  MaxDrafts

VARIABLES
  switches,       \* read from the environment and the options once
  len,            \* positions evaluated
  call,           \* the call being encoded: its kind, first position, rows and next layer
  hc,             \* cur_hc, after_ffn_hc and the draft's mtp_state_hc, mtp_next_hc
  batch_cur_hc,
  prefill_tokens,
  cache,          \* per layer: raw rows, compressor pairs, compressed rows
  mtp,            \* the draft block's raw rows by position, how many count, and how
                  \* many did when the target's own token was drafted from
  logits,         \* rows the last evaluation gave, the last for position len - 1
  mtp_logits,
  drafts          \* drafts made since the last token; -1 after a batch

vars == <<switches, len, call, hc, batch_cur_hc, prefill_tokens, cache, mtp, logits,
          mtp_logits, drafts>>
-----------------------------------------------------------------------------
(* Tapes. *)

Cmd(dst, op, w, srcs) == <<dst, op, w, srcs>>

\* A process reads each switch that turns a fused kernel off once.
Unfused(fusions) == switches \cap fusions # {}

\* What a command computes.  at = [l, pos, row, token].
Result(at, cmd, arg) ==
  CASE cmd[2] = "rms" -> Rms(arg[1])
    [] cmd[2] = "rms_weight" -> RmsWeight(at.l[1], cmd[3], arg[1])
    [] cmd[2] = "mul" -> Mul(at.l[1], cmd[3], arg[1])
    [] cmd[2] = "sinkhorn" -> Sinkhorn(at.l[1], cmd[3], arg[1])
    [] cmd[2] = "head_weights" -> HeadWeights(at.l[1], cmd[3], arg[1])
    [] cmd[2] = "weighted_sum_split" -> WeightedSum(arg[1], arg[2])
    [] cmd[2] = "weighted_sum" ->
         \* Row t of the weights is looked up n_hc floats apart; a split row is longer.
         IF at.row > 0 /\ arg[2][1] = "sinkhorn" THEN Stale("stride") ELSE WeightedSum(arg[1], arg[2])
    [] cmd[2] = "head_norm" -> HeadNorm(arg[1])
    [] cmd[2] = "rope" -> Rope(at.l[2], at.pos, arg[1])
    [] cmd[2] = "unrope" -> Unrope(at.l[2], at.pos, arg[1])
    [] cmd[2] = "fp8" -> Fp8(arg[1])
    [] cmd[2] = "copy" -> arg[1]
    [] cmd[2] = "add" -> Sum(arg[1], arg[2])
    [] cmd[2] = "swiglu" -> SwiGlu(arg[1], arg[2])
    [] cmd[2] = "steer" -> Steer(at.l[2], arg[1])
    [] cmd[2] = "store" -> <<arg[1], Ape(at.l[1], cmd[3], at.pos % Ratios[at.l[2]], arg[2])>>
    [] cmd[2] = "router_select" -> Router(at.l[1], arg[1])
    [] cmd[2] = "routed_moe" -> Routed(at.l[1], arg[1], arg[2], arg[3])
    [] cmd[2] = "hc_expand" -> HcPost(arg[1], arg[2], arg[3])

\* Buffers after a tape; a buffer no command has written is stale.
Read(b, name) == IF name \in DOMAIN b THEN b[name] ELSE Stale(name)
RECURSIVE Run(_, _, _)
Run(at, tape, b) ==
  IF tape = <<>> THEN b
  ELSE LET cmd == Head(tape)
           value == Result(at, cmd, [i \in DOMAIN cmd[4] |-> Read(b, cmd[4][i])])
       IN  Run(at, Tail(tape), (cmd[1] :> value) @@ b)

\* ds4_gpu_hc_split_weighted_sum_tensor
HcSplitWeightedSum(part, cur, from) ==
  << Cmd("hc_split", "sinkhorn", part, <<"hc_mix">>),
     Cmd(cur, "weighted_sum_split", "", <<from, "hc_split">>) >>

HcPreStride(part, batch, cur, from) ==   \* mutant: the one-row sum for a batch of splits
  IF ~ Unfused({"hc"}) THEN HcSplitWeightedSum(part, cur, from)
  ELSE << Cmd("hc_split", "sinkhorn", part, <<"hc_mix">>),
          Cmd(cur, "weighted_sum", "", <<from, "hc_split">>) >>

HcPreTape(part, batch, cur, from) ==
  IF ~ Unfused({"hc"}) THEN HcSplitWeightedSum(part, cur, from)
  ELSE << Cmd("hc_split", "sinkhorn", part, <<"hc_mix">>),
          Cmd(cur, IF batch THEN "weighted_sum_split" ELSE "weighted_sum", "", <<from, "hc_split">>) >>

\* Mix, split and sum the streams, then the norm.  The kernel that also writes
\* the norm is for one token; it does these commands in this order.
PreNormTape(part, batch, cur, norm, from) ==
  << Cmd("flat_hc", "rms", "", <<from>>), Cmd("hc_mix", "mul", part, <<"flat_hc">>) >>
    \o (IF ~ batch /\ ~ Unfused({"hc", "hc_norm"})
        THEN HcSplitWeightedSum(part, cur, from) ELSE HcPreTape(part, batch, cur, from))
    \o << Cmd(norm, "rms_weight", part, <<cur>>) >>

QueryTape ==
  << Cmd("q", "mul", "attn_q_b", <<"qr_norm">>), Cmd("q", "head_norm", "", <<"q">>),
     Cmd("q", "rope", "", <<"q">>) >>

\* q and kv share the kernel of their norms, or kv follows the whole of q.
QkvTape ==
  LET qr == << Cmd("qr", "mul", "attn_q_a", <<"attn_norm">>) >>
      kv_raw == << Cmd("kv_raw", "mul", "attn_kv", <<"attn_norm">>) >>
      qr_norm == << Cmd("qr_norm", "rms_weight", "attn_q_a_norm", <<"qr">>) >>
      kv == << Cmd("kv", "rms_weight", "attn_kv_a_norm", <<"kv_raw">>) >>
  IN  qr \o (IF Unfused({"qkv_norm"}) THEN qr_norm \o QueryTape \o kv_raw \o kv
             ELSE kv_raw \o qr_norm \o kv \o QueryTape)
         \o << Cmd("kv", "rope", "", <<"kv">>) >>

\* Quantised in place, then stored.
KvStoreTape == << Cmd("kv", "fp8", "", <<"kv">>), Cmd("raw_row", "copy", "", <<"kv">>) >>

\* Both compressors go through the same two buffers, one after the other.
CompressorTape(k) ==
  << Cmd("comp_kv_cur", "mul", k \o "_compressor_kv", <<"attn_norm">>),
     Cmd("comp_sc_cur", "mul", k \o "_compressor_gate", <<"attn_norm">>),
     Cmd(k \o "_state", "store", k, <<"comp_kv_cur", "comp_sc_cur">>) >>

IndexTape ==
  << Cmd("indexer_q", "mul", "indexer_attn_q_b", <<"qr_norm">>),
     Cmd("indexer_q", "rope", "", <<"indexer_q">>),
     Cmd("indexer_weights", "mul", "indexer_proj", <<"attn_norm">>) >>

\* Norm, rope and, for the rows attention reads, quantisation of a pooled window.
RowTape(k) ==
  << Cmd("row", "rms_weight", k \o "_compressor_norm", <<"pooled">>), Cmd("row", "rope", "", <<"row">>) >>
    \o (IF k = "attn" THEN << Cmd("row", "fp8", "", <<"row">>) >> ELSE <<>>)

\* For one token the projection expands the streams itself, unless the output
\* is steered first; hc_post and hc_comb are views of hc_split.
AttnOutTape(batch) ==
  LET out == << Cmd("heads", "unrope", "", <<"heads">>),
                Cmd("attn_low", "mul", "attn_output_a", <<"heads">>),
                Cmd("attn_out", "mul", "attn_output_b", <<"attn_low">>) >>
      steer == IF "steer_attn" \in switches THEN << Cmd("attn_out", "steer", "", <<"attn_out">>) >> ELSE <<>>
      expand == << Cmd("after_attn_hc", "hc_expand", "", <<"attn_out", "cur_hc", "hc_split">>) >>
      fused == ~ batch /\ "steer_attn" \notin switches /\ ~ Unfused({"attn_out_hc"})
  IN  IF fused THEN out \o expand \o steer ELSE out \o steer \o expand

MoeTape ==
  << Cmd("router_logits", "mul", "ffn_gate_inp", <<"ffn_norm">>),
     Cmd("router_selected", "router_select", "", <<"token">>),
     Cmd("routed_out", "routed_moe", "", <<"ffn_norm", "router_logits", "router_selected">>),
     Cmd("shared_gate", "mul", "ffn_gate_shexp", <<"ffn_norm">>),
     Cmd("shared_up", "mul", "ffn_up_shexp", <<"ffn_norm">>),
     Cmd("shared_mid", "swiglu", "", <<"shared_gate", "shared_up">>),
     Cmd("shared_out", "mul", "ffn_down_shexp", <<"shared_mid">>) >>

\* ffn_out is materialised when it is steered or asked for; otherwise the two
\* halves are added while the streams are expanded.
NeedsFfnOut == switches \cap {"steer_ffn", "keep_ffn_out"} # {}
FfnOutTape(batch) ==
  LET expand(x) == << Cmd("after_ffn_hc", "hc_expand", "", <<x, "after_attn_hc", "hc_split">>) >>
      add_split == << Cmd("block_out", "add", "", <<"routed_out", "shared_out">>) >> \o expand("block_out")
      fused == ~ batch /\ ~ NeedsFfnOut /\ ~ Unfused({"shared_down_hc"})
  IN  (IF fused THEN add_split ELSE <<>>)
        \o (IF NeedsFfnOut THEN << Cmd("ffn_out", "add", "", <<"shared_out", "routed_out">>) >> ELSE <<>>)
        \o (CASE "steer_ffn" \in switches -> << Cmd("ffn_out", "steer", "", <<"ffn_out">>) >> \o expand("ffn_out")
              [] "steer_ffn" \notin switches /\ ~ fused -> add_split
              [] OTHER -> <<>>)

HeadTape ==
  << Cmd("flat_hc", "rms", "", <<"cur_hc">>),
     Cmd("output_pre", "mul", "hc_head_fn", <<"flat_hc">>),
     Cmd("output_weights", "head_weights", "hc_head", <<"output_pre">>),
     Cmd("output_embd", "weighted_sum", "", <<"cur_hc", "output_weights">>),
     Cmd("output_norm", "rms_weight", "output_norm", <<"output_embd">>) >>
-----------------------------------------------------------------------------
(* One layer over n rows that start at pos0; ins[t] has cur_hc and token.   *)

At(l, pos0, t) == [l |-> l, pos |-> pos0 + t - 1, row |-> t - 1]

\* Everything a row computes before it looks at other rows.
BeforeAttention(l, pos0, batch, ins) ==
  LET index == Ratio(l) = Fine
      tape == PreNormTape("attn", batch, "attn_cur", "attn_norm", "cur_hc") \o QkvTape \o KvStoreTape
                \o (IF Ratio(l) # 0 THEN CompressorTape("attn") ELSE <<>>)
                \o (IF index THEN CompressorTape("index") \o IndexTape ELSE <<>>)
  IN  [t \in DOMAIN ins |-> Run(At(l, pos0, t), tape, ins[t])]

\* Raw rows, then each compressor: its pairs, and a row for every window that ends.
Emits(l, pos) == (pos + 1) % Ratio(l) = 0
NewRow(l, k, pos, pairs) ==
  LET PairOf(p) == pairs[p + 1]
      pooled == Weighted("pool", 0, k, <<WindowOf(l, pos, PairOf)>>)
      at == [l |-> l, pos |-> pos + 1 - Ratio(l), row |-> 0]
  IN  Run(at, RowTape(k), [pooled |-> pooled])["row"]

Cached(il, c, pos0, rows) ==
  LET l == L(il)
      n == Len(rows)
      pairs == [k \in Kinds |->
        IF k \notin Compressors(l) THEN <<>>
        ELSE c.pairs[k] \o [t \in 1 .. n |->
               LET pos == pos0 + t - 1
               IN  Known(rows[t][k \o "_state"], Pair(l, k, Ratio(l), pos, Norm(l, "attn", Hc(il, pos))),
                         PairLeaf(k, il, pos))]]
      ends == SelectSeq([t \in 1 .. n |-> pos0 + t - 1], LAMBDA p : Ratio(l) # 0 /\ Emits(l, p))
  IN  [raw   |-> c.raw \o [t \in 1 .. n |->
                   Known(rows[t].raw_row, KvRow(l, pos0 + t - 1, Hc(il, pos0 + t - 1)), Kv(il, pos0 + t - 1))],
       pairs |-> pairs,
       rows  |-> [k \in Kinds |->
         IF k \notin Compressors(l) THEN <<>>
         ELSE c.rows[k] \o [i \in DOMAIN ends |->
                LET j == Len(c.rows[k]) + i
                IN  Known(NewRow(l, k, ends[i], pairs[k]), RefRow(k, il, j), RowLeaf(k, il, j))]]]

\* The raw rows a call leaves readable, and those of them one row's window covers.
RawSpan(pos0, n) == Lesser(IF n = 1 THEN Window ELSE n + Window, pos0 + n)
RawRows(c, pos0, n, pos) ==
  LET first_raw_pos == pos0 + n - RawSpan(pos0, n)
      lo == IF pos + 1 > first_raw_pos + Window THEN pos + 1 - Window ELSE first_raw_pos
  IN  SubSeq(c.raw, lo + 1, pos + 1)

\* One token reads every compressed row there is, a row of a batch those that
\* end before it.
TokenHeads(il, c, pos, b) ==
  LET n_comp == Len(c.rows["attn"])
      allowed == IF Ratios[il] = Fine /\ n_comp > TopK
                 THEN Allowed(b.indexer_q, b.indexer_weights, c.rows["index"]) ELSE Leaf("all", 0, 0)
  IN  Attention(L(il), b.q, RawRows(c, pos, 1, pos), c.rows["attn"], allowed)

\* A cold batch reads its own kv buffer, not the ring.
ColdHeads(il, c, rows, t) ==
  LET pos == t - 1
      KvAt(q) == Known(rows[q + 1].kv, KvRow(L(il), q, Hc(il, q)), Kv(il, q))
      lo == IF pos + 1 > Window THEN pos + 1 - Window ELSE 0
  IN  Attention(L(il), rows[t].q, [i \in 1 .. pos + 1 - lo |-> KvAt(lo + i - 1)],
                SubSeq(c.rows["attn"], 1, Visible(L(il), pos)), Leaf("all", 0, 0))

PrefixHeads(il, c, pos0, rows, t) ==
  LET pos == pos0 + t - 1
  IN  Attention(L(il), rows[t].q, RawRows(c, pos0, Len(rows), pos),
                SubSeq(c.rows["attn"], 1, Visible(L(il), pos)), Leaf("all", 0, 0))

SelectedHeads(il, c, pos0, rows, t) ==
  LET pos == pos0 + t - 1
      visible == Visible(L(il), pos)
  IN  Attention(L(il), rows[t].q, RawRows(c, pos0, Len(rows), pos), SubSeq(c.rows["attn"], 1, visible),
                Allowed(rows[t].indexer_q, rows[t].indexer_weights, SubSeq(c.rows["index"], 1, visible)))

BatchHeads(il, c, pos0, rows, t) ==
  IF Ratios[il] = Fine /\ Len(c.rows["attn"]) > TopK THEN SelectedHeads(il, c, pos0, rows, t)
  ELSE IF pos0 = 0 THEN ColdHeads(il, c, rows, t) ELSE PrefixHeads(il, c, pos0, rows, t)

AfterHeads(at, batch, b, heads) == Run(at, AttnOutTape(batch), ("heads" :> heads) @@ b)
Ffn(at, batch, b) ==
  Run(at, PreNormTape("ffn", batch, "ffn_cur", "ffn_norm", "after_attn_hc") \o MoeTape \o FfnOutTape(batch), b)

LayerOut(il, pos0, batch, b, heads, t) ==
  LET pos == pos0 + t - 1
      attn == AfterHeads(At(L(il), pos0, t), batch, b, heads)
      after == Known(attn.after_attn_hc, RefAfterAttn(switches, il, pos), Leaf("after_attn", il, pos))
      out == Ffn(At(L(il), pos0, t), batch, [attn EXCEPT !.after_attn_hc = after])
  IN  Known(out.after_ffn_hc, RefAfterFfn(switches, il, pos), Hc(il + 1, pos))

OutputHead(owner, row, cur_hc) ==
  Mul(0, "output", Run([l |-> <<owner, 0>>, pos |-> 0, row |-> row], HeadTape, [cur_hc |-> cur_hc]).output_norm)
-----------------------------------------------------------------------------
(* Calls. *)

Idle == [kind |-> "idle", pos0 |-> 0, n |-> 0, il |-> 0]

Init ==
  /\ switches \in SwitchSets
  /\ len = 0 /\ call = Idle
  /\ hc = [cur |-> Stale("cur_hc"), after |-> Stale("after_ffn_hc"),
           state |-> Stale("mtp_state_hc"), next |-> Stale("mtp_next_hc")]
  /\ batch_cur_hc = <<>> /\ prefill_tokens = <<>>
  /\ cache = [il \in Layers |-> [raw |-> <<>>, pairs |-> [k \in Kinds |-> <<>>], rows |-> [k \in Kinds |-> <<>>]]]
  /\ mtp = [raw |-> [pos \in 0 .. MaxLen + MaxDrafts |-> Stale("mtp_raw_cache")], n_raw |-> 0, base |-> 0]
  /\ logits = <<>> /\ mtp_logits = Stale("mtp_logits") /\ drafts = -1

OnCpu == "cpu" \in switches

BeginToken ==
  /\ call = Idle /\ ~ OnCpu /\ len < MaxLen
  /\ call' = [kind |-> "token", pos0 |-> len, n |-> 1, il |-> 1]
  /\ hc' = [hc EXCEPT !.cur = Embedding(len)]
  /\ UNCHANGED <<switches, len, batch_cur_hc, prefill_tokens, cache, mtp, logits, mtp_logits, drafts>>

TokenLayer ==
  /\ call.kind = "token" /\ call.il \in Layers
  /\ LET il == call.il
         rows == BeforeAttention(L(il), len, FALSE, << [cur_hc |-> hc.cur, token |-> Token(len)] >>)
         c == Cached(il, cache[il], len, rows)
         out == LayerOut(il, len, FALSE, rows[1], TokenHeads(il, c, len, rows[1]), 1)
     IN  /\ cache' = [cache EXCEPT ![il] = c]
         /\ hc' = [hc EXCEPT !.cur = out, !.after = hc.cur]
  /\ call' = [call EXCEPT !.il = @ + 1]
  /\ UNCHANGED <<switches, len, batch_cur_hc, prefill_tokens, mtp, logits, mtp_logits, drafts>>

TokenDone ==
  /\ call.kind = "token" /\ call.il \notin Layers
  /\ logits' = << OutputHead(0, 0, hc.cur) >>
  /\ len' = len + 1 /\ call' = Idle /\ drafts' = 0
  /\ UNCHANGED <<switches, hc, batch_cur_hc, prefill_tokens, cache, mtp, mtp_logits>>

TokensOnce(n) ==   \* mutant: uploaded for the first chunk only
  prefill_tokens' = IF len = 0 THEN [t \in 1 .. n |-> Token(t - 1)] ELSE prefill_tokens

\* The tokens are uploaded for the layers that route by them.
TokensUpload(n) == prefill_tokens' = [t \in 1 .. n |-> Token(len + t - 1)]

BeginBatch(kind, n) ==
  /\ call = Idle /\ ~ OnCpu /\ len + n <= MaxLen
  /\ IF kind = "verify" THEN drafts > 1 /\ n = drafts ELSE TRUE
  /\ TokensUpload(n)
  /\ batch_cur_hc' = [t \in 1 .. n |-> Embedding(len + t - 1)]
  /\ call' = [kind |-> kind, pos0 |-> len, n |-> n, il |-> 1]
  /\ UNCHANGED <<switches, len, hc, cache, mtp, logits, mtp_logits, drafts>>

TokenOf(t) == IF t \in DOMAIN prefill_tokens THEN prefill_tokens[t] ELSE Stale("prefill_tokens")

BatchLayer ==
  /\ call.kind \in {"prompt", "verify"} /\ call.il \in Layers
  /\ LET il == call.il
         rows == BeforeAttention(L(il), len, TRUE,
                   [t \in 1 .. call.n |-> [cur_hc |-> batch_cur_hc[t], token |-> TokenOf(t)]])
         c == Cached(il, cache[il], len, rows)
     IN  /\ cache' = [cache EXCEPT ![il] = c]
         /\ batch_cur_hc' = [t \in 1 .. call.n |->
              LayerOut(il, len, TRUE, rows[t], BatchHeads(il, c, len, rows, t), t)]
  /\ call' = [call EXCEPT !.il = @ + 1]
  /\ UNCHANGED <<switches, len, hc, prefill_tokens, mtp, logits, mtp_logits, drafts>>

\* A prompt needs the logits of its last row; cur_hc points there meanwhile.
PromptDone ==
  /\ call.kind = "prompt" /\ call.il \notin Layers
  /\ logits' = << OutputHead(0, 0, batch_cur_hc[call.n]) >>
  /\ len' = len + call.n /\ call' = Idle /\ drafts' = -1
  /\ UNCHANGED <<switches, hc, batch_cur_hc, prefill_tokens, cache, mtp, mtp_logits>>

\* A verifier needs those of every row.
VerifyDone ==
  /\ call.kind = "verify" /\ call.il \notin Layers
  /\ logits' = [t \in 1 .. call.n |-> OutputHead(0, t - 1, batch_cur_hc[t])]
  /\ len' = len + call.n /\ call' = Idle /\ drafts' = -1
  /\ UNCHANGED <<switches, hc, batch_cur_hc, prefill_tokens, cache, mtp, mtp_logits>>
-----------------------------------------------------------------------------
(* The CPU backend: a prompt from position 0, then one token at a time.     *)

BeginCpu(n) ==
  /\ call = Idle /\ OnCpu /\ len + n <= MaxLen
  /\ len = 0 \/ n = 1
  /\ batch_cur_hc' = [t \in 1 .. n |-> Embedding(len + t - 1)]
  /\ call' = [kind |-> "cpu", pos0 |-> len, n |-> n, il |-> 1]
  /\ UNCHANGED <<switches, len, hc, prefill_tokens, cache, mtp, logits, mtp_logits, drafts>>

CpuLayer ==
  /\ call.kind = "cpu" /\ call.il \in Layers
  /\ LET il == call.il
         attn == CpuAttention(switches, il, cache[il], len, batch_cur_hc)
     IN  /\ cache' = [cache EXCEPT ![il] = attn.cache]
         /\ batch_cur_hc' = CpuFfn(switches, il, len, attn.out, [t \in 1 .. call.n |-> Token(len + t - 1)])
  /\ call' = [call EXCEPT !.il = @ + 1]
  /\ UNCHANGED <<switches, len, hc, prefill_tokens, mtp, logits, mtp_logits, drafts>>

CpuDone ==
  /\ call.kind = "cpu" /\ call.il \notin Layers
  /\ logits' = << Logits(0, batch_cur_hc[call.n]) >>
  /\ len' = len + call.n /\ call' = Idle
  /\ UNCHANGED <<switches, hc, batch_cur_hc, prefill_tokens, cache, mtp, mtp_logits, drafts>>
-----------------------------------------------------------------------------
(* The draft block: the decode layer with its own weights, raw rows and     *)
(* hidden states.  cur_hc and after_ffn_hc point elsewhere while it runs.   *)

DraftIn(prev_hc, token) ==
  Sum(Mul(Mtp, "e_proj", RmsWeight(Mtp, "enorm", token)), Mul(Mtp, "h_proj", RmsWeight(Mtp, "hnorm", prev_hc)))

PrevOf(h, k) == IF k = 0 THEN h.cur ELSE IF k % 2 = 1 THEN h.state ELSE h.next
MovedIntoCur(h, k, out) == [h EXCEPT !.state = out, !.cur = out]   \* mutant: cur_hc is not put back
Moved(h, k, out) == IF k % 2 = 0 THEN [h EXCEPT !.state = out] ELSE [h EXCEPT !.next = out]

\* What draft k at pos should be, from the rows its cache holds.
RefDraft(k, pos, raw) ==
  LET prev == IF k = 0 THEN Hc(Len(Ratios) + 1, pos) ELSE Leaf("draft_hc", k - 1, pos - 1)
      in == DraftIn(prev, Embedding(pos))
  IN  AfterFfn(switches, DraftL, Token(pos), AfterAttn(switches, DraftL, pos, in, raw, <<>>, <<>>))

Draft ==
  /\ call = Idle /\ drafts \in 0 .. MaxDrafts - 1
  /\ LET k == drafts
         pos == len - 1 + k
         b == BeforeAttention(DraftL, pos, FALSE,
                << [cur_hc |-> DraftIn(PrevOf(hc, k), Embedding(pos)), token |-> Token(pos)] >>)[1]
         n_raw == Lesser(mtp.n_raw + 1, Lesser(Window, pos + 1))
         seen == [i \in 1 .. n_raw |-> IF i = n_raw THEN b.raw_row ELSE mtp.raw[pos - n_raw + i]]
         at == At(DraftL, pos, 1)
         out == Ffn(at, FALSE, AfterHeads(at, FALSE, b, Attention(DraftL, b.q, seen, <<>>, Leaf("all", 0, 0))))
         draft_hc == Known(out.after_ffn_hc, RefDraft(k, pos, seen), Leaf("draft_hc", k, pos))
         counted == Lesser(mtp.n_raw + 1, Window)
     IN  /\ hc' = Moved(hc, k, draft_hc)
         /\ mtp' = [raw   |-> [mtp.raw EXCEPT ![pos] = Leaf("draft_kv", k, pos)],
                    n_raw |-> counted,
                    base  |-> IF k = 0 THEN counted ELSE mtp.base]
         /\ mtp_logits' = OutputHead(Mtp, 0, draft_hc)
  /\ drafts' = drafts + 1
  /\ UNCHANGED <<switches, len, call, batch_cur_hc, prefill_tokens, cache, logits>>

Next ==
  \/ BeginToken \/ TokenLayer \/ TokenDone
  \/ \E kind \in {"prompt", "verify"}, n \in 1 .. MaxBatch : BeginBatch(kind, n)
  \/ BatchLayer \/ PromptDone \/ VerifyDone
  \/ \E n \in 1 .. MaxBatch : BeginCpu(n)
  \/ CpuLayer \/ CpuDone
  \/ Draft

Spec == Init /\ [][Next]_vars
-----------------------------------------------------------------------------
(* Properties. *)

Done(il) == IF call # Idle /\ il < call.il THEN len + call.n ELSE len

\* What every layer leaves for later tokens is what the CPU would leave, also
\* while a call is under way: a raw row for each position, a compressed row for
\* each whole window (9316, 11406, 11495).
CachesAreReference ==
  \A il \in Layers :
    /\ Len(cache[il].raw) = Done(il)
    /\ \A i \in DOMAIN cache[il].raw : cache[il].raw[i] = Kv(il, i - 1)
    /\ \A k \in Kinds : \A j \in DOMAIN cache[il].rows[k] : cache[il].rows[k][j] = RowLeaf(k, il, j)
    /\ \A k \in Compressors(L(il)) : Len(cache[il].rows[k]) = Done(il) \div Ratios[il]

\* The logits of every path are those of one token at a time on the CPU: one
\* token or a batch, cold or on a prefix, fused kernels or separate ones,
\* steered or not, the last row of a prompt and every row of a verifier; and
\* so are the caches.
GraphIsReference ==
  /\ \A i \in DOMAIN logits : logits[i] = RefLogits(len - Len(logits) + i - 1)
  /\ CachesAreReference

\* Drafting borrows cur_hc and after_ffn_hc and puts them back: while drafts are
\* made the target's hidden state stays, and every draft is the block's output
\* for the state the target or the draft before it left.
DraftBesideTarget ==
  call = Idle /\ drafts >= 0 =>
    /\ hc.cur = Hc(Len(Ratios) + 1, len - 1)
    /\ drafts > 0 => mtp_logits = Logits(Mtp, Leaf("draft_hc", drafts - 1, len - 2 + drafts))
=============================================================================
