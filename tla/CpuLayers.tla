------------------------------ MODULE CpuLayers ------------------------------
(***************************************************************************)
(* One layer on the CPU backend of src/ds4_gb10/ds4.c: a prompt from        *)
(* position 0 as a batch, or one token on a cache.  A batch computes the    *)
(* rows' projections first, walks the tokens through the caches, and may    *)
(* leave attention to a parallel pass over the rows, which needs the row    *)
(* counts and selections each token saw.  The routed experts of a prompt    *)
(* run in slices of FfnBatch tokens when asked to.                          *)
(*                                                                         *)
(* The flags that only change how loops are cut for the pool (rope in       *)
(* batches, routed experts by token) leave every expression as it is and    *)
(* are left out.                                                            *)
(***************************************************************************)
EXTENDS LayerTape

CONSTANTS
  FfnBatch   \* DS4_PREFILL_BATCH

ASSUME FfnBatchAssumption == FfnBatch \in Nat \ {0}

CpuFlags == {"no_batched_attn", "parallel_attn_rows", "batched_ffn", "no_shared_batch_ffn"}

All == Leaf("all", 0, 0)

\* hc_pre_norm_batch and the batched projections.
CpuRow(l, hc) ==
  LET norm == Norm(l, "attn", hc)
      qr_norm == RmsWeight(l[1], "attn_q_a_norm", Mul(l[1], "attn_q_a", norm))
  IN  [residual |-> hc, split |-> HcSplit(l, "attn", hc), norm |-> norm, qr_norm |-> qr_norm,
       q  |-> HeadNorm(Mul(l[1], "attn_q_b", qr_norm)),
       kv |-> RmsWeight(l[1], "attn_kv_a_norm", Mul(l[1], "attn_kv", norm))]

\* Rope by absolute position; kv is quantised in place.
CpuRoped(il, pos0, rows) ==
  [t \in DOMAIN rows |->
     LET pos == pos0 + t - 1
         kv == Fp8(Rope(il, pos, rows[t].kv))
     IN  [rows[t] EXCEPT !.q = Rope(il, pos, @),
                         !.kv = Known(kv, KvRow(L(il), pos, Hc(il, pos)), Kv(il, pos))]]

\* One token into the caches of a layer.
CpuPush(il, c, pos, b) ==
  LET l == L(il)
      r == Ratio(l)
      pairs == [k \in Kinds |->
        IF k \notin Compressors(l) THEN <<>>
        ELSE Append(c.pairs[k], Known(Pair(l, k, r, pos, b.norm),
                                      Pair(l, k, r, pos, Norm(l, "attn", Hc(il, pos))), PairLeaf(k, il, pos)))]
      NewRowOf(k) ==
        LET PairAt(p) == pairs[k][p + 1]
            j == Len(c.rows[k]) + 1
        IN  Known(Row(l, k, r, pos, WindowOf(l, pos, PairAt)), RefRow(k, il, j), RowLeaf(k, il, j))
  IN  [raw   |-> Append(c.raw, b.kv),
       pairs |-> pairs,
       rows  |-> [k \in Kinds |->
         IF k \in Compressors(l) /\ (pos + 1) % r = 0 THEN Append(c.rows[k], NewRowOf(k)) ELSE c.rows[k]]]

CpuCaches(il, c, pos0, rows) ==
  LET after[t \in 0 .. Len(rows)] ==
        IF t = 0 THEN c ELSE CpuPush(il, after[t - 1], pos0 + t - 1, rows[t])
  IN  after

\* The rows the indexer lets a token read, when the token's turn comes.
CpuAllowed(il, c, pos, b) ==
  IF Ratios[il] # Fine THEN All
  ELSE Allowed(IndexQuery(L(il), pos, b.qr_norm), Mul(L(il)[1], "indexer_proj", b.norm), c.rows["index"])

\* Attention in the token loop: what the cache holds now.
LoopHeads(il, c, pos, b, allowed) ==
  Attention(L(il), b.q, SubSeq(c.raw, First(pos) + 1, pos + 1), c.rows["attn"], allowed)

PrefixRowLate(il, end, comp_counts, t, rows, allowed) ==   \* mutant: every row there is by the end
  Attention(L(il), rows[t].q, [i \in 1 .. Span(t - 1) |-> rows[First(t - 1) + i].kv], end.rows["attn"], allowed)

\* The parallel pass after the loop: kv rows of the batch, and the first
\* comp_counts[t] compressed rows of the finished cache.
PrefixRow(il, end, comp_counts, t, rows, allowed) ==
  Attention(L(il), rows[t].q, [i \in 1 .. Span(t - 1) |-> rows[First(t - 1) + i].kv],
            SubSeq(end.rows["attn"], 1, comp_counts[t]), allowed)

CpuAttention(s, il, c, pos0, hcs) ==
  LET l == L(il)
      rows == CpuRoped(il, pos0, [t \in DOMAIN hcs |-> CpuRow(l, hcs[t])])
      after == CpuCaches(il, c, pos0, rows)
      end == after[Len(rows)]
      prefix == pos0 = 0 /\ "parallel_attn_rows" \in s /\ "no_batched_attn" \notin s
      comp_counts == [t \in DOMAIN rows |-> Len(after[t].rows["attn"])]
      heads == [t \in DOMAIN rows |->
        LET pos == pos0 + t - 1
            allowed == CpuAllowed(il, after[t], pos, rows[t])
        IN  IF prefix THEN PrefixRow(il, end, comp_counts, t, rows, allowed)
            ELSE LoopHeads(il, after[t], pos, rows[t], allowed)]
  IN  [cache |-> end,
       out   |-> [t \in DOMAIN rows |->
         Known(HcPost(Steered(s, "steer_attn", l, AttnOut(l, pos0 + t - 1, heads[t])),
                      rows[t].residual, rows[t].split),
               RefAfterAttn(s, il, pos0 + t - 1), Leaf("after_attn", il, pos0 + t - 1))]]

\* Norms, routed experts and the shared expert of all rows, one after the other.
CpuFfnShared(s, l, tokens, attn) ==
  LET norm == [t \in DOMAIN attn |-> Norm(l, "ffn", attn[t])]
      split == [t \in DOMAIN attn |-> HcSplit(l, "ffn", attn[t])]
      moe == [t \in DOMAIN attn |-> MoeOut(l, tokens[t], norm[t])]
      shared == [t \in DOMAIN attn |-> SharedOut(l, norm[t])]
  IN  [t \in DOMAIN attn |->
         HcPost(Steered(s, "steer_ffn", l, Sum(moe[t], shared[t])), attn[t], split[t])]

\* The same in slices: a slice starts at the same token in the states and the ids.
CpuFfnSliced(s, l, tokens, attn) ==
  LET Start(t) == ((t - 1) \div FfnBatch) * FfnBatch
      From(seq, t) == SubSeq(seq, Start(t) + 1, Len(seq))
  IN  [t \in DOMAIN attn |-> CpuFfnShared(s, l, From(tokens, t), From(attn, t))[t - Start(t)]]

CpuFfn(s, il, pos0, attn, tokens) ==
  LET l == L(il)
      out == CASE pos0 = 0 /\ "batched_ffn" \in s -> CpuFfnSliced(s, l, tokens, attn)
               [] pos0 = 0 /\ s \cap {"batched_ffn", "no_shared_batch_ffn", "no_batched_attn"} = {} ->
                    CpuFfnShared(s, l, tokens, attn)
               [] OTHER -> [t \in DOMAIN attn |-> AfterFfn(s, l, tokens[t], attn[t])]
  IN  [t \in DOMAIN attn |-> Known(out[t], RefAfterFfn(s, il, pos0 + t - 1), Hc(il + 1, pos0 + t - 1))]
=============================================================================
