------------------------------ MODULE LayerTape ------------------------------
(***************************************************************************)
(* The computation of one DS4 layer, twice (src/ds4_gb10/ds4.c): as the CPU *)
(* code writes it, a function of the layer's input, and as the graph        *)
(* encodes it, a tape of kernels over named buffers, each command reading   *)
(* buffers that earlier commands wrote.  Switches choose between fused and  *)
(* separate kernels, and the tape for one token differs from the tape for a *)
(* batch.                                                                   *)
(*                                                                         *)
(* Numbers are terms: <<operation, key, operands>>.  Two results are equal  *)
(* when they are the same expression over the same weights and inputs.      *)
(* Rounding, the order of sums and the width of a dot product are left out. *)
(* The value a reference computes gets a leaf of its own, <<name, key,      *)
(* <<>>>>, and stands for the whole expression from there on.               *)
(***************************************************************************)
EXTENDS Integers, Sequences, SequencesExt

CONSTANTS
  Ratios,   \* compress ratio of each layer: 0, 4 or 128 in the code
  Fine,     \* the ratio with an indexer: 4 in the code
  Hashed,   \* layers that route by token id
  Window,   \* DS4_N_SWA
  TopK      \* DS4_N_INDEXER_TOP_K

Layers == DOMAIN Ratios
Mtp == -1            \* owner of the weights of the draft block

ASSUME LayersAssumption ==
  /\ Ratios \in Seq(Nat) /\ Fine \in Nat \ {0} /\ Hashed \subseteq Layers
  /\ Window \in Nat \ {0} /\ TopK \in Nat \ {0}

\* What turns a fused kernel off (DS4_METAL_DISABLE_... in the code), steers,
\* or asks for an intermediate result.
Flags == {"hc", "hc_norm", "qkv_norm", "attn_out_hc", "shared_down_hc",
          "steer_attn", "steer_ffn", "keep_ffn_out"}

Kinds == {"attn", "index"}
-----------------------------------------------------------------------------
(* Terms. *)

Term(op, key, args) == <<op, key, args>>
Weighted(op, owner, w, args) == Term(op, <<owner, w>>, args)
Placed(op, il, pos, args) == Term(op, <<il, pos>>, args)

Leaf(name, il, pos) == Placed(name, il, pos, <<>>)
Stale(name) == Leaf(name, -9, -9)
Token(pos) == Leaf("token", 0, pos)

\* A value that is what the reference says is known by its name.
Known(x, reference, leaf) == IF x = reference THEN leaf ELSE x

Rms(x) == Weighted("rms", 0, "", <<x>>)
RmsWeight(o, w, x) == Weighted("rms_weight", o, w, <<x>>)
Mul(o, w, x) == Weighted("mul", o, w, <<x>>)
Sinkhorn(o, w, mix) == Weighted("sinkhorn", o, w, <<mix>>)
HeadWeights(o, w, pre) == Weighted("head_weights", o, w, <<pre>>)
WeightedSum(hc, split) == Weighted("weighted_sum", 0, "", <<hc, split>>)
HeadNorm(x) == Weighted("head_norm", 0, "", <<x>>)
Rope(il, pos, x) == Placed("rope", il, pos, <<x>>)
Unrope(il, pos, x) == Placed("unrope", il, pos, <<x>>)
Fp8(x) == Weighted("fp8", 0, "", <<x>>)
Sum(x, y) == Weighted("sum", 0, "", <<{x, y}>>)
SwiGlu(gate, up) == Weighted("swiglu", 0, "", <<gate, up>>)
Steer(il, x) == Placed("steer", il, 0, <<x>>)
HcPost(out, residual, split) == Weighted("hc_post", 0, "", <<out, residual, split>>)
Ape(o, w, phase, score) == Weighted("ape", o, w, <<Placed("phase", 0, phase, <<>>), score>>)
Routed(o, norm, logits, chosen) == Weighted("moe", o, "ffn_exps", <<norm, logits, chosen>>)

\* Experts by a table of token ids or by the biased logits; weights from both.
Router(o, token) == IF o \in Hashed THEN token ELSE Stale("no token")
-----------------------------------------------------------------------------
(* The reference: one token through one layer, as the CPU computes it.      *)
(* Operand "l" is <<owner of the weights, layer index>>: the draft block    *)
(* runs as layer 1 with weights of its own.                                 *)

HcSplit(l, part, hc) == Sinkhorn(l[1], part, Mul(l[1], part, Rms(hc)))
HcPre(l, part, hc) == WeightedSum(hc, HcSplit(l, part, hc))
Norm(l, part, hc) == RmsWeight(l[1], part, HcPre(l, part, hc))

QrNorm(l, hc) == RmsWeight(l[1], "attn_q_a_norm", Mul(l[1], "attn_q_a", Norm(l, "attn", hc)))
Query(l, pos, hc) == Rope(l[2], pos, HeadNorm(Mul(l[1], "attn_q_b", QrNorm(l, hc))))
KvRow(l, pos, hc) ==
  Fp8(Rope(l[2], pos, RmsWeight(l[1], "attn_kv_a_norm", Mul(l[1], "attn_kv", Norm(l, "attn", hc)))))

\* What a compressor stores for one token, and the row it makes of a window.
Pair(l, k, r, pos, norm) ==
  <<Mul(l[1], k \o "_compressor_kv", norm), Ape(l[1], k, pos % r, Mul(l[1], k \o "_compressor_gate", norm))>>
Pooled(l, k, window) == RmsWeight(l[1], k \o "_compressor_norm", Weighted("pool", 0, k, <<window>>))
Row(l, k, r, pos, window) ==
  LET x == Rope(l[2], pos + 1 - r, Pooled(l, k, window))
  IN  IF k = "attn" THEN Fp8(x) ELSE x

IndexQuery(l, pos, qr_norm) == Rope(l[2], pos, Mul(l[1], "indexer_attn_q_b", qr_norm))
\* Which of the visible rows a head reads: all of them, or the best TopK.
Allowed(query, weights, rows) ==
  IF Len(rows) <= TopK THEN Leaf("all", 0, 0)
  ELSE Weighted("top_k", 0, "", <<query, weights, rows>>)

Attention(l, q, raw, comp, allowed) == Weighted("attend", l[1], "sinks", <<q, raw, comp, allowed>>)
AttnOut(l, pos, heads) == Mul(l[1], "attn_output_b", Mul(l[1], "attn_output_a", Unrope(l[2], pos, heads)))

Steered(s, flag, l, x) == IF flag \in s THEN Steer(l[2], x) ELSE x

AfterAttn(s, l, pos, hc, raw, comp, index) ==
  LET allowed == Allowed(IndexQuery(l, pos, QrNorm(l, hc)),
                         Mul(l[1], "indexer_proj", Norm(l, "attn", hc)), index)
      heads == Attention(l, Query(l, pos, hc), raw, comp, allowed)
  IN  HcPost(Steered(s, "steer_attn", l, AttnOut(l, pos, heads)), hc, HcSplit(l, "attn", hc))

MoeOut(l, token, norm) == Routed(l[1], norm, Mul(l[1], "ffn_gate_inp", norm), Router(l[1], token))
SharedOut(l, norm) ==
  Mul(l[1], "ffn_down_shexp", SwiGlu(Mul(l[1], "ffn_gate_shexp", norm), Mul(l[1], "ffn_up_shexp", norm)))

AfterFfn(s, l, token, hc) ==
  LET norm == Norm(l, "ffn", hc)
      ffn_out == Sum(MoeOut(l, token, norm), SharedOut(l, norm))
  IN  HcPost(Steered(s, "steer_ffn", l, ffn_out), hc, HcSplit(l, "ffn", hc))

\* The head collapses the streams with weights of its own.
HeadWeightsOf(o, hc) == HeadWeights(o, "hc_head", Mul(o, "hc_head_fn", Rms(hc)))
Logits(o, hc) == Mul(0, "output", RmsWeight(o, "output_norm", WeightedSum(hc, HeadWeightsOf(o, hc))))
-----------------------------------------------------------------------------
(* What the reference leaves in the caches and hands to the next layer.     *)

L(il) == <<il, il>>
DraftL == <<Mtp, 1>>      \* il 1 in the code: no compressor, as layer 0
Ratio(l) == Ratios[l[2]]
Compressors(l) == IF Ratio(l) = 0 THEN {} ELSE IF Ratio(l) = Fine THEN Kinds ELSE {"attn"}

Hc(il, pos) == Leaf("hc", il, pos)
Embedding(pos) == Hc(1, pos)
Kv(il, pos) == Leaf("kv", il, pos)
PairLeaf(k, il, pos) == Leaf(k \o "_pair", il, pos)
RowLeaf(k, il, j) == Leaf(k \o "_row", il, j)
Cleared == Leaf("cleared", 0, 0)

\* The window that ends at pos: overlapping windows at the fine ratio.
WindowOf(l, pos, PairAt(_)) ==
  LET r == Ratio(l)
      n == IF r = Fine THEN 2 * r ELSE r
  IN  [i \in 1 .. n |-> IF pos - n + i < 0 THEN Cleared ELSE PairAt(pos - n + i)]

RefRow(k, il, j) ==
  LET last == j * Ratios[il] - 1
      Pr(p) == PairLeaf(k, il, p)
  IN  Row(L(il), k, Ratios[il], last, WindowOf(L(il), last, Pr))

Lesser(a, b) == IF a < b THEN a ELSE b
First(pos) == IF pos < Window THEN 0 ELSE pos - Window + 1
Span(pos) == pos - First(pos) + 1
Visible(l, pos) == IF Ratio(l) = 0 THEN 0 ELSE (pos + 1) \div Ratio(l)

RefAfterAttn(s, il, pos) ==
  AfterAttn(s, L(il), pos, Hc(il, pos),
            [i \in 1 .. Span(pos) |-> Kv(il, First(pos) + i - 1)],
            [j \in 1 .. Visible(L(il), pos) |-> RowLeaf("attn", il, j)],
            [j \in 1 .. IF Ratios[il] = Fine THEN Visible(L(il), pos) ELSE 0 |-> RowLeaf("index", il, j)])

RefAfterFfn(s, il, pos) == AfterFfn(s, L(il), Token(pos), Leaf("after_attn", il, pos))
RefLogits(pos) == Logits(0, Hc(Len(Ratios) + 1, pos))
=============================================================================
