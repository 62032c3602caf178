------------------------ MODULE EngineSessionProofs ------------------------
(***************************************************************************)
(* What a session at rest may rely on, for every context size, ring size,  *)
(* window, ratio, prompt and draft: a valid checkpoint is the whole truth  *)
(* about the caches (EngineSession!CacheOfCheckpoint), a saved payload is  *)
(* the state of the tokens it names (PayloadOfTokens), and speculation     *)
(* accepts only the target's own choices (SpeculationIsGreedy).            *)
(*                                                                         *)
(* The argument is one relation, Sound(b, x, c, h, p, ok): the cache c of  *)
(* a session of backend b and context x stands for the first p tokens of   *)
(* h.  Its counters always do; its rows do when ok, which is "the prefix   *)
(* did not begin with an unaligned graph prefill".  Every forward pass     *)
(* takes a cache that stands for p tokens to one that stands for more.     *)
(***************************************************************************)
EXTENDS EngineSession, NatProofs, SequenceTheorems

-----------------------------------------------------------------------------
(* The relation between a cache and a history. *)

Hist == Seq(Token) \cup {Stale}

\* RawCap of a session of backend b and context x.
Cap(b, x) == IF b = "cpu" THEN Lesser(Window, x) ELSE RawCapForContext(x)

\* The state rows before the window under way: the previous window, if kept.
Half(k) == IF Overlaps(k) THEN Ratio(k) ELSE 0

\* The positions before p that form whole windows.
Whole(k, p) == (p \div Ratio(k)) * Ratio(k)

Place(h, q) == IF q < 0 THEN <<>> ELSE At(h, q)

Lanes(x, k) == [win  : [0 .. Rows(k) - 1 -> Hist],
                comp : [0 .. CompCap(x, k) - 1 -> Hist],
                n    : Nat]

\* A compressor of kind k that was fed the first p positions of h.
LaneAt(x, lane, k, h, p, ok) ==
  /\ lane \in Lanes(x, k)
  /\ lane.n = p \div Ratio(k)
  /\ ok => /\ \A i \in 0 .. (p \div Ratio(k)) - 1 : lane.comp[i] = At(h, (i + 1) * Ratio(k) - 1)
           /\ \A r \in 0 .. Half(k) + (p % Ratio(k)) - 1 :
                lane.win[r] = Place(h, Whole(k, p) - Half(k) + r)

\* The caches of a session of backend b and context x.
Wins == UNION {[0 .. Rows(k) - 1 -> Hist] : k \in Kinds}
Comps(x) == UNION {[0 .. CompCap(x, k) - 1 -> Hist] : k \in Kinds}
Caches(b, x) ==
  {c \in [raw    : [0 .. Cap(b, x) - 1 -> Hist],
          n_raw  : Nat,
          comp   : [Kinds -> Comps(x)],
          n_comp : [Kinds -> Nat],
          win    : [Kinds -> Wins]] :
     \A k \in Kinds : Lane(c, k) \in Lanes(x, k)}

\* The first position the token at position p sees without compression, less one.
From(p) == IF p > Window THEN p - Window ELSE 0

\* The raw rows that the next token, or a save, can read.
RawAt(b, x, c, h, p, ok) ==
  /\ b = "cpu" => c.n_raw = Lesser(Window, p)
  /\ ok => \A q \in From(p) .. p - 1 :
             c.raw[IF b = "cpu" THEN q - From(p) ELSE q % Cap(b, x)] = At(h, q)

Sound(b, x, c, h, p, ok) ==
  /\ c \in Caches(b, x)
  /\ RawAt(b, x, c, h, p, ok)
  /\ \A k \in Kinds : LaneAt(x, Lane(c, k), k, h, p, ok)

\* What a forward pass over h gives.
Stands(b, x, r, h, ok) ==
  /\ Sound(b, x, r.c, h, Len(h), ok)
  /\ r.out \in Hist
  /\ ok => r.out = h

-----------------------------------------------------------------------------
(* The inductive invariant. *)

TypeOK ==
  /\ backend \in Backends /\ ctx \in Ctxs
  /\ checkpoint \in Seq(Token) /\ checkpoint_valid \in BOOLEAN
  /\ logits \in Hist /\ ragged \in BOOLEAN
  /\ cache \in Caches(backend, ctx)

CacheStands ==
  checkpoint_valid =>
    /\ checkpoint # <<>> /\ Len(checkpoint) <= ctx
    /\ Stands(backend, ctx, [c |-> cache, out |-> logits], checkpoint, ~ ragged)

\* What is left of a prompt is left of the checkpoint.
JobStands ==
  \/ job = NoJob
  \/ /\ job \in [kind : {"chunks"}, prompt : Prompts, start : Nat, pos : Nat]
     /\ backend = "graph" /\ emitted = <<>>
     /\ Len(job.prompt) < ctx /\ job.pos < Len(job.prompt)
     /\ job.pos = 0 => job.start = 0 /\ Len(job.prompt) > Chunk
     /\ job.pos # 0 => checkpoint_valid /\ checkpoint = SubSeq(job.prompt, 1, job.pos)
  \/ /\ job \in [kind : {"tokens"}, prompt : Prompts]
     /\ emitted = <<>> /\ checkpoint_valid
     /\ Len(job.prompt) < ctx /\ Len(checkpoint) < Len(job.prompt)
     /\ checkpoint = SubSeq(job.prompt, 1, Len(checkpoint))

\* A function of the kinds of compressor.
OnKinds(f) == f = [k \in Kinds |-> f[k]]

\* A payload is the session it was saved from, without what no token can see.
PayloadStands(y) ==
  LET n == Len(y.tokens)
  IN  /\ y.tokens \in Seq(Token) /\ y.logits \in Hist /\ y.ragged \in BOOLEAN
      /\ y.raw \in [0 .. RawLive(n) - 1 -> Hist]
      /\ ~ y.ragged => /\ y.logits = y.tokens
                       /\ \A i \in 0 .. RawLive(n) - 1 : y.raw[i] = At(y.tokens, n - RawLive(n) + i)
      /\ OnKinds(y.n_comp) /\ OnKinds(y.win)
      /\ \A k \in Kinds :
           /\ y.win[k] \in [0 .. Rows(k) - 1 -> Hist]
           /\ y.comp[k] \in [0 .. (n \div Ratio(k)) - 1 -> Hist]
           /\ y.n_comp[k] = n \div Ratio(k)
           /\ ~ y.ragged =>
                /\ \A i \in 0 .. (n \div Ratio(k)) - 1 : y.comp[k][i] = At(y.tokens, (i + 1) * Ratio(k) - 1)
                /\ \A r \in 0 .. Half(k) + (n % Ratio(k)) - 1 :
                     y.win[k][r] = Place(y.tokens, Whole(k, n) - Half(k) + r)

SlotsStand ==
  /\ DOMAIN slot = Slots
  /\ \A s \in Slots : slot[s] # NoPayload => PayloadStands(slot[s])

SessionInv == TypeOK /\ CacheStands /\ JobStands /\ SlotsStand /\ SpeculationIsGreedy

-----------------------------------------------------------------------------
(* Sizes and prefixes. *)

(* The three kinds of compressor. *)
LEMMA KindFacts ==
  ASSUME NEW k \in Kinds
  PROVE  /\ Ratio(k) \in Nat \ {0} /\ Half(k) \in {0, Ratio(k)} /\ Half(k) \in Nat
         /\ Rows(k) = Half(k) + Ratio(k)
         /\ Overlaps(k) => Half(k) = Ratio(k) /\ Ratio(k) = FineRatio
         /\ ~ Overlaps(k) => Half(k) = 0 /\ k = "attn128"
         /\ Chunk % Ratio(k) = 0 /\ Chunk \in Nat \ {0}
         /\ FineRatio \in Nat /\ FineRatio > 2
BY SizesAssumption DEF Kinds, Ratio, Half, Rows, Overlaps

(* The ring holds the window, and either a chunk beside it or the context. *)
LEMMA CapFacts ==
  ASSUME NEW b \in {"cpu", "graph"}, NEW x \in Ctxs
  PROVE  /\ Cap(b, x) \in Nat \ {0} /\ Window \in Nat \ {0} /\ Cap(b, x) >= Window
         /\ b = "cpu" => Cap(b, x) = Window
         /\ b = "graph" => Cap(b, x) >= Window + Chunk \/ Cap(b, x) >= x
         /\ x \in Nat /\ x > Chunk /\ x >= Window /\ Chunk \in Nat \ {0}
<1>1. /\ Window \in Nat \ {0} /\ Chunk \in Nat \ {0} /\ Align \in Nat \ {0}
      /\ x \in Nat /\ x > Chunk /\ x >= Window
  BY SizesAssumption
<1>2. CASE b = "cpu"
  <2>1. Cap(b, x) = Window
    BY <1>1, <1>2 DEF Cap, Lesser
  <2> QED BY <1>1, <1>2, <2>1
<1>3. CASE b = "graph"
  <2> DEFINE wanted == Lesser(Window + Chunk, x)
             up == wanted + Align - 1
  <2>1. wanted \in Nat /\ (wanted = Window + Chunk \/ wanted = x) /\ wanted >= Window
    BY <1>1 DEF Lesser
  <2> HIDE DEF wanted
  <2>2. up \in Nat
    BY <1>1, <2>1
  <2>3. Cap(b, x) = (up \div Align) * Align
    BY <1>3 DEF Cap, RawCapForContext, wanted
  <2>4. /\ up \div Align \in Nat /\ up % Align \in 0 .. Align - 1
        /\ up = (up \div Align) * Align + (up % Align) /\ (up \div Align) * Align \in Nat
    BY <1>1, <2>2, DivMod, Zenon
  <2>5. Cap(b, x) \in Nat /\ up = Cap(b, x) + (up % Align)
    BY <2>3, <2>4
  <2>6. Cap(b, x) >= wanted
    BY <1>1, <2>1, <2>4, <2>5
  <2> QED BY <1>1, <1>3, <2>1, <2>5, <2>6
<1> QED BY <1>2, <1>3

(* RawCap is the ring of the session's backend and context. *)
LEMMA RawCapIs == RawCap = Cap(backend, ctx)
BY DEF RawCap, Cap

(* A prefix of a prefix is a prefix. *)
LEMMA PrefixOfPrefix ==
  ASSUME NEW S, NEW h \in Seq(S), NEW m \in 0 .. Len(h), NEW n \in 0 .. m
  PROVE  /\ SubSeq(h, 1, m) \in Seq(S) /\ Len(SubSeq(h, 1, m)) = m
         /\ SubSeq(SubSeq(h, 1, m), 1, n) = SubSeq(h, 1, n)
<1>0. Len(h) \in Nat /\ h \in [1 .. Len(h) -> S]
  BY LenProperties
<1>1. /\ SubSeq(h, 1, m) \in Seq(S) /\ Len(SubSeq(h, 1, m)) = m
      /\ \A i \in 1 .. m : SubSeq(h, 1, m)[i] = h[i]
  <2>1. \A i \in 1 .. m : h[i] \in S
    BY <1>0
  <2> QED BY <1>0, <2>1, SubSeqProperties
<1>2. /\ SubSeq(h, 1, n) \in Seq(S) /\ Len(SubSeq(h, 1, n)) = n
      /\ \A i \in 1 .. n : SubSeq(h, 1, n)[i] = h[i]
  <2>1. \A i \in 1 .. n : h[i] \in S
    BY <1>0
  <2> QED BY <1>0, <2>1, SubSeqProperties
<1> DEFINE g == SubSeq(h, 1, m)
<1>3. /\ SubSeq(g, 1, n) \in Seq(S) /\ Len(SubSeq(g, 1, n)) = n
      /\ \A i \in 1 .. n : SubSeq(g, 1, n)[i] = g[i]
  <2>1. \A i \in 1 .. n : g[i] \in S
    BY <1>0, <1>1
  <2> HIDE DEF g
  <2> QED BY <1>0, <2>1, SubSeqProperties
<1>4. \A i \in 1 .. n : SubSeq(g, 1, n)[i] = SubSeq(h, 1, n)[i]
  BY <1>1, <1>2, <1>3
<1>5. SubSeq(g, 1, n) = SubSeq(h, 1, n)
  <2> HIDE DEF g
  <2> QED BY <1>2, <1>3, <1>4, SeqEqual
<1> QED BY <1>1, <1>5

(* What a position contributes to a cache. *)
LEMMA AtFacts ==
  ASSUME NEW h \in Seq(Token), NEW q \in 0 .. Len(h) - 1
  PROVE  /\ At(h, q) \in Seq(Token) /\ At(h, q) \in Hist /\ Len(At(h, q)) = q + 1
         /\ At(h, q) # <<>> /\ At(h, q) # Stale
         /\ \A n \in 0 .. q : At(At(h, q), n) = At(h, n)
<1>0. Len(h) \in Nat
  BY LenProperties
<1>1. At(h, q) \in Seq(Token) /\ Len(At(h, q)) = q + 1
  <2>1. q + 1 \in 0 .. Len(h)
    BY <1>0
  <2> QED BY <2>1, PrefixOfPrefix DEF At
<1>2. At(h, q) # <<>>
  <2>1. Len(<<>>) = 0
    BY EmptySeq
  <2> QED BY <1>0, <1>1, <2>1
<1>3. At(h, q) # Stale
  BY <1>1, StaleAssumption
<1>4. ASSUME NEW n \in 0 .. q PROVE At(At(h, q), n) = At(h, n)
  <2>1. q + 1 \in 0 .. Len(h) /\ n + 1 \in 0 .. q + 1
    BY <1>0
  <2> QED BY <2>1, PrefixOfPrefix DEF At
<1> QED BY <1>1, <1>2, <1>3, <1>4 DEF Hist

(* The last position contributes the whole history. *)
LEMMA AtLast ==
  ASSUME NEW h \in Seq(Token), Len(h) > 0
  PROVE  At(h, Len(h) - 1) = h
<1>1. Len(h) \in Nat /\ (Len(h) - 1) + 1 = Len(h)
  BY LenProperties
<1> QED BY <1>1, SubSeqFull DEF At

(* A place before the history is empty, any other is a position's. *)
LEMMA PlaceFacts ==
  ASSUME NEW h \in Seq(Token), NEW q \in Int, q < Len(h)
  PROVE  Place(h, q) \in Hist
<1>1. CASE q < 0
  BY <1>1, EmptySeq DEF Place, Hist
<1>2. CASE ~ (q < 0)
  <2>1. q \in 0 .. Len(h) - 1
    BY <1>2, LenProperties
  <2> QED BY <1>2, <2>1, AtFacts DEF Place
<1> QED BY <1>1, <1>2

(* The lanes of a cache are explicit records. *)
LEMMA LaneFacts ==
  ASSUME NEW c, NEW k
  PROVE  Lane(c, k).win = c.win[k] /\ Lane(c, k).comp = c.comp[k] /\ Lane(c, k).n = c.n_comp[k]
BY DEF Lane

-----------------------------------------------------------------------------
(* Compressors. *)

(* A window whose rows are the rows of their places pools to the last place. *)
LEMMA PooledIs ==
  ASSUME NEW k \in Kinds, NEW h \in Seq(Token), NEW e \in 0 .. Len(h) - 1,
         NEW w, DOMAIN w = 0 .. Rows(k) - 1,
         \A r \in 0 .. Rows(k) - 1 : w[r] = Place(h, e - (Rows(k) - 1 - r))
  PROVE  Pooled(k, w) = At(h, e)
<1>0. Rows(k) \in Nat \ {0} /\ Len(h) \in Nat
  BY KindFacts, LenProperties
<1>1. w[Rows(k) - 1] = At(h, e)
  <2>1. Rows(k) - 1 \in 0 .. Rows(k) - 1 /\ e - (Rows(k) - 1 - (Rows(k) - 1)) = e
    BY <1>0
  <2>2. Place(h, e) = At(h, e)
    BY DEF Place
  <2>3. w[Rows(k) - 1] = Place(h, e - (Rows(k) - 1 - (Rows(k) - 1)))
    BY <2>1
  <2> QED BY <2>1, <2>2, <2>3
<1>2. /\ At(h, e) \in Seq(Token) /\ Len(At(h, e)) = e + 1 /\ At(h, e) # <<>> /\ At(h, e) # Stale
      /\ \A n \in 0 .. e : At(At(h, e), n) = At(h, n)
  BY AtFacts
<1>3. ASSUME NEW r \in 0 .. Rows(k) - 1
      PROVE  w[r] = Back(At(h, e), Rows(k) - 1 - r)
  <2> DEFINE d == Rows(k) - 1 - r
  <2>0. d \in Nat
    BY <1>0
  <2>1. CASE d >= e + 1
    BY <1>0, <1>2, <2>0, <2>1 DEF Back, Place
  <2>2. CASE ~ (d >= e + 1)
    <3>1. e - d \in 0 .. e /\ (e + 1) - d = (e - d) + 1 /\ ~ (e - d < 0)
      BY <2>0, <2>2
    <3>2. Back(At(h, e), d) = SubSeq(At(h, e), 1, (e - d) + 1)
      BY <1>2, <2>2, <3>1 DEF Back
    <3>3. Back(At(h, e), d) = At(h, e - d)
      <4> HIDE DEF d
      <4> QED BY <1>2, <3>1, <3>2 DEF At
    <3>4. w[r] = Place(h, e - d)
      OBVIOUS
    <3> QED BY <3>1, <3>3, <3>4 DEF Place
  <2> QED BY <2>1, <2>2
<1>4. ~ \E r \in DOMAIN w : w[r] # Back(At(h, e), Rows(k) - 1 - r)
  BY <1>3
<1> QED BY <1>1, <1>2, <1>4 DEF Pooled

(* Pooling yields a history or Stale. *)
LEMMA PooledTyped ==
  ASSUME NEW k \in Kinds, NEW w \in [0 .. Rows(k) - 1 -> Hist]
  PROVE  Pooled(k, w) \in Hist
<1>1. Rows(k) - 1 \in 0 .. Rows(k) - 1
  BY KindFacts
<1>2. w[Rows(k) - 1] \in Hist /\ Stale \in Hist
  BY <1>1 DEF Hist
<1> QED BY <1>2 DEF Pooled


(* The positions before p that form whole windows, and the rest. *)
LEMMA WholeFacts ==
  ASSUME NEW k \in Kinds, NEW p \in Nat
  PROVE  /\ p \div Ratio(k) \in Nat /\ p % Ratio(k) \in 0 .. Ratio(k) - 1 /\ Whole(k, p) \in Nat
         /\ p = Whole(k, p) + (p % Ratio(k))
         /\ Whole(k, p) = (p \div Ratio(k)) * Ratio(k)
         /\ (p \div Ratio(k) + 1) * Ratio(k) = Whole(k, p) + Ratio(k)
<1>1. Ratio(k) \in Nat \ {0}
  BY KindFacts
<1>2. /\ p \div Ratio(k) \in Nat /\ p % Ratio(k) \in 0 .. Ratio(k) - 1
      /\ p = (p \div Ratio(k)) * Ratio(k) + (p % Ratio(k)) /\ (p \div Ratio(k)) * Ratio(k) \in Nat
  BY <1>1, DivMod, Zenon
<1> DEFINE q == p \div Ratio(k)
<1> HIDE DEF q
<1>3. q \in Nat => (q + 1) * Ratio(k) = q * Ratio(k) + Ratio(k)
  BY <1>1
<1> QED BY <1>2, <1>3 DEF Whole, q

(* The position after p: in the same window, or at the start of the next. *)
LEMMA WholeStep ==
  ASSUME NEW k \in Kinds, NEW p \in Nat
  PROVE  /\ Emits(k, p) => /\ p % Ratio(k) = Ratio(k) - 1 /\ (p + 1) % Ratio(k) = 0
                           /\ (p + 1) \div Ratio(k) = (p \div Ratio(k)) + 1
                           /\ Whole(k, p + 1) = Whole(k, p) + Ratio(k)
         /\ ~ Emits(k, p) => /\ (p + 1) % Ratio(k) = (p % Ratio(k)) + 1
                             /\ (p + 1) \div Ratio(k) = p \div Ratio(k)
                             /\ Whole(k, p + 1) = Whole(k, p)
<1>1. Ratio(k) \in Nat \ {0}
  BY KindFacts
<1>2. /\ (p + 1) % Ratio(k) = 0 => /\ p % Ratio(k) = Ratio(k) - 1
                                    /\ (p + 1) \div Ratio(k) = (p \div Ratio(k)) + 1
      /\ (p + 1) % Ratio(k) # 0 => /\ (p + 1) % Ratio(k) = (p % Ratio(k)) + 1
                                    /\ (p + 1) \div Ratio(k) = p \div Ratio(k)
  BY <1>1, DivStep, Zenon
<1>3. (p \div Ratio(k) + 1) * Ratio(k) = Whole(k, p) + Ratio(k)
  BY WholeFacts
<1>4. Whole(k, p + 1) = ((p + 1) \div Ratio(k)) * Ratio(k) /\ Whole(k, p) = (p \div Ratio(k)) * Ratio(k)
  BY DEF Whole
<1> QED BY <1>2, <1>3, <1>4, Zenon DEF Emits

(* There is room for every compressed row of a context, and for two more. *)
LEMMA CompRoom ==
  ASSUME NEW k \in Kinds, NEW x \in Nat, NEW p \in Nat, p <= x
  PROVE  p \div Ratio(k) \in 0 .. CompCap(x, k) - 2 /\ CompCap(x, k) \in Nat
<1>1. Ratio(k) \in Nat \ {0}
  BY KindFacts
<1>2. p \div Ratio(k) <= x \div Ratio(k)
  BY <1>1, DivMonotone
<1>3. p \div Ratio(k) \in Nat /\ x \div Ratio(k) \in Nat
  BY WholeFacts
<1> QED BY <1>2, <1>3 DEF CompCap

(* Whatever it is fed, a compressor stays one of its kind. *)
LEMMA UpdateTyped ==
  ASSUME NEW x \in Nat, NEW k \in Kinds, NEW lane \in Lanes(x, k), NEW p \in Nat, NEW e \in Hist
  PROVE  CompressorUpdate(k, lane, p, e) \in Lanes(x, k)
<1> DEFINE w == [lane.win EXCEPT ![StateRow(k, p)] = e]
<1>1. /\ lane.win \in [0 .. Rows(k) - 1 -> Hist] /\ lane.n \in Nat
      /\ lane.comp \in [0 .. CompCap(x, k) - 1 -> Hist]
      /\ lane = [win |-> lane.win, comp |-> lane.comp, n |-> lane.n]
  BY DEF Lanes
<1>2. w \in [0 .. Rows(k) - 1 -> Hist]
  BY <1>1
<1>3. CASE ~ Emits(k, p)
  <2>1. CompressorUpdate(k, lane, p, e) = [win |-> w, comp |-> lane.comp, n |-> lane.n]
    BY <1>1, <1>3 DEF CompressorUpdate
  <2> HIDE DEF w
  <2> QED BY <1>1, <1>2, <2>1 DEF Lanes
<1>4. CASE Emits(k, p)
  <2>1. CompressorUpdate(k, lane, p, e) = [win  |-> Shifted(k, w),
                                           comp |-> [lane.comp EXCEPT ![lane.n] = Pooled(k, w)],
                                           n    |-> lane.n + 1]
    BY <1>4 DEF CompressorUpdate
  <2> HIDE DEF w
  <2>2. [lane.comp EXCEPT ![lane.n] = Pooled(k, w)] \in [0 .. CompCap(x, k) - 1 -> Hist]
    BY <1>1, <1>2, PooledTyped
  <2>3. Shifted(k, w) \in [0 .. Rows(k) - 1 -> Hist]
    <3>1. CASE Overlaps(k)
      <4>1. Ratio(k) \in Nat \ {0} /\ Rows(k) = Ratio(k) + Ratio(k)
        BY <3>1, KindFacts
      <4>2. ASSUME NEW r \in 0 .. Rows(k) - 1
            PROVE  (IF r < Ratio(k) THEN r + Ratio(k) ELSE r) \in 0 .. Rows(k) - 1
        BY <4>1
      <4>3. Shifted(k, w) = [r \in 0 .. Rows(k) - 1 |-> w[IF r < Ratio(k) THEN r + Ratio(k) ELSE r]]
        BY <1>2, <3>1 DEF Shifted
      <4> QED BY <1>2, <4>2, <4>3
    <3>2. CASE ~ Overlaps(k)
      BY <1>2, <3>2 DEF Shifted
    <3> QED BY <3>1, <3>2
  <2>4. lane.n + 1 \in Nat
    BY <1>1
  <2> QED BY <2>1, <2>2, <2>3, <2>4 DEF Lanes
<1> QED BY <1>3, <1>4

(* One more position takes a compressor from p to p + 1. *)
LEMMA UpdateLane ==
  ASSUME NEW x \in Nat, NEW k \in Kinds, NEW h \in Seq(Token), NEW p \in 0 .. Len(h) - 1,
         Len(h) <= x, NEW ok \in BOOLEAN, NEW lane, LaneAt(x, lane, k, h, p, ok),
         NEW e \in Hist, ok => e = At(h, p)
  PROVE  LaneAt(x, CompressorUpdate(k, lane, p, e), k, h, p + 1, ok)
<1> DEFINE R == Ratio(k)
           H == Half(k)
           W == Whole(k, p)
           s == StateRow(k, p)
           w == [lane.win EXCEPT ![s] = e]
<1>0. /\ p \in Nat /\ p < Len(h) /\ Len(h) \in Nat
      /\ R \in Nat \ {0} /\ H \in {0, R} /\ H \in Nat /\ Rows(k) = H + R
      /\ p \div R \in Nat /\ p % R \in 0 .. R - 1 /\ W \in Nat /\ p = W + (p % R)
  BY KindFacts, WholeFacts, LenProperties
<1> HIDE DEF R, H, W, s
<1>1. s = H + (p % R)
  <2>1. CASE Overlaps(k)
    BY <2>1 DEF StateRow, Half, s, H, R
  <2>2. CASE ~ Overlaps(k)
    <3>1. s = p % R /\ H = 0
      BY <2>2 DEF StateRow, Half, s, H, R
    <3> QED BY <1>0, <3>1
  <2> QED BY <2>1, <2>2
<1>2. /\ lane.win \in [0 .. Rows(k) - 1 -> Hist] /\ lane.n = p \div R
      /\ lane.comp \in [0 .. CompCap(x, k) - 1 -> Hist]
      /\ lane = [win |-> lane.win, comp |-> lane.comp, n |-> lane.n]
  BY DEF LaneAt, Lanes, R
<1>3. ok => /\ \A i \in 0 .. (p \div R) - 1 : lane.comp[i] = At(h, (i + 1) * R - 1)
            /\ \A r \in 0 .. H + (p % R) - 1 : lane.win[r] = Place(h, W - H + r)
  BY DEF LaneAt, R, H, W
<1>4. w \in [0 .. Rows(k) - 1 -> Hist] /\ s \in 0 .. Rows(k) - 1 /\ w[s] = e
  <2>1. s \in 0 .. Rows(k) - 1
    BY <1>0, <1>1
  <2> QED BY <1>2, <2>1
<1>5. ASSUME ok, NEW r \in 0 .. H + (p % R) PROVE w[r] = Place(h, W - H + r)
  <2>1. CASE r = s
    <3>1. W - H + r = p
      BY <1>0, <1>1, <2>1
    <3>2. Place(h, p) = At(h, p)
      BY <1>0 DEF Place
    <3> QED BY <1>4, <1>5, <2>1, <3>1, <3>2
  <2>2. CASE r # s
    <3>1. r \in 0 .. H + (p % R) - 1
      BY <1>0, <1>1, <2>2
    <3>2. w[r] = lane.win[r]
      BY <1>0, <1>2, <2>2, <3>1
    <3> QED BY <1>3, <1>5, <3>1, <3>2
  <2> QED BY <2>1, <2>2
<1> HIDE DEF w
<1>5a. CompressorUpdate(k, lane, p, e) \in Lanes(x, k)
  BY <1>0, UpdateTyped DEF LaneAt
<1>6. CASE ~ Emits(k, p)
  <2>1. (p + 1) % R = (p % R) + 1 /\ (p + 1) \div R = p \div R /\ Whole(k, p + 1) = W
    BY <1>0, <1>6, WholeStep DEF R, W
  <2>2. CompressorUpdate(k, lane, p, e) = [win |-> w, comp |-> lane.comp, n |-> lane.n]
    BY <1>2, <1>6 DEF CompressorUpdate, w, s
  <2> DEFINE new == [win |-> w, comp |-> lane.comp, n |-> lane.n]
  <2>3. new \in Lanes(x, k) /\ new.n = (p + 1) \div R
    BY <1>2, <1>5a, <2>1, <2>2
  <2>4. ASSUME ok, NEW i \in 0 .. ((p + 1) \div R) - 1
        PROVE  new.comp[i] = At(h, (i + 1) * R - 1)
    BY <1>3, <2>1, <2>4
  <2>5. ASSUME ok, NEW r \in 0 .. H + ((p + 1) % R) - 1
        PROVE  new.win[r] = Place(h, Whole(k, p + 1) - H + r)
    <3>1. r \in 0 .. H + (p % R)
      BY <1>0, <2>1
    <3> QED BY <1>5, <2>1, <2>5, <3>1
  <2> HIDE DEF new
  <2> QED BY <2>2, <2>3, <2>4, <2>5 DEF LaneAt, R, H, new
<1>7. CASE Emits(k, p)
  <2>1. /\ p % R = R - 1 /\ (p + 1) % R = 0 /\ (p + 1) \div R = (p \div R) + 1
        /\ Whole(k, p + 1) = W + R
    BY <1>0, <1>7, WholeStep DEF R, W
  <2> DEFINE new == [win  |-> Shifted(k, w),
                     comp |-> [lane.comp EXCEPT ![lane.n] = Pooled(k, w)],
                     n    |-> lane.n + 1]
  <2>2. CompressorUpdate(k, lane, p, e) = new
    BY <1>7 DEF CompressorUpdate, w, s
  <2>5. lane.n \in 0 .. CompCap(x, k) - 1
    <3>1. p <= x
      BY <1>0
    <3>2. p \div R \in 0 .. CompCap(x, k) - 2 /\ CompCap(x, k) \in Nat
      BY <1>0, <3>1, CompRoom DEF R
    <3> QED BY <1>2, <3>2
  <2>6. new \in Lanes(x, k) /\ new.n = (p + 1) \div R
    <3>1. lane.n + 1 = (p + 1) \div R
      BY <1>2, <2>1
    <3> QED BY <1>5a, <2>2, <3>1
  <2>7. ASSUME ok PROVE Pooled(k, w) = At(h, p)
    <3>1. ASSUME NEW r \in 0 .. Rows(k) - 1 PROVE w[r] = Place(h, p - (Rows(k) - 1 - r))
      <4>1. r \in 0 .. H + (p % R) /\ W - H + r = p - (Rows(k) - 1 - r)
        BY <1>0, <2>1
      <4>2. w[r] = Place(h, W - H + r)
        BY <1>5, <2>7, <4>1
      <4> QED BY <4>1, <4>2
    <3>2. DOMAIN w = 0 .. Rows(k) - 1
      BY <1>4
    <3> QED BY <3>1, <3>2, PooledIs
  <2>8. ASSUME ok, NEW i \in 0 .. ((p + 1) \div R) - 1
        PROVE  new.comp[i] = At(h, (i + 1) * R - 1)
    <3>1. CASE i = p \div R
      <4>1. (i + 1) * R = W + R
        BY <1>0, <3>1, WholeFacts DEF R, W
      <4>2. (i + 1) * R - 1 = p
        BY <1>0, <2>1, <4>1
      <4>3. new.comp[i] = Pooled(k, w)
        BY <1>2, <2>5, <3>1
      <4> QED BY <2>7, <2>8, <4>2, <4>3
    <3>2. CASE i # p \div R
      <4>1. i \in 0 .. (p \div R) - 1
        BY <1>0, <2>1, <3>2
      <4>2. new.comp[i] = lane.comp[i]
        BY <1>2, <2>5, <3>2, <4>1
      <4> QED BY <1>3, <2>8, <4>1, <4>2
    <3> QED BY <3>1, <3>2
  <2>9. ASSUME ok, NEW r \in 0 .. H + ((p + 1) % R) - 1
        PROVE  new.win[r] = Place(h, Whole(k, p + 1) - H + r)
    <3>1. Overlaps(k) /\ H = R /\ r \in 0 .. R - 1 /\ r + R \in 0 .. H + (p % R)
      <4>1. H # 0
        BY <1>0, <2>1
      <4>2. Overlaps(k) /\ H = R
        BY <4>1, KindFacts DEF H, R
      <4> QED BY <1>0, <2>1, <4>2
    <3>2. Shifted(k, w)[r] = w[r + R]
      <4>1. r \in DOMAIN w /\ r < R
        BY <1>0, <1>4, <3>1
      <4> QED BY <3>1, <4>1 DEF Shifted, R
    <3>3. W - H + (r + R) = Whole(k, p + 1) - H + r
      BY <1>0, <2>1
    <3>4. w[r + R] = Place(h, W - H + (r + R))
      BY <1>5, <2>9, <3>1
    <3> QED BY <3>2, <3>3, <3>4
  <2> HIDE DEF new
  <2> QED BY <2>2, <2>6, <2>8, <2>9 DEF LaneAt, R, H
<1> QED BY <1>6, <1>7

(* Fed one at a time, the positions of xs take a compressor as far as they go. *)
LEMMA StreamLane ==
  ASSUME NEW x \in Nat, NEW k \in Kinds, NEW h \in Seq(Token), NEW p \in Nat,
         Len(h) <= x, NEW ok \in BOOLEAN, NEW lane, LaneAt(x, lane, k, h, p, ok),
         NEW xs \in Seq(Hist), p + Len(xs) <= Len(h),
         ok => \A t \in 1 .. Len(xs) : xs[t] = At(h, p + t - 1)
  PROVE  LaneAt(x, CompressorStream(k, lane, p, xs), k, h, p + Len(xs), ok)
<1> DEFINE N == Len(xs)
           fed[t \in 0 .. Len(xs)] ==
             IF t = 0 THEN lane ELSE CompressorUpdate(k, fed[t - 1], p + t - 1, xs[t])
           S == Lanes(x, k)
           F == [a \in (1 .. N) \X S |-> CompressorUpdate(k, a[2], p + a[1] - 1, xs[a[1]])]
           T == {t \in 0 .. N : LaneAt(x, fed[t], k, h, p + t, ok)}
<1>0. /\ N \in Nat /\ Len(h) \in Nat /\ lane \in S
      /\ \A t \in 1 .. N : xs[t] \in Hist
  BY LenProperties, ElementOfSeq DEF LaneAt
<1>1. F \in [(1 .. N) \X S -> S]
  <2>1. ASSUME NEW a \in (1 .. N) \X S
        PROVE  CompressorUpdate(k, a[2], p + a[1] - 1, xs[a[1]]) \in S
    <3>1. a[1] \in 1 .. N /\ a[2] \in Lanes(x, k) /\ p + a[1] - 1 \in Nat
      BY <1>0
    <3>2. xs[a[1]] \in Hist
      BY <1>0, <3>1
    <3> QED BY <3>1, <3>2, UpdateTyped
  <2> QED BY <2>1
<1>2. PICK f \in [0 .. N -> S] : Iterates(f, N, lane, F)
  <2>1. N \in Nat /\ lane \in S
    BY <1>0
  <2> HIDE DEF F, S, N
  <2> QED BY <2>1, <1>1, Iterate
<1>3. f = [t \in 0 .. N |-> IF t = 0 THEN lane ELSE CompressorUpdate(k, f[t - 1], p + t - 1, xs[t])]
  <2>1. ASSUME NEW t \in 1 .. N
        PROVE  f[t] = CompressorUpdate(k, f[t - 1], p + t - 1, xs[t])
    <3>1. t - 1 \in 0 .. N
      BY <1>0
    <3>2. <<t, f[t - 1]>> \in (1 .. N) \X S
      BY <1>2, <3>1
    <3> QED BY <1>2, <3>2 DEF Iterates
  <2> HIDE DEF F, S, N
  <2> QED BY <1>0, <1>2, <2>1 DEF Iterates
<1>4. fed = [t \in 0 .. N |-> IF t = 0 THEN lane ELSE CompressorUpdate(k, fed[t - 1], p + t - 1, xs[t])]
  <2>1. \E g : g = [t \in 0 .. Len(xs) |-> IF t = 0 THEN lane ELSE CompressorUpdate(k, g[t - 1], p + t - 1, xs[t])]
    BY <1>3
  <2> QED BY <2>1
<1>5. CompressorStream(k, lane, p, xs) = fed[Len(xs)]
  BY DEF CompressorStream
<1>6. fed[0] = lane /\ \A t \in 1 .. N : fed[t] = CompressorUpdate(k, fed[t - 1], p + t - 1, xs[t])
  <2> HIDE DEF fed
  <2> QED BY <1>0, <1>4
<1> HIDE DEF fed, F, S
<1>7. 0 \in T
  BY <1>0, <1>6
<1>8. ASSUME NEW t \in 0 .. N - 1, t \in T PROVE t + 1 \in T
  <2>1. /\ t + 1 \in 1 .. N /\ t + 1 \in 0 .. N /\ p + t \in 0 .. Len(h) - 1
        /\ p + (t + 1) - 1 = p + t /\ (t + 1) - 1 = t /\ (p + t) + 1 = p + (t + 1)
    BY <1>0
  <2>2. fed[t + 1] = CompressorUpdate(k, fed[t], p + t, xs[t + 1])
    BY <1>6, <2>1
  <2>3. xs[t + 1] \in Hist /\ (ok => xs[t + 1] = At(h, p + t))
    BY <1>0, <2>1
  <2>4. LaneAt(x, fed[t], k, h, p + t, ok)
    BY <1>8
  <2>5. LaneAt(x, CompressorUpdate(k, fed[t], p + t, xs[t + 1]), k, h, (p + t) + 1, ok)
    BY <2>1, <2>3, <2>4, UpdateLane
  <2> QED BY <2>1, <2>2, <2>5
<1> HIDE DEF T
<1>9. \A t \in 0 .. N : t \in T
  BY <1>0, <1>7, <1>8, InductUpTo, Zenon
<1>10. N \in T
  BY <1>0, <1>9
<1> QED BY <1>5, <1>10 DEF T

\* w is window j of the batch xs: what lies before the batch comes from prev.
IsWindow(k, xs, j, prev, w) ==
  /\ j * Ratio(k) \in Nat /\ j * Ratio(k) + Ratio(k) <= Len(xs)
  /\ w \in [0 .. Rows(k) - 1 -> Hist]
  /\ \A r \in 0 .. Rows(k) - 1 :
       w[r] = IF j * Ratio(k) - Half(k) + r < 0 THEN prev[r] ELSE xs[j * Ratio(k) - Half(k) + r + 1]

(* The windows of a batch, row by row. *)
LEMMA BatchWindowIs ==
  ASSUME NEW k \in Kinds, NEW xs \in Seq(Hist), NEW j \in 0 .. (Len(xs) \div Ratio(k)) - 1,
         NEW prev \in [0 .. Rows(k) - 1 -> Hist]
  PROVE  IsWindow(k, xs, j, prev, BatchWindow(k, xs, j, prev))
<1> DEFINE R == Ratio(k)
           H == Half(k)
           N == Len(xs)
           J == j * R
           bw == BatchWindow(k, xs, j, prev)
           row(r) == IF J - H + r < 0 THEN prev[r] ELSE xs[J - H + r + 1]
<1>0. /\ N \in Nat /\ R \in Nat \ {0} /\ H \in {0, R} /\ Rows(k) = H + R
      /\ Overlaps(k) => H = R
      /\ ~ Overlaps(k) => H = 0
      /\ \A i \in 1 .. N : xs[i] \in Hist
  BY KindFacts, LenProperties, ElementOfSeq
<1>1. /\ J \in Nat /\ J + R <= N
      /\ j > 0 => J >= R
      /\ j = 0 => J = 0
  <2>0. N \div R \in Nat /\ (N \div R) * R <= N /\ (N \div R) * R \in Nat
    <3>1. N \div R \in Nat /\ N % R \in 0 .. R - 1 /\ N = (N \div R) * R + (N % R) /\ (N \div R) * R \in Nat
      <4> HIDE DEF N, R
      <4> QED BY <1>0, DivMod, Zenon
    <3> HIDE DEF N, R
    <3> QED BY <1>0, <3>1
  <2>1. j \in Nat /\ j + 1 <= N \div R /\ j + 1 \in Nat
    BY <2>0
  <2> HIDE DEF N, R
  <2>2. (j + 1) * R <= (N \div R) * R
    BY <1>0, <2>0, <2>1, TimesMonotone
  <2>3. (j + 1) * R = J + R /\ J \in Nat
    BY <1>0, <2>1
  <2>4. j > 0 => J >= R
    <3>1. j > 0 => 1 * R <= j * R
      BY <1>0, <2>1, TimesMonotone
    <3> QED BY <1>0, <3>1
  <2> QED BY <1>0, <2>0, <2>2, <2>3, <2>4
<1> HIDE DEF R, H, N, J
<1>2. ASSUME NEW r \in 0 .. Rows(k) - 1 PROVE row(r) \in Hist
  <2>1. CASE J - H + r < 0
    BY <2>1
  <2>2. CASE ~ (J - H + r < 0)
    <3>1. J - H + r + 1 \in 1 .. N
      BY <1>0, <1>1, <2>2
    <3> QED BY <1>0, <2>2, <3>1
  <2> QED BY <2>1, <2>2
<1>3. bw = [r \in 0 .. Rows(k) - 1 |-> row(r)]
  <2>1. CASE ~ Overlaps(k)
    <3>1. ASSUME NEW r \in 0 .. Rows(k) - 1 PROVE row(r) = xs[J + r + 1]
      BY <1>0, <1>1, <2>1
    <3>2. bw = [r \in 0 .. Rows(k) - 1 |-> xs[J + r + 1]]
      BY <2>1 DEF BatchWindow, J, R
    <3> HIDE DEF row, bw
    <3> QED BY <3>1, <3>2
  <2>2. CASE Overlaps(k)
    <3>1. ASSUME NEW r \in 0 .. Rows(k) - 1
          PROVE  row(r) = IF r >= R \/ j > 0 THEN xs[J + (r - R) + 1] ELSE prev[r]
      <4>1. (J - H + r < 0) <=> ~ (r >= R \/ j > 0)
        BY <1>0, <1>1, <2>2
      <4>2. J - H + r + 1 = J + (r - R) + 1
        BY <1>0, <1>1, <2>2
      <4> QED BY <4>1, <4>2
    <3>2. bw = [r \in 0 .. Rows(k) - 1 |-> IF r >= R \/ j > 0 THEN xs[J + (r - R) + 1] ELSE prev[r]]
      BY <2>2 DEF BatchWindow, J, R
    <3> HIDE DEF row, bw
    <3> QED BY <3>1, <3>2
  <2> QED BY <2>1, <2>2
<1> HIDE DEF row, bw
<1>4. bw \in [0 .. Rows(k) - 1 -> Hist] /\ \A r \in 0 .. Rows(k) - 1 : bw[r] = row(r)
  BY <1>2, <1>3
<1> QED BY <1>1, <1>4 DEF IsWindow, R, H, N, J, row, bw

(* A batch of whole windows, or the first batch of all, takes a compressor as
   far as it goes. *)
LEMMA PrefillLane ==
  ASSUME NEW x \in Nat, NEW k \in Kinds, NEW h \in Seq(Token), NEW p \in Nat,
         Len(h) <= x, NEW ok \in BOOLEAN, NEW lane \in Lanes(x, k),
         NEW xs \in Seq(Hist), p + Len(xs) <= Len(h),
         ok => \A t \in 1 .. Len(xs) : xs[t] = At(h, p + t - 1),
         p # 0 => LaneAt(x, lane, k, h, p, ok),
         p % Ratio(k) = 0,
         Overlaps(k) => Len(xs) >= Ratio(k) /\ (ok => Len(xs) % Ratio(k) = 0)
  PROVE  LaneAt(x, CompressorPrefill(k, lane, p, xs), k, h, p + Len(xs), ok)
<1> DEFINE R == Ratio(k)
           H == Half(k)
           N == Len(xs)
           B == p \div R
           m == N \div R
           M == m * R
           base == IF p = 0 THEN 0 ELSE lane.n
           prev == IF p = 0 THEN [r \in 0 .. Rows(k) - 1 |-> <<>>] ELSE lane.win
           new == CompressorPrefill(k, lane, p, xs)
           win == IF Overlaps(k) THEN RefreshedState(k, xs) ELSE BatchState(k, xs)
           comp == [i \in DOMAIN lane.comp |->
                      IF i \in base .. base + m - 1
                      THEN Pooled(k, BatchWindow(k, xs, i - base, prev))
                      ELSE lane.comp[i]]
<1>0. /\ N \in Nat /\ Len(h) \in Nat
      /\ R \in Nat \ {0} /\ H \in {0, R} /\ H \in Nat /\ Rows(k) = H + R
      /\ Overlaps(k) => H = R
      /\ ~ Overlaps(k) => H = 0
  BY KindFacts, LenProperties
<1>00. \A i \in 1 .. N : xs[i] \in Hist
  BY ElementOfSeq
<1> HIDE DEF N, R, H
<1>1. B \in Nat /\ p = B * R /\ B * R \in Nat
  <2>1. B \in Nat /\ p % R \in 0 .. R - 1 /\ p = B * R + (p % R) /\ B * R \in Nat
    BY <1>0, DivMod, Zenon
  <2>2. p % R = 0
    BY DEF R
  <2> QED BY <1>0, <2>1, <2>2
<1>2. m \in Nat /\ M \in Nat /\ N % R \in 0 .. R - 1 /\ N = M + (N % R)
  BY <1>0, DivMod, Zenon
<1>3. (p + N) \div R = B + m /\ (p + N) % R = N % R
  <2>1. (N + B * R) \div R = m + B /\ (N + B * R) % R = N % R
    BY <1>0, <1>1, DivAddWhole
  <2>2. N + B * R = p + N
    BY <1>0, <1>1
  <2>3. m + B = B + m
    BY <1>1, <1>2
  <2> QED BY <2>1, <2>2, <2>3
<1>4. Whole(k, p + N) = p + M
  <2>1. Whole(k, p + N) = (B + m) * R
    BY <1>3 DEF Whole, R
  <2> HIDE DEF B, m
  <2>2. (B + m) * R = B * R + m * R
    BY <1>0, <1>1, <1>2
  <2> QED BY <1>1, <2>1, <2>2
<1>5. base = B
  <2>1. CASE p = 0
    <3>1. B * R = 0
      BY <1>1, <2>1
    <3> HIDE DEF B
    <3>2. B = 0
      BY <1>0, <1>1, <3>1
    <3> QED BY <2>1, <3>2
  <2>2. CASE p # 0
    BY <2>2 DEF LaneAt, R
  <2> QED BY <2>1, <2>2
<1>6. /\ lane.win \in [0 .. Rows(k) - 1 -> Hist] /\ lane.comp \in [0 .. CompCap(x, k) - 1 -> Hist]
      /\ DOMAIN lane.comp = 0 .. CompCap(x, k) - 1
  BY DEF Lanes
<1>7. prev \in [0 .. Rows(k) - 1 -> Hist]
  BY <1>6, EmptySeq DEF Hist
<1>8. ASSUME ok, NEW r \in 0 .. H - 1 PROVE prev[r] = Place(h, p - H + r)
  <2>1. r \in 0 .. Rows(k) - 1
    BY <1>0
  <2>2. CASE p = 0
    <3>1. prev[r] = <<>>
      BY <2>1, <2>2
    <3>2. p - H + r < 0
      BY <1>0, <2>2
    <3> QED BY <3>1, <3>2 DEF Place
  <2>3. CASE p # 0
    <3>1. Whole(k, p) = p /\ p % R = 0
      BY <1>1 DEF Whole, R
    <3>2. \A i \in 0 .. H + (p % R) - 1 : lane.win[i] = Place(h, Whole(k, p) - H + i)
      BY <1>8, <2>3 DEF LaneAt, R, H
    <3>3. r \in 0 .. H + (p % R) - 1
      BY <1>0, <3>1
    <3> QED BY <2>3, <3>1, <3>2, <3>3
  <2> QED BY <2>2, <2>3
<1>9. new = [win |-> win, comp |-> comp, n |-> base + m]
  BY DEF CompressorPrefill, N, R
<1> HIDE DEF B, m, M, base, prev
<1>10. win \in [0 .. Rows(k) - 1 -> Hist]
  <2>0. <<>> \in Hist
    BY EmptySeq DEF Hist
  <2>1. CASE Overlaps(k)
    <3>1. ASSUME NEW r \in 0 .. Rows(k) - 1, r < R PROVE xs[N - R + r + 1] \in Hist
      <4>1. N >= R
        BY <2>1 DEF N, R
      <4>2. N - R + r + 1 \in 1 .. N
        BY <1>0, <3>1, <4>1
      <4> QED BY <1>00, <4>2
    <3>2. win = [r \in 0 .. Rows(k) - 1 |-> IF r < R THEN xs[N - R + r + 1] ELSE <<>>]
      BY <2>1 DEF RefreshedState, N, R
    <3> HIDE DEF win
    <3> QED BY <2>0, <3>1, <3>2
  <2>2. CASE ~ Overlaps(k)
    <3>1. win = [r \in 0 .. Rows(k) - 1 |-> IF M + r \in 0 .. N - 1 THEN xs[M + r + 1] ELSE <<>>]
      BY <2>2 DEF BatchState, N, R, M, m
    <3>2. ASSUME NEW r \in 0 .. Rows(k) - 1, M + r \in 0 .. N - 1 PROVE xs[M + r + 1] \in Hist
      <4>1. M + r + 1 \in 1 .. N
        BY <1>0, <1>2, <3>2
      <4> QED BY <1>00, <4>1
    <3> HIDE DEF win
    <3> QED BY <2>0, <3>1, <3>2
  <2> QED BY <2>1, <2>2
<1>11. ASSUME ok, NEW r \in 0 .. H + ((p + N) % R) - 1
       PROVE  win[r] = Place(h, Whole(k, p + N) - H + r)
  <2>0. \A t \in 1 .. N : xs[t] = At(h, p + t - 1)
    BY <1>11 DEF N
  <2>1. CASE Overlaps(k)
    <3>1. N % R = 0 /\ N >= R /\ H = R
      BY <1>0, <1>11, <2>1 DEF N, R
    <3>2. M = N /\ r \in 0 .. R - 1 /\ r \in 0 .. Rows(k) - 1
      BY <1>0, <1>2, <1>3, <3>1
    <3>3. win[r] = xs[N - R + r + 1]
      <4>1. win = [i \in 0 .. Rows(k) - 1 |-> IF i < R THEN xs[N - R + i + 1] ELSE <<>>]
        BY <2>1 DEF RefreshedState, N, R
      <4>2. r < R
        BY <1>0, <3>2
      <4> HIDE DEF win
      <4> QED BY <3>2, <4>1, <4>2
    <3>4. N - R + r + 1 \in 1 .. N /\ p + (N - R + r + 1) - 1 = (p + M) - H + r /\ ~ ((p + M) - H + r < 0)
      BY <1>0, <3>1, <3>2
    <3>5. win[r] = At(h, (p + M) - H + r)
      BY <2>0, <3>3, <3>4
    <3> QED BY <1>4, <3>4, <3>5 DEF Place
  <2>2. CASE ~ Overlaps(k)
    <3>1. H = 0 /\ r \in 0 .. (N % R) - 1 /\ r \in 0 .. Rows(k) - 1
      BY <1>0, <1>2, <1>3, <2>2
    <3>2. M + r \in 0 .. N - 1 /\ M + r + 1 \in 1 .. N
      BY <1>0, <1>2, <3>1
    <3>3. win[r] = xs[M + r + 1]
      BY <2>2, <3>1, <3>2 DEF BatchState, N, R, M, m
    <3>4. p + (M + r + 1) - 1 = (p + M) - H + r /\ ~ ((p + M) - H + r < 0)
      BY <1>0, <1>2, <3>1
    <3>5. win[r] = At(h, (p + M) - H + r)
      BY <2>0, <3>2, <3>3, <3>4
    <3> QED BY <1>4, <3>4, <3>5 DEF Place
  <2> QED BY <2>1, <2>2
<1>12. ASSUME NEW i \in B .. B + m - 1
       PROVE  /\ BatchWindow(k, xs, i - B, prev) \in [0 .. Rows(k) - 1 -> Hist]
              /\ ok => Pooled(k, BatchWindow(k, xs, i - B, prev)) = At(h, (i + 1) * R - 1)
  <2> DEFINE j == i - B
             J == j * R
             bw == BatchWindow(k, xs, j, prev)
  <2>1. j \in 0 .. (Len(xs) \div Ratio(k)) - 1 /\ j \in Nat
    BY <1>1, <1>2 DEF m, N, R
  <2>2. /\ J \in Nat /\ J + R <= N
        /\ bw \in [0 .. Rows(k) - 1 -> Hist]
        /\ \A r \in 0 .. Rows(k) - 1 :
             bw[r] = IF J - H + r < 0 THEN prev[r] ELSE xs[J - H + r + 1]
    <3>1. IsWindow(k, xs, j, prev, bw)
      <4> HIDE DEF j
      <4> QED BY <1>7, <2>1, BatchWindowIs
    <3> QED BY <3>1 DEF IsWindow, N, R, H
  <2>3. (i + 1) * R = p + J + R
    <3>1. i + 1 = B + j + 1
      BY <1>1, <2>1
    <3>2. (B + j + 1) * R = B * R + j * R + R
      <4> HIDE DEF j
      <4> QED BY <1>0, <1>1, <2>1
    <3> QED BY <1>1, <3>1, <3>2
  <2> HIDE DEF J, bw, j
  <2>4. ASSUME ok PROVE Pooled(k, bw) = At(h, p + J + R - 1)
    <3>0. J \in Nat /\ J + R <= N /\ p + N <= Len(h)
      BY <2>2 DEF N
    <3>1. p + J + R - 1 \in 0 .. Len(h) - 1
      BY <1>0, <3>0, EndsInside
    <3>2. ASSUME NEW r \in 0 .. Rows(k) - 1
          PROVE  bw[r] = Place(h, (p + J + R - 1) - (Rows(k) - 1 - r))
      <4>0. (p + J + R - 1) - (Rows(k) - 1 - r) = p + (J - H + r)
        BY <1>0, <2>2
      <4>1. CASE J - H + r < 0
        <5>1. J = 0 /\ r \in 0 .. H - 1 /\ p + (J - H + r) = p - H + r
          <6>1. J = 0 \/ J >= R
            <7>1. j > 0 => 1 * R <= j * R
              BY <1>0, <2>1, TimesMonotone
            <7>2. j = 0 => J = 0
              BY <1>0 DEF J
            <7> QED BY <1>0, <2>1, <7>1, <7>2 DEF J
          <6> QED BY <1>0, <2>2, <4>1, <6>1
        <5>2. bw[r] = prev[r]
          BY <2>2, <4>1
        <5> QED BY <1>8, <2>4, <4>0, <5>1, <5>2
      <4>2. CASE ~ (J - H + r < 0)
        <5>1. J - H + r + 1 \in 1 .. N /\ p + (J - H + r + 1) - 1 = p + (J - H + r) /\ ~ (p + (J - H + r) < 0)
          BY <1>0, <2>2, <4>2
        <5>2. bw[r] = xs[J - H + r + 1]
          BY <2>2, <4>2
        <5>3. xs[J - H + r + 1] = At(h, p + (J - H + r))
          BY <2>4, <5>1 DEF N
        <5> QED BY <4>0, <5>1, <5>2, <5>3 DEF Place
      <4> QED BY <4>1, <4>2
    <3>3. DOMAIN bw = 0 .. Rows(k) - 1
      BY <2>2
    <3> QED BY <3>1, <3>2, <3>3, PooledIs
  <2>5. ok => Pooled(k, bw) = At(h, (i + 1) * R - 1)
    <3>1. (i + 1) * R - 1 = p + J + R - 1
      BY <1>0, <2>2, <2>3
    <3> QED BY <2>4, <3>1
  <2> QED BY <2>2, <2>5 DEF bw, j
<1>13. comp \in [0 .. CompCap(x, k) - 1 -> Hist]
  <2>1. ASSUME NEW i \in 0 .. CompCap(x, k) - 1, i \in B .. B + m - 1
        PROVE  Pooled(k, BatchWindow(k, xs, i - B, prev)) \in Hist
    BY <1>12, <2>1, PooledTyped
  <2>2. comp = [i \in 0 .. CompCap(x, k) - 1 |->
                  IF i \in B .. B + m - 1 THEN Pooled(k, BatchWindow(k, xs, i - B, prev)) ELSE lane.comp[i]]
    BY <1>5, <1>6
  <2> HIDE DEF comp
  <2> QED BY <1>6, <2>1, <2>2
<1>14. ASSUME ok, NEW i \in 0 .. ((p + N) \div R) - 1 PROVE comp[i] = At(h, (i + 1) * R - 1)
  <2>0. i \in 0 .. CompCap(x, k) - 1
    <3>1. p + N \in Nat /\ p + N <= x
      BY <1>0 DEF N
    <3>2. (p + N) \div R \in 0 .. CompCap(x, k) - 2 /\ CompCap(x, k) \in Nat
      BY <3>1, CompRoom DEF R
    <3> QED BY <3>2
  <2>1. CASE i \in B .. B + m - 1
    <3>1. comp[i] = Pooled(k, BatchWindow(k, xs, i - B, prev))
      BY <1>5, <1>6, <2>0, <2>1
    <3> QED BY <1>12, <1>14, <2>1, <3>1
  <2>2. CASE ~ (i \in B .. B + m - 1)
    <3>1. i \in 0 .. B - 1
      BY <1>1, <1>2, <1>3, <2>2
    <3>2. p # 0
      <4>1. B * R # 0
        BY <1>0, <1>1, <3>1
      <4> QED BY <1>1, <4>1
    <3>3. comp[i] = lane.comp[i]
      BY <1>5, <1>6, <2>0, <2>2
    <3>4. \A n \in 0 .. (p \div R) - 1 : lane.comp[n] = At(h, (n + 1) * R - 1)
      BY <1>14, <3>2 DEF LaneAt, R
    <3> QED BY <3>1, <3>3, <3>4 DEF B
  <2> QED BY <2>1, <2>2
<1> HIDE DEF win, comp, new
<1>15. new \in Lanes(x, k) /\ new.n = (p + N) \div R /\ new.win = win /\ new.comp = comp
  <2>1. base + m \in Nat /\ base + m = (p + N) \div R
    BY <1>1, <1>2, <1>3, <1>5
  <2> QED BY <1>9, <1>10, <1>13, <2>1 DEF Lanes
<1>16. LaneAt(x, new, k, h, p + N, ok)
  BY <1>11, <1>14, <1>15 DEF LaneAt, R, H
<1> QED BY <1>16 DEF new, N

(* However a batch is fed, it takes a compressor as far as it goes.  The first
   batch of all needs a window, and whole windows if its rows are to be right. *)
LEMMA BatchLane ==
  ASSUME NEW x \in Nat, NEW k \in Kinds, NEW h \in Seq(Token), NEW p \in Nat,
         Len(h) <= x, NEW ok \in BOOLEAN, NEW lane \in Lanes(x, k),
         NEW xs \in Seq(Hist), Len(xs) > 0, p + Len(xs) <= Len(h),
         ok => \A t \in 1 .. Len(xs) : xs[t] = At(h, p + t - 1),
         p # 0 => LaneAt(x, lane, k, h, p, ok),
         p = 0 => Len(xs) >= FineRatio /\ (ok => Len(xs) % FineRatio = 0)
  PROVE  LaneAt(x, CompressorBatch(k, lane, p, xs), k, h, p + Len(xs), ok)
<1>0. /\ Ratio(k) \in Nat \ {0} /\ Len(xs) \in Nat
      /\ Overlaps(k) => Ratio(k) = FineRatio
  BY KindFacts, LenProperties
<1>1. CASE p = 0
  <2>1. p % Ratio(k) = 0
    BY <1>0, <1>1
  <2>2. Overlaps(k) => Len(xs) >= Ratio(k) /\ (ok => Len(xs) % Ratio(k) = 0)
    BY <1>0, <1>1
  <2>3. LaneAt(x, CompressorPrefill(k, lane, p, xs), k, h, p + Len(xs), ok)
    BY <1>1, <2>1, <2>2, PrefillLane
  <2> QED BY <1>1, <2>3 DEF CompressorBatch
<1>2. CASE p # 0 /\ p % Ratio(k) = 0 /\ Len(xs) % Ratio(k) = 0
  <2>1. Len(xs) >= Ratio(k)
    <3>1. Len(xs) = (Len(xs) \div Ratio(k)) * Ratio(k) + (Len(xs) % Ratio(k))
          /\ Len(xs) \div Ratio(k) \in Nat
      BY <1>0, DivMod, Zenon
    <3> DEFINE m == Len(xs) \div Ratio(k)
    <3> HIDE DEF m
    <3>2. m \in Nat /\ Len(xs) = m * Ratio(k)
      BY <1>0, <1>2, <3>1 DEF m
    <3>3. m >= 1
      BY <1>0, <3>2
    <3>4. 1 * Ratio(k) <= m * Ratio(k)
      BY <1>0, <3>2, <3>3, TimesMonotone
    <3> QED BY <1>0, <3>2, <3>4
  <2>2. LaneAt(x, CompressorPrefill(k, lane, p, xs), k, h, p + Len(xs), ok)
    BY <1>2, <2>1, PrefillLane
  <2> QED BY <1>2, <2>2 DEF CompressorBatch
<1>3. CASE p # 0 /\ ~ (p % Ratio(k) = 0 /\ Len(xs) % Ratio(k) = 0)
  <2>1. LaneAt(x, CompressorStream(k, lane, p, xs), k, h, p + Len(xs), ok)
    BY <1>3, StreamLane
  <2> QED BY <1>3, <2>1 DEF CompressorBatch
<1> QED BY <1>1, <1>2, <1>3

-----------------------------------------------------------------------------
(* Raw rows. *)

SameLanes(c, d) == c.win = d.win /\ c.comp = d.comp /\ c.n_comp = d.n_comp

(* Equal lanes of a cache are lanes of the other. *)
LEMMA SameLanesLane ==
  ASSUME NEW c, NEW d, SameLanes(c, d), NEW k
  PROVE  Lane(c, k) = Lane(d, k)
BY DEF SameLanes, Lane

(* What it takes to be a cache. *)
LEMMA CacheIs ==
  ASSUME NEW b, NEW x, NEW raw \in [0 .. Cap(b, x) - 1 -> Hist], NEW n_raw \in Nat,
         NEW comp, comp = [k \in Kinds |-> comp[k]],
         NEW n_comp, n_comp = [k \in Kinds |-> n_comp[k]],
         NEW win, win = [k \in Kinds |-> win[k]],
         \A k \in Kinds : [win |-> win[k], comp |-> comp[k], n |-> n_comp[k]] \in Lanes(x, k)
  PROVE  [raw |-> raw, n_raw |-> n_raw, comp |-> comp, n_comp |-> n_comp, win |-> win] \in Caches(b, x)
<1> DEFINE c == [raw |-> raw, n_raw |-> n_raw, comp |-> comp, n_comp |-> n_comp, win |-> win]
<1>1. ASSUME NEW k \in Kinds
      PROVE  /\ win[k] \in [0 .. Rows(k) - 1 -> Hist] /\ n_comp[k] \in Nat
             /\ comp[k] \in [0 .. CompCap(x, k) - 1 -> Hist]
  BY DEF Lanes
<1>2. win \in [Kinds -> Wins]
  <2>1. \A k \in Kinds : win[k] \in Wins
    BY <1>1 DEF Wins
  <2> QED BY <2>1
<1>3. comp \in [Kinds -> Comps(x)]
  <2>1. \A k \in Kinds : comp[k] \in Comps(x)
    BY <1>1 DEF Comps
  <2> QED BY <2>1
<1>4. n_comp \in [Kinds -> Nat]
  BY <1>1
<1>5. \A k \in Kinds : Lane(c, k) \in Lanes(x, k)
  BY DEF Lane
<1> QED BY <1>2, <1>3, <1>4, <1>5 DEF Caches

\* The fields of a cache are all there is to it.
Recorded(c) ==
  c = [raw |-> c.raw, n_raw |-> c.n_raw, comp |-> c.comp, n_comp |-> c.n_comp, win |-> c.win]

(* What a cache is. *)
LEMMA CacheFacts ==
  ASSUME NEW b, NEW x, NEW c \in Caches(b, x)
  PROVE  /\ Recorded(c)
         /\ DOMAIN c = {"raw", "n_raw", "comp", "n_comp", "win"}
         /\ c.raw \in [0 .. Cap(b, x) - 1 -> Hist] /\ c.n_raw \in Nat
         /\ c.comp = [k \in Kinds |-> c.comp[k]]
         /\ c.n_comp = [k \in Kinds |-> c.n_comp[k]]
         /\ c.win = [k \in Kinds |-> c.win[k]]
         /\ \A k \in Kinds : /\ Lane(c, k) \in Lanes(x, k)
                             /\ Lane(c, k) = [win |-> c.win[k], comp |-> c.comp[k], n |-> c.n_comp[k]]
BY DEF Caches, Lane, Recorded

(* New lanes leave the raw rows alone. *)
LEMMA WithLanesIs ==
  ASSUME NEW b, NEW x, NEW c \in Caches(b, x), NEW lane, \A k \in Kinds : lane[k] \in Lanes(x, k)
  PROVE  /\ WithLanes(c, lane) \in Caches(b, x)
         /\ WithLanes(c, lane).raw = c.raw /\ WithLanes(c, lane).n_raw = c.n_raw
         /\ \A k \in Kinds : Lane(WithLanes(c, lane), k) = lane[k]
<1> DEFINE new  == WithLanes(c, lane)
           win  == [k \in Kinds |-> lane[k].win]
           comp == [k \in Kinds |-> lane[k].comp]
           num  == [k \in Kinds |-> lane[k].n]
<1>1. new = [raw |-> c.raw, n_raw |-> c.n_raw, comp |-> comp, n_comp |-> num, win |-> win]
  <2>1. c = [raw |-> c.raw, n_raw |-> c.n_raw, comp |-> c.comp, n_comp |-> c.n_comp, win |-> c.win]
    <3>1. Recorded(c)
      BY CacheFacts
    <3> QED BY <3>1 DEF Recorded
  <2> DEFINE raw == c.raw
             n_raw == c.n_raw
  <2>2. new = [c EXCEPT !.win = win, !.comp = comp, !.n_comp = num]
    BY DEF WithLanes
  <2> HIDE DEF new, win, comp, num
  <2> QED BY <2>1, <2>2
<1>2. ASSUME NEW k \in Kinds
      PROVE  [win |-> win[k], comp |-> comp[k], n |-> num[k]] = lane[k]
  <2>1. lane[k] = [win |-> lane[k].win, comp |-> lane[k].comp, n |-> lane[k].n]
    BY DEF Lanes
  <2> QED BY <2>1
<1>3. \A k \in Kinds : [win |-> win[k], comp |-> comp[k], n |-> num[k]] \in Lanes(x, k)
  BY <1>2
<1>4. /\ win = [k \in Kinds |-> win[k]] /\ comp = [k \in Kinds |-> comp[k]] /\ num = [k \in Kinds |-> num[k]]
      /\ c.raw \in [0 .. Cap(b, x) - 1 -> Hist] /\ c.n_raw \in Nat
  BY CacheFacts
<1> HIDE DEF new, win, comp, num
<1>5. new \in Caches(b, x)
  BY <1>1, <1>3, <1>4, CacheIs
<1>6. \A k \in Kinds : Lane(new, k) = lane[k]
  BY <1>1, <1>2 DEF Lane
<1>7. new.raw = c.raw /\ new.n_raw = c.n_raw
  BY <1>1
<1> QED BY <1>5, <1>6, <1>7 DEF new

(* New raw rows leave the lanes alone. *)
LEMMA WithRawIs ==
  ASSUME NEW b, NEW x, NEW c \in Caches(b, x), NEW raw \in [0 .. Cap(b, x) - 1 -> Hist], NEW n_raw \in Nat
  PROVE  LET new == [raw |-> raw, n_raw |-> n_raw, comp |-> c.comp, n_comp |-> c.n_comp, win |-> c.win]
         IN  new \in Caches(b, x) /\ SameLanes(new, c)
<1>1. /\ c.comp = [k \in Kinds |-> c.comp[k]] /\ c.n_comp = [k \in Kinds |-> c.n_comp[k]]
      /\ c.win = [k \in Kinds |-> c.win[k]]
      /\ \A k \in Kinds : [win |-> c.win[k], comp |-> c.comp[k], n |-> c.n_comp[k]] \in Lanes(x, k)
  BY CacheFacts
<1> DEFINE new == [raw |-> raw, n_raw |-> n_raw, comp |-> c.comp, n_comp |-> c.n_comp, win |-> c.win]
<1>2. new \in Caches(b, x)
  BY <1>1, CacheIs
<1>3. SameLanes(new, c)
  BY DEF SameLanes
<1> QED BY <1>2, <1>3

\* What PushRaw leaves: the rows and how many of them count.
PushedRows(c, p, e) ==
  IF backend = "graph" THEN [c.raw EXCEPT ![p % RawCap] = e]
  ELSE IF c.n_raw < RawCap THEN [c.raw EXCEPT ![c.n_raw] = e]
  ELSE [i \in 0 .. RawCap - 1 |-> IF i = RawCap - 1 THEN e ELSE c.raw[i + 1]]

PushedCount(c) == IF backend # "graph" /\ c.n_raw < RawCap THEN c.n_raw + 1 ELSE c.n_raw

(* A raw row written leaves the compressors alone. *)
LEMMA PushRawIs ==
  ASSUME NEW c \in Caches(backend, ctx), NEW p \in Nat, NEW e \in Hist,
         backend \in {"cpu", "graph"}, ctx \in Ctxs
  PROVE  /\ PushRaw(c, p, e) = [raw |-> PushedRows(c, p, e), n_raw |-> PushedCount(c),
                                comp |-> c.comp, n_comp |-> c.n_comp, win |-> c.win]
         /\ PushRaw(c, p, e) \in Caches(backend, ctx) /\ SameLanes(PushRaw(c, p, e), c)
         /\ PushedRows(c, p, e) \in [0 .. RawCap - 1 -> Hist]
<1> DEFINE new == PushRaw(c, p, e)
           C == Cap(backend, ctx)
           raw == c.raw
           n_raw == c.n_raw
<1>0. /\ c = [raw |-> raw, n_raw |-> n_raw, comp |-> c.comp, n_comp |-> c.n_comp, win |-> c.win]
      /\ raw \in [0 .. C - 1 -> Hist] /\ n_raw \in Nat
      /\ RawCap = C /\ C \in Nat \ {0}
  <2>1. c = [raw |-> raw, n_raw |-> n_raw, comp |-> c.comp, n_comp |-> c.n_comp, win |-> c.win]
    <3>1. Recorded(c)
      BY CacheFacts
    <3> QED BY <3>1 DEF Recorded
  <2>2. raw \in [0 .. C - 1 -> Hist] /\ n_raw \in Nat
    BY CacheFacts
  <2> QED BY <2>1, <2>2, RawCapIs, CapFacts
<1> DEFINE i == p % RawCap
<1>1. /\ new = [raw |-> PushedRows(c, p, e), n_raw |-> PushedCount(c),
                comp |-> c.comp, n_comp |-> c.n_comp, win |-> c.win]
      /\ PushedRows(c, p, e) \in [0 .. C - 1 -> Hist] /\ PushedCount(c) \in Nat
  <2>1. CASE backend = "graph"
    <3> DEFINE rows == [raw EXCEPT ![i] = e]
    <3>1. /\ new = [c EXCEPT !.raw = rows] /\ PushedRows(c, p, e) = rows /\ PushedCount(c) = n_raw
      BY <2>1 DEF PushRaw, PushedRows, PushedCount
    <3>2. rows \in [0 .. C - 1 -> Hist]
      <4>1. raw \in [0 .. C - 1 -> Hist]
        BY <1>0
      <4> HIDE DEF raw, C, i
      <4> QED BY <4>1
    <3> HIDE DEF new, raw, n_raw, C, rows
    <3>3. [c EXCEPT !.raw = rows] =
            [raw |-> rows, n_raw |-> n_raw, comp |-> c.comp, n_comp |-> c.n_comp, win |-> c.win]
      BY <1>0
    <3> QED BY <1>0, <3>1, <3>2, <3>3
  <2>2. CASE backend # "graph" /\ n_raw < RawCap
    <3> DEFINE next == [raw EXCEPT ![n_raw] = e]
               more == n_raw + 1
    <3>1. /\ new = [c EXCEPT !.raw = next, !.n_raw = more]
          /\ PushedRows(c, p, e) = next
          /\ PushedCount(c) = more
      BY <2>2 DEF PushRaw, PushedRows, PushedCount
    <3> HIDE DEF raw, n_raw, C
    <3>2. next \in [0 .. C - 1 -> Hist] /\ more \in Nat
      <4>1. raw \in [0 .. C - 1 -> Hist]
        BY <1>0
      <4>2. next \in [0 .. C - 1 -> Hist]
        BY <4>1
      <4> QED BY <1>0, <4>2
    <3> HIDE DEF new, next, more
    <3>3. new = [raw |-> next, n_raw |-> more, comp |-> c.comp, n_comp |-> c.n_comp, win |-> c.win]
      BY <1>0, <3>1
    <3> QED BY <3>1, <3>2, <3>3
  <2>3. CASE backend # "graph" /\ ~ (n_raw < RawCap)
    <3> DEFINE up == [j \in 0 .. RawCap - 1 |-> IF j = RawCap - 1 THEN e ELSE raw[j + 1]]
    <3>0. DOMAIN c.raw = 0 .. RawCap - 1
      BY <1>0
    <3>1. /\ new = [c EXCEPT !.raw = up]
          /\ PushedRows(c, p, e) = up
          /\ PushedCount(c) = n_raw
      BY <2>3, <3>0 DEF PushRaw, PushedRows, PushedCount
    <3>2. up \in [0 .. C - 1 -> Hist]
      BY <1>0
    <3> HIDE DEF new, raw, n_raw, C, up
    <3>3. [c EXCEPT !.raw = up] =
            [raw |-> up, n_raw |-> n_raw, comp |-> c.comp, n_comp |-> c.n_comp, win |-> c.win]
      BY <1>0
    <3> QED BY <1>0, <3>1, <3>2, <3>3
  <2> QED BY <2>1, <2>2, <2>3
<1> HIDE DEF new
<1>2. new \in Caches(backend, ctx) /\ SameLanes(new, c)
  <2> DEFINE rows == PushedRows(c, p, e)
             count == PushedCount(c)
  <2>1. rows \in [0 .. Cap(backend, ctx) - 1 -> Hist] /\ count \in Nat
    BY <1>1
  <2> HIDE DEF rows, count
  <2>2. LET n == [raw |-> rows, n_raw |-> count, comp |-> c.comp, n_comp |-> c.n_comp, win |-> c.win]
        IN  n \in Caches(backend, ctx) /\ SameLanes(n, c)
    BY <2>1, WithRawIs, Zenon
  <2> QED BY <1>1, <2>2 DEF rows, count
<1> QED BY <1>0, <1>1, <1>2 DEF new

\* The rows lo .. hi - 1 of h are in the ring of a graph session.
RingHolds(c, h, lo, hi) ==
  \A q \in lo .. hi - 1 : c.raw[q % Cap(backend, ctx)] = At(h, q)

(* A function on 1 .. n is a sequence of length n. *)
LEMMA FunctionIsSeq ==
  ASSUME NEW S, NEW n \in Nat, NEW f \in [1 .. n -> S]
  PROVE  f \in Seq(S) /\ Len(f) = n
<1>1. f \in Seq(S)
  BY SeqDef
<1>2. Len(f) \in Nat /\ DOMAIN f = 1 .. Len(f) /\ DOMAIN f = 1 .. n
  BY <1>1, LenProperties
<1>3. ASSUME Len(f) # n PROVE FALSE
  <2>1. n \in 1 .. n \/ n = 0
    OBVIOUS
  <2>2. Len(f) \in 1 .. Len(f) \/ Len(f) = 0
    BY <1>2
  <2> QED BY <1>2, <1>3, <2>1, <2>2
<1> QED BY <1>1, <1>3

(* A row written to the ring leaves as many rows as the ring has. *)
LEMMA RingStep ==
  ASSUME backend = "graph", ctx \in Ctxs, NEW c \in Caches(backend, ctx),
         NEW h \in Seq(Token), NEW lo \in Nat, NEW p \in Nat, lo <= p, p + 1 - lo <= RawCap,
         NEW e \in Hist, e = At(h, p), RingHolds(c, h, lo, p)
  PROVE  RingHolds(PushRaw(c, p, e), h, lo, p + 1)
<1> DEFINE C == Cap(backend, ctx)
           new == PushRaw(c, p, e)
<1>0. RawCap = C /\ C \in Nat \ {0} /\ c.raw \in [0 .. C - 1 -> Hist]
  BY RawCapIs, CapFacts, CacheFacts
<1> HIDE DEF C
<1>1. p % C \in 0 .. C - 1
  BY <1>0, DivMod, Zenon
<1>2. new.raw = [c.raw EXCEPT ![p % C] = e]
  <2>1. new.raw = PushedRows(c, p, e)
    BY PushRawIs
  <2> QED BY <1>0, <2>1 DEF PushedRows
<1> HIDE DEF new
<1>3. ASSUME NEW q \in lo .. (p + 1) - 1 PROVE new.raw[q % C] = At(h, q)
  <2>1. CASE q = p
    BY <1>0, <1>1, <1>2, <2>1
  <2>2. CASE q # p
    <3>1. q \in lo .. p - 1 /\ q \in Nat /\ q <= p /\ p - q < C
      BY <1>0, <2>2
    <3>2. q % C # p % C
      BY <1>0, <2>2, <3>1, ModApart
    <3>3. q % C \in 0 .. C - 1
      BY <1>0, <3>1, DivMod, Zenon
    <3>4. new.raw[q % C] = c.raw[q % C]
      BY <1>0, <1>1, <1>2, <3>2, <3>3
    <3> QED BY <3>1, <3>4 DEF RingHolds, C
  <2> QED BY <2>1, <2>2
<1> QED BY <1>3 DEF RingHolds, C, new

(* So do the rows of a batch, when there is room for them and those before. *)
LEMMA RingBatch ==
  ASSUME backend = "graph", ctx \in Ctxs, NEW c \in Caches(backend, ctx),
         NEW h \in Seq(Token), NEW lo \in Nat, NEW p \in Nat, lo <= p,
         NEW xs \in Seq(Hist), p + Len(xs) - lo <= RawCap,
         NEW ok \in BOOLEAN, ok => RingHolds(c, h, lo, p),
         ok => \A t \in 1 .. Len(xs) : xs[t] = At(h, p + t - 1)
  PROVE  /\ PushRaws(c, p, xs) \in Caches(backend, ctx) /\ SameLanes(PushRaws(c, p, xs), c)
         /\ ok => RingHolds(PushRaws(c, p, xs), h, lo, p + Len(xs))
<1> DEFINE N == Len(xs)
           pushed[t \in 0 .. Len(xs)] == IF t = 0 THEN c ELSE PushRaw(pushed[t - 1], p + t - 1, xs[t])
           S == {d \in [raw : [0 .. Cap(backend, ctx) - 1 -> Hist], n_raw : {c.n_raw},
                        comp : {c.comp}, n_comp : {c.n_comp}, win : {c.win}] :
                   d \in Caches(backend, ctx) /\ SameLanes(d, c)}
           F == [a \in (1 .. N) \X S |-> PushRaw(a[2], p + a[1] - 1, xs[a[1]])]
           T == {t \in 0 .. N : pushed[t] \in S /\ (ok => RingHolds(pushed[t], h, lo, p + t))}
<1>0. /\ N \in Nat /\ backend \in {"cpu", "graph"}
      /\ \A t \in 1 .. N : xs[t] \in Hist
  BY LenProperties, ElementOfSeq
<1>1. c \in S
  <2>1. Recorded(c) /\ c.raw \in [0 .. Cap(backend, ctx) - 1 -> Hist]
    BY CacheFacts
  <2>2. c \in [raw : [0 .. Cap(backend, ctx) - 1 -> Hist], n_raw : {c.n_raw},
               comp : {c.comp}, n_comp : {c.n_comp}, win : {c.win}]
    BY <2>1 DEF Recorded
  <2> QED BY <2>2 DEF SameLanes
<1>2. ASSUME NEW t \in 1 .. N, NEW d \in S
      PROVE  PushRaw(d, p + t - 1, xs[t]) \in S
  <2> DEFINE new == PushRaw(d, p + t - 1, xs[t])
             q == p + t - 1
             e == xs[t]
  <2>1. d \in Caches(backend, ctx) /\ SameLanes(d, c) /\ d.n_raw = c.n_raw
    OBVIOUS
  <2>2. q \in Nat /\ e \in Hist
    BY <1>0
  <2>3. /\ PushRaw(d, q, e) = [raw |-> PushedRows(d, q, e), n_raw |-> PushedCount(d),
                               comp |-> d.comp, n_comp |-> d.n_comp, win |-> d.win]
        /\ PushRaw(d, q, e) \in Caches(backend, ctx) /\ SameLanes(PushRaw(d, q, e), d)
        /\ PushedRows(d, q, e) \in [0 .. RawCap - 1 -> Hist]
    <3> HIDE DEF q, e, S
    <3> QED BY <1>0, <2>1, <2>2, PushRawIs
  <2> DEFINE rows == PushedRows(d, q, e)
  <2>4. new = [raw |-> rows, n_raw |-> c.n_raw, comp |-> c.comp, n_comp |-> c.n_comp, win |-> c.win]
        /\ rows \in [0 .. Cap(backend, ctx) - 1 -> Hist]
    BY <2>1, <2>3, RawCapIs DEF PushedCount, SameLanes
  <2>5. new \in Caches(backend, ctx) /\ SameLanes(new, c)
    BY <2>1, <2>3 DEF SameLanes
  <2> HIDE DEF new, rows
  <2> QED BY <2>4, <2>5 DEF new
<1>3. F \in [(1 .. N) \X S -> S]
  <2>1. ASSUME NEW a \in (1 .. N) \X S PROVE PushRaw(a[2], p + a[1] - 1, xs[a[1]]) \in S
    <3>1. a[1] \in 1 .. N /\ a[2] \in S
      OBVIOUS
    <3> HIDE DEF S
    <3> QED BY <1>2, <3>1
  <2> HIDE DEF S
  <2> QED BY <2>1
<1> HIDE DEF S
<1>4. PICK f \in [0 .. N -> S] : Iterates(f, N, c, F)
  <2> HIDE DEF F, N
  <2> QED BY <1>0, <1>1, <1>3, Iterate
<1>5. f = [t \in 0 .. N |-> IF t = 0 THEN c ELSE PushRaw(f[t - 1], p + t - 1, xs[t])]
  <2>1. ASSUME NEW t \in 1 .. N PROVE f[t] = PushRaw(f[t - 1], p + t - 1, xs[t])
    <3>1. t - 1 \in 0 .. N
      BY <1>0
    <3>2. <<t, f[t - 1]>> \in (1 .. N) \X S
      BY <1>4, <3>1
    <3> QED BY <1>4, <3>2 DEF Iterates
  <2> HIDE DEF F, N
  <2> QED BY <1>0, <1>4, <2>1 DEF Iterates
<1>6. pushed = [t \in 0 .. N |-> IF t = 0 THEN c ELSE PushRaw(pushed[t - 1], p + t - 1, xs[t])]
  <2>1. \E g : g = [t \in 0 .. Len(xs) |-> IF t = 0 THEN c ELSE PushRaw(g[t - 1], p + t - 1, xs[t])]
    BY <1>5
  <2> QED BY <2>1
<1>7. PushRaws(c, p, xs) = pushed[Len(xs)]
  BY DEF PushRaws
<1>8. pushed[0] = c /\ \A t \in 1 .. N : pushed[t] = PushRaw(pushed[t - 1], p + t - 1, xs[t])
  <2> HIDE DEF pushed
  <2>1. pushed[0] = c
    BY <1>0, <1>6
  <2>2. ASSUME NEW t \in 1 .. N PROVE pushed[t] = PushRaw(pushed[t - 1], p + t - 1, xs[t])
    <3>1. t \in 0 .. N /\ t # 0
      OBVIOUS
    <3> HIDE DEF N
    <3> QED BY <1>6, <3>1
  <2> QED BY <2>1, <2>2
<1> HIDE DEF pushed, F
<1>9. 0 \in T
  BY <1>0, <1>1, <1>8
<1>10. ASSUME NEW t \in 0 .. N - 1, t \in T PROVE t + 1 \in T
  <2>1. /\ t + 1 \in 1 .. N /\ t + 1 \in 0 .. N /\ p + t \in Nat /\ lo <= p + t
        /\ (p + t) + 1 - lo <= RawCap
        /\ p + (t + 1) - 1 = p + t /\ (t + 1) - 1 = t /\ (p + t) + 1 = p + (t + 1)
    <3>1. RawCap \in Nat
      BY <1>0, RawCapIs, CapFacts
    <3> QED BY <1>0, <3>1
  <2>2. pushed[t + 1] = PushRaw(pushed[t], p + t, xs[t + 1])
    BY <1>8, <2>1
  <2>3. xs[t + 1] \in Hist /\ (ok => xs[t + 1] = At(h, p + t))
    BY <1>0, <2>1
  <2>4. pushed[t] \in S /\ (ok => RingHolds(pushed[t], h, lo, p + t))
    BY <1>10
  <2>5. pushed[t + 1] \in S
    BY <1>2, <2>1, <2>2, <2>4
  <2>6. ok => RingHolds(pushed[t + 1], h, lo, p + (t + 1))
    <3>1. pushed[t] \in Caches(backend, ctx)
      BY <2>4 DEF S
    <3>2. ok => RingHolds(PushRaw(pushed[t], p + t, xs[t + 1]), h, lo, (p + t) + 1)
      BY <2>1, <2>3, <2>4, <3>1, RingStep
    <3> QED BY <2>1, <2>2, <3>2
  <2> QED BY <2>1, <2>5, <2>6
<1> HIDE DEF T
<1>11. \A t \in 0 .. N : t \in T
  BY <1>0, <1>9, <1>10, InductUpTo, Zenon
<1>12. N \in T
  BY <1>0, <1>11
<1> QED BY <1>7, <1>12 DEF T, S

(* The ring has room for a chunk beside the window before it. *)
LEMMA RingRoom ==
  ASSUME backend = "graph", ctx \in Ctxs, NEW p \in Nat, NEW n \in 1 .. Chunk, p + n <= ctx
  PROVE  From(p) \in Nat /\ From(p) <= p /\ p + n - From(p) <= RawCap
<1>1. /\ RawCap \in Nat /\ (RawCap >= Window + Chunk \/ RawCap >= ctx)
      /\ Window \in Nat \ {0} /\ Chunk \in Nat \ {0} /\ ctx \in Nat
  BY RawCapIs, CapFacts
<1> QED BY <1>1 DEF From

(* A shifted row of the CPU cache. *)
LEMMA CpuPush ==
  ASSUME backend = "cpu", ctx \in Ctxs, NEW c \in Caches(backend, ctx),
         NEW h \in Seq(Token), NEW p \in Nat, NEW e \in Hist, NEW ok \in BOOLEAN,
         RawAt(backend, ctx, c, h, p, ok), ok => e = At(h, p)
  PROVE  RawAt(backend, ctx, PushRaw(c, p, e), h, p + 1, ok)
<1> DEFINE W == Window
           new == PushRaw(c, p, e)
<1>0. /\ RawCap = W /\ W \in Nat \ {0} /\ c.raw \in [0 .. W - 1 -> Hist]
  BY RawCapIs, CapFacts, CacheFacts
<1>1. /\ c.n_raw = Lesser(W, p)
      /\ ok => \A q \in From(p) .. p - 1 : c.raw[q - From(p)] = At(h, q)
  BY DEF RawAt
<1>2. new.raw = PushedRows(c, p, e) /\ new.n_raw = PushedCount(c)
  BY PushRawIs
<1> HIDE DEF new, W
<1>3. CASE p < W
  <2>1. c.n_raw = p /\ From(p) = 0 /\ From(p + 1) = 0 /\ p + 1 <= W
    BY <1>0, <1>1, <1>3 DEF Lesser, From, W
  <2>2. new.raw = [c.raw EXCEPT ![p] = e] /\ new.n_raw = p + 1
    BY <1>0, <1>2, <1>3, <2>1 DEF PushedRows, PushedCount
  <2>3. new.n_raw = Lesser(W, p + 1)
    BY <1>0, <2>1, <2>2 DEF Lesser
  <2>4. ASSUME ok, NEW q \in 0 .. p PROVE new.raw[q] = At(h, q)
    <3>1. CASE q = p
      BY <1>0, <1>3, <2>2, <2>4, <3>1
    <3>2. CASE q # p
      <4>1. q \in From(p) .. p - 1 /\ q - From(p) = q
        BY <2>1, <3>2
      <4>2. c.raw[q] = At(h, q)
        BY <1>1, <2>4, <4>1
      <4>3. new.raw[q] = c.raw[q]
        BY <1>0, <1>3, <2>2, <3>2
      <4> QED BY <4>2, <4>3
    <3> QED BY <3>1, <3>2
  <2>5. ASSUME ok, NEW q \in From(p + 1) .. (p + 1) - 1 PROVE new.raw[q - From(p + 1)] = At(h, q)
    <3>1. q \in 0 .. p /\ q - From(p + 1) = q
      BY <2>1
    <3> QED BY <2>4, <2>5, <3>1
  <2> QED BY <2>3, <2>5 DEF RawAt, new, W
<1>4. CASE ~ (p < W)
  <2>1. c.n_raw = W /\ From(p) = p - W /\ From(p + 1) = p + 1 - W
    BY <1>0, <1>1, <1>4 DEF Lesser, From, W
  <2>2. /\ new.raw = [i \in 0 .. W - 1 |-> IF i = W - 1 THEN e ELSE c.raw[i + 1]]
        /\ new.n_raw = W
    BY <1>0, <1>2, <2>1 DEF PushedRows, PushedCount
  <2>3. new.n_raw = Lesser(W, p + 1)
    BY <1>0, <1>4, <2>2 DEF Lesser
  <2>4. ASSUME ok, NEW q \in From(p + 1) .. (p + 1) - 1 PROVE new.raw[q - From(p + 1)] = At(h, q)
    <3>1. q - From(p + 1) \in 0 .. W - 1
      BY <1>0, <2>1
    <3>2. CASE q = p
      <4>1. q - From(p + 1) = W - 1
        BY <1>0, <2>1, <3>2
      <4> QED BY <2>2, <2>4, <3>1, <3>2, <4>1
    <3>3. CASE q # p
      <4>1. q \in From(p) .. p - 1 /\ q - From(p + 1) # W - 1 /\ (q - From(p + 1)) + 1 = q - From(p)
        BY <1>0, <1>4, <2>1, <3>3
      <4>2. c.raw[q - From(p)] = At(h, q)
        BY <1>1, <2>4, <4>1
      <4> QED BY <2>2, <3>1, <4>1, <4>2
    <3> QED BY <3>2, <3>3
  <2> QED BY <2>3, <2>4 DEF RawAt, new, W
<1> QED BY <1>3, <1>4

(* A raw row pushed stands for its position. *)
LEMMA PushStands ==
  ASSUME backend \in {"cpu", "graph"}, ctx \in Ctxs, NEW c \in Caches(backend, ctx),
         NEW h \in Seq(Token), NEW p \in Nat, p + 1 <= ctx, NEW e \in Hist, NEW ok \in BOOLEAN,
         RawAt(backend, ctx, c, h, p, ok), ok => e = At(h, p)
  PROVE  RawAt(backend, ctx, PushRaw(c, p, e), h, p + 1, ok)
<1>1. CASE backend = "cpu"
  BY <1>1, CpuPush
<1>2. CASE backend = "graph"
  <2>1. 1 \in 1 .. Chunk
    BY CapFacts
  <2>2. From(p) \in Nat /\ From(p) <= p /\ p + 1 - From(p) <= RawCap
    BY <1>2, <2>1, RingRoom
  <2>3. ok => RingHolds(c, h, From(p), p)
    BY <1>2 DEF RawAt, RingHolds
  <2>4. ok => RingHolds(PushRaw(c, p, e), h, From(p), p + 1)
    BY <1>2, <2>2, <2>3, RingStep
  <2>5. From(p) <= From(p + 1) /\ From(p + 1) \in Nat
    BY CapFacts DEF From
  <2>6. ASSUME ok, NEW q \in From(p + 1) .. (p + 1) - 1
        PROVE  PushRaw(c, p, e).raw[q % Cap(backend, ctx)] = At(h, q)
    <3>1. q \in From(p) .. (p + 1) - 1
      BY <2>2, <2>5
    <3> QED BY <2>4, <2>6, <3>1 DEF RingHolds
  <2> QED BY <1>2, <2>6 DEF RawAt
<1> QED BY <1>1, <1>2

-----------------------------------------------------------------------------
(* One token. *)

AfterOne(c, p, e) ==
  WithLanes(PushRaw(c, p, e), [k \in Kinds |-> CompressorUpdate(k, Lane(c, k), p, e)])

(* One token takes a cache from p to p + 1. *)
LEMMA OneToken ==
  ASSUME backend \in {"cpu", "graph"}, ctx \in Ctxs, NEW c, NEW h \in Seq(Token),
         NEW p \in 0 .. Len(h) - 1, Len(h) <= ctx, NEW ok \in BOOLEAN,
         Sound(backend, ctx, c, h, p, ok), NEW e \in Hist, ok => e = At(h, p)
  PROVE  Sound(backend, ctx, AfterOne(c, p, e), h, p + 1, ok)
<1> DEFINE lane == [k \in Kinds |-> CompressorUpdate(k, Lane(c, k), p, e)]
           d == PushRaw(c, p, e)
<1>0. p \in Nat /\ p + 1 <= ctx /\ ctx \in Nat /\ c \in Caches(backend, ctx)
  BY CapFacts, LenProperties DEF Sound
<1>1. d \in Caches(backend, ctx)
  BY <1>0, PushRawIs
<1>2. RawAt(backend, ctx, d, h, p + 1, ok)
  BY <1>0, PushStands DEF Sound
<1>3. \A k \in Kinds : LaneAt(ctx, lane[k], k, h, p + 1, ok)
  <2>1. ASSUME NEW k \in Kinds PROVE LaneAt(ctx, lane[k], k, h, p + 1, ok)
    <3>1. LaneAt(ctx, Lane(c, k), k, h, p, ok)
      BY DEF Sound
    <3>2. LaneAt(ctx, CompressorUpdate(k, Lane(c, k), p, e), k, h, p + 1, ok)
      BY <1>0, <3>1, UpdateLane
    <3> QED BY <3>2
  <2> QED BY <2>1
<1> HIDE DEF d, lane
<1>4. \A k \in Kinds : lane[k] \in Lanes(ctx, k)
  BY <1>3 DEF LaneAt
<1>5. /\ WithLanes(d, lane) \in Caches(backend, ctx)
      /\ WithLanes(d, lane).raw = d.raw /\ WithLanes(d, lane).n_raw = d.n_raw
      /\ \A k \in Kinds : Lane(WithLanes(d, lane), k) = lane[k]
  BY <1>1, <1>4, WithLanesIs
<1>6. RawAt(backend, ctx, WithLanes(d, lane), h, p + 1, ok)
  BY <1>2, <1>5 DEF RawAt
<1>7. Sound(backend, ctx, WithLanes(d, lane), h, p + 1, ok)
  BY <1>3, <1>5, <1>6 DEF Sound
<1> QED BY <1>7 DEF AfterOne, d, lane

-----------------------------------------------------------------------------
(* What a forward pass sees. *)

(* The attention kernel finds the position it asks for. *)
LEMMA GraphRow ==
  ASSUME backend = "graph", ctx \in Ctxs, NEW c, NEW last \in Nat, NEW span \in 1 .. last + 1,
         NEW q \in last + 1 - span .. last
  PROVE  RawRow(c, q, last, span) = c.raw[q % RawCap]
<1> DEFINE first == last + 1 - span
<1>1. first \in Nat /\ q - first \in Nat /\ first + (q - first) = q /\ ~ (q < first)
  OBVIOUS
<1>2. RawCap \in Nat \ {0}
  BY RawCapIs, CapFacts
<1>3. RawRow(c, q, last, span) = c.raw[((first % RawCap) + (q - first)) % RawCap]
  BY <1>1 DEF RawRow
<1> HIDE DEF first
<1>4. ((first % RawCap) + (q - first)) % RawCap = (first + (q - first)) % RawCap
  BY <1>1, <1>2, ModOfSum
<1> QED BY <1>1, <1>3, <1>4

(* A decode sees the rows of its window. *)
LEMMA SeesOne ==
  ASSUME backend \in {"cpu", "graph"}, ctx \in Ctxs, NEW c, NEW h, NEW p \in Nat, p + 1 <= ctx,
         RawAt(backend, ctx, c, h, p + 1, TRUE)
  PROVE  \A q \in VisibleFrom(p) .. p : RawRow(c, q, p, RawSpan(p, 1)) = At(h, q)
<1>0. /\ RawCap = Cap(backend, ctx) /\ RawCap \in Nat \ {0} /\ Window \in Nat \ {0} /\ RawCap >= Window
  BY RawCapIs, CapFacts
<1>1. VisibleFrom(p) = From(p + 1) /\ From(p + 1) \in 0 .. p
  BY <1>0 DEF VisibleFrom, From
<1>2. RawSpan(p, 1) = p + 1 - From(p + 1)
  BY <1>0 DEF RawSpan, Lesser, From
<1>3. ASSUME NEW q \in From(p + 1) .. p PROVE RawRow(c, q, p, RawSpan(p, 1)) = At(h, q)
  <2>1. q \in From(p + 1) .. (p + 1) - 1
    BY <1>1
  <2>2. CASE backend = "graph"
    <3>1. RawSpan(p, 1) \in 1 .. p + 1 /\ q \in p + 1 - RawSpan(p, 1) .. p
      BY <1>1, <1>2
    <3>2. RawRow(c, q, p, RawSpan(p, 1)) = c.raw[q % RawCap]
      BY <2>2, <3>1, GraphRow
    <3>3. c.raw[q % Cap(backend, ctx)] = At(h, q)
      BY <2>1, <2>2 DEF RawAt
    <3> QED BY <1>0, <3>2, <3>3
  <2>3. CASE backend = "cpu"
    <3>1. c.n_raw = Lesser(Window, p + 1) /\ c.raw[q - From(p + 1)] = At(h, q)
      BY <2>1, <2>3 DEF RawAt
    <3>2. c.n_raw = p + 1 - From(p + 1)
      BY <1>0, <3>1 DEF Lesser, From
    <3>3. ~ (p - q >= c.n_raw) /\ c.n_raw - 1 - (p - q) = q - From(p + 1)
      BY <1>1, <2>1, <3>2
    <3> QED BY <2>3, <3>1, <3>3 DEF RawRow
  <2> QED BY <2>2, <2>3
<1> QED BY <1>1, <1>3

(* Every position of a batch sees the rows of its window. *)
LEMMA SeesBatch ==
  ASSUME backend = "graph", ctx \in Ctxs, NEW c, NEW h, NEW pos0 \in Nat, NEW n \in 1 .. Chunk,
         pos0 + n <= ctx, RingHolds(c, h, From(pos0), pos0 + n),
         NEW p \in pos0 .. pos0 + n - 1
  PROVE  SeesRaw(c, h, p, pos0, n)
<1> DEFINE last == pos0 + n - 1
           span == RawSpan(pos0, n)
<1>0. /\ RawCap = Cap(backend, ctx) /\ RawCap \in Nat \ {0} /\ Window \in Nat \ {0} /\ Chunk \in Nat \ {0}
      /\ RawCap >= Window /\ (RawCap >= Window + Chunk \/ RawCap >= ctx) /\ ctx \in Nat
  BY RawCapIs, CapFacts
<1>1. span \in 1 .. last + 1 /\ last + 1 - span <= VisibleFrom(p) /\ last \in Nat
  <2>1. RawCap >= Window + n \/ RawCap >= pos0 + n
    BY <1>0
  <2>2. RawSpan(pos0, n) = Lesser(RawCap, Lesser(pos0 + n, n + IF n = 1 THEN Window - 1 ELSE Window))
    BY DEF RawSpan
  <2>3. VisibleFrom(p) \in Nat /\ (VisibleFrom(p) = 0 => p + 1 <= Window)
        /\ (VisibleFrom(p) # 0 => VisibleFrom(p) = p + 1 - Window)
    BY <1>0 DEF VisibleFrom
  <2>4. CASE n = 1
    BY <1>0, <2>1, <2>2, <2>3, <2>4 DEF Lesser
  <2>5. CASE n # 1
    BY <1>0, <2>1, <2>2, <2>3, <2>5 DEF Lesser
  <2> QED BY <2>4, <2>5
<1> HIDE DEF span
<1>2. ASSUME NEW q \in VisibleFrom(p) .. p PROVE RawRow(c, q, last, span) = At(h, q)
  <2>1. VisibleFrom(p) \in Nat /\ VisibleFrom(p) >= From(pos0) /\ From(pos0) \in Nat
    BY <1>0 DEF VisibleFrom, From
  <2>2. q \in last + 1 - span .. last /\ q \in From(pos0) .. (pos0 + n) - 1
    BY <1>1, <2>1
  <2>3. RawRow(c, q, last, span) = c.raw[q % RawCap]
    BY <1>1, <2>2, GraphRow
  <2>4. c.raw[q % Cap(backend, ctx)] = At(h, q)
    BY <2>2 DEF RingHolds
  <2> QED BY <1>0, <2>3, <2>4
<1> QED BY <1>2 DEF SeesRaw, span

(* Every position sees the compressed rows of the windows before it. *)
LEMMA SeesRows ==
  ASSUME NEW x, NEW c, NEW h, NEW m \in Nat, NEW p \in Nat, p + 1 <= m,
         \A k \in Kinds : LaneAt(x, Lane(c, k), k, h, m, TRUE)
  PROVE  SeesCompressed(c, h, p)
<1>1. ASSUME NEW k \in Kinds
      PROVE  /\ c.n_comp[k] >= (p + 1) \div Ratio(k)
             /\ \A i \in 0 .. (p + 1) \div Ratio(k) - 1 : c.comp[k][i] = At(h, (i + 1) * Ratio(k) - 1)
  <2>1. Ratio(k) \in Nat \ {0}
    BY KindFacts
  <2>2. (p + 1) \div Ratio(k) <= m \div Ratio(k)
    BY <2>1, DivMonotone
  <2>3. /\ Lane(c, k).n = m \div Ratio(k)
        /\ \A i \in 0 .. (m \div Ratio(k)) - 1 : Lane(c, k).comp[i] = At(h, (i + 1) * Ratio(k) - 1)
    BY DEF LaneAt
  <2>4. (p + 1) \div Ratio(k) \in Nat /\ m \div Ratio(k) \in Nat
    BY WholeFacts
  <2>5. c.n_comp[k] = m \div Ratio(k)
    BY <2>3 DEF Lane
  <2>6. ASSUME NEW i \in 0 .. (p + 1) \div Ratio(k) - 1
        PROVE  c.comp[k][i] = At(h, (i + 1) * Ratio(k) - 1)
    <3>1. i \in 0 .. (m \div Ratio(k)) - 1
      BY <2>2, <2>4
    <3> QED BY <2>3, <3>1 DEF Lane
  <2> QED BY <2>2, <2>5, <2>6
<1> QED BY <1>1 DEF SeesCompressed

-----------------------------------------------------------------------------
(* Forward passes. *)

(* A cache that stands for a history stands for it in its counters alone. *)
LEMMA SoundWeakens ==
  ASSUME NEW b, NEW x, NEW c, NEW h, NEW p, NEW ok \in BOOLEAN, Sound(b, x, c, h, p, ok)
  PROVE  Sound(b, x, c, h, p, FALSE)
BY DEF Sound, RawAt, LaneAt

(* One token decoded: the cache stands for one token more, and a right cache
   gives right logits. *)
LEMMA DecodeStands ==
  ASSUME backend \in {"cpu", "graph"}, ctx \in Ctxs, NEW h \in Seq(Token),
         Len(h) \in 1 .. ctx, NEW ok \in BOOLEAN, NEW c,
         Sound(backend, ctx, c, h, Len(h) - 1, ok)
  PROVE  Stands(backend, ctx, Decode(c, h), h, ok)
<1> DEFINE p == Len(h) - 1
           right == AfterOne(c, p, h)
           wrong == AfterOne(c, p, Stale)
           good == /\ SeesRaw(right, h, p, p, 1) /\ SeesCompressed(right, h, p)
                   /\ \A k \in Kinds : right.n_comp[k] = Len(h) \div Ratio(k)
<1>0. p \in 0 .. Len(h) - 1 /\ Len(h) \in Nat /\ p + 1 = Len(h) /\ Len(h) <= ctx /\ p \in Nat
      /\ p + 1 <= ctx
  BY LenProperties
<1>1. Decode(c, h) = IF good THEN [c |-> right, out |-> h] ELSE [c |-> wrong, out |-> Stale]
  BY DEF Decode, AfterOne
<1>2. h \in Hist /\ Stale \in Hist /\ At(h, p) = h
  BY <1>0, AtLast DEF Hist
<1> HIDE DEF p
<1>3. Sound(backend, ctx, right, h, Len(h), ok)
  <2>1. Sound(backend, ctx, AfterOne(c, p, h), h, p + 1, ok)
    BY <1>0, <1>2, OneToken DEF p
  <2> QED BY <1>0, <2>1
<1>4. Sound(backend, ctx, wrong, h, Len(h), FALSE)
  <2>1. Sound(backend, ctx, c, h, p, FALSE)
    BY SoundWeakens DEF p
  <2>2. Sound(backend, ctx, AfterOne(c, p, Stale), h, p + 1, FALSE)
    BY <1>0, <1>2, <2>1, OneToken
  <2> QED BY <1>0, <2>2
<1> HIDE DEF right, wrong
<1>5. ASSUME ok PROVE good
  <2>1. RawAt(backend, ctx, right, h, p + 1, TRUE) /\ \A k \in Kinds : LaneAt(ctx, Lane(right, k), k, h, p + 1, TRUE)
    BY <1>0, <1>3, <1>5 DEF Sound
  <2>2. SeesRaw(right, h, p, p, 1)
    <3>1. \A q \in VisibleFrom(p) .. p : RawRow(right, q, p, RawSpan(p, 1)) = At(h, q)
      BY <1>0, <2>1, SeesOne
    <3>2. p + 1 - 1 = p
      BY <1>0
    <3> QED BY <3>1, <3>2 DEF SeesRaw
  <2>3. SeesCompressed(right, h, p)
    <3>1. \A k \in Kinds : LaneAt(ctx, Lane(right, k), k, h, Len(h), TRUE)
      BY <1>3, <1>5 DEF Sound
    <3>2. p \in Nat /\ p + 1 <= Len(h) /\ Len(h) \in Nat
      BY <1>0
    <3> QED BY <3>1, <3>2, SeesRows
  <2>4. \A k \in Kinds : right.n_comp[k] = Len(h) \div Ratio(k)
    BY <1>0, <2>1 DEF LaneAt, Lane
  <2> QED BY <2>2, <2>3, <2>4
<1> HIDE DEF good
<1>6. CASE good
  <2>1. Decode(c, h).c = right /\ Decode(c, h).out = h
    BY <1>1, <1>6
  <2> QED BY <1>2, <1>3, <2>1 DEF Stands
<1>7. CASE ~ good
  <2>1. Decode(c, h).c = wrong /\ Decode(c, h).out = Stale /\ ok = FALSE
    BY <1>1, <1>5, <1>7
  <2> QED BY <1>2, <1>4, <2>1 DEF Stands
<1> QED BY <1>6, <1>7


AfterBatch(c, pos0, xs) ==
  WithLanes(PushRaws(c, pos0, xs), [k \in Kinds |-> CompressorBatch(k, Lane(c, k), pos0, xs)])

(* The tokens of a batch take a cache from pos0 to the end of h. *)
LEMMA OneBatch ==
  ASSUME backend = "graph", ctx \in Ctxs, NEW c \in Caches(backend, ctx), NEW h \in Seq(Token),
         Len(h) <= ctx, NEW pos0 \in Nat, NEW xs \in Seq(Hist), Len(xs) \in 1 .. Chunk,
         pos0 + Len(xs) = Len(h), NEW ok \in BOOLEAN,
         ok => \A t \in 1 .. Len(xs) : xs[t] = At(h, pos0 + t - 1),
         pos0 # 0 => Sound(backend, ctx, c, h, pos0, ok),
         pos0 = 0 => Len(xs) >= FineRatio /\ (ok => Len(xs) % FineRatio = 0)
  PROVE  /\ Sound(backend, ctx, AfterBatch(c, pos0, xs), h, Len(h), ok)
         /\ ok => RingHolds(AfterBatch(c, pos0, xs), h, From(pos0), Len(h))
<1> DEFINE lane == [k \in Kinds |-> CompressorBatch(k, Lane(c, k), pos0, xs)]
           d == PushRaws(c, pos0, xs)
           lo == From(pos0)
           new == WithLanes(d, lane)
<1>0. /\ Len(h) \in Nat /\ Len(xs) \in Nat /\ ctx \in Nat
      /\ \A k \in Kinds : Lane(c, k) \in Lanes(ctx, k)
  BY LenProperties, CapFacts, CacheFacts
<1>1. lo \in Nat /\ lo <= pos0 /\ pos0 + Len(xs) - lo <= RawCap
  BY <1>0, RingRoom
<1>2. ok => RingHolds(c, h, lo, pos0)
  <2>1. CASE pos0 = 0
    <3>1. lo .. pos0 - 1 = {}
      BY <1>1, <2>1
    <3> QED BY <3>1 DEF RingHolds
  <2>2. CASE pos0 # 0
    BY <2>2 DEF Sound, RawAt, RingHolds
  <2> QED BY <2>1, <2>2
<1> HIDE DEF lo
<1>3. /\ d \in Caches(backend, ctx)
      /\ ok => RingHolds(d, h, lo, Len(h))
  BY <1>1, <1>2, RingBatch
<1>4. \A k \in Kinds : LaneAt(ctx, lane[k], k, h, Len(h), ok)
  <2>1. ASSUME NEW k \in Kinds PROVE LaneAt(ctx, lane[k], k, h, Len(h), ok)
    <3>1. pos0 # 0 => LaneAt(ctx, Lane(c, k), k, h, pos0, ok)
      BY DEF Sound
    <3>2. LaneAt(ctx, CompressorBatch(k, Lane(c, k), pos0, xs), k, h, pos0 + Len(xs), ok)
      BY <1>0, <3>1, BatchLane
    <3> QED BY <3>2
  <2> QED BY <2>1
<1> HIDE DEF d, lane
<1>5. \A k \in Kinds : lane[k] \in Lanes(ctx, k)
  BY <1>4 DEF LaneAt
<1>6. /\ new \in Caches(backend, ctx)
      /\ new.raw = d.raw
      /\ \A k \in Kinds : Lane(new, k) = lane[k]
  BY <1>3, <1>5, WithLanesIs
<1> HIDE DEF new
<1>7. ok => RingHolds(new, h, lo, Len(h))
  BY <1>3, <1>6 DEF RingHolds
<1>8. RawAt(backend, ctx, new, h, Len(h), ok)
  <2>1. lo <= From(Len(h)) /\ From(Len(h)) \in Nat
    BY <1>0, CapFacts DEF From, lo
  <2>2. ASSUME ok, NEW q \in From(Len(h)) .. Len(h) - 1 PROVE new.raw[q % Cap(backend, ctx)] = At(h, q)
    <3>1. q \in lo .. Len(h) - 1
      BY <1>1, <2>1
    <3> QED BY <1>7, <2>2, <3>1 DEF RingHolds
  <2> QED BY <2>2 DEF RawAt
<1>9. Sound(backend, ctx, new, h, Len(h), ok)
  BY <1>4, <1>6, <1>8 DEF Sound
<1> QED BY <1>7, <1>9 DEF AfterBatch, d, lane, lo, new

(* A batch: the cache stands for the whole history, and a right cache gives
   right logits.  A first batch needs the window the ratio-4 refresh copies,
   and whole windows. *)
LEMMA BatchStands ==
  ASSUME backend = "graph", ctx \in Ctxs, NEW c \in Caches(backend, ctx), NEW h \in Seq(Token),
         Len(h) <= ctx, NEW pos0 \in Nat, Len(h) - pos0 \in 1 .. Chunk, NEW ok \in BOOLEAN,
         pos0 # 0 => Sound(backend, ctx, c, h, pos0, ok),
         pos0 = 0 => Len(h) >= FineRatio /\ (ok => Len(h) % FineRatio = 0)
  PROVE  Stands(backend, ctx, Batch(c, h, pos0), h, ok)
<1> DEFINE n == Len(h) - pos0
           xs == [t \in 1 .. n |-> At(h, pos0 + t - 1)]
           ys == [t \in 1 .. n |-> Stale]
           right == AfterBatch(c, pos0, xs)
           wrong == AfterBatch(c, pos0, ys)
           good == \A p \in pos0 .. Len(h) - 1 :
                     /\ pos0 = 0 \/ SeesRaw(right, h, p, pos0, n)
                     /\ SeesCompressed(right, h, p)
<1>0. n \in 1 .. Chunk /\ n \in Nat /\ Len(h) \in Nat /\ pos0 + n = Len(h) /\ (pos0 = 0 => n = Len(h))
  BY LenProperties, CapFacts
<1>1. Batch(c, h, pos0) = IF good THEN [c |-> right, out |-> h] ELSE [c |-> wrong, out |-> Stale]
  BY DEF Batch, AfterBatch
<1>2. xs \in Seq(Hist) /\ Len(xs) = n /\ ys \in Seq(Hist) /\ Len(ys) = n
  <2> HIDE DEF n
  <2>1. ASSUME NEW t \in 1 .. n PROVE At(h, pos0 + t - 1) \in Hist
    <3>1. pos0 + t - 1 \in 0 .. Len(h) - 1
      BY <1>0
    <3> QED BY <3>1, AtFacts
  <2>2. Stale \in Hist
    BY DEF Hist
  <2>3. xs \in [1 .. n -> Hist] /\ ys \in [1 .. n -> Hist]
    BY <2>1, <2>2
  <2> HIDE DEF xs, ys
  <2> QED BY <1>0, <2>3, FunctionIsSeq
<1>3. \A t \in 1 .. Len(xs) : xs[t] = At(h, pos0 + t - 1)
  BY <1>2
<1> HIDE DEF xs, ys, n
<1>4. /\ Sound(backend, ctx, right, h, Len(h), ok)
      /\ ok => RingHolds(right, h, From(pos0), Len(h))
  BY <1>0, <1>2, <1>3, OneBatch
<1>5. Sound(backend, ctx, wrong, h, Len(h), FALSE)
  <2>1. pos0 # 0 => Sound(backend, ctx, c, h, pos0, FALSE)
    BY SoundWeakens
  <2> QED BY <1>0, <1>2, <2>1, OneBatch
<1> HIDE DEF right, wrong
<1>6. ASSUME ok PROVE good
  <2>1. \A k \in Kinds : LaneAt(ctx, Lane(right, k), k, h, Len(h), TRUE)
    BY <1>4, <1>6 DEF Sound
  <2>2. ASSUME NEW p \in pos0 .. Len(h) - 1
        PROVE  SeesRaw(right, h, p, pos0, n) /\ SeesCompressed(right, h, p)
    <3>1. p \in Nat /\ p + 1 <= Len(h) /\ p \in pos0 .. pos0 + n - 1 /\ pos0 + n <= ctx
      BY <1>0
    <3>2. RingHolds(right, h, From(pos0), pos0 + n)
      BY <1>0, <1>4, <1>6
    <3>3. SeesRaw(right, h, p, pos0, n)
      BY <1>0, <3>1, <3>2, SeesBatch
    <3> QED BY <1>0, <2>1, <3>1, <3>3, SeesRows
  <2> QED BY <2>2
<1> HIDE DEF good
<1>7. h \in Hist /\ Stale \in Hist
  BY DEF Hist
<1>8. CASE good
  <2>1. Batch(c, h, pos0).c = right /\ Batch(c, h, pos0).out = h
    BY <1>1, <1>8
  <2> QED BY <1>4, <1>7, <2>1 DEF Stands
<1>9. CASE ~ good
  <2>1. Batch(c, h, pos0).c = wrong /\ Batch(c, h, pos0).out = Stale /\ ok = FALSE
    BY <1>1, <1>6, <1>9
  <2> QED BY <1>5, <1>7, <2>1 DEF Stands
<1> QED BY <1>8, <1>9


(* What a cache stands for depends on the positions it stands for alone. *)
LEMMA SoundPrefix ==
  ASSUME NEW b \in {"cpu", "graph"}, NEW x \in Ctxs, NEW c, NEW g \in Seq(Token), NEW h \in Seq(Token), NEW p \in Nat,
         p <= Len(g), p <= Len(h), \A q \in 0 .. p - 1 : At(g, q) = At(h, q),
         NEW ok \in BOOLEAN, Sound(b, x, c, g, p, ok)
  PROVE  Sound(b, x, c, h, p, ok)
<1>1. RawAt(b, x, c, h, p, ok)
  <2>1. /\ b = "cpu" => c.n_raw = Lesser(Window, p)
        /\ ok => \A q \in From(p) .. p - 1 :
                   c.raw[IF b = "cpu" THEN q - From(p) ELSE q % Cap(b, x)] = At(g, q)
    BY DEF Sound, RawAt
  <2>2. From(p) \in Nat
    BY CapFacts DEF From
  <2>3. ASSUME ok, NEW q \in From(p) .. p - 1
        PROVE  c.raw[IF b = "cpu" THEN q - From(p) ELSE q % Cap(b, x)] = At(h, q)
    <3>1. q \in 0 .. p - 1
      BY <2>2
    <3> QED BY <2>1, <2>3, <3>1
  <2> QED BY <2>1, <2>3 DEF RawAt
<1>2. ASSUME NEW k \in Kinds PROVE LaneAt(x, Lane(c, k), k, h, p, ok)
  <2> DEFINE lane == Lane(c, k)
             R == Ratio(k)
             H == Half(k)
             W == Whole(k, p)
             m == p \div R
             s == p % R
  <2>0. R \in Nat \ {0} /\ H \in Nat /\ m \in Nat /\ s \in 0 .. R - 1 /\ W \in Nat /\ p = W + s /\ W = m * R
    BY KindFacts, WholeFacts
  <2>1. LaneAt(x, lane, k, g, p, ok)
    BY DEF Sound
  <2>2. ok => /\ \A i \in 0 .. m - 1 : lane.comp[i] = At(g, (i + 1) * R - 1)
              /\ \A r \in 0 .. H + s - 1 : lane.win[r] = Place(g, W - H + r)
    BY <2>1 DEF LaneAt
  <2> HIDE DEF lane, R, H, W, m, s
  <2>3. ASSUME ok, NEW i \in 0 .. m - 1 PROVE lane.comp[i] = At(h, (i + 1) * R - 1)
    <3>1. i + 1 \in Nat /\ i + 1 <= m /\ 1 <= i + 1
      BY <2>0
    <3>2. (i + 1) * R <= m * R /\ (i + 1) * R \in Nat
      BY <2>0, <3>1, TimesMonotone
    <3>3. 1 * R <= (i + 1) * R
      BY <2>0, <3>1, TimesMonotone
    <3>4. (i + 1) * R - 1 \in 0 .. p - 1
      BY <2>0, <3>2, <3>3
    <3> QED BY <2>2, <2>3, <3>4
  <2>4. ASSUME ok, NEW r \in 0 .. H + s - 1 PROVE lane.win[r] = Place(h, W - H + r)
    <3>1. lane.win[r] = Place(g, W - H + r)
      BY <2>2, <2>4
    <3>2. CASE W - H + r < 0
      BY <3>1, <3>2 DEF Place
    <3>3. CASE ~ (W - H + r < 0)
      <4>1. W - H + r \in 0 .. p - 1
        BY <2>0, <3>3
      <4> QED BY <3>1, <3>3, <4>1 DEF Place
    <3> QED BY <3>2, <3>3
  <2>5. lane \in Lanes(x, k) /\ lane.n = m
    BY <2>1 DEF LaneAt, m, R
  <2>6. LaneAt(x, lane, k, h, p, ok)
    BY <2>3, <2>4, <2>5 DEF LaneAt, R, H, W, m, s
  <2> QED BY <2>6 DEF lane
<1> QED BY <1>1, <1>2 DEF Sound

(* A cache stands for a prefix by itself as it does for the prefix of more. *)
LEMMA SoundOfPrefix ==
  ASSUME NEW b \in {"cpu", "graph"}, NEW x \in Ctxs, NEW c, NEW h \in Seq(Token), NEW m \in 0 .. Len(h), NEW ok \in BOOLEAN
  PROVE  Sound(b, x, c, SubSeq(h, 1, m), m, ok) <=> Sound(b, x, c, h, m, ok)
<1> DEFINE g == SubSeq(h, 1, m)
<1>0. m \in Nat /\ Len(h) \in Nat /\ g \in Seq(Token) /\ Len(g) = m
  BY LenProperties, PrefixOfPrefix
<1>1. ASSUME NEW q \in 0 .. m - 1 PROVE At(g, q) = At(h, q)
  <2>1. q + 1 \in 0 .. m
    BY <1>0
  <2>2. SubSeq(SubSeq(h, 1, m), 1, q + 1) = SubSeq(h, 1, q + 1)
    BY <2>1, PrefixOfPrefix
  <2> QED BY <2>2 DEF At
<1> HIDE DEF g
<1>2. Sound(b, x, c, g, m, ok) => Sound(b, x, c, h, m, ok)
  BY <1>0, <1>1, SoundPrefix
<1>3. Sound(b, x, c, h, m, ok) => Sound(b, x, c, g, m, ok)
  BY <1>0, <1>1, SoundPrefix
<1> QED BY <1>2, <1>3 DEF g

(* A cache that was just allocated stands for no token. *)
LEMMA EmptyCacheStands ==
  ASSUME NEW b \in {"cpu", "graph"}, NEW x \in Ctxs, NEW h
  PROVE  /\ EmptyCache(b, x) \in Caches(b, x)
         /\ Sound(b, x, EmptyCache(b, x), h, 0, TRUE)
<1> DEFINE c == EmptyCache(b, x)
           raw == [i \in 0 .. Cap(b, x) - 1 |-> <<>>]
           comp == [k \in Kinds |-> [i \in 0 .. CompCap(x, k) - 1 |-> <<>>]]
           num == [k \in Kinds |-> 0]
           win == [k \in Kinds |-> [r \in 0 .. Rows(k) - 1 |-> <<>>]]
<1>1. c = [raw |-> raw, n_raw |-> 0, comp |-> comp, n_comp |-> num, win |-> win]
  BY DEF EmptyCache, AllocatedCache, Cap
<1>2. raw \in [0 .. Cap(b, x) - 1 -> Hist]
  BY EmptySeq DEF Hist
<1>3. ASSUME NEW k \in Kinds
      PROVE  [win |-> win[k], comp |-> comp[k], n |-> num[k]] \in Lanes(x, k)
  <2>1. <<>> \in Hist
    BY EmptySeq DEF Hist
  <2>2. win[k] \in [0 .. Rows(k) - 1 -> Hist] /\ comp[k] \in [0 .. CompCap(x, k) - 1 -> Hist] /\ num[k] \in Nat
    BY <2>1
  <2> HIDE DEF win, comp, num
  <2> QED BY <2>2 DEF Lanes
<1>4. comp = [k \in Kinds |-> comp[k]] /\ num = [k \in Kinds |-> num[k]] /\ win = [k \in Kinds |-> win[k]]
  OBVIOUS
<1>5. c \in Caches(b, x)
  <2> HIDE DEF raw, comp, num, win, c
  <2> QED BY <1>1, <1>2, <1>3, <1>4, CacheIs
<1>6. RawAt(b, x, c, h, 0, TRUE)
  <2>1. c.n_raw = 0
    BY <1>1
  <2>2. Lesser(Window, 0) = 0 /\ From(0) = 0
    BY CapFacts DEF Lesser, From
  <2>3. From(0) .. 0 - 1 = {}
    BY <2>2
  <2> HIDE DEF c
  <2> QED BY <2>1, <2>2, <2>3 DEF RawAt
<1>7. ASSUME NEW k \in Kinds PROVE LaneAt(x, Lane(c, k), k, h, 0, TRUE)
  <2>0. Ratio(k) \in Nat \ {0} /\ Half(k) \in {0, Ratio(k)} /\ Rows(k) = Half(k) + Ratio(k)
    BY KindFacts
  <2>1. 0 \div Ratio(k) = 0 /\ 0 % Ratio(k) = 0 /\ Whole(k, 0) = 0
    <3>1. 0 = 0 * Ratio(k) + 0 /\ 0 \in 0 .. Ratio(k) - 1
      BY <2>0
    <3>2. 0 \div Ratio(k) = 0 /\ 0 % Ratio(k) = 0
      BY <2>0, <3>1, DivModIs
    <3> QED BY <2>0, <3>2 DEF Whole
  <2>2. Lane(c, k) = [win |-> win[k], comp |-> comp[k], n |-> num[k]]
    BY <1>1 DEF Lane
  <2>3. Lane(c, k) \in Lanes(x, k)
    BY <1>3, <2>2
  <2>4. Lane(c, k).n = 0 /\ \A r \in 0 .. Rows(k) - 1 : Lane(c, k).win[r] = <<>>
    BY <2>2
  <2>5. ASSUME NEW r \in 0 .. Half(k) + (0 % Ratio(k)) - 1
        PROVE  Lane(c, k).win[r] = Place(h, Whole(k, 0) - Half(k) + r)
    <3>1. Whole(k, 0) - Half(k) + r < 0 /\ r \in 0 .. Rows(k) - 1
      BY <2>0, <2>1
    <3> QED BY <2>4, <3>1 DEF Place
  <2>6. 0 .. (0 \div Ratio(k)) - 1 = {}
    BY <2>1
  <2> QED BY <2>1, <2>3, <2>4, <2>5, <2>6 DEF LaneAt
<1> HIDE DEF c
<1>8. Sound(b, x, c, h, 0, TRUE)
  BY <1>5, <1>6, <1>7 DEF Sound
<1> QED BY <1>5, <1>8 DEF c


(* Whatever a decode starts from, it leaves a cache. *)
LEMMA DecodeTyped ==
  ASSUME backend \in {"cpu", "graph"}, ctx \in Ctxs, NEW c \in Caches(backend, ctx),
         NEW g \in Seq(Token), Len(g) > 0
  PROVE  Decode(c, g) \in [c : Caches(backend, ctx), out : Hist]
<1> DEFINE p == Len(g) - 1
           good == /\ SeesRaw(AfterOne(c, p, g), g, p, p, 1) /\ SeesCompressed(AfterOne(c, p, g), g, p)
                   /\ \A k \in Kinds : AfterOne(c, p, g).n_comp[k] = Len(g) \div Ratio(k)
<1>0. p \in Nat /\ g \in Hist /\ Stale \in Hist /\ ctx \in Nat
  BY LenProperties, CapFacts DEF Hist
<1>1. Decode(c, g) = IF good THEN [c |-> AfterOne(c, p, g), out |-> g]
                     ELSE [c |-> AfterOne(c, p, Stale), out |-> Stale]
  BY DEF Decode, AfterOne
<1> HIDE DEF p, good
<1>2. ASSUME NEW e \in Hist PROVE AfterOne(c, p, e) \in Caches(backend, ctx)
  <2> DEFINE lane == [k \in Kinds |-> CompressorUpdate(k, Lane(c, k), p, e)]
  <2>1. PushRaw(c, p, e) \in Caches(backend, ctx)
    BY <1>0, PushRawIs
  <2>2. \A k \in Kinds : lane[k] \in Lanes(ctx, k)
    <3>1. ASSUME NEW k \in Kinds PROVE CompressorUpdate(k, Lane(c, k), p, e) \in Lanes(ctx, k)
      <4>1. Lane(c, k) \in Lanes(ctx, k)
        BY CacheFacts
      <4> QED BY <1>0, <4>1, UpdateTyped
    <3> QED BY <3>1
  <2> HIDE DEF lane
  <2>3. WithLanes(PushRaw(c, p, e), lane) \in Caches(backend, ctx)
    BY <2>1, <2>2, WithLanesIs
  <2> QED BY <2>3 DEF AfterOne, lane
<1>3. AfterOne(c, p, g) \in Caches(backend, ctx) /\ AfterOne(c, p, Stale) \in Caches(backend, ctx)
  BY <1>0, <1>2
<1>4. CASE good
  BY <1>0, <1>1, <1>3, <1>4
<1>5. CASE ~ good
  BY <1>0, <1>1, <1>3, <1>5
<1> QED BY <1>4, <1>5

(* A cache made of new fields. *)
LEMMA CacheMade ==
  ASSUME NEW b, NEW x, NEW raw \in [0 .. Cap(b, x) - 1 -> Hist], NEW n_raw \in Nat,
         NEW comp, OnKinds(comp), NEW num, OnKinds(num), NEW win, OnKinds(win),
         \A k \in Kinds : /\ win[k] \in [0 .. Rows(k) - 1 -> Hist] /\ num[k] \in Nat
                          /\ comp[k] \in [0 .. CompCap(x, k) - 1 -> Hist],
         NEW d, d = [raw |-> raw, n_raw |-> n_raw, comp |-> comp, n_comp |-> num, win |-> win]
  PROVE  /\ d \in Caches(b, x) /\ d.raw = raw /\ d.n_raw = n_raw
         /\ \A k \in Kinds : /\ Lane(d, k) \in Lanes(x, k)
                             /\ Lane(d, k).win = win[k] /\ Lane(d, k).comp = comp[k] /\ Lane(d, k).n = num[k]
<1>1. \A k \in Kinds : [win |-> win[k], comp |-> comp[k], n |-> num[k]] \in Lanes(x, k)
  BY DEF Lanes
<1>2. d \in Caches(b, x)
  BY <1>1, CacheIs DEF OnKinds
<1>3. d.raw = raw /\ d.n_raw = n_raw /\ d.comp = comp /\ d.n_comp = num /\ d.win = win
  OBVIOUS
<1>4. \A k \in Kinds : Lane(d, k) = [win |-> win[k], comp |-> comp[k], n |-> num[k]]
  BY <1>3 DEF Lane
<1>5. \A k \in Kinds : Lane(d, k).win = win[k] /\ Lane(d, k).comp = comp[k] /\ Lane(d, k).n = num[k]
  BY <1>3, LaneFacts
<1> QED BY <1>1, <1>2, <1>3, <1>4, <1>5

(* What the fields of a cache hold. *)
LEMMA FieldFacts ==
  ASSUME NEW b, NEW x, NEW c \in Caches(b, x)
  PROVE  /\ c.raw \in [0 .. Cap(b, x) - 1 -> Hist] /\ c.n_raw \in Nat
         /\ \A k \in Kinds : /\ c.win[k] \in [0 .. Rows(k) - 1 -> Hist] /\ c.n_comp[k] \in Nat
                             /\ c.comp[k] \in [0 .. CompCap(x, k) - 1 -> Hist]
         /\ OnKinds(c.comp) /\ OnKinds(c.n_comp) /\ OnKinds(c.win)
<1>1. ASSUME NEW k \in Kinds
      PROVE  /\ c.win[k] \in [0 .. Rows(k) - 1 -> Hist] /\ c.n_comp[k] \in Nat
             /\ c.comp[k] \in [0 .. CompCap(x, k) - 1 -> Hist]
  <2>1. Lane(c, k) \in Lanes(x, k)
    BY CacheFacts
  <2> QED BY <2>1 DEF Lane, Lanes
<1>2. c.raw \in [0 .. Cap(b, x) - 1 -> Hist] /\ c.n_raw \in Nat
  BY CacheFacts
<1>3. OnKinds(c.comp) /\ OnKinds(c.n_comp) /\ OnKinds(c.win)
  BY DEF Caches, OnKinds
<1> QED BY <1>1, <1>2, <1>3

\* Other compressor states, and perhaps other counts, in the same cache.
Rewound(d, c, win, num) ==
  \/ d = [c EXCEPT !.win = win, !.n_comp = num]
  \/ d = [c EXCEPT !.win = win] /\ num = c.n_comp

(* It is a cache, with these lanes and the same raw rows. *)
LEMMA WithWinIs ==
  ASSUME NEW b, NEW x, NEW c \in Caches(b, x), NEW win, OnKinds(win), NEW num, OnKinds(num),
         \A k \in Kinds : win[k] \in [0 .. Rows(k) - 1 -> Hist] /\ num[k] \in Nat,
         NEW d, Rewound(d, c, win, num)
  PROVE  /\ d \in Caches(b, x) /\ d.raw = c.raw /\ d.n_raw = c.n_raw
         /\ \A k \in Kinds : /\ Lane(d, k) \in Lanes(x, k)
                             /\ Lane(d, k).win = win[k] /\ Lane(d, k).comp = c.comp[k] /\ Lane(d, k).n = num[k]
<1>1. Recorded(c)
  BY CacheFacts
<1> DEFINE raw == c.raw
           n_raw == c.n_raw
           comp == c.comp
<1>2. d = [raw |-> raw, n_raw |-> n_raw, comp |-> comp, n_comp |-> num, win |-> win]
  <2>1. CASE d = [c EXCEPT !.win = win, !.n_comp = num]
    BY <1>1, <2>1 DEF Recorded
  <2>2. CASE d = [c EXCEPT !.win = win] /\ num = c.n_comp
    BY <1>1, <2>2 DEF Recorded
  <2> QED BY <2>1, <2>2 DEF Rewound
<1>3. raw \in [0 .. Cap(b, x) - 1 -> Hist] /\ n_raw \in Nat
  BY FieldFacts
<1>4. \A k \in Kinds : comp[k] \in [0 .. CompCap(x, k) - 1 -> Hist]
  BY FieldFacts
<1>5. OnKinds(comp)
  BY FieldFacts
<1> HIDE DEF raw, n_raw, comp
<1>6. /\ d \in Caches(b, x) /\ d.raw = raw /\ d.n_raw = n_raw
      /\ \A k \in Kinds : /\ Lane(d, k) \in Lanes(x, k)
                          /\ Lane(d, k).win = win[k] /\ Lane(d, k).comp = comp[k] /\ Lane(d, k).n = num[k]
  BY <1>2, <1>3, <1>4, <1>5, CacheMade
<1> QED BY <1>6 DEF raw, n_raw, comp

(* The CPU prefill: every token streamed, then the unused state rows cleared. *)
LEMMA CpuPrefillStands ==
  ASSUME backend = "cpu", ctx \in Ctxs, NEW h \in Seq(Token), Len(h) \in 1 .. ctx
  PROVE  Stands(backend, ctx, CpuPrefill(h), h, TRUE)
<1> DEFINE N == Len(h)
           empty == [c |-> EmptyCache("cpu", ctx), out |-> <<>>]
           fed[n \in 0 .. Len(h)] ==
             IF n = 0 THEN [c |-> EmptyCache("cpu", ctx), out |-> <<>>]
                      ELSE Decode(fed[n - 1].c, SubSeq(h, 1, n))
           S == [c : Caches(backend, ctx), out : Hist]
           F == [a \in (1 .. N) \X S |-> Decode(a[2].c, SubSeq(h, 1, a[1]))]
           T == {n \in 0 .. N : /\ Sound(backend, ctx, fed[n].c, h, n, TRUE)
                                /\ n > 0 => fed[n].out = SubSeq(h, 1, n)}
<1>0. N \in Nat /\ N > 0 /\ N <= ctx /\ backend \in {"cpu", "graph"} /\ ctx \in Nat
  BY LenProperties, CapFacts
<1>1. ASSUME NEW n \in 1 .. N
      PROVE  SubSeq(h, 1, n) \in Seq(Token) /\ Len(SubSeq(h, 1, n)) = n
  <2>1. n \in 0 .. Len(h) /\ n \in 0 .. n
    BY <1>0
  <2> QED BY <2>1, PrefixOfPrefix
<1>2. empty \in S /\ Sound(backend, ctx, empty.c, h, 0, TRUE)
  <2>1. EmptyCache("cpu", ctx) \in Caches(backend, ctx) /\ Sound(backend, ctx, EmptyCache("cpu", ctx), h, 0, TRUE)
    BY <1>0, EmptyCacheStands
  <2>2. <<>> \in Hist
    BY EmptySeq DEF Hist
  <2> QED BY <2>1, <2>2
<1>3. F \in [(1 .. N) \X S -> S]
  <2>1. ASSUME NEW a \in (1 .. N) \X S PROVE Decode(a[2].c, SubSeq(h, 1, a[1])) \in S
    <3>1. a[1] \in 1 .. N /\ a[2].c \in Caches(backend, ctx)
      OBVIOUS
    <3>2. SubSeq(h, 1, a[1]) \in Seq(Token) /\ Len(SubSeq(h, 1, a[1])) > 0
      BY <1>0, <1>1, <3>1
    <3> QED BY <1>0, <3>1, <3>2, DecodeTyped
  <2> HIDE DEF S
  <2> QED BY <2>1
<1> HIDE DEF S
<1>4. PICK f \in [0 .. N -> S] : Iterates(f, N, empty, F)
  <2> HIDE DEF F, N, empty
  <2> QED BY <1>0, <1>2, <1>3, Iterate
<1>5. f = [n \in 0 .. N |-> IF n = 0 THEN empty ELSE Decode(f[n - 1].c, SubSeq(h, 1, n))]
  <2>1. ASSUME NEW n \in 1 .. N PROVE f[n] = Decode(f[n - 1].c, SubSeq(h, 1, n))
    <3>1. n - 1 \in 0 .. N
      BY <1>0
    <3>2. <<n, f[n - 1]>> \in (1 .. N) \X S
      BY <1>4, <3>1
    <3> QED BY <1>4, <3>2 DEF Iterates
  <2> HIDE DEF F, N, empty
  <2> QED BY <1>0, <1>4, <2>1 DEF Iterates
<1>6. fed = [n \in 0 .. N |-> IF n = 0 THEN empty ELSE Decode(fed[n - 1].c, SubSeq(h, 1, n))]
  <2>1. \E g : g = [n \in 0 .. Len(h) |-> IF n = 0 THEN [c |-> EmptyCache("cpu", ctx), out |-> <<>>]
                                                   ELSE Decode(g[n - 1].c, SubSeq(h, 1, n))]
    BY <1>5
  <2> QED BY <2>1
<1> DEFINE end == fed[Len(h)]
           live(k) == (IF Overlaps(k) THEN Ratio(k) ELSE 0) + (Len(h) % Ratio(k))
           win == [k \in Kinds |-> [r \in DOMAIN end.c.win[k] |->
                                      IF r < live(k) THEN end.c.win[k][r] ELSE <<>>]]
<1>7. CpuPrefill(h) = [end EXCEPT !.c.win = win]
  BY DEF CpuPrefill
<1>8. fed[0] = empty /\ \A n \in 1 .. N : fed[n] = Decode(fed[n - 1].c, SubSeq(h, 1, n))
  <2> HIDE DEF fed, empty
  <2>1. fed[0] = empty
    BY <1>0, <1>6
  <2>2. ASSUME NEW n \in 1 .. N PROVE fed[n] = Decode(fed[n - 1].c, SubSeq(h, 1, n))
    <3>1. n \in 0 .. N /\ n # 0
      OBVIOUS
    <3> HIDE DEF N
    <3> QED BY <1>6, <3>1
  <2> QED BY <2>1, <2>2
<1> HIDE DEF fed, F, empty
<1>9. 0 \in T
  <2>1. fed[0].c = empty.c
    BY <1>8
  <2>2. Sound(backend, ctx, fed[0].c, h, 0, TRUE)
    BY <1>2, <2>1
  <2>3. 0 \in 0 .. N /\ ~ (0 > 0)
    BY <1>0
  <2> HIDE DEF N
  <2> QED BY <2>2, <2>3, Zenon
<1>10. ASSUME NEW n \in 0 .. N - 1, n \in T PROVE n + 1 \in T
  <2> DEFINE g == SubSeq(h, 1, n + 1)
  <2>1. /\ n + 1 \in 1 .. N /\ n + 1 \in 0 .. N /\ (n + 1) - 1 = n /\ n \in 0 .. n + 1
        /\ n \in 0 .. N /\ n + 1 \in 1 .. ctx
    BY <1>0
  <2>2. g \in Seq(Token) /\ Len(g) = n + 1 /\ SubSeq(g, 1, n) = SubSeq(h, 1, n)
    BY <2>1, PrefixOfPrefix
  <2>3. fed[n + 1] = Decode(fed[n].c, g)
    BY <1>8, <2>1
  <2> HIDE DEF g
  <2>4. Sound(backend, ctx, fed[n].c, g, n, TRUE)
    <3>1. Sound(backend, ctx, fed[n].c, h, n, TRUE)
      BY <1>10
    <3>2. Sound(backend, ctx, fed[n].c, SubSeq(h, 1, n), n, TRUE)
      BY <1>0, <2>1, <3>1, SoundOfPrefix
    <3>3. n \in 0 .. Len(g)
      BY <2>1, <2>2
    <3>4. Sound(backend, ctx, fed[n].c, SubSeq(g, 1, n), n, TRUE)
      BY <2>2, <3>2
    <3> QED BY <1>0, <2>2, <3>3, <3>4, SoundOfPrefix
  <2>5. Stands(backend, ctx, fed[n + 1], g, TRUE)
    <3>1. Len(g) \in 1 .. ctx /\ Len(g) - 1 = n
      BY <2>1, <2>2
    <3> QED BY <1>0, <2>2, <2>3, <2>4, <3>1, DecodeStands
  <2>6. Sound(backend, ctx, fed[n + 1].c, h, n + 1, TRUE)
    <3>1. Sound(backend, ctx, fed[n + 1].c, SubSeq(h, 1, n + 1), n + 1, TRUE)
      BY <2>2, <2>5 DEF Stands, g
    <3> QED BY <1>0, <2>1, <3>1, SoundOfPrefix
  <2>7. fed[n + 1].out = SubSeq(h, 1, n + 1)
    BY <2>5 DEF Stands, g
  <2> QED BY <2>1, <2>6, <2>7
<1> HIDE DEF T
<1>11. \A n \in 0 .. N : n \in T
  BY <1>0, <1>9, <1>10, InductUpTo, Zenon
<1>12. Sound(backend, ctx, end.c, h, N, TRUE) /\ end.out = h
  <2>1. N \in T
    BY <1>0, <1>11
  <2> QED BY <1>0, <2>1, SubSeqFull DEF T
<1>13. end \in S
  <2>1. fed[N] = Decode(fed[N - 1].c, SubSeq(h, 1, N)) /\ N - 1 \in T
    BY <1>0, <1>8, <1>11
  <2>2. fed[N - 1].c \in Caches(backend, ctx)
    BY <2>1 DEF T, Sound
  <2>3. SubSeq(h, 1, N) \in Seq(Token) /\ Len(SubSeq(h, 1, N)) > 0
    BY <1>0, <1>1
  <2>4. Decode(fed[N - 1].c, SubSeq(h, 1, N)) \in [c : Caches(backend, ctx), out : Hist]
    BY <1>0, <2>2, <2>3, DecodeTyped
  <2> QED BY <2>1, <2>4 DEF S
<1> HIDE DEF end, N
<1>14. end = [c |-> end.c, out |-> end.out] /\ end.c \in Caches(backend, ctx)
  BY <1>13 DEF S
<1> DEFINE d == [end.c EXCEPT !.win = win]
           num == end.c.n_comp
<1>15. CpuPrefill(h) = [c |-> d, out |-> h]
  <2>1. [end EXCEPT !.c.win = win] = [end EXCEPT !.c = d]
    OBVIOUS
  <2> HIDE DEF d
  <2> QED BY <1>7, <1>12, <1>14, <2>1
<1>16. ASSUME NEW k \in Kinds
       PROVE  /\ win[k] \in [0 .. Rows(k) - 1 -> Hist] /\ num[k] \in Nat
              /\ \A r \in 0 .. Rows(k) - 1 : r < live(k) => win[k][r] = end.c.win[k][r]
  <2>1. end.c.win[k] \in [0 .. Rows(k) - 1 -> Hist] /\ num[k] \in Nat
    BY <1>14, FieldFacts
  <2>2. <<>> \in Hist
    BY EmptySeq DEF Hist
  <2>3. win[k] = [r \in 0 .. Rows(k) - 1 |-> IF r < live(k) THEN end.c.win[k][r] ELSE <<>>]
    BY <2>1
  <2> HIDE DEF live, win
  <2> QED BY <2>1, <2>2, <2>3
<1>17. OnKinds(win) /\ OnKinds(num)
  <2>1. OnKinds(num)
    BY <1>14, FieldFacts
  <2>2. OnKinds(win)
    BY DEF OnKinds
  <2> QED BY <2>1, <2>2
<1>18. /\ d \in Caches(backend, ctx) /\ d.raw = end.c.raw /\ d.n_raw = end.c.n_raw
       /\ \A k \in Kinds : /\ Lane(d, k) \in Lanes(ctx, k)
                           /\ Lane(d, k).win = win[k] /\ Lane(d, k).comp = end.c.comp[k] /\ Lane(d, k).n = num[k]
  <2>1. Rewound(d, end.c, win, num)
    BY DEF Rewound
  <2>2. end.c \in Caches(backend, ctx) /\ \A k \in Kinds : win[k] \in [0 .. Rows(k) - 1 -> Hist] /\ num[k] \in Nat
    BY <1>14, <1>16
  <2> HIDE DEF d, win, num
  <2> QED BY <1>17, <2>1, <2>2, WithWinIs
<1>19. ASSUME NEW k \in Kinds PROVE LaneAt(ctx, Lane(d, k), k, h, N, TRUE)
  <2>1. LaneAt(ctx, Lane(end.c, k), k, h, N, TRUE)
    BY <1>12 DEF Sound
  <2>2. /\ Lane(d, k).win = win[k] /\ Lane(d, k).comp = Lane(end.c, k).comp
        /\ Lane(d, k).n = Lane(end.c, k).n /\ Lane(end.c, k).win = end.c.win[k]
        /\ Lane(d, k) \in Lanes(ctx, k)
    <3> HIDE DEF d, win
    <3> QED BY <1>18 DEF Lane
  <2>3. ASSUME NEW r \in 0 .. Half(k) + (N % Ratio(k)) - 1
        PROVE  Lane(d, k).win[r] = Lane(end.c, k).win[r]
    <3>1. live(k) = Half(k) + (N % Ratio(k))
      BY DEF Half, N
    <3>2. N % Ratio(k) \in 0 .. Ratio(k) - 1 /\ Rows(k) = Half(k) + Ratio(k) /\ Half(k) \in Nat /\ Ratio(k) \in Nat
      BY <1>0, WholeFacts, KindFacts
    <3> HIDE DEF live, d, win
    <3>3. r \in 0 .. Rows(k) - 1 /\ r < live(k)
      BY <3>1, <3>2
    <3> QED BY <1>16, <2>2, <3>3
  <2> HIDE DEF d
  <2> QED BY <2>1, <2>2, <2>3 DEF LaneAt
<1>20. RawAt(backend, ctx, d, h, N, TRUE)
  <2>1. RawAt(backend, ctx, end.c, h, N, TRUE)
    BY <1>12 DEF Sound
  <2> HIDE DEF d
  <2> QED BY <1>18, <2>1 DEF RawAt
<1> HIDE DEF d
<1>21. Sound(backend, ctx, d, h, N, TRUE)
  BY <1>18, <1>19, <1>20 DEF Sound
<1>22. h \in Hist
  BY DEF Hist
<1>23. CpuPrefill(h).c = d /\ CpuPrefill(h).out = h
  BY <1>15
<1> QED BY <1>21, <1>22, <1>23 DEF Stands, N


-----------------------------------------------------------------------------
(* Histories put together. *)

(* A history and some of the drafts after it. *)
LEMMA Joined ==
  ASSUME NEW h \in Seq(Token), NEW d \in Seq(Token), NEW n \in 0 .. Len(d)
  PROVE  /\ h \o SubSeq(d, 1, n) \in Seq(Token) /\ Len(h \o SubSeq(d, 1, n)) = Len(h) + n
         /\ SubSeq(h \o d, 1, Len(h) + n) = h \o SubSeq(d, 1, n)
         /\ h \o d \in Seq(Token) /\ Len(h \o d) = Len(h) + Len(d)
<1> DEFINE e == SubSeq(d, 1, n)
           l == Len(h)
           a == h \o d
           b == h \o e
           g == SubSeq(a, 1, l + n)
<1>0. l \in Nat /\ Len(d) \in Nat /\ n \in Nat /\ n <= Len(d)
  BY LenProperties
<1>1. e \in Seq(Token) /\ Len(e) = n /\ \A i \in 1 .. n : e[i] = d[i]
  <2>1. \A i \in 1 .. n : d[i] \in Token
    <3>1. ASSUME NEW i \in 1 .. n PROVE d[i] \in Token
      <4>1. i \in 1 .. Len(d)
        BY <1>0
      <4> QED BY <4>1, ElementOfSeq
    <3> QED BY <3>1
  <2> QED BY <1>0, <2>1, SubSeqProperties
<1> HIDE DEF e
<1>2. /\ a \in Seq(Token) /\ Len(a) = l + Len(d)
      /\ \A i \in 1 .. l + Len(d) : a[i] = IF i <= l THEN h[i] ELSE d[i - l]
  BY ConcatProperties
<1>3. /\ b \in Seq(Token) /\ Len(b) = l + n
      /\ \A i \in 1 .. l + n : b[i] = IF i <= l THEN h[i] ELSE e[i - l]
  BY <1>1, ConcatProperties
<1> HIDE DEF a, b, l
<1>4. g \in Seq(Token) /\ Len(g) = l + n /\ \A i \in 1 .. l + n : g[i] = a[i]
  <2>1. ASSUME NEW i \in 1 .. l + n PROVE a[i] \in Token
    <3>1. i \in 1 .. Len(a)
      BY <1>0, <1>2
    <3> QED BY <1>2, <3>1, ElementOfSeq
  <2> DEFINE w == l + n
  <2>2. w \in Nat /\ \A i \in 1 .. w : a[i] \in Token
    BY <1>0, <2>1
  <2> HIDE DEF w
  <2>3. /\ SubSeq(a, 1, w) \in Seq(Token) /\ Len(SubSeq(a, 1, w)) = w
        /\ \A i \in 1 .. w : SubSeq(a, 1, w)[i] = a[i]
    BY <2>2, SubSeqProperties
  <2> QED BY <2>3 DEF w
<1> HIDE DEF g
<1>5. ASSUME NEW i \in 1 .. l + n PROVE g[i] = b[i]
  <2>1. i \in 1 .. l + Len(d)
    BY <1>0
  <2>2. CASE i <= l
    BY <1>2, <1>3, <1>4, <2>1, <2>2
  <2>3. CASE ~ (i <= l)
    <3>1. i - l \in 1 .. n
      BY <1>0, <2>3
    <3> QED BY <1>1, <1>2, <1>3, <1>4, <2>1, <2>3, <3>1
  <2> QED BY <2>2, <2>3
<1>6. g = b
  BY <1>0, <1>3, <1>4, <1>5, SeqEqual
<1> QED BY <1>2, <1>3, <1>6 DEF a, b, g, e, l

(* The history itself is a prefix of both. *)
LEMMA JoinedPrefix ==
  ASSUME NEW h \in Seq(Token), NEW d \in Seq(Token)
  PROVE  SubSeq(h \o d, 1, Len(h)) = h
<1>1. 0 \in 0 .. Len(d) /\ Len(h) + 0 = Len(h)
  BY LenProperties
<1>2. SubSeq(d, 1, 0) = <<>>
  BY SubSeqEmpty
<1>3. h \o <<>> = h
  BY ConcatEmptySeq
<1> QED BY <1>1, <1>2, <1>3, Joined

(* One token after a history. *)
LEMMA Appended ==
  ASSUME NEW h \in Seq(Token), NEW t \in Token
  PROVE  /\ Append(h, t) \in Seq(Token) /\ Len(Append(h, t)) = Len(h) + 1
         /\ SubSeq(Append(h, t), 1, Len(h)) = h
<1>1. Append(h, t) \in Seq(Token) /\ Len(Append(h, t)) = Len(h) + 1
  BY AppendProperties
<1>2. <<t>> \in Seq(Token) /\ Append(h, t) = h \o <<t>>
  BY AppendIsConcat
<1>3. SubSeq(h \o <<t>>, 1, Len(h)) = h
  BY <1>2, JoinedPrefix
<1> QED BY <1>1, <1>2, <1>3

(* The first draft after a history. *)
LEMMA FirstDraft ==
  ASSUME NEW h \in Seq(Token), NEW d \in Seq(Token), Len(d) > 0
  PROVE  Append(h, d[1]) = h \o SubSeq(d, 1, 1) /\ d[1] \in Token
<1>1. Len(d) \in Nat /\ 1 \in 1 .. Len(d)
  BY LenProperties
<1>2. d[1] \in Token
  BY <1>1, ElementOfSeq
<1>3. SubSeq(d, 1, 1) = << d[1] >> \o SubSeq(d, 2, 1)
  <2>1. 1 \in 1 .. Len(d) /\ 1 + 1 = 2
    BY <1>1
  <2> QED BY <1>1, <2>1, SubSeqRecursiveFirst
<1>4. SubSeq(d, 2, 1) = <<>>
  BY SubSeqEmpty
<1>5. << d[1] >> \in Seq(Token)
  BY <1>2
<1>6. SubSeq(d, 1, 1) = << d[1] >>
  BY <1>3, <1>4, <1>5, ConcatEmptySeq
<1> QED BY <1>2, <1>6, AppendIsConcat


-----------------------------------------------------------------------------
(* Rows written ahead of the checkpoint: what speculation leaves behind. *)

(* A decode that was right keeps the rows the ring has room for. *)
LEMMA DecodeRing ==
  ASSUME backend = "graph", ctx \in Ctxs, NEW h \in Seq(Token), Len(h) \in 1 .. ctx, NEW c,
         Sound(backend, ctx, c, h, Len(h) - 1, TRUE),
         NEW lo \in Nat, lo <= Len(h) - 1, Len(h) - lo <= RawCap, RingHolds(c, h, lo, Len(h) - 1)
  PROVE  RingHolds(Decode(c, h).c, h, lo, Len(h))
<1> DEFINE p == Len(h) - 1
           right == AfterOne(c, p, h)
           lane == [k \in Kinds |-> CompressorUpdate(k, Lane(c, k), p, h)]
           d == PushRaw(c, p, h)
           good == /\ SeesRaw(right, h, p, p, 1) /\ SeesCompressed(right, h, p)
                   /\ \A k \in Kinds : right.n_comp[k] = Len(h) \div Ratio(k)
<1>0. /\ p \in Nat /\ Len(h) \in Nat /\ p + 1 = Len(h) /\ p + 1 <= ctx /\ p + 1 - lo <= RawCap
      /\ backend \in {"cpu", "graph"} /\ ctx \in Nat /\ p \in 0 .. Len(h) - 1
  BY LenProperties, CapFacts
<1>1. Decode(c, h) = IF good THEN [c |-> right, out |-> h] ELSE [c |-> AfterOne(c, p, Stale), out |-> Stale]
  BY DEF Decode, AfterOne
<1>2. h \in Hist /\ h # Stale /\ At(h, p) = h /\ c \in Caches(backend, ctx)
  BY <1>0, AtLast, StaleAssumption DEF Hist, Sound
<1>3. Decode(c, h).out = h
  <2>1. Stands(backend, ctx, Decode(c, h), h, TRUE)
    BY <1>0, DecodeStands
  <2> QED BY <2>1 DEF Stands
<1> HIDE DEF good, right, p
<1>4. Decode(c, h).c = right
  <2>1. CASE good
    BY <1>1, <2>1
  <2>2. CASE ~ good
    BY <1>1, <1>2, <1>3, <2>2
  <2> QED BY <2>1, <2>2
<1>5. RingHolds(d, h, lo, p + 1) /\ d \in Caches(backend, ctx)
  <2>1. RingHolds(c, h, lo, p) /\ lo <= p
    BY DEF p
  <2>2. RingHolds(PushRaw(c, p, h), h, lo, p + 1)
    BY <1>0, <1>2, <2>1, RingStep
  <2>3. PushRaw(c, p, h) \in Caches(backend, ctx)
    BY <1>0, <1>2, PushRawIs
  <2> QED BY <2>2, <2>3
<1>6. \A k \in Kinds : lane[k] \in Lanes(ctx, k)
  <2>1. ASSUME NEW k \in Kinds PROVE CompressorUpdate(k, Lane(c, k), p, h) \in Lanes(ctx, k)
    <3>1. Lane(c, k) \in Lanes(ctx, k)
      BY <1>2, CacheFacts
    <3> QED BY <1>0, <1>2, <3>1, UpdateTyped
  <2> QED BY <2>1
<1> HIDE DEF d, lane
<1>7. right.raw = d.raw
  <2>1. WithLanes(d, lane).raw = d.raw
    BY <1>5, <1>6, WithLanesIs
  <2> QED BY <2>1 DEF right, AfterOne, d, lane
<1> QED BY <1>0, <1>4, <1>5, <1>7 DEF RingHolds

(* So does a batch. *)
LEMMA BatchRing ==
  ASSUME backend = "graph", ctx \in Ctxs, NEW c \in Caches(backend, ctx), NEW h \in Seq(Token),
         Len(h) <= ctx, NEW pos0 \in Nat \ {0}, Len(h) - pos0 \in 1 .. Chunk,
         Sound(backend, ctx, c, h, pos0, TRUE)
  PROVE  RingHolds(Batch(c, h, pos0).c, h, From(pos0), Len(h))
<1> DEFINE n == Len(h) - pos0
           xs == [t \in 1 .. n |-> At(h, pos0 + t - 1)]
           ys == [t \in 1 .. n |-> Stale]
           right == AfterBatch(c, pos0, xs)
           good == \A p \in pos0 .. Len(h) - 1 :
                     /\ pos0 = 0 \/ SeesRaw(right, h, p, pos0, n)
                     /\ SeesCompressed(right, h, p)
<1>0. n \in 1 .. Chunk /\ n \in Nat /\ Len(h) \in Nat /\ pos0 + n = Len(h)
  BY LenProperties, CapFacts
<1>1. Batch(c, h, pos0) = IF good THEN [c |-> right, out |-> h]
                          ELSE [c |-> AfterBatch(c, pos0, ys), out |-> Stale]
  BY DEF Batch, AfterBatch
<1>2. Batch(c, h, pos0).out = h /\ h # Stale
  <2>1. Stands(backend, ctx, Batch(c, h, pos0), h, TRUE)
    BY BatchStands
  <2> QED BY <2>1, StaleAssumption DEF Stands
<1>3. xs \in Seq(Hist) /\ Len(xs) = n
  <2> HIDE DEF n
  <2>1. ASSUME NEW t \in 1 .. n PROVE At(h, pos0 + t - 1) \in Hist
    <3>1. pos0 + t - 1 \in 0 .. Len(h) - 1
      BY <1>0
    <3> QED BY <3>1, AtFacts
  <2>3. xs \in [1 .. n -> Hist]
    BY <2>1
  <2> HIDE DEF xs
  <2> QED BY <1>0, <2>3, FunctionIsSeq
<1>4. \A t \in 1 .. Len(xs) : xs[t] = At(h, pos0 + t - 1)
  BY <1>3
<1> HIDE DEF good, xs, ys, n
<1>5. RingHolds(right, h, From(pos0), Len(h))
  BY <1>0, <1>3, <1>4, OneBatch
<1> HIDE DEF right
<1>6. CASE good
  <2>1. Batch(c, h, pos0).c = right
    BY <1>1, <1>6
  <2> QED BY <1>5, <2>1
<1>7. CASE ~ good
  BY <1>1, <1>2, <1>7
<1> QED BY <1>6, <1>7

(* A frontier put back: the cache stands again for what the frontier stood for,
   if its raw rows are still in the ring. *)
LEMMA FrontierStands ==
  ASSUME backend = "graph", ctx \in Ctxs, NEW g \in Seq(Token), NEW m \in 0 .. Len(g), NEW p \in 0 .. m,
         NEW ok \in BOOLEAN, NEW c, NEW f, Sound(backend, ctx, f, g, p, ok),
         Sound(backend, ctx, c, g, m, ok), ok => RingHolds(c, g, From(p), p)
  PROVE  Sound(backend, ctx, WithFrontier(c, f), g, p, ok)
<1> DEFINE d == WithFrontier(c, f)
           win == f.win
           num == f.n_comp
<1>0. m \in Nat /\ p \in Nat /\ p <= m /\ c \in Caches(backend, ctx) /\ f \in Caches(backend, ctx)
  BY LenProperties DEF Sound
<1>1. /\ d \in Caches(backend, ctx) /\ d.raw = c.raw
      /\ \A k \in Kinds : /\ Lane(d, k) \in Lanes(ctx, k)
                          /\ Lane(d, k).win = win[k] /\ Lane(d, k).comp = c.comp[k] /\ Lane(d, k).n = num[k]
  <2>1. OnKinds(win) /\ OnKinds(num)
    BY <1>0, FieldFacts
  <2>2. \A k \in Kinds : win[k] \in [0 .. Rows(k) - 1 -> Hist] /\ num[k] \in Nat
    BY <1>0, FieldFacts
  <2>3. Rewound(d, c, win, num)
    BY DEF WithFrontier, Rewound
  <2> HIDE DEF d, win, num
  <2> QED BY <1>0, <2>1, <2>2, <2>3, WithWinIs
<1> HIDE DEF d
<1>2. ASSUME NEW k \in Kinds PROVE LaneAt(ctx, Lane(d, k), k, g, p, ok)
  <2>1. LaneAt(ctx, Lane(f, k), k, g, p, ok) /\ LaneAt(ctx, Lane(c, k), k, g, m, ok)
    BY DEF Sound
  <2>2. /\ Lane(d, k).win = Lane(f, k).win /\ Lane(d, k).n = Lane(f, k).n
        /\ Lane(d, k).comp = Lane(c, k).comp /\ Lane(d, k) \in Lanes(ctx, k)
    BY <1>1, LaneFacts
  <2>3. p \div Ratio(k) <= m \div Ratio(k) /\ p \div Ratio(k) \in Nat /\ m \div Ratio(k) \in Nat
    BY <1>0, KindFacts, DivMonotone, WholeFacts
  <2>4. ASSUME ok, NEW i \in 0 .. (p \div Ratio(k)) - 1
        PROVE  Lane(d, k).comp[i] = At(g, (i + 1) * Ratio(k) - 1)
    <3>1. i \in 0 .. (m \div Ratio(k)) - 1
      BY <2>3
    <3> QED BY <2>1, <2>2, <2>4, <3>1 DEF LaneAt
  <2> QED BY <2>1, <2>2, <2>4 DEF LaneAt
<1>3. RawAt(backend, ctx, d, g, p, ok)
  BY <1>1 DEF RawAt, RingHolds
<1>4. Sound(backend, ctx, d, g, p, ok)
  BY <1>1, <1>2, <1>3 DEF Sound
<1> QED BY <1>4 DEF d


(* A torn cache is a cache. *)
LEMMA TornTyped ==
  ASSUME NEW b, NEW x, NEW c \in Caches(b, x)
  PROVE  Torn(c) \in Caches(b, x)
<1> DEFINE d == Torn(c)
           raw == [i \in DOMAIN c.raw |-> Stale]
           n_raw == c.n_raw
           comp == [k \in Kinds |-> [i \in DOMAIN c.comp[k] |-> Stale]]
           num == c.n_comp
           win == [k \in Kinds |-> [r \in DOMAIN c.win[k] |-> Stale]]
<1>1. Recorded(c)
  BY CacheFacts
<1>2. d = [c EXCEPT !.raw = raw, !.comp = comp, !.win = win]
  BY DEF Torn
<1>3. Stale \in Hist
  BY DEF Hist
<1>4. raw \in [0 .. Cap(b, x) - 1 -> Hist] /\ n_raw \in Nat
  BY <1>3, FieldFacts
<1>5. ASSUME NEW k \in Kinds
      PROVE  /\ win[k] \in [0 .. Rows(k) - 1 -> Hist] /\ num[k] \in Nat
             /\ comp[k] \in [0 .. CompCap(x, k) - 1 -> Hist]
  BY <1>3, FieldFacts
<1>6. OnKinds(comp) /\ OnKinds(win)
  BY DEF OnKinds
<1>7. OnKinds(num)
  BY FieldFacts
<1>8. d = [raw |-> raw, n_raw |-> n_raw, comp |-> comp, n_comp |-> num, win |-> win]
  <2> HIDE DEF d, raw, comp, win
  <2> QED BY <1>1, <1>2 DEF Recorded
<1> HIDE DEF d, raw, n_raw, comp, num, win
<1>9. d \in Caches(b, x)
  BY <1>4, <1>5, <1>6, <1>7, <1>8, CacheMade
<1> QED BY <1>9 DEF d

(* Drafts a failed verifier wrote lie ahead of what the cache stands for: the
   ring has room for a window beside a chunk, or for the whole context. *)
LEMMA AheadTornStands ==
  ASSUME backend = "graph", ctx \in Ctxs, NEW h \in Seq(Token), NEW p \in 0 .. Len(h),
         NEW n \in 1 .. Chunk, p + n <= ctx, NEW ok \in BOOLEAN, NEW c, Sound(backend, ctx, c, h, p, ok)
  PROVE  Sound(backend, ctx, AheadTorn(c, p, n), h, p, ok)
<1> DEFINE d == AheadTorn(c, p, n)
           C == Cap(backend, ctx)
           raw == [i \in DOMAIN c.raw |->
                     IF \E q \in p .. p + n - 1 : i = q % RawCap THEN Stale ELSE c.raw[i]]
           n_raw == c.n_raw
           comp == [k \in Kinds |-> [i \in DOMAIN c.comp[k] |->
                      IF i >= c.n_comp[k] THEN Stale ELSE c.comp[k][i]]]
           num == c.n_comp
           win == c.win
<1>0. /\ p \in Nat /\ n \in Nat /\ n > 0 /\ c \in Caches(backend, ctx) /\ RawCap = C /\ C \in Nat \ {0}
      /\ Stale \in Hist
  BY LenProperties, CapFacts, RawCapIs DEF Sound, Hist
<1>1. Recorded(c)
  BY <1>0, CacheFacts
<1>2. d = [c EXCEPT !.raw = raw, !.comp = comp]
  BY DEF AheadTorn
<1>3. /\ c.raw \in [0 .. C - 1 -> Hist] /\ c.n_raw \in Nat
      /\ \A k \in Kinds : /\ c.win[k] \in [0 .. Rows(k) - 1 -> Hist] /\ c.n_comp[k] \in Nat
                          /\ c.comp[k] \in [0 .. CompCap(ctx, k) - 1 -> Hist]
  BY <1>0, FieldFacts
<1>4. OnKinds(num) /\ OnKinds(win)
  BY <1>0, FieldFacts
<1>5. OnKinds(comp)
  BY DEF OnKinds
<1>6. d = [raw |-> raw, n_raw |-> n_raw, comp |-> comp, n_comp |-> num, win |-> win]
  <2> HIDE DEF d, raw, comp
  <2> QED BY <1>1, <1>2 DEF Recorded
<1> HIDE DEF C
<1>7. raw \in [0 .. C - 1 -> Hist]
  BY <1>0, <1>3
<1>8. ASSUME NEW k \in Kinds
      PROVE  /\ comp[k] \in [0 .. CompCap(ctx, k) - 1 -> Hist]
             /\ \A i \in 0 .. CompCap(ctx, k) - 1 : i < num[k] => comp[k][i] = c.comp[k][i]
  <2> DEFINE old == c.comp[k]
             I == 0 .. CompCap(ctx, k) - 1
  <2>1. old \in [I -> Hist] /\ num[k] \in Nat
    BY <1>3
  <2>2. comp[k] = [i \in I |-> IF i >= num[k] THEN Stale ELSE old[i]]
    BY <2>1
  <2>3. \A i \in I : i \in Int
    OBVIOUS
  <2> HIDE DEF comp, num, old, I
  <2>4. comp[k] \in [I -> Hist]
    BY <1>0, <2>1, <2>2
  <2>5. ASSUME NEW i \in I, i < num[k] PROVE comp[k][i] = old[i]
    BY <2>1, <2>2, <2>3, <2>5
  <2> QED BY <2>4, <2>5 DEF old, I
<1>9. \A k \in Kinds : /\ win[k] \in [0 .. Rows(k) - 1 -> Hist] /\ num[k] \in Nat
                       /\ comp[k] \in [0 .. CompCap(ctx, k) - 1 -> Hist]
  BY <1>3, <1>8
<1>10. n_raw \in Nat
  BY <1>3
<1> HIDE DEF d, raw, n_raw, comp, num, win
<1>11. /\ d \in Caches(backend, ctx) /\ d.raw = raw
       /\ \A k \in Kinds : /\ Lane(d, k) \in Lanes(ctx, k)
                           /\ Lane(d, k).win = win[k] /\ Lane(d, k).comp = comp[k] /\ Lane(d, k).n = num[k]
  BY <1>4, <1>5, <1>6, <1>7, <1>9, <1>10, CacheMade DEF C
<1>12. ASSUME NEW k \in Kinds PROVE LaneAt(ctx, Lane(d, k), k, h, p, ok)
  <2>1. LaneAt(ctx, Lane(c, k), k, h, p, ok)
    BY DEF Sound
  <2>2. Lane(d, k).win = Lane(c, k).win /\ Lane(d, k).n = Lane(c, k).n /\ Lane(d, k) \in Lanes(ctx, k)
    BY <1>11, LaneFacts DEF win, num
  <2>3. num[k] = p \div Ratio(k)
    BY <2>1, LaneFacts DEF LaneAt, num
  <2>4. ASSUME NEW i \in 0 .. (p \div Ratio(k)) - 1 PROVE Lane(d, k).comp[i] = Lane(c, k).comp[i]
    <3>1. p <= ctx /\ ctx \in Nat
      BY <1>0, CapFacts
    <3>2. p \div Ratio(k) \in 0 .. CompCap(ctx, k) - 2 /\ CompCap(ctx, k) \in Nat
      BY <1>0, <3>1, CompRoom
    <3>3. i \in 0 .. CompCap(ctx, k) - 1 /\ i < num[k]
      BY <2>3, <3>2
    <3>4. comp[k][i] = c.comp[k][i]
      BY <1>8, <3>3
    <3> QED BY <1>11, <3>4, LaneFacts
  <2> QED BY <2>1, <2>2, <2>4 DEF LaneAt
<1>13. RawAt(backend, ctx, d, h, p, ok)
  <2>1. From(p) \in Nat /\ From(p) <= p /\ p + n - From(p) <= C
    BY <1>0, RingRoom
  <2>2. ASSUME NEW q \in From(p) .. p - 1 PROVE d.raw[q % C] = c.raw[q % C]
    <3>1. q \in Nat /\ q < p /\ q >= From(p)
      BY <2>1
    <3>2. q % C \in 0 .. C - 1
      BY <1>0, <3>1, DivMod, Zenon
    <3>3. ASSUME NEW s \in p .. p + n - 1, q % C = s % C PROVE FALSE
      <4>1. s \in Nat /\ q <= s /\ s - q < C /\ q # s
        BY <1>0, <2>1, <3>1
      <4> QED BY <1>0, <3>1, <3>3, <4>1, ModApart
    <3> DEFINE i == q % C
    <3>4. i \in 0 .. C - 1 /\ ~ \E s \in p .. p + n - 1 : i = s % C
      BY <3>2, <3>3
    <3> HIDE DEF i
    <3>5. raw[i] = c.raw[i]
      BY <1>0, <1>3, <3>4 DEF raw
    <3> QED BY <1>11, <3>5 DEF i
  <2>3. RawAt(backend, ctx, c, h, p, ok)
    BY DEF Sound
  <2> QED BY <2>2, <2>3 DEF RawAt, C
<1>14. Sound(backend, ctx, d, h, p, ok)
  BY <1>11, <1>12, <1>13 DEF Sound
<1> QED BY <1>14 DEF d

(* The number of drafts the rows confirm is one of 1 .. Len(d), and the rows
   agree with the drafts up to it. *)
LEMMA ConfirmedIs ==
  ASSUME NEW d \in Seq(Token), Len(d) > 0, NEW tops
  PROVE  /\ Confirmed(d, tops) \in 1 .. Len(d)
         /\ \A i \in 2 .. Confirmed(d, tops) : tops[i - 1] = d[i]
<1> DEFINE T == {n \in 1 .. Len(d) : n = Len(d) \/ tops[n] # d[n + 1]}
           Fits1(n) == /\ \A i \in 2 .. n : tops[i - 1] = d[i]
                       /\ n < Len(d) => tops[n] # d[n + 1]
<1>0. Len(d) \in Nat
  BY LenProperties
<1>1. PICK m \in T : \A n \in T : m <= n
  <2>1. Len(d) \in T
    BY <1>0
  <2>2. T \subseteq Nat /\ T # {}
    BY <2>1
  <2> HIDE DEF T
  <2> QED BY <2>2, LeastNat
<1>2. m \in 1 .. Len(d) /\ Fits1(m)
  <2>1. ASSUME NEW i \in 2 .. m PROVE tops[i - 1] = d[i]
    <3>1. i - 1 \in 1 .. Len(d) /\ i - 1 # Len(d) /\ (i - 1) + 1 = i /\ ~ (m <= i - 1)
      BY <1>0, <1>1
    <3>2. i - 1 \notin T
      BY <1>1, <3>1
    <3> QED BY <3>1, <3>2
  <2>2. m < Len(d) => tops[m] # d[m + 1]
    BY <1>0, <1>1
  <2> QED BY <1>1, <2>1, <2>2
<1>3. Confirmed(d, tops) \in 1 .. Len(d) /\ Fits1(Confirmed(d, tops))
  <2>1. Confirmed(d, tops) = CHOOSE n \in 1 .. Len(d) : Fits1(n)
    BY DEF Confirmed
  <2>2. \E n \in 1 .. Len(d) : Fits1(n)
    BY <1>2
  <2> HIDE DEF Fits1
  <2> QED BY <2>1, <2>2
<1> QED BY <1>3


-----------------------------------------------------------------------------
(* Speculation. *)

(* What a cache stands for, in a prefix and in the whole. *)
LEMMA PrefixSound ==
  ASSUME NEW b \in {"cpu", "graph"}, NEW x \in Ctxs, NEW c, NEW g \in Seq(Token), NEW m \in 0 .. Len(g),
         NEW p \in 0 .. m, NEW ok \in BOOLEAN
  PROVE  Sound(b, x, c, SubSeq(g, 1, m), p, ok) <=> Sound(b, x, c, g, p, ok)
<1> DEFINE e == SubSeq(g, 1, m)
<1>1. e \in Seq(Token) /\ Len(e) = m /\ SubSeq(e, 1, p) = SubSeq(g, 1, p)
  BY PrefixOfPrefix
<1>2. p \in 0 .. Len(g)
  BY LenProperties
<1> HIDE DEF e
<1>3. Sound(b, x, c, SubSeq(e, 1, p), p, ok) <=> Sound(b, x, c, e, p, ok)
  BY <1>1, SoundOfPrefix
<1>4. Sound(b, x, c, SubSeq(g, 1, p), p, ok) <=> Sound(b, x, c, g, p, ok)
  BY <1>2, SoundOfPrefix
<1> QED BY <1>1, <1>3, <1>4 DEF e

(* The next token of a longer history. *)
LEMMA DecodeNext ==
  ASSUME backend \in {"cpu", "graph"}, ctx \in Ctxs, NEW g \in Seq(Token), NEW m \in 1 .. Len(g), m <= ctx,
         NEW ok \in BOOLEAN, NEW c, Sound(backend, ctx, c, g, m - 1, ok)
  PROVE  /\ Stands(backend, ctx, Decode(c, SubSeq(g, 1, m)), SubSeq(g, 1, m), ok)
         /\ Sound(backend, ctx, Decode(c, SubSeq(g, 1, m)).c, g, m, ok)
<1> DEFINE e == SubSeq(g, 1, m)
<1>0. m \in 0 .. Len(g) /\ m - 1 \in 0 .. m /\ m \in 0 .. m /\ m \in 1 .. ctx
  BY LenProperties, CapFacts
<1>1. e \in Seq(Token) /\ Len(e) = m
  BY <1>0, PrefixOfPrefix
<1>2. Sound(backend, ctx, c, e, m - 1, ok)
  BY <1>0, PrefixSound
<1> HIDE DEF e
<1>3. Stands(backend, ctx, Decode(c, e), e, ok)
  BY <1>0, <1>1, <1>2, DecodeStands
<1>4. Sound(backend, ctx, Decode(c, e).c, e, m, ok)
  BY <1>1, <1>3 DEF Stands
<1>5. Sound(backend, ctx, Decode(c, e).c, g, m, ok)
  BY <1>0, <1>4, PrefixSound DEF e
<1> QED BY <1>3, <1>5 DEF e

\* The first n drafts are the target's own choices after h.
Chosen(h, d, n) == \A i \in 1 .. n : d[i] = Greedy(h \o SubSeq(d, 1, i - 1))

(* Right logits leave one choice. *)
LEMMA OneChoice ==
  ASSUME NEW h \in Seq(Token), NEW x, NEW ok \in BOOLEAN, ok => x = h, NEW t \in Tops(x)
  PROVE  ok => t = Greedy(h)
<1>1. h # Stale
  BY StaleAssumption
<1> QED BY <1>1 DEF Tops

(* No draft is chosen by default; each chosen one adds to those before it. *)
LEMMA ChosenNext ==
  ASSUME NEW h \in Seq(Token), NEW d \in Seq(Token), NEW n \in Nat
  PROVE  /\ Chosen(h, d, 0)
         /\ Chosen(h, d, n) /\ d[n + 1] = Greedy(h \o SubSeq(d, 1, n)) => Chosen(h, d, n + 1)
         /\ d[1] = Greedy(h) => Chosen(h, d, 1)
<1>1. Chosen(h, d, 0)
  BY DEF Chosen
<1>2. ASSUME Chosen(h, d, n), d[n + 1] = Greedy(h \o SubSeq(d, 1, n)) PROVE Chosen(h, d, n + 1)
  <2>1. ASSUME NEW i \in 1 .. n + 1 PROVE d[i] = Greedy(h \o SubSeq(d, 1, i - 1))
    <3>1. CASE i = n + 1
      <4>1. i - 1 = n
        BY <3>1
      <4> QED BY <1>2, <3>1, <4>1
    <3>2. CASE i # n + 1
      <4>1. i \in 1 .. n
        BY <3>2
      <4> QED BY <1>2, <4>1 DEF Chosen
    <3> QED BY <3>1, <3>2
  <2> QED BY <2>1 DEF Chosen
<1>3. ASSUME d[1] = Greedy(h) PROVE Chosen(h, d, 1)
  <2>1. h \o SubSeq(d, 1, 0) = h
    <3>1. SubSeq(d, 1, 0) = <<>>
      BY SubSeqEmpty
    <3> QED BY <3>1, ConcatEmptySeq
  <2>2. ASSUME NEW i \in 1 .. 1 PROVE d[i] = Greedy(h \o SubSeq(d, 1, i - 1))
    <3>1. i = 1 /\ i - 1 = 0
      OBVIOUS
    <3> QED BY <1>3, <2>1, <3>1
  <2> QED BY <2>2 DEF Chosen
<1> QED BY <1>1, <1>2, <1>3

(* Prefixes of a committed history and its drafts. *)
LEMMA DraftPrefixes ==
  ASSUME NEW h \in Seq(Token), NEW d \in Seq(Token), NEW n \in 0 .. Len(d)
  PROVE  /\ h \o d \in Seq(Token) /\ Len(h \o d) = Len(h) + Len(d) /\ Len(h) \in Nat /\ Len(d) \in Nat
         /\ h \o SubSeq(d, 1, n) = SubSeq(h \o d, 1, Len(h) + n)
         /\ h = SubSeq(h \o d, 1, Len(h))
         /\ h \o d = h \o SubSeq(d, 1, Len(d))
         /\ Len(d) > 0 => Append(h, d[1]) = SubSeq(h \o d, 1, Len(h) + 1)
<1>1. /\ h \o d \in Seq(Token) /\ Len(h \o d) = Len(h) + Len(d) /\ Len(h) \in Nat /\ Len(d) \in Nat
      /\ h \o SubSeq(d, 1, n) = SubSeq(h \o d, 1, Len(h) + n)
  BY Joined, LenProperties
<1>2. h = SubSeq(h \o d, 1, Len(h))
  BY JoinedPrefix
<1>3. h \o d = h \o SubSeq(d, 1, Len(d))
  BY SubSeqFull
<1>4. ASSUME Len(d) > 0 PROVE Append(h, d[1]) = SubSeq(h \o d, 1, Len(h) + 1)
  <2>1. 1 \in 0 .. Len(d)
    BY <1>1, <1>4
  <2>2. SubSeq(h \o d, 1, Len(h) + 1) = h \o SubSeq(d, 1, 1)
    BY <2>1, Joined
  <2> QED BY <1>4, <2>2, FirstDraft
<1> QED BY <1>1, <1>2, <1>3, <1>4


(* Two drafts verified one by one: both accepted, or the frontier of the first
   put back under the rows of the second. *)
LEMMA Decode2Stands ==
  ASSUME backend = "graph", ctx \in Ctxs, NEW h \in Seq(Token), Len(h) > 0,
         NEW d \in Seq(Token), Len(d) = 2, Len(h) + 2 <= ctx, NEW ok \in BOOLEAN,
         NEW r0, Stands(backend, ctx, r0, h, ok),
         NEW r1, r1 = Decode(r0.c, Append(h, d[1])), NEW r2, r2 = Decode(r1.c, h \o d)
  PROVE  /\ Stands(backend, ctx, r1, h \o SubSeq(d, 1, 1), ok)
         /\ Stands(backend, ctx, r2, h \o SubSeq(d, 1, 2), ok)
         /\ Stands(backend, ctx, [c |-> WithFrontier(r2.c, r1.c), out |-> r1.out], h \o SubSeq(d, 1, 1), ok)
<1> DEFINE g == h \o d
           p == Len(h) + 1
           back == WithFrontier(r2.c, r1.c)
<1>0. /\ g \in Seq(Token) /\ Len(h) \in Nat /\ Len(g) = p + 1 /\ p \in Nat /\ p + 1 <= ctx /\ ctx \in Nat
      /\ backend \in {"cpu", "graph"} /\ Len(h) = p - 1
  <2>1. 0 \in 0 .. Len(d)
    OBVIOUS
  <2>2. g \in Seq(Token) /\ Len(g) = Len(h) + Len(d) /\ Len(h) \in Nat
    BY <2>1, DraftPrefixes
  <2> QED BY <2>2, CapFacts
<1>1. /\ h = SubSeq(g, 1, p - 1) /\ h \o SubSeq(d, 1, 1) = SubSeq(g, 1, p)
      /\ h \o SubSeq(d, 1, 2) = SubSeq(g, 1, p + 1) /\ Append(h, d[1]) = SubSeq(g, 1, p)
      /\ h \o d = SubSeq(g, 1, p + 1)
  <2>1. 1 \in 0 .. Len(d) /\ 2 \in 0 .. Len(d) /\ Len(d) > 0 /\ Len(h) + 2 = p + 1
    BY <1>0
  <2>2. /\ h \o SubSeq(d, 1, 1) = SubSeq(h \o d, 1, Len(h) + 1) /\ h = SubSeq(h \o d, 1, Len(h))
        /\ Append(h, d[1]) = SubSeq(h \o d, 1, Len(h) + 1)
    BY <2>1, DraftPrefixes
  <2>3. h \o SubSeq(d, 1, 2) = SubSeq(h \o d, 1, Len(h) + 2)
    BY <2>1, DraftPrefixes
  <2>4. h \o d = h \o SubSeq(d, 1, Len(d))
    BY <2>1, DraftPrefixes
  <2> QED BY <1>0, <2>1, <2>2, <2>3, <2>4
<1> HIDE DEF g, p
<1>2. p \in 1 .. Len(g) /\ p + 1 \in 1 .. Len(g) /\ p - 1 \in 0 .. Len(g) /\ p - 1 \in 0 .. p - 1 /\ p <= ctx
      /\ (p + 1) - 1 = p /\ p \in 0 .. p + 1 /\ p + 1 \in 0 .. Len(g) /\ p \in 0 .. Len(g) /\ p \in 0 .. p
  BY <1>0 DEF p
<1>3. Sound(backend, ctx, r0.c, g, p - 1, ok)
  <2>1. Sound(backend, ctx, r0.c, SubSeq(g, 1, p - 1), p - 1, ok)
    BY <1>0, <1>1 DEF Stands
  <2> QED BY <1>0, <1>2, <2>1, PrefixSound
<1>4. Stands(backend, ctx, r1, SubSeq(g, 1, p), ok) /\ Sound(backend, ctx, r1.c, g, p, ok)
  BY <1>0, <1>1, <1>2, <1>3, DecodeNext
<1>5. Stands(backend, ctx, r2, SubSeq(g, 1, p + 1), ok) /\ Sound(backend, ctx, r2.c, g, p + 1, ok)
  BY <1>0, <1>1, <1>2, <1>4, DecodeNext
<1>6. ok => RingHolds(r2.c, g, From(p), p)
  <2> SUFFICES ASSUME ok PROVE RingHolds(r2.c, g, From(p), p)
    OBVIOUS
  <2>1. From(p) \in Nat /\ From(p) <= p /\ p + 1 - From(p) <= RawCap
    <3>1. 1 \in 1 .. Chunk
      BY <1>0, CapFacts
    <3> QED BY <1>0, <3>1, RingRoom
  <2>2. RingHolds(r1.c, g, From(p), p)
    BY <1>4 DEF Sound, RawAt, RingHolds
  <2>3. g = SubSeq(g, 1, p + 1) /\ Len(g) \in 1 .. ctx /\ Len(g) - 1 = p /\ Len(g) = p + 1
    BY <1>0, SubSeqFull
  <2>4. RingHolds(Decode(r1.c, g).c, g, From(p), Len(g))
    <3> DEFINE lo == From(p)
    <3>1. Sound(backend, ctx, r1.c, g, Len(g) - 1, TRUE) /\ RingHolds(r1.c, g, lo, Len(g) - 1)
      BY <1>4, <2>2, <2>3
    <3>2. lo \in Nat /\ lo <= Len(g) - 1 /\ Len(g) - lo <= RawCap
      BY <2>1, <2>3
    <3> HIDE DEF lo
    <3>3. RingHolds(Decode(r1.c, g).c, g, lo, Len(g))
      BY <1>0, <2>3, <3>1, <3>2, DecodeRing
    <3> QED BY <3>3 DEF lo
  <2>5. Decode(r1.c, g) = r2
    BY <1>1, <2>3
  <2>6. RingHolds(r2.c, g, From(p), p + 1)
    BY <2>3, <2>4, <2>5
  <2>7. \A q \in From(p) .. p - 1 : q \in From(p) .. (p + 1) - 1
    <3> DEFINE lo == From(p)
    <3>1. lo \in Nat /\ p \in Nat
      BY <1>0, <2>1
    <3> HIDE DEF lo
    <3>2. \A q \in lo .. p - 1 : q \in lo .. (p + 1) - 1
      BY <3>1
    <3> QED BY <3>2 DEF lo
  <2> QED BY <2>6, <2>7 DEF RingHolds
<1>7. Sound(backend, ctx, back, g, p, ok)
  BY <1>2, <1>0, <1>4, <1>5, <1>6, FrontierStands
<1> HIDE DEF back
<1>8. Sound(backend, ctx, back, SubSeq(g, 1, p), p, ok) /\ Len(SubSeq(g, 1, p)) = p
  BY <1>0, <1>2, <1>7, PrefixSound, PrefixOfPrefix
<1>9. Stands(backend, ctx, [c |-> back, out |-> r1.out], SubSeq(g, 1, p), ok)
  BY <1>4, <1>8 DEF Stands
<1> QED BY <1>1, <1>4, <1>5, <1>9 DEF back

(* All drafts in one batch: what the batch leaves, the state after the first
   draft put back, and the state before any draft put back. *)
LEMMA VerifyBatchStands ==
  ASSUME backend = "graph", ctx \in Ctxs, NEW h \in Seq(Token), Len(h) > 0,
         NEW d \in Seq(Token), Len(d) \in 1 .. Chunk, Len(h) + Len(d) <= ctx, NEW ok \in BOOLEAN,
         NEW r0, Stands(backend, ctx, r0, h, ok), NEW b, b = Batch(r0.c, h \o d, Len(h))
  PROVE  /\ Stands(backend, ctx, b, h \o d, ok)
         /\ Sound(backend, ctx, WithFrontier(b.c, r0.c), h \o d, Len(h), ok)
         /\ Sound(backend, ctx, WithFrontier(b.c, Decode(r0.c, Append(h, d[1])).c), h \o d, Len(h) + 1, ok)
<1> DEFINE g == h \o d
           p == Len(h)
           f == Decode(r0.c, Append(h, d[1])).c
<1>0. /\ g \in Seq(Token) /\ p \in Nat /\ Len(d) \in Nat /\ Len(g) = p + Len(d) /\ ctx \in Nat
      /\ backend \in {"cpu", "graph"} /\ Len(g) - p = Len(d) /\ Len(g) <= ctx
  <2>1. 0 \in 0 .. Len(d)
    BY LenProperties
  <2>2. g \in Seq(Token) /\ Len(g) = p + Len(d) /\ p \in Nat /\ Len(d) \in Nat
    BY <2>1, DraftPrefixes
  <2> QED BY <2>2, CapFacts
<1>1. h = SubSeq(g, 1, p) /\ Append(h, d[1]) = SubSeq(g, 1, p + 1)
  <2>1. 0 \in 0 .. Len(d) /\ Len(d) > 0
    BY <1>0
  <2> QED BY <2>1, DraftPrefixes
<1> HIDE DEF g
<1>2. /\ p + 1 \in 1 .. Len(g) /\ p + 1 <= ctx /\ (p + 1) - 1 = p /\ p \in 0 .. Len(g) /\ p \in 0 .. p
      /\ p + 1 \in 0 .. Len(g) /\ p \in Nat \ {0} /\ Len(g) \in 0 .. Len(g)
  BY <1>0
<1> HIDE DEF p
<1>3. Sound(backend, ctx, r0.c, g, p, ok) /\ r0.c \in Caches(backend, ctx)
  <2>1. Sound(backend, ctx, r0.c, SubSeq(g, 1, p), p, ok)
    BY <1>1 DEF Stands, p
  <2>2. Sound(backend, ctx, r0.c, g, p, ok)
    BY <1>0, <1>2, <2>1, PrefixSound
  <2> QED BY <2>2 DEF Sound
<1>4. Sound(backend, ctx, f, g, p + 1, ok)
  BY <1>0, <1>1, <1>2, <1>3, DecodeNext
<1>5. b = Batch(r0.c, g, p)
  BY DEF g, p
<1>6. Stands(backend, ctx, b, g, ok)
  BY <1>0, <1>2, <1>3, <1>5, BatchStands
<1>7. ok => RingHolds(b.c, g, From(p), Len(g))
  BY <1>0, <1>2, <1>3, <1>5, BatchRing
<1> HIDE DEF f
<1> DEFINE lo == From(p)
           lo1 == From(p + 1)
           l == Len(g)
<1>8. lo \in Nat /\ lo1 \in Nat /\ lo <= lo1
  BY <1>0, SizesAssumption DEF From
<1>9. ok => RingHolds(b.c, g, From(p), p) /\ RingHolds(b.c, g, From(p + 1), p + 1)
  <2>1. /\ \A q \in lo .. p - 1 : q \in lo .. l - 1
        /\ \A q \in lo1 .. (p + 1) - 1 : q \in lo .. l - 1
    <3>1. l \in Nat /\ p \in Nat /\ p + 1 <= l
      BY <1>0, <1>2
    <3> HIDE DEF lo, lo1, l
    <3> QED BY <1>8, <3>1
  <2> QED BY <1>7, <2>1 DEF RingHolds
<1>10. Sound(backend, ctx, b.c, g, Len(g), ok)
  BY <1>6 DEF Stands
<1>11. Sound(backend, ctx, WithFrontier(b.c, r0.c), g, p, ok)
  <2>1. ok => RingHolds(b.c, g, From(p), p)
    BY <1>9
  <2> QED BY <1>0, <1>2, <1>3, <1>10, <2>1, FrontierStands
<1>12. Sound(backend, ctx, WithFrontier(b.c, f), g, p + 1, ok)
  <2>1. p + 1 \in 0 .. Len(g)
    BY <1>2
  <2>2. ok => RingHolds(b.c, g, From(p + 1), p + 1)
    BY <1>9
  <2> QED BY <1>0, <1>2, <1>4, <1>10, <2>1, <2>2, FrontierStands
<1> QED BY <1>6, <1>11, <1>12 DEF g, p, f


\* The drafts d decoded one by one from start.
IsRun(run, start, h, d) ==
  run = [n \in 0 .. Len(d) |-> IF n = 0 THEN start ELSE Decode(run[n - 1].c, h \o SubSeq(d, 1, n))]

(* Such a run exists. *)
LEMMA RunExists ==
  ASSUME backend \in {"cpu", "graph"}, ctx \in Ctxs, NEW h \in Seq(Token), Len(h) > 0, NEW d \in Seq(Token),
         NEW start \in [c : Caches(backend, ctx), out : Hist]
  PROVE  \E run : IsRun(run, start, h, d)
<1> DEFINE N == Len(d)
           S == [c : Caches(backend, ctx), out : Hist]
           F == [a \in (1 .. N) \X S |-> Decode(a[2].c, h \o SubSeq(d, 1, a[1]))]
<1>0. N \in Nat /\ Len(h) \in Nat
  BY LenProperties
<1>1. ASSUME NEW n \in 1 .. N
      PROVE  h \o SubSeq(d, 1, n) \in Seq(Token) /\ Len(h \o SubSeq(d, 1, n)) > 0
  <2>1. n \in 0 .. Len(d)
    BY <1>0
  <2>2. h \o SubSeq(d, 1, n) \in Seq(Token) /\ Len(h \o SubSeq(d, 1, n)) = Len(h) + n
    BY <2>1, Joined
  <2> QED BY <1>0, <2>2
<1>2. F \in [(1 .. N) \X S -> S]
  <2>1. ASSUME NEW a \in (1 .. N) \X S PROVE Decode(a[2].c, h \o SubSeq(d, 1, a[1])) \in S
    <3>1. a[1] \in 1 .. N /\ a[2].c \in Caches(backend, ctx)
      OBVIOUS
    <3> QED BY <1>1, <3>1, DecodeTyped
  <2> HIDE DEF S
  <2> QED BY <2>1
<1>3. start \in S
  OBVIOUS
<1> HIDE DEF S
<1>4. PICK f \in [0 .. N -> S] : Iterates(f, N, start, F)
  <2> HIDE DEF F, N
  <2> QED BY <1>0, <1>2, <1>3, Iterate
<1>5. f = [n \in 0 .. N |-> IF n = 0 THEN start ELSE Decode(f[n - 1].c, h \o SubSeq(d, 1, n))]
  <2>1. ASSUME NEW n \in 1 .. N PROVE f[n] = Decode(f[n - 1].c, h \o SubSeq(d, 1, n))
    <3>1. n - 1 \in 0 .. N
      BY <1>0
    <3>2. <<n, f[n - 1]>> \in (1 .. N) \X S
      BY <1>4, <3>1
    <3> QED BY <1>4, <3>2 DEF Iterates
  <2> HIDE DEF F, N
  <2> QED BY <1>0, <1>4, <2>1 DEF Iterates
<1> QED BY <1>5 DEF IsRun

(* Every step of it stands for the drafts up to there. *)
LEMMA RunStands ==
  ASSUME backend \in {"cpu", "graph"}, ctx \in Ctxs, NEW h \in Seq(Token), Len(h) > 0, NEW d \in Seq(Token),
         Len(h) + Len(d) <= ctx, NEW ok \in BOOLEAN, NEW start, Stands(backend, ctx, start, h, ok),
         NEW run, IsRun(run, start, h, d)
  PROVE  \A n \in 0 .. Len(d) : Stands(backend, ctx, run[n], h \o SubSeq(d, 1, n), ok)
<1> DEFINE N == Len(d)
           g == h \o d
           l == Len(h)
           T == {n \in 0 .. N : /\ Stands(backend, ctx, run[n], SubSeq(g, 1, l + n), ok)
                                /\ Sound(backend, ctx, run[n].c, g, l + n, ok)}
<1>0. N \in Nat /\ l \in Nat /\ l > 0 /\ g \in Seq(Token) /\ Len(g) = l + N /\ l + N <= ctx /\ ctx \in Nat
  <2>1. 0 \in 0 .. Len(d)
    BY LenProperties
  <2>2. g \in Seq(Token) /\ Len(g) = l + N /\ l \in Nat /\ N \in Nat
    BY <2>1, DraftPrefixes
  <2> QED BY <2>2, CapFacts
<1>1. \A n \in 0 .. N : h \o SubSeq(d, 1, n) = SubSeq(g, 1, l + n)
  BY DraftPrefixes
<1>2. h = SubSeq(g, 1, l)
  <2>1. 0 \in 0 .. Len(d)
    BY <1>0
  <2> QED BY <2>1, DraftPrefixes
<1> HIDE DEF g
<1>3. run[0] = start /\ \A n \in 1 .. N : run[n] = Decode(run[n - 1].c, h \o SubSeq(d, 1, n))
  <2>1. run = [n \in 0 .. N |-> IF n = 0 THEN start ELSE Decode(run[n - 1].c, h \o SubSeq(d, 1, n))]
    BY DEF IsRun
  <2> HIDE DEF N
  <2>2. run[0] = start
    BY <1>0, <2>1
  <2>3. ASSUME NEW n \in 1 .. N PROVE run[n] = Decode(run[n - 1].c, h \o SubSeq(d, 1, n))
    <3>1. n \in 0 .. N /\ n # 0
      OBVIOUS
    <3> QED BY <2>1, <3>1
  <2> QED BY <2>2, <2>3
<1>4. 0 \in T
  <2>1. l + 0 = l /\ l \in 0 .. Len(g) /\ l \in 0 .. l /\ 0 \in 0 .. N
    BY <1>0
  <2>2. Stands(backend, ctx, run[0], SubSeq(g, 1, l + 0), ok)
    BY <1>2, <1>3, <2>1
  <2>3. Sound(backend, ctx, run[0].c, SubSeq(g, 1, l), l, ok)
    BY <1>2, <1>3 DEF Stands
  <2>4. Sound(backend, ctx, run[0].c, g, l + 0, ok)
    BY <1>0, <2>1, <2>3, PrefixSound
  <2> QED BY <2>1, <2>2, <2>4
<1>5. ASSUME NEW n \in 0 .. N - 1, n \in T PROVE n + 1 \in T
  <2> DEFINE m == l + (n + 1)
  <2>1. m \in 1 .. Len(g) /\ m <= ctx /\ m - 1 = l + n /\ n + 1 \in 1 .. N /\ n + 1 \in 0 .. N /\ (n + 1) - 1 = n
    BY <1>0
  <2>2. run[n + 1] = Decode(run[n].c, SubSeq(g, 1, m))
    BY <1>1, <1>3, <2>1
  <2>3. Sound(backend, ctx, run[n].c, g, m - 1, ok)
    BY <1>5, <2>1
  <2> HIDE DEF m, N
  <2>4. Stands(backend, ctx, run[n + 1], SubSeq(g, 1, m), ok) /\ Sound(backend, ctx, run[n + 1].c, g, m, ok)
    BY <1>0, <2>1, <2>2, <2>3, DecodeNext
  <2> QED BY <2>1, <2>4 DEF m
<1> HIDE DEF T
<1>6. \A n \in 0 .. N : n \in T
  <2> HIDE DEF N
  <2> QED BY <1>0, <1>4, <1>5, InductUpTo, Zenon
<1> QED BY <1>1, <1>6 DEF T


-----------------------------------------------------------------------------
(* Payloads. *)

(* The raw rows a payload keeps. *)
LEMMA LiveFacts ==
  ASSUME NEW b \in {"cpu", "graph"}, NEW x \in Ctxs, NEW n \in Nat, n > 0
  PROVE  /\ RawLive(n) \in Nat /\ RawLive(n) <= n /\ RawLive(n) > 0 /\ RawLive(n) <= Cap(b, x)
         /\ From(n) = n - RawLive(n) /\ RawLive(n) = Lesser(Window, n)
         /\ Cap(b, x) \in Nat \ {0}
         /\ b = "cpu" => RawLive(n) = Lesser(Cap(b, x), n)
BY CapFacts DEF RawLive, Lesser, From

(* A payload of a session that stands for its checkpoint is the state of it. *)
LEMMA PayloadIs ==
  ASSUME backend \in {"cpu", "graph"}, ctx \in Ctxs, checkpoint \in Seq(Token), Len(checkpoint) \in 1 .. ctx,
         ragged \in BOOLEAN, Stands(backend, ctx, [c |-> cache, out |-> logits], checkpoint, ~ ragged)
  PROVE  PayloadStands(Payload)
<1> DEFINE n == Len(checkpoint)
           live == RawLive(n)
           C == Cap(backend, ctx)
           phys(i) == IF backend = "graph" THEN (n - live + i) % RawCap ELSE cache.n_raw - live + i
           raw == [i \in 0 .. live - 1 |-> cache.raw[phys(i)]]
           comp == [k \in Kinds |-> [i \in 0 .. cache.n_comp[k] - 1 |-> cache.comp[k][i]]]
           y == Payload
<1>0. /\ n \in Nat /\ n > 0 /\ n <= ctx /\ ctx \in Nat /\ cache \in Caches(backend, ctx)
      /\ Sound(backend, ctx, cache, checkpoint, n, ~ ragged) /\ logits \in Hist
      /\ ~ ragged => logits = checkpoint
  <2>1. n \in Nat /\ n > 0 /\ n <= ctx /\ ctx \in Nat
    BY LenProperties, CapFacts
  <2>2. Sound(backend, ctx, cache, checkpoint, n, ~ ragged)
    BY DEF Stands
  <2>3. logits \in Hist /\ (~ ragged => logits = checkpoint)
    BY DEF Stands
  <2> QED BY <2>1, <2>2, <2>3 DEF Sound
<1>1. /\ live \in Nat /\ live <= n /\ live > 0 /\ live <= C /\ From(n) = n - live /\ live = Lesser(Window, n)
      /\ C \in Nat \ {0} /\ RawCap = C
  BY <1>0, LiveFacts, RawCapIs
<1>2. /\ cache.raw \in [0 .. C - 1 -> Hist]
      /\ \A k \in Kinds : /\ cache.win[k] \in [0 .. Rows(k) - 1 -> Hist] /\ cache.n_comp[k] \in Nat
                          /\ cache.comp[k] \in [0 .. CompCap(ctx, k) - 1 -> Hist]
      /\ OnKinds(cache.n_comp) /\ OnKinds(cache.win)
  BY <1>0, FieldFacts
<1>3. RawAt(backend, ctx, cache, checkpoint, n, ~ ragged)
  BY <1>0 DEF Sound
<1>4. /\ y.tokens = checkpoint /\ y.logits = logits /\ y.ragged = ragged /\ y.raw = raw
      /\ y.n_comp = cache.n_comp /\ y.comp = comp /\ y.win = cache.win
  BY DEF Payload
<1> HIDE DEF y, C, live, n
<1>5. ASSUME NEW i \in 0 .. live - 1
      PROVE  /\ phys(i) \in 0 .. C - 1
             /\ ~ ragged => cache.raw[phys(i)] = At(checkpoint, n - live + i)
  <2> DEFINE q == n - live + i
  <2>1. q \in Nat /\ q \in From(n) .. n - 1 /\ q - From(n) = i
    <3>1. n \in Nat /\ live \in Nat /\ live <= n
      BY <1>0, <1>1
    <3>2. q \in Nat /\ q \in (n - live) .. n - 1 /\ q - (n - live) = i
      BY <3>1
    <3> QED BY <1>1, <3>2
  <2>2. CASE backend = "graph"
    <3>1. phys(i) = q % C
      BY <1>1, <2>2
    <3> HIDE DEF q, phys
    <3>2. q % C \in 0 .. C - 1
      BY <1>1, <2>1, DivMod, Zenon
    <3>3. ~ ragged => cache.raw[q % C] = At(checkpoint, q)
      BY <1>3, <2>1, <2>2 DEF RawAt, C
    <3> QED BY <3>1, <3>2, <3>3 DEF q
  <2>3. CASE backend = "cpu"
    <3>1. cache.n_raw = live
      BY <1>1, <1>3, <2>3 DEF RawAt
    <3>2. phys(i) = i /\ i \in 0 .. C - 1
      BY <1>1, <2>3, <3>1
    <3> HIDE DEF q, phys
    <3>3. ~ ragged => cache.raw[q - From(n)] = At(checkpoint, q)
      BY <1>3, <2>1, <2>3 DEF RawAt
    <3> QED BY <2>1, <3>2, <3>3 DEF q
  <2> QED BY <2>2, <2>3
<1> HIDE DEF phys
<1>6. raw \in [0 .. live - 1 -> Hist] /\ (~ ragged => \A i \in 0 .. live - 1 : raw[i] = At(checkpoint, n - live + i))
  BY <1>2, <1>5
<1>7. ASSUME NEW k \in Kinds
      PROVE  /\ cache.win[k] \in [0 .. Rows(k) - 1 -> Hist] /\ comp[k] \in [0 .. (n \div Ratio(k)) - 1 -> Hist]
             /\ cache.n_comp[k] = n \div Ratio(k)
             /\ ~ ragged =>
                  /\ \A i \in 0 .. (n \div Ratio(k)) - 1 : comp[k][i] = At(checkpoint, (i + 1) * Ratio(k) - 1)
                  /\ \A r \in 0 .. Half(k) + (n % Ratio(k)) - 1 :
                       cache.win[k][r] = Place(checkpoint, Whole(k, n) - Half(k) + r)
  <2> DEFINE lane == Lane(cache, k)
             m == n \div Ratio(k)
  <2>1. LaneAt(ctx, lane, k, checkpoint, n, ~ ragged)
    BY <1>0 DEF Sound
  <2>2. lane.win = cache.win[k] /\ lane.comp = cache.comp[k] /\ lane.n = cache.n_comp[k]
    BY LaneFacts
  <2> HIDE DEF lane
  <2>3. cache.n_comp[k] = m
    BY <2>1, <2>2 DEF LaneAt
  <2>4. m \in 0 .. CompCap(ctx, k) - 2 /\ CompCap(ctx, k) \in Nat
    BY <1>0, CompRoom
  <2>5. comp[k] = [i \in 0 .. m - 1 |-> cache.comp[k][i]]
    BY <2>3
  <2>6. /\ ~ ragged => \A i \in 0 .. m - 1 : cache.comp[k][i] = At(checkpoint, (i + 1) * Ratio(k) - 1)
        /\ ~ ragged => \A r \in 0 .. Half(k) + (n % Ratio(k)) - 1 :
                         cache.win[k][r] = Place(checkpoint, Whole(k, n) - Half(k) + r)
    BY <2>1, <2>2 DEF LaneAt
  <2>7. \A i \in 0 .. m - 1 : i \in 0 .. CompCap(ctx, k) - 1
    <3> HIDE DEF m
    <3> QED BY <2>4
  <2>8. \A i \in 0 .. m - 1 : cache.comp[k][i] \in Hist
    BY <1>2, <2>7
  <2> HIDE DEF comp, m
  <2>9. comp[k] \in [0 .. m - 1 -> Hist]
    BY <2>5, <2>8
  <2>10. ~ ragged => \A i \in 0 .. m - 1 : comp[k][i] = At(checkpoint, (i + 1) * Ratio(k) - 1)
    BY <2>5, <2>6
  <2> QED BY <1>2, <2>3, <2>6, <2>9, <2>10 DEF m
<1> HIDE DEF comp, raw
<1>8. PayloadStands(y)
  BY <1>0, <1>2, <1>4, <1>6, <1>7 DEF PayloadStands, live, n
<1> QED BY <1>8 DEF y


(* A place in the ring and the row of the window it holds. *)
LEMMA RingPlace ==
  ASSUME NEW C \in Nat \ {0}, NEW a \in Nat, NEW j \in 0 .. C - 1
  PROVE  (((a + j) % C) + C - (a % C)) % C = j
<1> DEFINE r == a % C
           m == a \div C
           e == C - r
<1>1. r \in 0 .. C - 1 /\ m \in Nat /\ a = m * C + r /\ m * C \in Nat
  BY DivMod, Zenon
<1> HIDE DEF r, m
<1>2. e \in Nat /\ a + j \in Nat /\ (a + j) % C \in 0 .. C - 1
  <2>1. e \in Nat /\ a + j \in Nat
    BY <1>1
  <2> HIDE DEF e
  <2> QED BY <2>1, DivMod, Zenon
<1>3. (((a + j) % C) + e) % C = ((a + j) + e) % C
  <2> DEFINE s == a + j
  <2>1. s \in Nat /\ e \in Nat
    BY <1>2
  <2> HIDE DEF s, e
  <2>2. ((s % C) + e) % C = (s + e) % C
    BY <2>1, ModOfSum, Zenon
  <2> QED BY <2>2 DEF s
<1>4. (a + j) + e = j + (m + 1) * C
  <2>1. (m + 1) * C = m * C + C
    BY <1>1
  <2> QED BY <1>1, <2>1
<1>5. (j + (m + 1) * C) % C = j % C
  <2>1. j \in Nat /\ m + 1 \in Nat
    BY <1>1
  <2> QED BY <2>1, DivAddWhole, Zenon
<1>6. j % C = j
  <2>1. j \in Nat /\ 0 \in Nat /\ j = 0 * C + j
    OBVIOUS
  <2> QED BY <2>1, DivModIs, Zenon
<1>7. ((a + j) % C) + C - r = ((a + j) % C) + e
  <2> DEFINE s == (a + j) % C
  <2>1. s \in Nat
    BY <1>2
  <2> HIDE DEF s
  <2>2. s + C - r = s + e
    BY <1>1, <2>1
  <2> QED BY <2>2 DEF s
<1> QED BY <1>3, <1>4, <1>5, <1>6, <1>7 DEF r

(* A payload laid over any cache stands for its tokens. *)
LEMMA RestoredStands ==
  ASSUME backend \in {"cpu", "graph"}, ctx \in Ctxs, NEW y, PayloadStands(y),
         Len(y.tokens) \in 1 .. ctx, NEW c \in Caches(backend, ctx)
  PROVE  Sound(backend, ctx, Restored(c, y), y.tokens, Len(y.tokens), ~ y.ragged)
<1> DEFINE h == y.tokens
           n == Len(h)
           live == RawLive(n)
           C == Cap(backend, ctx)
           base == IF backend = "graph" THEN (n - live) % RawCap ELSE 0
           j(i) == (i + RawCap - base) % RawCap
           d == Restored(c, y)
           raw == [i \in DOMAIN c.raw |-> IF j(i) < live THEN y.raw[j(i)] ELSE c.raw[i]]
           n_raw == IF backend = "cpu" THEN live ELSE 0
           comp == [k \in Kinds |-> [i \in DOMAIN c.comp[k] |->
                      IF i < y.n_comp[k] THEN y.comp[k][i] ELSE c.comp[k][i]]]
           num == y.n_comp
           win == y.win
           ok == ~ y.ragged
<1>0. /\ h \in Seq(Token) /\ n \in Nat /\ n > 0 /\ n <= ctx /\ ctx \in Nat /\ ok \in BOOLEAN
      /\ y.raw \in [0 .. live - 1 -> Hist] /\ OnKinds(num) /\ OnKinds(win)
      /\ ok => \A i \in 0 .. live - 1 : y.raw[i] = At(h, n - live + i)
      /\ \A k \in Kinds :
           /\ win[k] \in [0 .. Rows(k) - 1 -> Hist]
           /\ y.comp[k] \in [0 .. (n \div Ratio(k)) - 1 -> Hist]
           /\ num[k] = n \div Ratio(k)
           /\ ok =>
                /\ \A i \in 0 .. (n \div Ratio(k)) - 1 : y.comp[k][i] = At(h, (i + 1) * Ratio(k) - 1)
                /\ \A r \in 0 .. Half(k) + (n % Ratio(k)) - 1 : win[k][r] = Place(h, Whole(k, n) - Half(k) + r)
  <2>1. n \in Nat /\ n > 0 /\ n <= ctx /\ ctx \in Nat
    BY CapFacts
  <2>2. PayloadStands(y)
    OBVIOUS
  <2> QED BY <2>1, <2>2 DEF PayloadStands
<1>1. /\ live \in Nat /\ live <= n /\ live > 0 /\ live <= C /\ From(n) = n - live /\ live = Lesser(Window, n)
      /\ C \in Nat \ {0} /\ RawCap = C
  BY <1>0, LiveFacts, RawCapIs
<1>2. /\ c.raw \in [0 .. C - 1 -> Hist]
      /\ \A k \in Kinds : c.comp[k] \in [0 .. CompCap(ctx, k) - 1 -> Hist]
  BY FieldFacts
<1>3. Recorded(c)
  BY CacheFacts
<1>4. d = [c EXCEPT !.raw = raw, !.n_raw = n_raw, !.comp = comp, !.n_comp = num, !.win = win]
  BY DEF Restored
<1>5. d = [raw |-> raw, n_raw |-> n_raw, comp |-> comp, n_comp |-> num, win |-> win]
  <2> HIDE DEF d, raw, n_raw, comp, num, win
  <2> QED BY <1>3, <1>4 DEF Recorded
<1> HIDE DEF C, live, n, h, d
<1>6. base \in 0 .. C - 1
  <2>1. CASE backend = "graph"
    <3>1. n - live \in Nat
      BY <1>0, <1>1
    <3> DEFINE a == n - live
    <3>2. base = a % C
      BY <1>1, <2>1
    <3> HIDE DEF a, base
    <3> QED BY <1>1, <3>1, <3>2, DivMod, Zenon DEF a
  <2>2. CASE backend # "graph"
    BY <1>1, <2>2
  <2> QED BY <2>1, <2>2
<1> HIDE DEF base
<1>7. ASSUME NEW i \in 0 .. C - 1 PROVE j(i) \in 0 .. C - 1
  <2> DEFINE s == i + C - base
  <2>1. s \in Nat
    BY <1>1, <1>6
  <2> HIDE DEF s
  <2>2. s % C \in 0 .. C - 1
    BY <1>1, <2>1, DivMod, Zenon
  <2> QED BY <1>1, <2>2 DEF s
<1> HIDE DEF j
<1>8. raw \in [0 .. C - 1 -> Hist] /\ \A i \in 0 .. C - 1 : j(i) < live => raw[i] = y.raw[j(i)]
  <2>1. raw = [i \in 0 .. C - 1 |-> IF j(i) < live THEN y.raw[j(i)] ELSE c.raw[i]]
    BY <1>2
  <2>2. ASSUME NEW i \in 0 .. C - 1 PROVE (IF j(i) < live THEN y.raw[j(i)] ELSE c.raw[i]) \in Hist
    <3>1. CASE j(i) < live
      <4>1. j(i) \in 0 .. live - 1
        BY <1>1, <1>7, <3>1
      <4> QED BY <1>0, <3>1, <4>1
    <3>2. CASE ~ (j(i) < live)
      BY <1>2, <3>2
    <3> QED BY <3>1, <3>2
  <2> HIDE DEF raw
  <2> QED BY <2>1, <2>2
<1> HIDE DEF raw
<1>9. ASSUME NEW k \in Kinds
      PROVE  /\ comp[k] \in [0 .. CompCap(ctx, k) - 1 -> Hist]
             /\ \A i \in 0 .. (n \div Ratio(k)) - 1 : comp[k][i] = y.comp[k][i]
  <2> DEFINE m == n \div Ratio(k)
             I == 0 .. CompCap(ctx, k) - 1
  <2>1. m \in 0 .. CompCap(ctx, k) - 2 /\ CompCap(ctx, k) \in Nat
    BY <1>0, CompRoom
  <2>2. /\ num[k] = m /\ c.comp[k] \in [I -> Hist]
        /\ y.comp[k] \in [0 .. m - 1 -> Hist]
    BY <1>0, <1>2
  <2>3. comp[k] = [i \in I |-> IF i < m THEN y.comp[k][i] ELSE c.comp[k][i]]
    BY <2>2
  <2>4. (\A i \in I : i < m => i \in 0 .. m - 1) /\ (\A i \in 0 .. m - 1 : i \in I /\ i < m)
    <3> HIDE DEF m
    <3> QED BY <2>1
  <2> HIDE DEF m, I, comp
  <2>5. ASSUME NEW i \in I PROVE (IF i < m THEN y.comp[k][i] ELSE c.comp[k][i]) \in Hist
    BY <2>2, <2>4
  <2>6. comp[k] \in [I -> Hist]
    BY <2>3, <2>5
  <2>7. \A i \in 0 .. m - 1 : comp[k][i] = y.comp[k][i]
    BY <2>3, <2>4
  <2> QED BY <2>6, <2>7 DEF m, I
<1>10. OnKinds(comp)
  BY DEF OnKinds
<1>11. n_raw \in Nat /\ (backend = "cpu" => n_raw = live)
  BY <1>1
<1> HIDE DEF n_raw, comp, num, win
<1>12. \A k \in Kinds : /\ win[k] \in [0 .. Rows(k) - 1 -> Hist] /\ num[k] \in Nat
                        /\ comp[k] \in [0 .. CompCap(ctx, k) - 1 -> Hist]
  <2>1. ASSUME NEW k \in Kinds PROVE num[k] \in Nat
    BY <1>0, WholeFacts
  <2> QED BY <1>0, <1>9, <2>1
<1>13. /\ d \in Caches(backend, ctx) /\ d.raw = raw /\ d.n_raw = n_raw
       /\ \A k \in Kinds : /\ Lane(d, k) \in Lanes(ctx, k)
                           /\ Lane(d, k).win = win[k] /\ Lane(d, k).comp = comp[k] /\ Lane(d, k).n = num[k]
  <2>1. d = [raw |-> raw, n_raw |-> n_raw, comp |-> comp, n_comp |-> num, win |-> win]
    BY <1>5
  <2>2. raw \in [0 .. Cap(backend, ctx) - 1 -> Hist] /\ n_raw \in Nat
    BY <1>8, <1>11 DEF C
  <2>3. OnKinds(comp) /\ OnKinds(num) /\ OnKinds(win)
    BY <1>0, <1>10
  <2> HIDE DEF d, C
  <2> QED BY <1>12, <2>1, <2>2, <2>3, CacheMade
<1>14. ASSUME NEW k \in Kinds PROVE LaneAt(ctx, Lane(d, k), k, h, n, ok)
  <2>1. Lane(d, k) \in Lanes(ctx, k) /\ Lane(d, k).n = n \div Ratio(k)
    BY <1>0, <1>13
  <2>2. ok => \A i \in 0 .. (n \div Ratio(k)) - 1 : Lane(d, k).comp[i] = At(h, (i + 1) * Ratio(k) - 1)
    BY <1>0, <1>9, <1>13
  <2>3. ok => \A r \in 0 .. Half(k) + (n % Ratio(k)) - 1 : Lane(d, k).win[r] = Place(h, Whole(k, n) - Half(k) + r)
    BY <1>0, <1>13
  <2> QED BY <2>1, <2>2, <2>3 DEF LaneAt
<1>15. RawAt(backend, ctx, d, h, n, ok)
  <2>1. ASSUME ok, NEW q \in From(n) .. n - 1
        PROVE  d.raw[IF backend = "cpu" THEN q - From(n) ELSE q % C] = At(h, q)
    <3> DEFINE a == n - live
               i == q - a
    <3>1. a \in Nat /\ i \in 0 .. live - 1 /\ i \in 0 .. C - 1 /\ q = a + i /\ From(n) = a /\ i < live
      <4>1. n \in Nat /\ live \in Nat /\ live <= n /\ live <= C /\ C \in Nat
        BY <1>0, <1>1
      <4>2. q \in (n - live) .. n - 1 /\ From(n) = n - live
        BY <1>1
      <4>3. a \in Nat /\ i \in 0 .. live - 1 /\ q = a + i
        BY <4>1, <4>2
      <4> HIDE DEF i
      <4>4. i \in 0 .. C - 1 /\ i < live
        BY <4>1, <4>3
      <4> QED BY <4>2, <4>3, <4>4
    <3>2. y.raw[i] = At(h, q)
      BY <1>0, <2>1, <3>1
    <3> HIDE DEF a, i
    <3>3. CASE backend = "cpu"
      <4>1. base = 0
        BY <3>3 DEF base
      <4>2. j(i) = (i + C) % C /\ q - From(n) = i
        BY <1>1, <3>1, <4>1 DEF j
      <4>3. (i + 1 * C) % C = i % C /\ i % C = i
        <5>1. i \in Nat /\ 1 \in Nat /\ 0 \in Nat /\ i = 0 * C + i /\ i \in 0 .. C - 1 /\ C \in Nat \ {0}
          BY <1>1, <3>1
        <5>2. (i + 1 * C) % C = i % C
          BY <1>1, <5>1, DivAddWhole, Zenon
        <5>3. i % C = i
          BY <5>1, DivModIs, Zenon
        <5> QED BY <5>2, <5>3
      <4>4. 1 * C = C
        BY <1>1
      <4>5. j(i) = i
        BY <4>2, <4>3, <4>4
      <4>6. raw[i] = y.raw[i]
        BY <1>8, <3>1, <4>5
      <4> QED BY <1>13, <3>2, <3>3, <4>2, <4>6
    <3>4. CASE backend # "cpu"
      <4>1. backend = "graph"
        BY <3>4
      <4>2. base = a % C
        BY <1>1, <4>1 DEF base, a
      <4> DEFINE s == (a + i) % C
      <4>3. s \in 0 .. C - 1
        <5>1. a + i \in Nat
          BY <3>1
        <5> QED BY <1>1, <5>1, DivMod, Zenon
      <4>4. (s + C - (a % C)) % C = i
        BY <1>1, <3>1, RingPlace, Zenon
      <4>5. j(s) = i
        <5> HIDE DEF s
        <5> QED BY <1>1, <4>2, <4>4 DEF j
      <4>6. s = q % C
        BY <3>1
      <4> HIDE DEF s
      <4>7. raw[s] = y.raw[i]
        BY <1>8, <3>1, <4>3, <4>5
      <4> QED BY <1>13, <3>2, <3>4, <4>6, <4>7
    <3> QED BY <3>3, <3>4
  <2>2. backend = "cpu" => d.n_raw = Lesser(Window, n)
    BY <1>1, <1>11, <1>13
  <2> QED BY <2>1, <2>2 DEF RawAt, C
<1>16. Sound(backend, ctx, d, h, n, ok)
  BY <1>13, <1>14, <1>15 DEF Sound
<1> QED BY <1>16 DEF d, h, n


-----------------------------------------------------------------------------
(* The invariant holds at first and every call and every step of a call      *)
(* keeps it.                                                                 *)

(* What the invariant says of a session that may be used. *)
LEMMA SessionFacts ==
  ASSUME SessionInv
  PROVE  /\ backend \in {"cpu", "graph"} /\ ctx \in Ctxs /\ ctx \in Nat /\ ctx > Chunk
         /\ checkpoint \in Seq(Token) /\ Len(checkpoint) \in Nat
         /\ ragged \in BOOLEAN /\ cache \in Caches(backend, ctx) /\ logits \in Hist
         /\ checkpoint_valid =>
              /\ Len(checkpoint) \in 1 .. ctx
              /\ Stands(backend, ctx, [c |-> cache, out |-> logits], checkpoint, ~ ragged)
              /\ Sound(backend, ctx, cache, checkpoint, Len(checkpoint), ~ ragged)
<1>1. /\ backend \in {"cpu", "graph"} /\ ctx \in Ctxs /\ checkpoint \in Seq(Token)
      /\ ragged \in BOOLEAN /\ cache \in Caches(backend, ctx) /\ logits \in Hist
  BY SizesAssumption DEF SessionInv, TypeOK
<1>2. ctx \in Nat /\ ctx > Chunk /\ Len(checkpoint) \in Nat
  BY <1>1, CapFacts, LenProperties
<1>3. ASSUME checkpoint_valid
      PROVE  /\ Len(checkpoint) \in 1 .. ctx
             /\ Stands(backend, ctx, [c |-> cache, out |-> logits], checkpoint, ~ ragged)
  <2>1. checkpoint # <<>> /\ Len(checkpoint) <= ctx
    BY <1>3 DEF SessionInv, CacheStands
  <2>2. Len(checkpoint) # 0
    BY <1>1, <2>1, EmptySeq
  <2>3. Stands(backend, ctx, [c |-> cache, out |-> logits], checkpoint, ~ ragged)
    BY <1>3 DEF SessionInv, CacheStands
  <2> QED BY <1>2, <2>1, <2>2, <2>3
<1>4. ASSUME checkpoint_valid PROVE Sound(backend, ctx, cache, checkpoint, Len(checkpoint), ~ ragged)
  BY <1>3, <1>4 DEF Stands
<1> QED BY <1>1, <1>2, <1>3, <1>4

(* A session that has become what a forward pass gave. *)
LEMMA BecomeStands ==
  ASSUME backend \in Backends, ctx \in Ctxs, UNCHANGED <<backend, ctx>>, ragged' \in BOOLEAN,
         NEW h \in Seq(Token), Len(h) \in 1 .. ctx, NEW r, Stands(backend, ctx, r, h, ~ ragged'), Become(h, r)
  PROVE  TypeOK' /\ CacheStands'
<1>1. /\ checkpoint' = h /\ checkpoint_valid' = TRUE /\ logits' = r.out /\ cache' = r.c
      /\ backend' = backend /\ ctx' = ctx
  BY DEF Become
<1>2. Sound(backend, ctx, r.c, h, Len(h), ~ ragged') /\ r.out \in Hist /\ (~ ragged' => r.out = h)
  BY DEF Stands
<1>3. r.c \in Caches(backend, ctx)
  BY <1>2 DEF Sound
<1>4. TypeOK'
  BY <1>1, <1>2, <1>3 DEF TypeOK
<1>5. h # <<>> /\ Len(h) <= ctx
  <2>1. Len(<<>>) = 0 /\ ctx \in Nat
    BY EmptySeq, SizesAssumption
  <2> QED BY <2>1
<1>6. Stands(backend', ctx', [c |-> cache', out |-> logits'], checkpoint', ~ ragged')
  BY <1>1, <1>2 DEF Stands
<1>7. CacheStands'
  BY <1>1, <1>5, <1>6 DEF CacheStands
<1> QED BY <1>4, <1>7

(* Nothing speculated, nothing claimed. *)
LEMMA NothingEmitted ==
  ASSUME emitted' = <<>>
  PROVE  SpeculationIsGreedy'
BY DEF SpeculationIsGreedy

(* Slots that do not change. *)
LEMMA SlotsKept ==
  ASSUME SlotsStand, slot' = slot
  PROVE  SlotsStand'
BY DEF SlotsStand

(* The first state. *)
LEMMA InitStands ==
  ASSUME Init
  PROVE  SessionInv
<1>1. backend \in {"cpu", "graph"} /\ backend \in Backends /\ ctx \in Ctxs
  BY SizesAssumption DEF Init
<1>2. cache \in Caches(backend, ctx)
  <2>1. EmptyCache(backend, ctx) \in Caches(backend, ctx)
    BY <1>1, EmptyCacheStands
  <2> QED BY <2>1 DEF Init
<1>3. <<>> \in Seq(Token) /\ <<>> \in Hist
  BY EmptySeq DEF Hist
<1>4. TypeOK
  BY <1>1, <1>2, <1>3 DEF Init, TypeOK
<1>5. CacheStands /\ JobStands
  BY DEF Init, CacheStands, JobStands
<1>6. SlotsStand
  BY DEF Init, SlotsStand
<1>7. SpeculationIsGreedy
  BY DEF Init, SpeculationIsGreedy
<1> QED BY <1>4, <1>5, <1>6, <1>7 DEF SessionInv

(* Another session: nothing is cached and nothing is claimed. *)
LEMMA RecreateStep ==
  ASSUME SessionInv, NEW b \in Backends, NEW x \in Ctxs, Recreate(b, x)
  PROVE  SessionInv'
<1>1. /\ backend' = b /\ ctx' = x /\ checkpoint' = <<>> /\ checkpoint_valid' = FALSE /\ logits' = <<>>
      /\ cache' = EmptyCache(b, x) /\ emitted' = <<>> /\ ragged' = FALSE /\ job' = job /\ slot' = slot
      /\ job = NoJob
  BY DEF Recreate, Idle
<1>2. EmptyCache(b, x) \in Caches(b, x)
  BY SizesAssumption, EmptyCacheStands
<1>3. <<>> \in Seq(Token) /\ <<>> \in Hist
  BY EmptySeq DEF Hist
<1>4. TypeOK'
  BY <1>1, <1>2, <1>3 DEF TypeOK
<1>5. CacheStands' /\ JobStands'
  BY <1>1 DEF CacheStands, JobStands
<1>6. SlotsStand' /\ SpeculationIsGreedy'
  BY <1>1, SlotsKept, NothingEmitted DEF SessionInv
<1> QED BY <1>4, <1>5, <1>6 DEF SessionInv

(* A checkpoint that can no longer be trusted claims nothing. *)
LEMMA LostStep ==
  ASSUME SessionInv, UNCHANGED <<backend, ctx, ragged, slot>>, checkpoint' \in Seq(Token),
         checkpoint_valid' = FALSE, logits' \in Hist, cache' \in Caches(backend, ctx),
         job' = NoJob, emitted' = <<>>
  PROVE  SessionInv'
<1>1. TypeOK'
  BY DEF SessionInv, TypeOK
<1>2. CacheStands' /\ JobStands'
  BY DEF CacheStands, JobStands
<1>3. SlotsStand' /\ SpeculationIsGreedy'
  BY SlotsKept, NothingEmitted DEF SessionInv
<1> QED BY <1>1, <1>2, <1>3 DEF SessionInv

(* Between two calls nothing is under way; in a call nothing is emitted. *)
LEMMA JobFacts ==
  ASSUME SessionInv
  PROVE  job # NoJob => emitted = <<>> /\ job.kind \in {"chunks", "tokens"}
BY DEF SessionInv, JobStands

(* Failures and invalidations. *)
LEMMA FailSteps ==
  ASSUME SessionInv,
         \/ \E p \in Prompts : SyncWholeFails(p)
         \/ SyncFails \/ EvalFails \/ Invalidate
  PROVE  SessionInv'
<1>0. cache \in Caches(backend, ctx) /\ Torn(cache) \in Caches(backend, ctx)
  BY SessionFacts, TornTyped
<1>1. CASE \E p \in Prompts : SyncWholeFails(p)
  <2>1. /\ UNCHANGED <<backend, ctx, ragged, slot, checkpoint, logits>> /\ checkpoint_valid' = FALSE
        /\ cache' = Torn(cache) /\ job' = NoJob /\ emitted' = <<>>
    BY <1>1 DEF SyncWholeFails, Call, Idle, Lose
  <2> QED BY <1>0, <2>1, SessionFacts, LostStep
<1>2. CASE SyncFails
  <2>1. /\ UNCHANGED <<backend, ctx, ragged, slot, checkpoint, logits>> /\ checkpoint_valid' = FALSE
        /\ cache' = Torn(cache) /\ job' = NoJob /\ emitted' = emitted /\ job # NoJob
    BY <1>2 DEF SyncFails, Idle, Lose
  <2> QED BY <1>0, <2>1, SessionFacts, JobFacts, LostStep
<1>3. CASE EvalFails
  <2>1. /\ UNCHANGED <<backend, ctx, ragged, slot, checkpoint, logits>> /\ checkpoint_valid' = FALSE
        /\ cache' = Torn(cache) /\ job' = NoJob /\ emitted' = <<>>
    BY <1>3 DEF EvalFails, Call, Idle, Lose
  <2> QED BY <1>0, <2>1, SessionFacts, LostStep
<1>4. CASE Invalidate
  <2>1. /\ UNCHANGED <<backend, ctx, ragged, slot, logits, cache>> /\ checkpoint' = <<>>
        /\ checkpoint_valid' = FALSE /\ job' = NoJob /\ emitted' = <<>>
    BY <1>4 DEF Invalidate, Call, Idle
  <2>2. <<>> \in Seq(Token)
    BY EmptySeq
  <2> QED BY <1>0, <2>1, <2>2, SessionFacts, LostStep
<1> QED BY <1>1, <1>2, <1>3, <1>4


(* A prompt in one pass. *)
LEMMA SyncWholeStep ==
  ASSUME SessionInv, NEW prompt \in Prompts, SyncWhole(prompt)
  PROVE  SessionInv'
<1>0. prompt \in Seq(Token) /\ Len(prompt) \in Nat /\ Len(prompt) # 0
  BY PromptsAssumption, EmptySeq, LenProperties
<1>1. /\ UNCHANGED <<backend, ctx, slot>> /\ Len(prompt) < ctx /\ job' = NoJob /\ emitted' = <<>>
  BY DEF SyncWhole, Call, Idle
<1>2. /\ backend \in {"cpu", "graph"} /\ backend \in Backends /\ ctx \in Ctxs /\ ctx \in Nat
      /\ cache \in Caches(backend, ctx)
  BY SessionFacts DEF SessionInv, TypeOK
<1>3. Len(prompt) \in 1 .. ctx
  BY <1>0, <1>1, <1>2
<1>4. \E r : Become(prompt, r) /\ ragged' \in BOOLEAN /\ Stands(backend, ctx, r, prompt, ~ ragged')
  <2>1. CASE backend = "cpu"
    <3>1. Become(prompt, CpuPrefill(prompt)) /\ ragged' = FALSE
      BY <2>1 DEF SyncWhole
    <3>2. Stands(backend, ctx, CpuPrefill(prompt), prompt, TRUE)
      BY <1>0, <1>2, <1>3, <2>1, CpuPrefillStands
    <3> QED BY <3>1, <3>2
  <2>2. CASE backend = "graph"
    <3>1. /\ Len(prompt) \in FineRatio .. Chunk /\ Become(prompt, Batch(cache, prompt, 0))
          /\ ragged' = (Len(prompt) % FineRatio # 0)
      BY <2>2 DEF SyncWhole
    <3> DEFINE ok == ~ ragged'
    <3>2. /\ ok \in BOOLEAN /\ (ok => Len(prompt) % FineRatio = 0)
      BY <3>1
    <3>3. 0 \in Nat /\ Len(prompt) - 0 \in 1 .. Chunk /\ Len(prompt) >= FineRatio /\ Len(prompt) <= ctx
      <4>1. FineRatio \in Nat /\ Chunk \in Nat
        BY SizesAssumption
      <4> QED BY <1>0, <1>3, <3>1, <4>1
    <3> HIDE DEF ok
    <3>4. Stands(backend, ctx, Batch(cache, prompt, 0), prompt, ok)
      BY <1>0, <1>2, <2>2, <3>2, <3>3, BatchStands
    <3> QED BY <3>1, <3>4 DEF ok
  <2> QED BY <1>2, <2>1, <2>2
<1>5. TypeOK' /\ CacheStands'
  BY <1>0, <1>1, <1>2, <1>3, <1>4, BecomeStands
<1>6. JobStands' /\ SlotsStand' /\ SpeculationIsGreedy'
  BY <1>1, SlotsKept, NothingEmitted DEF SessionInv, JobStands
<1> QED BY <1>5, <1>6 DEF SessionInv

(* One token decoded after the checkpoint. *)
LEMMA TokenStands ==
  ASSUME SessionInv, checkpoint_valid, NEW h \in Seq(Token), Len(h) = Len(checkpoint) + 1, Len(h) <= ctx,
         SubSeq(h, 1, Len(checkpoint)) = checkpoint
  PROVE  Stands(backend, ctx, Decode(cache, h), h, ~ ragged) /\ Len(h) \in 1 .. ctx
<1> DEFINE n == Len(checkpoint)
           ok == ~ ragged
<1>1. /\ backend \in {"cpu", "graph"} /\ ctx \in Ctxs /\ ctx \in Nat /\ n \in Nat
      /\ Sound(backend, ctx, cache, checkpoint, n, ok) /\ ok \in BOOLEAN
  BY SessionFacts
<1> HIDE DEF n, ok
<1>2. n \in 0 .. Len(h) /\ Len(h) - 1 = n /\ Len(h) \in 1 .. ctx /\ SubSeq(h, 1, n) = checkpoint
  BY <1>1 DEF n
<1>3. Sound(backend, ctx, cache, h, n, ok)
  <2>1. Sound(backend, ctx, cache, SubSeq(h, 1, n), n, ok)
    BY <1>1, <1>2
  <2> QED BY <1>1, <1>2, <2>1, SoundOfPrefix
<1>4. Stands(backend, ctx, Decode(cache, h), h, ok)
  BY <1>1, <1>2, <1>3, DecodeStands
<1> QED BY <1>2, <1>4 DEF ok

(* ds4_session_eval *)
LEMMA EvalStep ==
  ASSUME SessionInv, NEW t \in Token, Eval(t)
  PROVE  SessionInv'
<1> DEFINE h == Append(checkpoint, t)
<1>1. /\ UNCHANGED <<backend, ctx, slot, ragged>> /\ checkpoint_valid /\ Len(checkpoint) < ctx
      /\ job' = NoJob /\ emitted' = <<>> /\ Become(h, Decode(cache, h))
  BY DEF Eval, Call, Idle
<1>2. /\ backend \in Backends /\ ctx \in Ctxs /\ ctx \in Nat /\ checkpoint \in Seq(Token) /\ ragged \in BOOLEAN
      /\ Len(checkpoint) \in Nat
  BY SessionFacts DEF SessionInv, TypeOK
<1>3. h \in Seq(Token) /\ Len(h) = Len(checkpoint) + 1 /\ SubSeq(h, 1, Len(checkpoint)) = checkpoint
  BY <1>2, Appended
<1> HIDE DEF h
<1>4. Len(h) <= ctx
  BY <1>1, <1>2, <1>3
<1>5. Stands(backend, ctx, Decode(cache, h), h, ~ ragged) /\ Len(h) \in 1 .. ctx
  BY <1>1, <1>3, <1>4, TokenStands
<1>6. TypeOK' /\ CacheStands'
  BY <1>1, <1>2, <1>3, <1>5, BecomeStands
<1>7. JobStands' /\ SlotsStand' /\ SpeculationIsGreedy'
  BY <1>1, SlotsKept, NothingEmitted DEF SessionInv, JobStands
<1> QED BY <1>6, <1>7 DEF SessionInv

(* A sync that goes on token by token. *)
LEMMA SyncTokensStep ==
  ASSUME SessionInv, NEW prompt \in Prompts, SyncTokens(prompt)
  PROVE  SessionInv'
<1>1. /\ UNCHANGED <<backend, ctx, slot, checkpoint, checkpoint_valid, logits, cache, ragged>>
      /\ Len(prompt) < ctx /\ checkpoint_valid /\ SubSeq(prompt, 1, Len(checkpoint)) = checkpoint
      /\ Len(prompt) - Len(checkpoint) > 0 /\ emitted' = <<>>
      /\ job' = [kind |-> "tokens", prompt |-> prompt]
  BY DEF SyncTokens, Call, session, Extends, Suffix
<1>2. Len(checkpoint) < Len(prompt)
  BY <1>1, SessionFacts, PromptsAssumption, LenProperties
<1>3. TypeOK' /\ CacheStands'
  BY <1>1 DEF SessionInv, TypeOK, CacheStands
<1>4. JobStands'
  BY <1>1, <1>2 DEF JobStands
<1>5. SlotsStand' /\ SpeculationIsGreedy'
  BY <1>1, SlotsKept, NothingEmitted DEF SessionInv
<1> QED BY <1>3, <1>4, <1>5 DEF SessionInv

(* A sync that goes on in chunks, from the checkpoint or from nothing. *)
LEMMA SyncChunksStep ==
  ASSUME SessionInv, NEW prompt \in Prompts, SyncChunks(prompt)
  PROVE  SessionInv'
<1> DEFINE from == IF Extends(prompt) THEN Len(checkpoint) ELSE 0
<1>0. prompt \in Seq(Token) /\ Len(prompt) \in Nat /\ Len(prompt) # 0 /\ Chunk \in Nat /\ ResumeMin \in Nat \ {0}
  BY PromptsAssumption, EmptySeq, LenProperties, SizesAssumption
<1>1. /\ UNCHANGED <<backend, ctx, slot, checkpoint, checkpoint_valid, logits, cache, ragged>>
      /\ Len(prompt) < ctx /\ backend = "graph" /\ emitted' = <<>>
      /\ job' = [kind |-> "chunks", prompt |-> prompt, start |-> from, pos |-> from]
  BY DEF SyncChunks, Call, session
<1>2. \/ Extends(prompt) /\ Suffix(prompt) >= ResumeMin
      \/ ~ Extends(prompt) /\ Len(prompt) > Chunk
  BY DEF SyncChunks
<1>3. /\ from \in Nat /\ from < Len(prompt) /\ (from = 0 => Len(prompt) > Chunk)
      /\ from # 0 => checkpoint_valid /\ checkpoint = SubSeq(prompt, 1, from)
  <2>1. CASE ~ Extends(prompt)
    BY <1>0, <1>2, <2>1
  <2>2. CASE Extends(prompt)
    <3>1. /\ checkpoint_valid /\ SubSeq(prompt, 1, Len(checkpoint)) = checkpoint /\ from = Len(checkpoint)
          /\ Len(prompt) - Len(checkpoint) >= ResumeMin
      BY <1>2, <2>2 DEF Extends, Suffix
    <3>2. Len(checkpoint) \in 1 .. ctx /\ ctx \in Nat
      BY <3>1, SessionFacts
    <3> HIDE DEF from
    <3> QED BY <1>0, <3>1, <3>2
  <2> QED BY <2>1, <2>2
<1> HIDE DEF from
<1>4. TypeOK' /\ CacheStands'
  BY <1>1 DEF SessionInv, TypeOK, CacheStands
<1>5. JobStands'
  <2>1. job' \in [kind : {"chunks"}, prompt : Prompts, start : Nat, pos : Nat]
    BY <1>1, <1>3
  <2>2. job'.prompt = prompt /\ job'.start = from /\ job'.pos = from
    BY <1>1
  <2> QED BY <1>1, <1>3, <2>1, <2>2 DEF JobStands
<1>6. SlotsStand' /\ SpeculationIsGreedy'
  BY <1>1, SlotsKept, NothingEmitted DEF SessionInv
<1> QED BY <1>4, <1>5, <1>6 DEF SessionInv


(* The next token of a sync. *)
LEMMA TokenSyncedStep ==
  ASSUME SessionInv, TokenSynced
  PROVE  SessionInv'
<1> DEFINE prompt == job.prompt
           n == Len(checkpoint)
           h == SubSeq(prompt, 1, n + 1)
<1>1. /\ UNCHANGED <<backend, ctx, slot, ragged, emitted>> /\ job.kind = "tokens"
      /\ Become(h, Decode(cache, h)) /\ job' = IF h = prompt THEN NoJob ELSE job
  BY DEF TokenSynced
<1>2. /\ job \in [kind : {"tokens"}, prompt : Prompts] /\ emitted = <<>> /\ checkpoint_valid
      /\ Len(prompt) < ctx /\ n < Len(prompt) /\ checkpoint = SubSeq(prompt, 1, n)
  <2>1. job # NoJob
    BY <1>1 DEF NoJob
  <2>2. job \notin [kind : {"chunks"}, prompt : Prompts, start : Nat, pos : Nat]
    BY <1>1
  <2> QED BY <2>1, <2>2 DEF SessionInv, JobStands
<1>3. /\ backend \in Backends /\ ctx \in Ctxs /\ ctx \in Nat /\ n \in Nat /\ ragged \in BOOLEAN
  BY SessionFacts DEF SessionInv, TypeOK
<1>4. prompt \in Prompts /\ prompt \in Seq(Token) /\ Len(prompt) \in Nat
  BY <1>2, PromptsAssumption, LenProperties
<1> HIDE DEF prompt, n
<1>5. n + 1 \in 0 .. Len(prompt) /\ n \in 0 .. n + 1
  BY <1>2, <1>3, <1>4
<1>6. h \in Seq(Token) /\ Len(h) = n + 1 /\ SubSeq(h, 1, n) = checkpoint
  BY <1>2, <1>4, <1>5, PrefixOfPrefix
<1> HIDE DEF h
<1>7. Len(h) <= ctx
  BY <1>2, <1>3, <1>4, <1>6
<1>8. Stands(backend, ctx, Decode(cache, h), h, ~ ragged) /\ Len(h) \in 1 .. ctx
  BY <1>2, <1>6, <1>7, TokenStands DEF n
<1>9. TypeOK' /\ CacheStands'
  BY <1>1, <1>3, <1>6, <1>8, BecomeStands
<1>10. JobStands'
  <2>1. CASE h = prompt
    BY <1>1, <2>1 DEF JobStands
  <2>2. CASE h # prompt
    <3>1. job' = job /\ checkpoint' = h /\ checkpoint_valid' = TRUE /\ emitted' = <<>> /\ ctx' = ctx
      BY <1>1, <1>2, <2>2 DEF Become
    <3>2. n + 1 # Len(prompt)
      <4>1. SubSeq(prompt, 1, Len(prompt)) = prompt
        BY <1>4, SubSeqFull
      <4> QED BY <2>2, <4>1 DEF h
    <3>3. Len(h) < Len(prompt) /\ h = SubSeq(prompt, 1, Len(h))
      BY <1>2, <1>3, <1>4, <1>6, <3>2 DEF h
    <3> QED BY <1>2, <3>1, <3>3 DEF JobStands, prompt
  <2> QED BY <2>1, <2>2
<1>11. SlotsStand' /\ SpeculationIsGreedy'
  BY <1>1, <1>2, SlotsKept, NothingEmitted DEF SessionInv
<1> QED BY <1>9, <1>10, <1>11 DEF SessionInv

(* A chunk is never empty, never longer than the prefill chunk, and the first
   of a cold sync is a whole one. *)
LEMMA ChunkLenFacts ==
  ASSUME backend = "graph", ctx \in Ctxs, job.pos \in Nat, Len(job.prompt) \in Nat, job.pos < Len(job.prompt),
         job.pos = 0 => job.start = 0 /\ Len(job.prompt) > Chunk
  PROVE  /\ ChunkLen \in 1 .. Chunk /\ job.pos + ChunkLen <= Len(job.prompt)
         /\ job.pos = 0 => ChunkLen = Chunk
         /\ Chunk % FineRatio = 0 /\ Chunk >= FineRatio /\ FineRatio \in Nat
<1> DEFINE p == job.pos
           l == Len(job.prompt)
           rest == p % Chunk
           most == IF job.start # 0 THEN Lesser(Lesser(Chunk, RawCap), Chunk - rest) ELSE Chunk
<1>1. /\ Chunk \in Nat \ {0} /\ Chunk % FineRatio = 0 /\ FineRatio \in Nat \ {0} /\ RawCap \in Nat \ {0}
      /\ p \in Nat /\ l \in Nat /\ p < l
  BY SizesAssumption, CapFacts, RawCapIs
<1>2. rest \in 0 .. Chunk - 1
  BY <1>1, DivMod, Zenon
<1>3. ChunkLen = Lesser(l - p, most)
  BY DEF ChunkLen
<1>4. most \in 1 .. Chunk
  <2> HIDE DEF rest
  <2> QED BY <1>1, <1>2 DEF Lesser
<1>5. p = 0 => most = Chunk /\ l > Chunk
  OBVIOUS
<1>6. Chunk >= FineRatio
  <2> DEFINE q == Chunk \div FineRatio
  <2>1. q \in Nat /\ Chunk = q * FineRatio + (Chunk % FineRatio)
    BY <1>1, DivMod, Zenon
  <2> HIDE DEF q
  <2>2. q # 0
    BY <1>1, <2>1
  <2>3. 1 * FineRatio <= q * FineRatio
    BY <1>1, <2>1, <2>2, TimesMonotone
  <2> QED BY <1>1, <2>1, <2>3
<1> HIDE DEF most, p, l
<1>7. /\ ChunkLen \in 1 .. Chunk /\ p + ChunkLen <= l /\ (p = 0 => ChunkLen = Chunk)
  BY <1>1, <1>3, <1>4, <1>5 DEF Lesser
<1> QED BY <1>1, <1>6, <1>7 DEF p, l

(* The next chunk of a sync: between two chunks the session is one that was
   asked for the prefix alone. *)
LEMMA ChunkedStep ==
  ASSUME SessionInv, Chunked
  PROVE  SessionInv'
<1> DEFINE prompt == job.prompt
           p == job.pos
           end == p + ChunkLen
           h == SubSeq(prompt, 1, end)
           ok == ~ ragged'
<1>1. /\ UNCHANGED <<backend, ctx, slot, emitted>> /\ job.kind = "chunks"
      /\ Become(h, Batch(cache, h, p)) /\ job' = IF end = Len(prompt) THEN NoJob ELSE [job EXCEPT !.pos = end]
      /\ ragged' = IF p = 0 THEN ChunkLen % FineRatio # 0 ELSE ragged
  BY DEF Chunked
<1>2. /\ job \in [kind : {"chunks"}, prompt : Prompts, start : Nat, pos : Nat]
      /\ backend = "graph" /\ emitted = <<>> /\ Len(prompt) < ctx /\ p < Len(prompt)
      /\ p = 0 => job.start = 0 /\ Len(prompt) > Chunk
      /\ p # 0 => checkpoint_valid /\ checkpoint = SubSeq(prompt, 1, p)
  <2>1. job # NoJob
    BY <1>1 DEF NoJob
  <2>2. job \notin [kind : {"tokens"}, prompt : Prompts]
    BY <1>1
  <2> QED BY <2>1, <2>2 DEF SessionInv, JobStands
<1>3. /\ backend \in Backends /\ ctx \in Ctxs /\ ctx \in Nat /\ ragged \in BOOLEAN /\ cache \in Caches(backend, ctx)
  BY SessionFacts DEF SessionInv, TypeOK
<1>4. prompt \in Prompts /\ prompt \in Seq(Token) /\ Len(prompt) \in Nat /\ p \in Nat
  BY <1>2, PromptsAssumption, LenProperties
<1>5. /\ ChunkLen \in 1 .. Chunk /\ p + ChunkLen <= Len(prompt) /\ (p = 0 => ChunkLen = Chunk)
      /\ Chunk % FineRatio = 0 /\ Chunk >= FineRatio /\ Chunk \in Nat
  BY <1>2, <1>3, <1>4, ChunkLenFacts, SizesAssumption
<1> HIDE DEF prompt, p
<1>6. end \in 1 .. Len(prompt) /\ end \in 0 .. Len(prompt) /\ p \in 0 .. end /\ end \in 1 .. ctx /\ end - p = ChunkLen /\ end \in Nat
  BY <1>2, <1>3, <1>4, <1>5
<1>7. h \in Seq(Token) /\ Len(h) = end /\ SubSeq(h, 1, p) = SubSeq(prompt, 1, p)
  <2> HIDE DEF end
  <2> QED BY <1>4, <1>6, PrefixOfPrefix
<1>8. ok \in BOOLEAN /\ (p # 0 => ragged' = ragged) /\ (p = 0 => Len(h) >= FineRatio /\ Len(h) % FineRatio = 0)
  <2>1. ragged' \in BOOLEAN /\ (p # 0 => ragged' = ragged)
    BY <1>1, <1>3
  <2>2. ASSUME p = 0 PROVE Len(h) = Chunk
    BY <1>5, <1>7, <2>2
  <2> QED BY <1>5, <2>1, <2>2
<1> HIDE DEF h, end, ok
<1>9. p # 0 => Sound(backend, ctx, cache, h, p, ok)
  <2> SUFFICES ASSUME p # 0 PROVE Sound(backend, ctx, cache, h, p, ok)
    OBVIOUS
  <2>1. checkpoint_valid /\ checkpoint = SubSeq(h, 1, p) /\ ok = ~ ragged
    <3>1. checkpoint_valid /\ checkpoint = SubSeq(h, 1, p)
      BY <1>2, <1>7
    <3>2. ok = ~ ragged
      <4>1. ragged' = ragged
        BY <1>8
      <4> QED BY <4>1 DEF ok
    <3> QED BY <3>1, <3>2
  <2>2. Sound(backend, ctx, cache, checkpoint, Len(checkpoint), ~ ragged)
    BY <2>1, SessionFacts
  <2>3. p \in 0 .. Len(h) /\ backend \in {"cpu", "graph"} /\ p \in 0 .. p
    BY <1>2, <1>4, <1>6, <1>7
  <2>4. Len(checkpoint) = p
    BY <1>7, <2>1, <2>3, PrefixOfPrefix
  <2>5. Sound(backend, ctx, cache, SubSeq(h, 1, p), p, ok)
    BY <2>1, <2>2, <2>4
  <2> QED BY <1>3, <1>7, <1>8, <2>3, <2>5, SoundOfPrefix
<1>10. Stands(backend, ctx, Batch(cache, h, p), h, ok)
  <2>1. Len(h) - p \in 1 .. Chunk /\ Len(h) <= ctx
    BY <1>3, <1>5, <1>6, <1>7
  <2> QED BY <1>2, <1>3, <1>4, <1>7, <1>8, <1>9, <2>1, BatchStands
<1>11. TypeOK' /\ CacheStands'
  <2>1. ragged' \in BOOLEAN /\ Stands(backend, ctx, Batch(cache, h, p), h, ~ ragged')
    BY <1>1, <1>3, <1>10 DEF ok
  <2>2. Len(h) \in 1 .. ctx
    BY <1>6, <1>7
  <2> QED BY <1>1, <1>3, <1>7, <2>1, <2>2, BecomeStands
<1>12. JobStands'
  <2>1. CASE end = Len(prompt)
    BY <1>1, <2>1 DEF JobStands
  <2>2. CASE end # Len(prompt)
    <3>1. /\ job' = [job EXCEPT !.pos = end] /\ checkpoint' = h /\ checkpoint_valid' = TRUE /\ emitted' = <<>>
          /\ ctx' = ctx /\ backend' = "graph"
      BY <1>1, <1>2, <2>2 DEF Become
    <3>2. /\ job' \in [kind : {"chunks"}, prompt : Prompts, start : Nat, pos : Nat]
          /\ job'.prompt = prompt /\ job'.pos = end
      BY <1>2, <1>6, <3>1 DEF prompt
    <3>3. end < Len(prompt) /\ end # 0 /\ h = SubSeq(prompt, 1, end)
      BY <1>4, <1>6, <2>2 DEF h
    <3> QED BY <1>2, <3>1, <3>2, <3>3 DEF JobStands
  <2> QED BY <2>1, <2>2
<1>13. SlotsStand' /\ SpeculationIsGreedy'
  BY <1>1, <1>2, SlotsKept, NothingEmitted DEF SessionInv
<1> QED BY <1>11, <1>12, <1>13 DEF SessionInv


-----------------------------------------------------------------------------
(* The steps of speculation. *)

(* A draft is a sequence of tokens. *)
LEMMA DraftFacts ==
  ASSUME NEW d \in Drafts
  PROVE  d \in Seq(Token) /\ Len(d) \in Nat /\ Len(d) > 0
<1>1. PICK n \in 1 .. MaxDraft : d \in [1 .. n -> Token]
  BY DEF Drafts
<1>2. n \in Nat
  BY SizesAssumption
<1>3. d \in Seq(Token) /\ Len(d) = n
  BY <1>1, <1>2, FunctionIsSeq
<1> QED BY <1>1, <1>2, <1>3

(* What a cycle starts from: the token the caller chose is decoded first. *)
LEMMA CycleFacts ==
  ASSUME SessionInv, NEW t \in Token, NEW d \in Seq(Token), Cycle(t, d)
  PROVE  /\ backend = "graph" /\ ctx \in Ctxs /\ ctx \in Nat /\ checkpoint_valid /\ (~ ragged) \in BOOLEAN
         /\ UNCHANGED <<backend, ctx, ragged, slot>> /\ job = NoJob /\ job' = NoJob
         /\ Committed(t) \in Seq(Token) /\ Len(Committed(t)) = Len(checkpoint) + 1
         /\ Len(Committed(t)) > 0 /\ Len(Committed(t)) \in Nat /\ Len(d) \in Nat
         /\ Len(Committed(t)) + Len(d) <= ctx
         /\ Stands(backend, ctx, First(t), Committed(t), ~ ragged)
<1> DEFINE h == Committed(t)
<1>1. /\ backend = "graph" /\ checkpoint_valid /\ UNCHANGED <<backend, ctx, ragged, slot>>
      /\ job = NoJob /\ job' = NoJob /\ Len(d) < ctx - Len(h)
  BY DEF Cycle, Call, Idle
<1>2. /\ ctx \in Ctxs /\ ctx \in Nat /\ ragged \in BOOLEAN /\ checkpoint \in Seq(Token) /\ Len(checkpoint) \in Nat
  BY SessionFacts
<1>3. h \in Seq(Token) /\ Len(h) = Len(checkpoint) + 1 /\ SubSeq(h, 1, Len(checkpoint)) = checkpoint
  BY <1>2, Appended DEF Committed
<1> HIDE DEF h
<1>4. Len(h) \in Nat /\ Len(h) > 0 /\ Len(d) \in Nat
  BY <1>2, <1>3, LenProperties
<1>5. Len(h) + Len(d) <= ctx /\ Len(h) <= ctx
  BY <1>1, <1>2, <1>4
<1>6. Stands(backend, ctx, Decode(cache, h), h, ~ ragged)
  BY <1>1, <1>3, <1>5, TokenStands
<1>7. Stands(backend, ctx, First(t), h, ~ ragged)
  BY <1>6 DEF First, h
<1>8. (~ ragged) \in BOOLEAN
  BY <1>2
<1> QED BY <1>1, <1>2, <1>3, <1>4, <1>5, <1>7, <1>8 DEF h

(* Drafts that are the target's own choices are emitted. *)
LEMMA AcceptGreedy ==
  ASSUME NEW t \in Token, NEW d \in Seq(Token), NEW n \in 0 .. Len(d), NEW r,
         checkpoint \in Seq(Token), ragged' = ragged, Accept(t, d, n, r),
         ~ ragged => Chosen(Committed(t), d, n)
  PROVE  SpeculationIsGreedy'
<1> DEFINE h == Committed(t)
           l == Len(checkpoint)
           e == SubSeq(d, 1, n)
           em == <<t>> \o e
           cp == h \o e
<1>0. l \in Nat /\ n \in Nat /\ n <= Len(d) /\ Len(d) \in Nat
  BY LenProperties
<1>1. checkpoint' = cp /\ emitted' = em
  BY DEF Accept, Become
<1>2. e \in Seq(Token) /\ Len(e) = n /\ \A i \in 1 .. n : e[i] = d[i]
  <2>1. ASSUME NEW i \in 1 .. n PROVE d[i] \in Token
    <3>1. i \in 1 .. Len(d)
      BY <1>0
    <3> QED BY <3>1, ElementOfSeq
  <2> QED BY <1>0, <2>1, SubSeqProperties
<1>3. h \in Seq(Token) /\ h = checkpoint \o <<t>> /\ Len(h) = l + 1 /\ <<t>> \in Seq(Token) /\ Len(<<t>>) = 1
  BY AppendIsConcat, AppendProperties DEF Committed
<1> HIDE DEF e, h, l
<1>4. /\ em \in Seq(Token) /\ Len(em) = 1 + n
      /\ \A i \in 1 .. 1 + n : em[i] = IF i <= 1 THEN <<t>>[i] ELSE e[i - 1]
  BY <1>2, <1>3, ConcatProperties
<1>5. cp = checkpoint \o em
  BY <1>2, <1>3, ConcatAssociative
<1>6. /\ cp \in Seq(Token) /\ Len(cp) = l + (1 + n)
      /\ \A i \in 1 .. l + (1 + n) : cp[i] = IF i <= l THEN checkpoint[i] ELSE em[i - l]
  <2>1. /\ checkpoint \o em \in Seq(Token) /\ Len(checkpoint \o em) = Len(checkpoint) + Len(em)
        /\ \A i \in 1 .. Len(checkpoint) + Len(em) :
             (checkpoint \o em)[i] = IF i <= Len(checkpoint) THEN checkpoint[i] ELSE em[i - Len(checkpoint)]
    BY <1>4, ConcatProperties
  <2> QED BY <1>4, <1>5, <2>1 DEF l
<1> HIDE DEF em, cp
<1>7. Len(cp) - Len(em) = l
  BY <1>0, <1>4, <1>6
<1>8. SubSeq(cp, l + 1, Len(cp)) = em
  <2> DEFINE m == l + 1
             w == Len(cp)
             g == SubSeq(cp, m, w)
  <2>1. m \in Nat /\ w \in Nat /\ m <= w /\ w - m + 1 = 1 + n /\ m >= 1
    BY <1>0, <1>6
  <2>2. \A i \in m .. w : cp[i] \in Token
    <3>1. ASSUME NEW i \in m .. w PROVE cp[i] \in Token
      <4>1. i \in 1 .. Len(cp)
        BY <2>1
      <4> QED BY <1>6, <4>1, ElementOfSeq
    <3> QED BY <3>1
  <2> HIDE DEF m, w
  <2>3. g \in Seq(Token) /\ Len(g) = 1 + n /\ \A i \in 1 .. 1 + n : g[i] = cp[m + i - 1]
    <3>1. /\ SubSeq(cp, m, w) \in Seq(Token) /\ Len(SubSeq(cp, m, w)) = IF m <= w THEN w - m + 1 ELSE 0
          /\ \A i \in 1 .. w - m + 1 : SubSeq(cp, m, w)[i] = cp[m + i - 1]
      BY <2>1, <2>2, SubSeqProperties
    <3> QED BY <2>1, <3>1
  <2> HIDE DEF g
  <2>4. ASSUME NEW i \in 1 .. 1 + n PROVE g[i] = em[i]
    <3>1. m + i - 1 \in 1 .. l + (1 + n) /\ ~ (m + i - 1 <= l) /\ (m + i - 1) - l = i
      BY <1>0, <2>1 DEF m
    <3> QED BY <1>6, <2>3, <3>1
  <2>5. g = em
    BY <1>0, <1>4, <2>3, <2>4, SeqEqual
  <2> QED BY <2>5 DEF g, m, w
<1>9. ASSUME ~ ragged, NEW i \in 2 .. Len(em)
      PROVE  em[i] = Greedy(SubSeq(cp, 1, l + i - 1))
  <2> DEFINE j == i - 1
  <2>1. j \in 1 .. n /\ i \in 1 .. 1 + n /\ ~ (i <= 1) /\ j - 1 \in 0 .. n /\ j - 1 \in 0 .. Len(d)
        /\ l + i - 1 = Len(h) + (j - 1) /\ Len(h) + (j - 1) \in 0 .. Len(h) + n
    <3>1. l \in Nat /\ n \in Nat /\ n <= Len(d) /\ Len(d) \in Nat /\ Len(h) = l + 1 /\ i \in 2 .. 1 + n
      BY <1>0, <1>3, <1>4
    <3> QED BY <3>1
  <2>2. em[i] = d[j]
    BY <1>2, <1>4, <2>1
  <2> HIDE DEF j
  <2>3. d[j] = Greedy(h \o SubSeq(d, 1, j - 1))
    BY <1>9, <2>1 DEF Chosen, h
  <2>4. h \o SubSeq(d, 1, j - 1) = SubSeq(h \o d, 1, Len(h) + (j - 1))
    BY <1>3, <2>1, Joined
  <2>5. SubSeq(cp, 1, Len(h) + (j - 1)) = SubSeq(h \o d, 1, Len(h) + (j - 1))
    <3> DEFINE g == h \o d
               a == Len(h) + n
               b == Len(h) + (j - 1)
    <3>1. cp = SubSeq(g, 1, a) /\ g \in Seq(Token) /\ Len(g) = Len(h) + Len(d)
      <4>1. SubSeq(h \o d, 1, Len(h) + n) = h \o SubSeq(d, 1, n)
        <5>1. h \in Seq(Token)
          BY <1>3
        <5> QED BY <5>1, Joined
      <4>2. h \o d \in Seq(Token) /\ Len(h \o d) = Len(h) + Len(d)
        BY <1>3, Joined
      <4> QED BY <4>1, <4>2 DEF cp, e
    <3>2. a \in 0 .. Len(g) /\ b \in 0 .. a
      BY <1>0, <1>3, <2>1, <3>1
    <3> HIDE DEF g, a, b
    <3>3. SubSeq(SubSeq(g, 1, a), 1, b) = SubSeq(g, 1, b)
      BY <3>1, <3>2, PrefixOfPrefix
    <3> QED BY <3>1, <3>3 DEF g, b
  <2> QED BY <2>1, <2>2, <2>3, <2>4, <2>5
<1>10. /\ SubSeq(checkpoint', Len(checkpoint') - Len(emitted') + 1, Len(checkpoint')) = emitted'
       /\ ~ ragged' => \A i \in 2 .. Len(emitted') :
                         emitted'[i] = Greedy(SubSeq(checkpoint', 1, Len(checkpoint') - Len(emitted') + i - 1))
  BY <1>1, <1>7, <1>8, <1>9
<1> QED BY <1>10 DEF SpeculationIsGreedy


(* Whatever the verifier, what it accepts is the session after those tokens. *)
LEMMA AcceptStep ==
  ASSUME SessionInv, NEW t \in Token, NEW d \in Seq(Token), Cycle(t, d), NEW n \in 0 .. Len(d), NEW r,
         Accept(t, d, n, r), Stands(backend, ctx, r, Committed(t) \o SubSeq(d, 1, n), ~ ragged),
         ~ ragged => Chosen(Committed(t), d, n)
  PROVE  SessionInv'
<1> DEFINE h == Committed(t)
           cp == h \o SubSeq(d, 1, n)
<1>1. /\ backend = "graph" /\ ctx \in Ctxs /\ ctx \in Nat /\ UNCHANGED <<backend, ctx, ragged, slot>>
      /\ job' = NoJob /\ h \in Seq(Token) /\ Len(h) \in Nat /\ Len(h) > 0 /\ Len(d) \in Nat
      /\ Len(h) + Len(d) <= ctx
  BY CycleFacts
<1>2. backend \in Backends /\ ragged \in BOOLEAN /\ checkpoint \in Seq(Token)
  BY DEF SessionInv, TypeOK
<1>3. cp \in Seq(Token) /\ Len(cp) = Len(h) + n
  BY <1>1, Joined
<1>4. Become(cp, r)
  BY DEF Accept
<1>5. Stands(backend, ctx, r, cp, ~ ragged')
  BY <1>1
<1> HIDE DEF cp, h
<1>6. Len(cp) \in 1 .. ctx
  BY <1>1, <1>3
<1>7. TypeOK' /\ CacheStands'
  BY <1>1, <1>2, <1>3, <1>4, <1>5, <1>6, BecomeStands
<1>8. SpeculationIsGreedy'
  BY <1>1, <1>2, AcceptGreedy DEF h
<1>9. JobStands' /\ SlotsStand'
  BY <1>1, SlotsKept DEF SessionInv, JobStands
<1> QED BY <1>7, <1>8, <1>9 DEF SessionInv

(* No draft. *)
LEMMA NoDraft ==
  ASSUME NEW h \in Seq(Token), NEW d
  PROVE  h \o SubSeq(d, 1, 0) = h
<1>1. SubSeq(d, 1, 0) = <<>>
  BY SubSeqEmpty
<1> QED BY <1>1, ConcatEmptySeq

(* A draft the target takes is its own choice when the logits are right. *)
LEMMA FirstChosen ==
  ASSUME SessionInv, NEW t \in Token, NEW d \in Seq(Token), Len(d) > 0, Cycle(t, d), d[1] \in Tops(First(t).out)
  PROVE  ~ ragged => d[1] = Greedy(Committed(t)) /\ Chosen(Committed(t), d, 1)
<1> DEFINE h == Committed(t)
           x == First(t).out
           ok == ~ ragged
<1>1. h \in Seq(Token) /\ ok \in BOOLEAN /\ (ok => x = h)
  <2>1. h \in Seq(Token) /\ ok \in BOOLEAN
    BY CycleFacts
  <2>2. ok => x = h
    BY CycleFacts DEF Stands
  <2> QED BY <2>1, <2>2
<1> HIDE DEF h, x, ok
<1>2. ok => d[1] = Greedy(h)
  <2>1. d[1] \in Tops(x)
    BY DEF x
  <2> QED BY <1>1, <2>1, OneChoice
<1>3. ok => Chosen(h, d, 1)
  <2>1. 0 \in Nat
    OBVIOUS
  <2> QED BY <1>1, <1>2, <2>1, ChosenNext
<1> QED BY <1>2, <1>3 DEF h, ok

(* The first draft is not taken. *)
LEMMA SpecMissStep ==
  ASSUME SessionInv, NEW t \in Token, NEW d \in Drafts, SpecMiss(t, d)
  PROVE  SessionInv'
<1>1. Cycle(t, d) /\ Accept(t, d, 0, First(t))
  BY DEF SpecMiss
<1>2. d \in Seq(Token) /\ 0 \in 0 .. Len(d)
  BY DraftFacts
<1>3. Committed(t) \in Seq(Token) /\ Stands(backend, ctx, First(t), Committed(t), ~ ragged)
  BY <1>1, <1>2, CycleFacts
<1>4. Committed(t) \o SubSeq(d, 1, 0) = Committed(t)
  BY <1>3, NoDraft
<1>5. Stands(backend, ctx, First(t), Committed(t) \o SubSeq(d, 1, 0), ~ ragged)
  BY <1>3, <1>4
<1>6. Chosen(Committed(t), d, 0)
  BY DEF Chosen
<1> QED BY <1>1, <1>2, <1>5, <1>6, AcceptStep

(* What is left of a two-draft cycle after the first draft is decoded. *)
LEMMA FirstDraftStands ==
  ASSUME SessionInv, NEW t \in Token, NEW d \in Seq(Token), Len(d) > 0, Cycle(t, d)
  PROVE  Stands(backend, ctx, Decode(First(t).c, Append(Committed(t), d[1])), Committed(t) \o SubSeq(d, 1, 1), ~ ragged)
<1> DEFINE h == Committed(t)
           g == h \o d
           l == Len(h)
           ok == ~ ragged
           r == First(t)
<1>1. /\ backend = "graph" /\ ctx \in Ctxs /\ ctx \in Nat /\ h \in Seq(Token) /\ l \in Nat /\ l > 0
      /\ Len(d) \in Nat /\ l + Len(d) <= ctx /\ ok \in BOOLEAN /\ Stands(backend, ctx, r, h, ok)
  BY CycleFacts
<1>2. /\ g \in Seq(Token) /\ Len(g) = l + Len(d) /\ h \o SubSeq(d, 1, 1) = SubSeq(g, 1, l + 1)
      /\ h = SubSeq(g, 1, l) /\ Append(h, d[1]) = SubSeq(g, 1, l + 1)
  <2>1. 1 \in 0 .. Len(d)
    BY <1>1
  <2> QED BY <1>1, <2>1, DraftPrefixes
<1> HIDE DEF h, g, l, ok, r
<1>3. /\ l + 1 \in 1 .. Len(g) /\ l + 1 <= ctx /\ (l + 1) - 1 = l /\ l \in 0 .. Len(g) /\ l \in 0 .. l
      /\ backend \in {"cpu", "graph"}
  BY <1>1, <1>2
<1>4. Sound(backend, ctx, r.c, g, l, ok)
  <2>1. Sound(backend, ctx, r.c, SubSeq(g, 1, l), l, ok)
    BY <1>1, <1>2 DEF Stands, l
  <2> QED BY <1>1, <1>2, <1>3, <2>1, PrefixSound
<1>5. Stands(backend, ctx, Decode(r.c, SubSeq(g, 1, l + 1)), SubSeq(g, 1, l + 1), ok)
  BY <1>1, <1>2, <1>3, <1>4, DecodeNext
<1> QED BY <1>2, <1>5 DEF h, ok, r

(* The margin is too small for the second draft. *)
LEMMA SpecMarginStep ==
  ASSUME SessionInv, NEW t \in Token, NEW d \in Drafts, SpecMargin(t, d)
  PROVE  SessionInv'
<1> DEFINE r == Decode(First(t).c, Append(Committed(t), d[1]))
<1>1. Cycle(t, d) /\ Len(d) = 2 /\ d[1] \in Tops(First(t).out) /\ Accept(t, d, 1, r)
  BY DEF SpecMargin
<1>2. d \in Seq(Token) /\ 1 \in 0 .. Len(d) /\ Len(d) > 0
  BY <1>1, DraftFacts
<1>3. Stands(backend, ctx, r, Committed(t) \o SubSeq(d, 1, 1), ~ ragged)
  BY <1>1, <1>2, FirstDraftStands
<1>4. ~ ragged => Chosen(Committed(t), d, 1)
  BY <1>1, <1>2, FirstChosen
<1> HIDE DEF r
<1> QED BY <1>1, <1>2, <1>3, <1>4, AcceptStep

(* Two drafts verified one by one. *)
LEMMA SpecDecode2Step ==
  ASSUME SessionInv, NEW t \in Token, NEW d \in Drafts, SpecDecode2(t, d)
  PROVE  SessionInv'
<1> DEFINE h == Committed(t)
           r0 == First(t)
           r1 == Decode(r0.c, Append(h, d[1]))
           r2 == Decode(r1.c, h \o d)
           back == [c |-> WithFrontier(r2.c, r1.c), out |-> r1.out]
           ok == ~ ragged
<1>1. Cycle(t, d) /\ Len(d) = 2 /\ d[1] \in Tops(r0.out)
  BY DEF SpecDecode2
<1>2. PICK top0 \in Tops(r1.out) : IF top0 = d[2] THEN Accept(t, d, 2, r2) ELSE Accept(t, d, 1, back)
  BY DEF SpecDecode2
<1>3. d \in Seq(Token) /\ 1 \in 0 .. Len(d) /\ 2 \in 0 .. Len(d) /\ Len(d) > 0
  BY <1>1, DraftFacts
<1>4. /\ backend = "graph" /\ ctx \in Ctxs /\ h \in Seq(Token) /\ Len(h) > 0 /\ Len(h) + 2 <= ctx
      /\ ok \in BOOLEAN /\ Stands(backend, ctx, r0, h, ok)
  BY <1>1, <1>3, CycleFacts
<1>5. /\ Stands(backend, ctx, r1, h \o SubSeq(d, 1, 1), ok)
      /\ Stands(backend, ctx, r2, h \o SubSeq(d, 1, 2), ok)
      /\ Stands(backend, ctx, back, h \o SubSeq(d, 1, 1), ok)
  <2> HIDE DEF h, r0, ok
  <2> QED BY <1>1, <1>3, <1>4, Decode2Stands
<1>6. ~ ragged => Chosen(h, d, 1)
  BY <1>1, <1>3, FirstChosen
<1> HIDE DEF r0, r1, r2, back
<1>7. CASE top0 = d[2]
  <2>1. ok => d[2] = Greedy(h \o SubSeq(d, 1, 1))
    <3> DEFINE e == h \o SubSeq(d, 1, 1)
               x == r1.out
    <3>1. e \in Seq(Token) /\ (ok => x = e) /\ d[2] \in Tops(x)
      BY <1>2, <1>3, <1>4, <1>5, <1>7, Joined DEF Stands
    <3> HIDE DEF e, x, ok
    <3> QED BY <1>4, <3>1, OneChoice DEF e
  <2>2. ok => Chosen(h, d, 2)
    <3>1. 1 \in Nat /\ 1 + 1 = 2
      OBVIOUS
    <3> QED BY <1>3, <1>4, <1>6, <2>1, <3>1, ChosenNext
  <2>3. Accept(t, d, 2, r2)
    BY <1>2, <1>7
  <2> QED BY <1>1, <1>3, <1>5, <2>2, <2>3, AcceptStep
<1>8. CASE top0 # d[2]
  <2>1. Accept(t, d, 1, back)
    BY <1>2, <1>8
  <2> QED BY <1>1, <1>3, <1>5, <1>6, <2>1, AcceptStep
<1> QED BY <1>7, <1>8


(* Every draft after the first was the choice after those before it. *)
LEMMA RowsChoose ==
  ASSUME NEW h \in Seq(Token), NEW d \in Seq(Token), NEW n \in 1 .. Len(d), NEW ok \in BOOLEAN,
         ok => Chosen(h, d, 1), ok => \A i \in 2 .. n : d[i] \in Tops(h \o SubSeq(d, 1, i - 1))
  PROVE  ok => Chosen(h, d, n)
<1> SUFFICES ASSUME ok, NEW i \in 1 .. n PROVE d[i] = Greedy(h \o SubSeq(d, 1, i - 1))
  BY DEF Chosen
<1>1. CASE i = 1
  <2>1. 1 \in 1 .. 1
    OBVIOUS
  <2> QED BY <1>1, <2>1 DEF Chosen
<1>2. CASE i # 1
  <2> DEFINE e == h \o SubSeq(d, 1, i - 1)
  <2>1. i \in 2 .. n /\ i - 1 \in 0 .. Len(d)
    BY <1>2
  <2>2. d[i] \in Tops(e)
    BY <2>1
  <2>3. e \in Seq(Token)
    BY <2>1, Joined
  <2> HIDE DEF e
  <2>4. d[i] = Greedy(e)
    BY <2>2, <2>3, OneChoice
  <2> QED BY <2>4 DEF e
<1> QED BY <1>1, <1>2

(* What stands for a history stands for a prefix that is long enough. *)
LEMMA PrefixKeeps ==
  ASSUME NEW b \in {"cpu", "graph"}, NEW x \in Ctxs, NEW c, NEW g \in Seq(Token), NEW m \in 0 .. Len(g),
         NEW p \in 0 .. m, NEW ok \in BOOLEAN, Sound(b, x, c, g, p, ok), NEW e, e = SubSeq(g, 1, m)
  PROVE  Sound(b, x, c, e, p, ok)
<1>1. Sound(b, x, c, SubSeq(g, 1, m), p, ok)
  BY PrefixSound
<1> QED BY <1>1

(* The drafts verified in one batch, however many of them are confirmed. *)
LEMMA SpecBatchStep ==
  ASSUME SessionInv, NEW t \in Token, NEW d \in Drafts, SpecBatch(t, d)
  PROVE  SessionInv'
<1> DEFINE h == Committed(t)
           r0 == First(t)
           g == h \o d
           b == Batch(r0.c, g, Len(h))
           row(i) == IF b.out = Stale THEN Stale ELSE h \o SubSeq(d, 1, i)
           restored == WithFrontier(b.c, r0.c)
           prefix1 == Decode(r0.c, Append(h, d[1])).c
           ok == ~ ragged
<1>1. Cycle(t, d) /\ Len(d) \in 1 .. Chunk /\ d[1] \in Tops(r0.out)
  BY DEF SpecBatch
<1>2. PICK tops \in {f \in [1 .. Len(d) - 1 -> Token] : \A i \in DOMAIN f : f[i] \in Tops(row(i))} :
        LET n == Confirmed(d, tops)
        IN  \/ n = Len(d) /\ Accept(t, d, n, b)
            \/ /\ n = 1 /\ Len(d) = 2
               /\ Accept(t, d, 1, [c |-> WithFrontier(b.c, prefix1), out |-> row(1)])
            \/ /\ n = 1 /\ Len(d) = 2
               /\ Accept(t, d, 1, Decode(restored, Append(h, d[1])))
            \/ /\ n < Len(d) /\ Len(d) > 2
               /\ Accept(t, d, n, Batch(restored, h \o SubSeq(d, 1, n), Len(h)))
  BY DEF SpecBatch
<1> DEFINE n == Confirmed(d, tops)
<1>3. d \in Seq(Token) /\ Len(d) > 0 /\ Len(d) \in Nat
  BY DraftFacts
<1>4. /\ backend = "graph" /\ ctx \in Ctxs /\ ctx \in Nat /\ h \in Seq(Token) /\ Len(h) > 0 /\ Len(h) \in Nat
      /\ Len(h) + Len(d) <= ctx /\ ok \in BOOLEAN /\ Stands(backend, ctx, r0, h, ok)
  BY <1>1, <1>3, CycleFacts
<1>5. /\ Stands(backend, ctx, b, g, ok)
      /\ Sound(backend, ctx, restored, g, Len(h), ok)
      /\ Sound(backend, ctx, WithFrontier(b.c, prefix1), g, Len(h) + 1, ok)
  <2> HIDE DEF h, r0, ok
  <2> QED BY <1>1, <1>3, <1>4, VerifyBatchStands
<1>6. n \in 1 .. Len(d) /\ \A i \in 2 .. n : tops[i - 1] = d[i]
  BY <1>3, ConfirmedIs
<1>7. n \in 0 .. Len(d) /\ 1 \in 0 .. Len(d) /\ Len(d) \in 0 .. Len(d) /\ 1 \in 1 .. n
  BY <1>3, <1>6
<1>8. g \in Seq(Token) /\ Len(g) = Len(h) + Len(d) /\ g = h \o SubSeq(d, 1, Len(d))
  BY <1>3, <1>4, <1>7, DraftPrefixes
<1>9. ok => b.out = g /\ b.out # Stale
  <2> HIDE DEF g, b
  <2> QED BY <1>5, <1>8, StaleAssumption DEF Stands
<1>10. ASSUME ok, NEW i \in 1 .. Len(d) PROVE row(i) = h \o SubSeq(d, 1, i)
  BY <1>9, <1>10
<1>11. ok => Chosen(h, d, 1)
  BY <1>1, <1>3, FirstChosen
<1>12. ok => \A i \in 2 .. n : d[i] \in Tops(h \o SubSeq(d, 1, i - 1))
  <2> SUFFICES ASSUME ok, NEW i \in 2 .. n PROVE d[i] \in Tops(h \o SubSeq(d, 1, i - 1))
    OBVIOUS
  <2>1. i - 1 \in 1 .. Len(d) - 1 /\ i - 1 \in 1 .. Len(d)
    BY <1>3, <1>6
  <2>2. tops[i - 1] \in Tops(row(i - 1))
    <3> HIDE DEF row, n
    <3> QED BY <1>2, <2>1
  <2>3. row(i - 1) = h \o SubSeq(d, 1, i - 1)
    BY <1>10, <2>1
  <2>4. tops[i - 1] = d[i]
    BY <1>6
  <2> HIDE DEF row, n
  <2> QED BY <2>2, <2>3, <2>4
<1>13. ok => Chosen(h, d, n)
  <2> HIDE DEF h, n, ok
  <2> QED BY <1>3, <1>4, <1>6, <1>11, <1>12, RowsChoose
<1>14. CASE n = Len(d) /\ Accept(t, d, n, b)
  <2> HIDE DEF b, n, g
  <2> QED BY <1>1, <1>3, <1>5, <1>7, <1>8, <1>13, <1>14, AcceptStep
<1>15. /\ h \o SubSeq(d, 1, 1) \in Seq(Token) /\ Len(h \o SubSeq(d, 1, 1)) = Len(h) + 1
       /\ h \o SubSeq(d, 1, 1) = SubSeq(g, 1, Len(h) + 1) /\ Append(h, d[1]) = h \o SubSeq(d, 1, 1)
  <2> HIDE DEF h, n, b, row
  <2>1. h \o SubSeq(d, 1, 1) \in Seq(Token) /\ Len(h \o SubSeq(d, 1, 1)) = Len(h) + 1
    BY <1>3, <1>4, <1>7, Joined
  <2>2. /\ h \o SubSeq(d, 1, 1) = SubSeq(h \o d, 1, Len(h) + 1)
        /\ Append(h, d[1]) = SubSeq(h \o d, 1, Len(h) + 1)
    BY <1>3, <1>4, <1>7, DraftPrefixes
  <2> QED BY <2>1, <2>2
<1>16. ASSUME n = 1, Accept(t, d, 1, [c |-> WithFrontier(b.c, prefix1), out |-> row(1)]) PROVE SessionInv'
  <2> DEFINE e == h \o SubSeq(d, 1, 1)
             m == Len(h) + 1
             c1 == WithFrontier(b.c, prefix1)
             r == [c |-> c1, out |-> row(1)]
  <2>1. row(1) \in Hist /\ (ok => row(1) = e)
    <3>1. ok => row(1) = e
      BY <1>3, <1>10
    <3>2. row(1) \in Hist
      <4> HIDE DEF b
      <4> QED BY <1>15 DEF Hist
    <3> QED BY <3>1, <3>2
  <2>2. m \in 0 .. Len(g) /\ m \in 0 .. m
    BY <1>3, <1>4, <1>8
  <2>3. Sound(backend, ctx, c1, e, m, ok)
    <3>1. Sound(backend, ctx, c1, g, m, ok) /\ SubSeq(g, 1, m) = e /\ backend \in {"cpu", "graph"}
      BY <1>4, <1>5, <1>15
    <3> HIDE DEF c1, g, m, ok, e
    <3> QED BY <1>4, <1>8, <2>2, <3>1, PrefixKeeps
  <2>4. Stands(backend, ctx, r, e, ok)
    <3> HIDE DEF c1, row
    <3> QED BY <1>15, <2>1, <2>3 DEF Stands
  <2>5. Accept(t, d, 1, r)
    BY <1>16
  <2> HIDE DEF r, n
  <2> QED BY <1>1, <1>3, <1>7, <1>11, <2>4, <2>5, AcceptStep
<1>17. ASSUME n = 1, Accept(t, d, 1, Decode(restored, Append(h, d[1]))) PROVE SessionInv'
  <2> DEFINE m == Len(h) + 1
             r == Decode(restored, Append(h, d[1]))
  <2>1. m \in 1 .. Len(g) /\ m <= ctx /\ m - 1 = Len(h)
    BY <1>3, <1>4, <1>8
  <2>2. Stands(backend, ctx, Decode(restored, SubSeq(g, 1, m)), SubSeq(g, 1, m), ok)
    <3> HIDE DEF restored, g, m, ok
    <3>1. Sound(backend, ctx, restored, g, m - 1, ok)
      BY <1>5, <2>1
    <3> QED BY <1>4, <1>8, <2>1, <3>1, DecodeNext
  <2>3. Stands(backend, ctx, r, h \o SubSeq(d, 1, 1), ok)
    BY <1>15, <2>2
  <2>4. Accept(t, d, 1, r)
    BY <1>17
  <2> HIDE DEF r, n
  <2> QED BY <1>1, <1>3, <1>7, <1>11, <2>3, <2>4, AcceptStep
<1>18. ASSUME Accept(t, d, n, Batch(restored, h \o SubSeq(d, 1, n), Len(h))) PROVE SessionInv'
  <2> DEFINE e == h \o SubSeq(d, 1, n)
             m == Len(h) + n
             r == Batch(restored, e, Len(h))
  <2>1. e \in Seq(Token) /\ Len(e) = m /\ e = SubSeq(g, 1, m)
    BY <1>3, <1>4, <1>7, Joined, DraftPrefixes
  <2>2. /\ m \in 0 .. Len(g) /\ m <= ctx /\ Len(h) \in 0 .. m /\ Len(e) - Len(h) \in 1 .. Chunk /\ Len(h) # 0
        /\ Chunk \in Nat
    <3> HIDE DEF n, h, e
    <3> QED BY <1>1, <1>3, <1>4, <1>6, <1>8, <2>1, SizesAssumption
  <2>3. Sound(backend, ctx, restored, e, Len(h), ok)
    <3> DEFINE l == Len(h)
    <3>1. Sound(backend, ctx, restored, g, l, ok) /\ backend \in {"cpu", "graph"} /\ l \in 0 .. m
      BY <1>4, <1>5, <2>2
    <3> HIDE DEF restored, g, m, ok, e, h, l
    <3>2. Sound(backend, ctx, restored, e, l, ok)
      BY <1>4, <1>8, <2>1, <2>2, <3>1, PrefixKeeps
    <3> QED BY <3>2 DEF l
  <2>4. restored \in Caches(backend, ctx)
    BY <2>3 DEF Sound
  <2>5. Stands(backend, ctx, r, e, ok)
    <3> HIDE DEF restored, g, m, ok, e, h
    <3> QED BY <1>4, <2>1, <2>2, <2>3, <2>4, BatchStands
  <2>6. Accept(t, d, n, r)
    BY <1>18
  <2> HIDE DEF r, n
  <2> QED BY <1>1, <1>3, <1>7, <1>13, <2>5, <2>6, AcceptStep
<1> HIDE DEF b, n, h, restored, prefix1, row, r0, g
<1>19. \/ n = Len(d) /\ Accept(t, d, n, b)
       \/ n = 1 /\ Accept(t, d, 1, [c |-> WithFrontier(b.c, prefix1), out |-> row(1)])
       \/ n = 1 /\ Accept(t, d, 1, Decode(restored, Append(h, d[1])))
       \/ Accept(t, d, n, Batch(restored, h \o SubSeq(d, 1, n), Len(h)))
  BY <1>2 DEF n
<1> QED BY <1>14, <1>16, <1>17, <1>18, <1>19


(* The drafts decoded one by one while the target agrees. *)
LEMMA SpecSequentialStep ==
  ASSUME SessionInv, NEW t \in Token, NEW d \in Drafts, SpecSequential(t, d)
  PROVE  SessionInv'
<1> DEFINE h == Committed(t)
           r0 == First(t)
           torn == IF Len(d) <= Chunk THEN AheadTorn(r0.c, Len(h), Len(d)) ELSE r0.c
           start == [c |-> torn, out |-> r0.out]
           run[n \in 0 .. Len(d)] ==
             IF n = 0 THEN start ELSE Decode(run[n - 1].c, h \o SubSeq(d, 1, n))
           ok == ~ ragged
<1>1. Cycle(t, d) /\ Len(d) >= 2 /\ d[1] \in Tops(r0.out)
  BY DEF SpecSequential
<1>2. PICK n \in 1 .. Len(d) : (\A i \in 1 .. n : d[i] \in Tops(run[i - 1].out)) /\ Accept(t, d, n, run[n])
  BY DEF SpecSequential
<1>3. d \in Seq(Token) /\ Len(d) > 0 /\ Len(d) \in Nat
  BY DraftFacts
<1>4. /\ backend = "graph" /\ ctx \in Ctxs /\ ctx \in Nat /\ h \in Seq(Token) /\ Len(h) > 0 /\ Len(h) \in Nat
      /\ Len(h) + Len(d) <= ctx /\ ok \in BOOLEAN /\ Stands(backend, ctx, r0, h, ok)
  BY <1>1, <1>3, CycleFacts
<1>5. Sound(backend, ctx, torn, h, Len(h), ok)
  <2>1. Sound(backend, ctx, r0.c, h, Len(h), ok)
    BY <1>4 DEF Stands
  <2>2. CASE Len(d) <= Chunk
    <3>1. Len(d) \in 1 .. Chunk /\ Len(h) \in 0 .. Len(h)
      BY <1>3, <1>4, <2>2, SizesAssumption
    <3>2. Sound(backend, ctx, AheadTorn(r0.c, Len(h), Len(d)), h, Len(h), ok)
      <4> DEFINE c == r0.c
      <4> HIDE DEF c, h, ok
      <4> QED BY <1>4, <2>1, <3>1, AheadTornStands
    <3> QED BY <2>2, <3>2
  <2>3. CASE ~ (Len(d) <= Chunk)
    BY <2>1, <2>3
  <2> QED BY <2>2, <2>3
<1>6. Stands(backend, ctx, start, h, ok)
  <2> HIDE DEF torn
  <2> QED BY <1>4, <1>5 DEF Stands
<1>7. start \in [c : Caches(backend, ctx), out : Hist]
  <2> HIDE DEF torn
  <2> QED BY <1>5, <1>6 DEF Stands, Sound
<1>8. IsRun(run, start, h, d)
  <2>1. \E f : f = [m \in 0 .. Len(d) |-> IF m = 0 THEN start ELSE Decode(f[m - 1].c, h \o SubSeq(d, 1, m))]
    <3> HIDE DEF start, h
    <3> QED BY <1>3, <1>4, <1>7, RunExists DEF IsRun
  <2>2. run = [m \in 0 .. Len(d) |-> IF m = 0 THEN start ELSE Decode(run[m - 1].c, h \o SubSeq(d, 1, m))]
    <3> HIDE DEF start, h
    <3> QED BY <2>1
  <2> HIDE DEF run, start, h
  <2> QED BY <2>2 DEF IsRun
<1> HIDE DEF run, start
<1>9. \A m \in 0 .. Len(d) : Stands(backend, ctx, run[m], h \o SubSeq(d, 1, m), ok)
  <2> HIDE DEF h, ok
  <2> QED BY <1>3, <1>4, <1>6, <1>8, RunStands
<1>10. n \in 0 .. Len(d) /\ Stands(backend, ctx, run[n], h \o SubSeq(d, 1, n), ok)
  BY <1>2, <1>9
<1>11. ok => Chosen(h, d, 1)
  BY <1>1, <1>3, FirstChosen
<1>12. ok => \A i \in 2 .. n : d[i] \in Tops(h \o SubSeq(d, 1, i - 1))
  <2> SUFFICES ASSUME ok, NEW i \in 2 .. n PROVE d[i] \in Tops(h \o SubSeq(d, 1, i - 1))
    OBVIOUS
  <2>1. i \in 1 .. n /\ i - 1 \in 0 .. Len(d)
    BY <1>3, <1>10
  <2>2. run[i - 1].out = h \o SubSeq(d, 1, i - 1)
    BY <1>9, <2>1 DEF Stands
  <2>3. d[i] \in Tops(run[i - 1].out)
    BY <1>2, <2>1
  <2> HIDE DEF h
  <2> QED BY <2>2, <2>3
<1>13. ok => Chosen(h, d, n)
  <2> HIDE DEF h, ok
  <2> QED BY <1>2, <1>3, <1>4, <1>11, <1>12, RowsChoose
<1> QED BY <1>1, <1>2, <1>3, <1>10, <1>13, AcceptStep

(* A speculative call that failed. *)
LEMMA SpecFailsStep ==
  ASSUME SessionInv, NEW t \in Token, SpecFails(t)
  PROVE  SessionInv'
<1>1. PICK top \in Tops(First(t).out) : Cycle(t, <<top>>)
  BY DEF SpecFails
<1>2. /\ backend = "graph" /\ checkpoint_valid /\ 1 < ctx - Len(Committed(t))
      /\ UNCHANGED <<backend, ctx, ragged, slot>> /\ job' = NoJob
  BY <1>1 DEF Cycle, Call, Idle
<1>3. /\ checkpoint' = Committed(t) /\ checkpoint_valid' = FALSE
      /\ logits' = First(t).out /\ cache' = Torn(First(t).c) /\ emitted' = <<>>
  BY DEF SpecFails
<1>4. /\ checkpoint \in Seq(Token) /\ ctx \in Ctxs /\ ctx \in Nat /\ Len(checkpoint) \in Nat
  BY SessionFacts
<1>5. /\ Committed(t) \in Seq(Token) /\ Len(Committed(t)) = Len(checkpoint) + 1
      /\ SubSeq(Committed(t), 1, Len(checkpoint)) = checkpoint
  BY <1>4, Appended DEF Committed
<1>6. Stands(backend, ctx, First(t), Committed(t), ~ ragged)
  <2>1. Len(Committed(t)) <= ctx
    BY <1>2, <1>4, <1>5
  <2> QED BY <1>2, <1>5, <2>1, TokenStands DEF First
<1>7. First(t).out \in Hist /\ First(t).c \in Caches(backend, ctx)
  BY <1>6 DEF Stands, Sound
<1>8. Torn(First(t).c) \in Caches(backend, ctx)
  BY <1>7, TornTyped
<1> QED BY <1>2, <1>3, <1>5, <1>7, <1>8, LostStep


(* A save leaves the session alone and writes what it stands for. *)
LEMMA SaveStep ==
  ASSUME SessionInv, NEW s \in Slots, Save(s)
  PROVE  SessionInv'
<1>1. /\ checkpoint_valid /\ slot' = [slot EXCEPT ![s] = Payload]
      /\ UNCHANGED <<backend, ctx, checkpoint, checkpoint_valid, logits, cache, ragged, job, emitted>>
  BY DEF Save, session
<1>2. TypeOK' /\ CacheStands'
  BY <1>1 DEF SessionInv, TypeOK, CacheStands
<1>3. JobStands'
  BY <1>1 DEF SessionInv, JobStands
<1>4. SpeculationIsGreedy'
  BY <1>1 DEF SessionInv, SpeculationIsGreedy
<1>5. PayloadStands(Payload)
  BY <1>1, SessionFacts, PayloadIs
<1>6. SlotsStand'
  <2> DEFINE y == Payload
  <2>1. slot' = [slot EXCEPT ![s] = y] /\ PayloadStands(y)
    BY <1>1, <1>5
  <2>2. DOMAIN slot = Slots /\ \A q \in Slots : slot[q] # NoPayload => PayloadStands(slot[q])
    BY DEF SessionInv, SlotsStand
  <2> HIDE DEF y
  <2>3. DOMAIN slot' = Slots
    BY <2>1, <2>2
  <2>4. ASSUME NEW q \in Slots, slot'[q] # NoPayload PROVE PayloadStands(slot'[q])
    <3>1. CASE q = s
      BY <2>1, <2>2, <3>1
    <3>2. CASE q # s
      BY <2>1, <2>2, <2>4, <3>2
    <3> QED BY <3>1, <3>2
  <2> QED BY <2>3, <2>4 DEF SlotsStand
<1> QED BY <1>2, <1>3, <1>4, <1>6 DEF SessionInv

(* A slot a session can be loaded from. *)
LEMMA SlotFacts ==
  ASSUME SessionInv, NEW s \in Slots, Fits(slot[s])
  PROVE  PayloadStands(slot[s]) /\ slot[s].tokens \in Seq(Token) /\ Len(slot[s].tokens) \in 1 .. ctx
<1> DEFINE y == slot[s]
<1>1. y.tokens # <<>> /\ Len(y.tokens) < ctx
  BY DEF Fits
<1>2. y # NoPayload
  BY <1>1 DEF NoPayload
<1>3. PayloadStands(y)
  BY <1>2 DEF SessionInv, SlotsStand
<1>4. y.tokens \in Seq(Token)
  BY <1>3 DEF PayloadStands
<1>5. Len(y.tokens) \in Nat /\ Len(y.tokens) # 0
  BY <1>1, <1>4, EmptySeq, LenProperties
<1>6. ctx \in Nat
  BY SessionFacts
<1> QED BY <1>1, <1>3, <1>4, <1>5, <1>6

(* A load makes the session the one that was saved. *)
LEMMA LoadStep ==
  ASSUME SessionInv, NEW s \in Slots, Load(s)
  PROVE  SessionInv'
<1> DEFINE y == slot[s]
           c == IF backend = "cpu" THEN EmptyCache("cpu", ctx) ELSE cache
           r == [c |-> Restored(c, y), out |-> y.logits]
<1>1. /\ Idle /\ UNCHANGED <<backend, ctx>> /\ Fits(y) /\ Become(y.tokens, r) /\ ragged' = y.ragged
      /\ emitted' = <<>> /\ job' = job /\ slot' = slot
  BY DEF Load, Call
<1>2. PayloadStands(y) /\ y.tokens \in Seq(Token) /\ Len(y.tokens) \in 1 .. ctx
  BY <1>1, SlotFacts
<1>3. backend \in {"cpu", "graph"} /\ ctx \in Ctxs /\ cache \in Caches(backend, ctx)
  BY SessionFacts
<1>4. c \in Caches(backend, ctx)
  <2>1. CASE backend = "cpu"
    <3>1. EmptyCache("cpu", ctx) \in Caches("cpu", ctx)
      BY <1>3, EmptyCacheStands
    <3> QED BY <2>1, <3>1
  <2>2. CASE backend # "cpu"
    BY <1>3, <2>2
  <2> QED BY <2>1, <2>2
<1> HIDE DEF c, y
<1>5. Sound(backend, ctx, Restored(c, y), y.tokens, Len(y.tokens), ~ y.ragged)
  BY <1>2, <1>3, <1>4, RestoredStands
<1>6. y.logits \in Hist /\ y.ragged \in BOOLEAN /\ (~ y.ragged => y.logits = y.tokens)
  BY <1>2 DEF PayloadStands
<1>7. Stands(backend, ctx, r, y.tokens, ~ ragged')
  BY <1>1, <1>5, <1>6 DEF Stands
<1>8. backend \in Backends
  BY DEF SessionInv, TypeOK
<1> HIDE DEF r
<1>9. TypeOK' /\ CacheStands'
  <2> DEFINE g == y.tokens
  <2>1. g \in Seq(Token) /\ Len(g) \in 1 .. ctx /\ Stands(backend, ctx, r, g, ~ ragged') /\ Become(g, r)
    BY <1>1, <1>2, <1>7
  <2>2. ragged' \in BOOLEAN /\ UNCHANGED <<backend, ctx>>
    BY <1>1, <1>6
  <2> HIDE DEF g
  <2> QED BY <1>3, <1>8, <2>1, <2>2, BecomeStands
<1>10. JobStands' /\ SlotsStand' /\ SpeculationIsGreedy'
  BY <1>1, SlotsKept, NothingEmitted DEF SessionInv, JobStands, Idle
<1> QED BY <1>9, <1>10 DEF SessionInv

(* A load that failed. *)
LEMMA LoadFailsStep ==
  ASSUME SessionInv, NEW s \in Slots, LoadFails(s)
  PROVE  SessionInv'
<1>1. /\ UNCHANGED <<backend, ctx, ragged, slot>> /\ job' = NoJob
      /\ checkpoint' = <<>> /\ checkpoint_valid' = FALSE /\ emitted' = <<>>
      /\ \/ UNCHANGED <<logits, cache>>
         \/ Fits(slot[s]) /\ logits' = slot[s].logits /\ cache' = Torn(cache)
  BY DEF LoadFails, Call, Idle
<1>2. cache \in Caches(backend, ctx) /\ logits \in Hist /\ Torn(cache) \in Caches(backend, ctx)
  BY SessionFacts, TornTyped
<1>3. <<>> \in Seq(Token)
  BY EmptySeq
<1>4. Fits(slot[s]) => slot[s].logits \in Hist
  BY SlotFacts DEF PayloadStands
<1>5. logits' \in Hist /\ cache' \in Caches(backend, ctx)
  BY <1>1, <1>2, <1>4
<1>6. checkpoint' \in Seq(Token)
  BY <1>1, <1>3
<1> QED BY <1>1, <1>5, <1>6, LostStep

-----------------------------------------------------------------------------
(* The theorems. *)

(* Every action keeps the invariant. *)
LEMMA SessionInvStep ==
  ASSUME SessionInv, [Next]_vars
  PROVE  SessionInv'
<1>1. ASSUME UNCHANGED vars PROVE SessionInv'
  <2>1. UNCHANGED <<backend, ctx, checkpoint, checkpoint_valid, logits, cache, job, emitted, ragged, slot>>
    BY <1>1 DEF vars, session
  <2>2. TypeOK' /\ CacheStands'
    BY <2>1 DEF SessionInv, TypeOK, CacheStands
  <2>3. JobStands' /\ SlotsStand'
    BY <2>1, SlotsKept DEF SessionInv, JobStands
  <2>4. SpeculationIsGreedy'
    BY <2>1 DEF SessionInv, SpeculationIsGreedy
  <2> QED BY <2>2, <2>3, <2>4 DEF SessionInv
<1>2. ASSUME NEW b \in Backends, NEW c \in Ctxs, Recreate(b, c) PROVE SessionInv'
  BY <1>2, RecreateStep
<1>3. ASSUME NEW p \in Prompts, SyncWhole(p) PROVE SessionInv'
  BY <1>3, SyncWholeStep
<1>4. ASSUME \/ \E p \in Prompts : SyncWholeFails(p)
             \/ SyncFails \/ EvalFails \/ Invalidate
      PROVE  SessionInv'
  BY <1>4, FailSteps
<1>5. ASSUME NEW p \in Prompts, SyncChunks(p) PROVE SessionInv'
  BY <1>5, SyncChunksStep
<1>6. ASSUME NEW p \in Prompts, SyncTokens(p) PROVE SessionInv'
  BY <1>6, SyncTokensStep
<1>7. ASSUME Chunked \/ TokenSynced PROVE SessionInv'
  BY <1>7, ChunkedStep, TokenSyncedStep
<1>8. ASSUME NEW t \in Token, Eval(t) \/ SpecFails(t) PROVE SessionInv'
  BY <1>8, EvalStep, SpecFailsStep
<1>9. ASSUME NEW t \in Token, NEW d \in Drafts, SpecMiss(t, d) \/ SpecMargin(t, d) \/ SpecDecode2(t, d)
      PROVE  SessionInv'
  BY <1>9, SpecMissStep, SpecMarginStep, SpecDecode2Step
<1>10. ASSUME NEW t \in Token, NEW d \in Drafts, SpecBatch(t, d) \/ SpecSequential(t, d) PROVE SessionInv'
  BY <1>10, SpecBatchStep, SpecSequentialStep
<1>11. ASSUME NEW s \in Slots, Save(s) \/ Load(s) \/ LoadFails(s) PROVE SessionInv'
  BY <1>11, SaveStep, LoadStep, LoadFailsStep
<1>12. CASE Next
  BY <1>2, <1>3, <1>4, <1>5, <1>6, <1>7, <1>8, <1>9, <1>10, <1>11, <1>12, Zenon DEF Next
<1> QED BY <1>1, <1>12

(* The invariant: types, what the caches stand for, what a sync under way has
   left to do, what the payloads hold, what speculation returned. *)
THEOREM SessionInvariant == Spec => []SessionInv
<1>1. Init => SessionInv
  BY InitStands
<1>2. SessionInv /\ [Next]_vars => SessionInv'
  BY SessionInvStep
<1> QED BY <1>1, <1>2, PTL DEF Spec


(* The invariant speaks of the state rows the way the properties do. *)
LEMMA WindowIs ==
  ASSUME NEW h \in Seq(Token), NEW k \in Kinds
  PROVE  /\ LiveRows(h, k) = Half(k) + (Len(h) % Ratio(k))
         /\ \A r \in Nat : WindowOf(h, k, r) = Place(h, Whole(k, Len(h)) - Half(k) + r)
<1>1. LiveRows(h, k) = Half(k) + (Len(h) % Ratio(k))
  BY DEF LiveRows, Half
<1>2. Len(h) \in Nat
  BY LenProperties
<1>3. Whole(k, Len(h)) \in Nat /\ Whole(k, Len(h)) = (Len(h) \div Ratio(k)) * Ratio(k)
  BY <1>2, WholeFacts
<1>4. ASSUME NEW r \in Nat PROVE WindowOf(h, k, r) = Place(h, Whole(k, Len(h)) - Half(k) + r)
  <2> DEFINE w == Whole(k, Len(h))
  <2>1. w \in Nat /\ w = (Len(h) \div Ratio(k)) * Ratio(k)
    BY <1>3
  <2> HIDE DEF w
  <2>2. CASE Overlaps(k)
    <3>1. WindowOf(h, k, r) = IF w - Ratio(k) + r < 0 THEN <<>> ELSE At(h, w - Ratio(k) + r)
      BY <2>1, <2>2 DEF WindowOf
    <3>2. Half(k) = Ratio(k)
      BY <2>2 DEF Half
    <3> QED BY <3>1, <3>2 DEF Place, w
  <2>3. CASE ~ Overlaps(k)
    <3>1. WindowOf(h, k, r) = IF w + r < 0 THEN <<>> ELSE At(h, w + r)
      BY <2>1, <2>3 DEF WindowOf
    <3>2. Half(k) = 0 /\ w - 0 + r = w + r
      BY <2>1, <2>3 DEF Half
    <3>3. Place(h, w - Half(k) + r) = IF w + r < 0 THEN <<>> ELSE At(h, w + r)
      BY <3>2 DEF Place
    <3> QED BY <3>1, <3>3 DEF w
  <2> QED BY <2>2, <2>3
<1> QED BY <1>1, <1>4

(* A cache that stands for the whole of a history holds it. *)
LEMMA SoundHolds ==
  ASSUME backend \in {"cpu", "graph"}, ctx \in Ctxs, NEW c, NEW h \in Seq(Token), Len(h) \in 1 .. ctx,
         Sound(backend, ctx, c, h, Len(h), TRUE)
  PROVE  Holds(c, h)
<1> DEFINE last == Len(h) - 1
<1>1. last \in Nat /\ last + 1 = Len(h) /\ last + 1 <= ctx
  BY SizesAssumption
<1>2. RawAt(backend, ctx, c, h, last + 1, TRUE)
  BY <1>1 DEF Sound
<1>3. \A q \in VisibleFrom(last) .. last : RawRow(c, q, last, RawSpan(last, 1)) = At(h, q)
  <2> HIDE DEF last
  <2> QED BY <1>1, <1>2, SeesOne
<1>4. ASSUME NEW k \in Kinds
      PROVE  /\ c.n_comp[k] = Len(h) \div Ratio(k)
             /\ \A i \in 0 .. c.n_comp[k] - 1 : c.comp[k][i] = At(h, (i + 1) * Ratio(k) - 1)
             /\ \A r \in 0 .. LiveRows(h, k) - 1 : c.win[k][r] = WindowOf(h, k, r)
  <2>1. LaneAt(ctx, Lane(c, k), k, h, Len(h), TRUE)
    BY DEF Sound
  <2>2. Lane(c, k).win = c.win[k] /\ Lane(c, k).comp = c.comp[k] /\ Lane(c, k).n = c.n_comp[k]
    BY LaneFacts
  <2>3. /\ c.n_comp[k] = Len(h) \div Ratio(k)
        /\ \A i \in 0 .. (Len(h) \div Ratio(k)) - 1 : c.comp[k][i] = At(h, (i + 1) * Ratio(k) - 1)
        /\ \A r \in 0 .. Half(k) + (Len(h) % Ratio(k)) - 1 : c.win[k][r] = Place(h, Whole(k, Len(h)) - Half(k) + r)
    BY <2>1, <2>2 DEF LaneAt
  <2>4. \A r \in 0 .. LiveRows(h, k) - 1 : c.win[k][r] = WindowOf(h, k, r)
    <3>1. LiveRows(h, k) = Half(k) + (Len(h) % Ratio(k))
      BY WindowIs
    <3>2. \A r \in Nat : WindowOf(h, k, r) = Place(h, Whole(k, Len(h)) - Half(k) + r)
      BY WindowIs
    <3>3. ASSUME NEW r \in 0 .. LiveRows(h, k) - 1 PROVE c.win[k][r] = WindowOf(h, k, r)
      <4> DEFINE half == Half(k)
                 rest == Len(h) % Ratio(k)
      <4>1. r \in 0 .. (half + rest) - 1
        BY <3>1
      <4>2. half \in Nat
        BY KindFacts
      <4>3. rest \in Nat
        <5>1. Len(h) \in Nat
          BY LenProperties
        <5> QED BY <5>1, WholeFacts
      <4> HIDE DEF half, rest
      <4>4. r \in Nat /\ r \in 0 .. half + rest - 1
        BY <4>1, <4>2, <4>3
      <4>5. r \in 0 .. Half(k) + (Len(h) % Ratio(k)) - 1
        BY <4>4 DEF half, rest
      <4> QED BY <2>3, <3>2, <4>4, <4>5
    <3> QED BY <3>3
  <2> QED BY <2>3, <2>4
<1> HIDE DEF last
<1> QED BY <1>3, <1>4 DEF Holds, last

(* A valid checkpoint is the whole truth about the logits and the caches. *)
LEMMA InvGivesCache ==
  ASSUME SessionInv
  PROVE  CacheOfCheckpoint
<1> SUFFICES ASSUME checkpoint_valid, Observable, ~ ragged
             PROVE  logits = checkpoint /\ Holds(cache, checkpoint)
  BY DEF CacheOfCheckpoint
<1>1. /\ backend \in {"cpu", "graph"} /\ ctx \in Ctxs /\ checkpoint \in Seq(Token) /\ Len(checkpoint) \in 1 .. ctx
      /\ Stands(backend, ctx, [c |-> cache, out |-> logits], checkpoint, ~ ragged)
      /\ Sound(backend, ctx, cache, checkpoint, Len(checkpoint), ~ ragged)
  BY SessionFacts
<1>2. logits = checkpoint
  BY <1>1 DEF Stands
<1>3. Sound(backend, ctx, cache, checkpoint, Len(checkpoint), TRUE)
  <2>1. (~ ragged) = TRUE
    BY SessionFacts
  <2> QED BY <1>1, <2>1
<1> QED BY <1>1, <1>2, <1>3, SoundHolds

(* A payload is the state of the tokens it names. *)
LEMMA InvGivesPayload ==
  ASSUME SessionInv
  PROVE  PayloadOfTokens
<1> SUFFICES ASSUME NEW s \in Slots, slot[s] # NoPayload, ~ slot[s].ragged
             PROVE  LET y == slot[s]
                    IN  /\ y.logits = y.tokens
                        /\ \A i \in DOMAIN y.raw :
                             y.raw[i] = At(y.tokens, Len(y.tokens) - RawLive(Len(y.tokens)) + i)
                        /\ \A k \in Kinds :
                             /\ y.n_comp[k] = Len(y.tokens) \div Ratio(k)
                             /\ \A r \in 0 .. LiveRows(y.tokens, k) - 1 : y.win[k][r] = WindowOf(y.tokens, k, r)
  BY DEF PayloadOfTokens
<1> DEFINE y == slot[s]
           n == Len(y.tokens)
<1>1. PayloadStands(y) /\ ~ y.ragged
  BY DEF SessionInv, SlotsStand
<1> HIDE DEF y
<1>2. y.tokens \in Seq(Token) /\ y.logits = y.tokens
  BY <1>1 DEF PayloadStands
<1>3. \A i \in DOMAIN y.raw : y.raw[i] = At(y.tokens, n - RawLive(n) + i)
  <2>1. y.raw \in [0 .. RawLive(n) - 1 -> Hist]
    BY <1>1 DEF PayloadStands
  <2>2. \A i \in 0 .. RawLive(n) - 1 : y.raw[i] = At(y.tokens, n - RawLive(n) + i)
    BY <1>1 DEF PayloadStands
  <2> QED BY <2>1, <2>2
<1>4. ASSUME NEW k \in Kinds
      PROVE  /\ y.n_comp[k] = n \div Ratio(k)
             /\ \A r \in 0 .. LiveRows(y.tokens, k) - 1 : y.win[k][r] = WindowOf(y.tokens, k, r)
  <2>1. /\ y.n_comp[k] = n \div Ratio(k)
        /\ \A r \in 0 .. Half(k) + (n % Ratio(k)) - 1 : y.win[k][r] = Place(y.tokens, Whole(k, n) - Half(k) + r)
    BY <1>1 DEF PayloadStands
  <2>2. LiveRows(y.tokens, k) = Half(k) + (n % Ratio(k))
    BY <1>2, WindowIs
  <2>3. \A r \in Nat : WindowOf(y.tokens, k, r) = Place(y.tokens, Whole(k, n) - Half(k) + r)
    BY <1>2, WindowIs
  <2>4. ASSUME NEW r \in 0 .. LiveRows(y.tokens, k) - 1 PROVE y.win[k][r] = WindowOf(y.tokens, k, r)
    <3> DEFINE half == Half(k)
               rest == n % Ratio(k)
    <3>1. r \in 0 .. (half + rest) - 1
      BY <2>2
    <3>2. half \in Nat
      BY KindFacts
    <3>3. rest \in Nat
      <4>1. n \in Nat
        BY <1>2, LenProperties
      <4> HIDE DEF n
      <4> QED BY <4>1, WholeFacts
    <3> HIDE DEF half, rest
    <3>4. r \in Nat /\ r \in 0 .. half + rest - 1
      BY <3>1, <3>2, <3>3
    <3>5. r \in 0 .. Half(k) + (n % Ratio(k)) - 1
      BY <3>4 DEF half, rest
    <3> QED BY <2>1, <2>3, <3>4, <3>5
  <2> QED BY <2>1, <2>4
<1> QED BY <1>2, <1>3, <1>4 DEF y

(* Whatever calls were made on the session, and wherever they failed, the
   logits and every row that decode can see are those of the tokens a valid
   checkpoint names (ds4_session_sync, _eval, _eval_speculative_argmax,
   _load_payload). *)
THEOREM CacheIsOfCheckpoint == Spec => []CacheOfCheckpoint
BY SessionInvariant, InvGivesCache, PTL

(* Every payload written, the ones of the progress callback in mid-prefill
   included, is the state of its tokens (ds4_session_save_payload). *)
THEOREM PayloadIsOfTokens == Spec => []PayloadOfTokens
BY SessionInvariant, InvGivesPayload, PTL

(* What a speculative call returns is the end of the checkpoint and, after its
   first token, the target's own greedy choices
   (ds4_session_eval_speculative_argmax). *)
THEOREM DraftsAreGreedy == Spec => []SpeculationIsGreedy
<1>1. SessionInv => SpeculationIsGreedy
  BY DEF SessionInv
<1> QED BY <1>1, SessionInvariant, PTL

=============================================================================
