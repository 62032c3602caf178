---------------------------- MODULE MCEngineParts ----------------------------
(***************************************************************************)
(* What the engine's session rests on: the graph of a layer on GPU and CPU *)
(* and, inside the CUDA backend, how compressed rows are selected, how     *)
(* (token, expert) pairs reach their kernels and how a weight gets to the  *)
(* device.  A behaviour belongs to one of them, the others stay in one of  *)
(* their initial states.                                                   *)
(***************************************************************************)
EXTENDS LayerGraph, TopRows, ExpertDispatch, WeightCache, FiniteSetsExt

VARIABLE part

Parts == {"graph", "top_rows", "experts", "weights"}
engineVars == <<part, vars, tvars, dvars, wvars>>

-----------------------------------------------------------------------------
(* Three layers: without a compressor, with the indexer, with wide windows;
   no flag, each flag, each pair, and all of them.                         *)
ThreeRatios == <<0, 2, 3>>
HashedFirst == {1}
UpToTwoFlags == UNION {kSubset(n, Flags) : n \in 0 .. 2} \cup {Flags}
  \cup {{"cpu"} \cup f : f \in SUBSET (CpuFlags \cup {"steer_attn", "steer_ffn"})}

(* Row counts that reach every selection kernel and two levels of merges,
   scores with ties.                                                       *)
AllOn == [tiles |-> TRUE, top1024 |-> TRUE, top2048 |-> TRUE, top8192 |-> TRUE, chunked |-> TRUE,
          bigShared |-> TRUE, sortRows |-> TRUE, online |-> TRUE]
MCSwitchChoices ==
    {AllOn, [AllOn EXCEPT !.top1024 = FALSE], [AllOn EXCEPT !.bigShared = FALSE, !.tiles = FALSE],
     [AllOn EXCEPT !.top2048 = FALSE, !.sortRows = FALSE], [AllOn EXCEPT !.top8192 = FALSE],
     [AllOn EXCEPT !.chunked = FALSE, !.online = FALSE]}
RowCall(n, pos0, k, causal, score) ==
    [n |-> n, pos0 |-> pos0, k |-> k, causal |-> causal, score |-> score]
Peaks(n, places) ==
    {[ch \in 0..(n - 1) |-> IF ch = p THEN 2 ELSE IF ch \in {q, r} THEN 1 ELSE 0] :
        p \in places, q \in places, r \in places}
Backwards(n, row) == [ch \in 0..(n - 1) |-> row[n - 1 - ch]]
OneToken ==
    {RowCall(3, 5, 2, FALSE, <<row>>) : row \in [0..2 -> 0..2]} \cup
    {RowCall(4, 8, k, FALSE, <<row>>) : k \in {1, 2}, row \in [0..3 -> 0..2]}
TokensOver(n, m, rows) ==
    {RowCall(n, 2 * n - m, 2, TRUE, [t \in 1..m |-> IF t % 2 = 1 THEN row ELSE Backwards(n, row)]) :
        row \in rows}
MCLookups ==
    OneToken \cup TokensOver(3, 6, [0..2 -> 0..2]) \cup TokensOver(3, 7, [0..2 -> 0..2])
    \cup TokensOver(5, 2, [0..4 -> 0..1]) \cup TokensOver(8, 3, Peaks(8, {0, 3, 6, 7}))
    \cup TokensOver(12, 2, Peaks(12, {0, 7, 8, 10, 11}))
    \cup TokensOver(36, 2, Peaks(36, {0, 7, 8, 16, 31, 32, 33, 35}))

(* Eight experts; every batch below, at and above the wide kernels' size. *)
Cuda == [cpu |-> FALSE, warp |-> TRUE, tiles |-> TRUE, tile4 |-> FALSE, atomic |-> "unset",
         tile16 |-> TRUE, row2048 |-> "unset", direct |-> TRUE, aux |-> FALSE]
MCMachines ==
    {[Cuda EXCEPT !.cpu = TRUE], Cuda, [Cuda EXCEPT !.warp = FALSE, !.direct = FALSE],
     [Cuda EXCEPT !.tiles = FALSE], [Cuda EXCEPT !.tile4 = TRUE, !.aux = TRUE],
     [Cuda EXCEPT !.atomic = "off"], [Cuda EXCEPT !.tile16 = FALSE],
     [Cuda EXCEPT !.tile16 = FALSE, !.row2048 = "on"], [Cuda EXCEPT !.row2048 = "off"],
     [Cuda EXCEPT !.atomic = "on", !.row2048 = "on"]}
MCMasks == <<2, 1>>
MCHashRows == [token \in 0..2 |->
    CASE token = 0 -> <<1, 0>> [] token = 1 -> <<1, 6>> [] token = 2 -> <<6, 1>>]
NoBias == [e \in 0..7 |-> 0]
Scored ==
    {[hash |-> FALSE, tokens |-> <<0>>, probs |-> <<p>>, bias |-> b] :
        p \in [0..7 -> 0..1], b \in {NoBias, [NoBias EXCEPT ![2] = 1, ![7] = 1]}}
HashBatch(ts) ==
    [hash |-> TRUE, tokens |-> ts, probs |-> [t \in DOMAIN ts |-> [e \in 0..7 |-> t]], bias |-> NoBias]
MCBatches == Scored \cup
    {HashBatch(ts) : ts \in {<<3>>} \cup [1..2 -> 0..2]
                            \cup {<<0, 1, 2>>, <<1, 2, 1>>, <<1, 1, 1, 2>>, <<0, 1, 2, 1>>}}

(* Two models with tensors at one offset, longer than a preload span, within
   a gap of each other; an arena that holds some of them.                  *)
Tensor(m, off, n) == [map |-> m, off |-> off, n |-> n]
MCTensors == {Tensor("main", 1, 7), Tensor("main", 8, 1), Tensor("main", 11, 2),
              Tensor("mtp", 1, 2), Tensor("mtp", 3, 2)}
MCDense == {Tensor("main", 8, 1), Tensor("main", 11, 2), Tensor("mtp", 1, 2)}
MCMapSize == [main |-> 13, mtp |-> 6]
Unset == [copy |-> FALSE, chunked |-> FALSE, cache |-> FALSE, direct_model |-> FALSE,
          direct_io |-> TRUE, no_fd |-> FALSE, strict |-> FALSE, f16 |-> TRUE]
MCSwitches ==
    {Unset, [Unset EXCEPT !.copy = TRUE], [Unset EXCEPT !.chunked = TRUE, !.f16 = FALSE],
     [Unset EXCEPT !.strict = TRUE, !.direct_io = FALSE], [Unset EXCEPT !.no_fd = TRUE],
     [Unset EXCEPT !.direct_model = TRUE]}

-----------------------------------------------------------------------------
\* An idle part starts from one of its initial states.
OneOf(of, all, one) == IF part = of THEN all ELSE {one}
PartsInit ==
    /\ part \in Parts
    /\ switches \in OneOf("graph", SwitchSets, {}) /\ Init
    /\ lookup \in OneOf("top_rows", Lookups, RowCall(3, 5, 2, FALSE, <<[ch \in 0..2 |-> 0]>>))
    /\ flags \in OneOf("top_rows", SwitchChoices, AllOn) /\ TInit
    /\ batch \in OneOf("experts", Batches, HashBatch(<<3>>))
    /\ machine \in OneOf("experts", Machines, Cuda) /\ DInit
    /\ env \in OneOf("weights", Switches, Unset) /\ WInit

PartsNext ==
    \/ part = "graph" /\ Next /\ UNCHANGED <<part, tvars, dvars, wvars>>
    \/ part = "top_rows" /\ TNext /\ UNCHANGED <<part, vars, dvars, wvars>>
    \/ part = "experts" /\ DNext /\ UNCHANGED <<part, vars, tvars, wvars>>
    \/ part = "weights" /\ WNext /\ UNCHANGED <<part, vars, tvars, dvars>>

PartsSpec == PartsInit /\ [][PartsNext]_engineVars
=============================================================================
