--------------------------- MODULE ExpertDispatch ---------------------------
(***************************************************************************)
(* The routed experts of one layer for a batch of tokens: which experts a  *)
(* token takes and how the (token, slot) pairs reach the kernels of their  *)
(* experts, on CUDA (ds4_cuda.cu) and on the CPU (ds4.c).  An action is    *)
(* one kernel launch; only the scatter, whose atomics decide an order, is  *)
(* taken thread by thread.  Values are terms: what an expert computes from *)
(* an input and a weight is the tuple of the three.                        *)
(***************************************************************************)
EXTENDS Integers, Sequences, FiniteSets, Bags, FiniteSetsExt

CONSTANTS
    Experts,        \* 256; a multiple of Lanes
    Used,           \* DS4_N_EXPERT_USED
    Lanes,          \* 32: threads that search for a token's best expert
    Masks,          \* 16, 8, 4, 2, 1: how far apart lanes are that exchange
    Tile,           \* 8: pairs a tile takes, 4 and 16 are half and twice
    BigBatch,       \* 128: tokens from which the wide kernels are used
    HashRows,       \* rows of the layer's token to expert table
    Batches,        \* the batches a behaviour may start with
    Machines        \* cpu, or the switches of a CUDA process

ExpertIds == 0..(Experts - 1)

(* Scores only enter by comparison: naturals stand for them, -1 for the
   -INFINITY of an expert that is taken.  The table names experts.         *)
ASSUME DispatchAssumption ==
    /\ {Experts, Used, Lanes, Tile, BigBatch} \subseteq Nat \ {0}
    /\ Experts % Lanes = 0 /\ Tile % 2 = 0 /\ Used <= Experts
    /\ Masks \in Seq(Nat \ {0}) /\ Len(Masks) > 0
    /\ Lanes = 2 * Masks[1] /\ Masks[Len(Masks)] = 1
    /\ \A n \in 2..Len(Masks) : Masks[n - 1] = 2 * Masks[n]
    /\ 0 \in DOMAIN HashRows /\ \A row \in DOMAIN HashRows : HashRows[row] \in [1..Used -> ExpertIds]
    /\ \A b \in Batches : /\ b.tokens \in Seq(Int)
                          /\ \A t \in 1..Len(b.tokens), e \in ExpertIds : b.probs[t][e] + b.bias[e] \in Nat

VARIABLES
    batch,          \* hash: TRUE for a hash layer; its tokens; probs and bias per token
    machine,
    stage,          \* the launch to come
    chosen,         \* per token its experts in order (selected)
    weight,         \* per token and slot
    lists,          \* counts, offsets, cursors and tiles of the experts
    toScatter,      \* pairs whose thread of the scatter has not run
    sorted,         \* sorted_pairs
    gate, mid, down,    \* buffers; down holds the inputs first, gate the mids last
    out             \* per token the bag of what was added up

dvars == <<batch, machine, stage, chosen, weight, lists, toScatter, sorted, gate, mid, down, out>>

TokenIds == 0..(Len(batch.tokens) - 1)
Pairs == 0..(Len(batch.tokens) * Used - 1)
PairToken(pair) == pair \div Used
SlotOf(pair) == pair % Used
CpuMachine == machine.cpu

-----------------------------------------------------------------------------
(* Routing. *)
ScoreOf(t) == [e \in ExpertIds |-> batch.probs[t + 1][e] + batch.bias[e]]

(* Every expert in turn goes before the first that scores less. *)
InsertedExpert(score, e, list) ==
    LET place == {j \in 1..Used : list[j] = -1 \/ score[e] > score[list[j]]}
    IN  IF place = {} THEN list
        ELSE [j \in 1..Used |->
                 IF j < Min(place) THEN list[j] ELSE IF j = Min(place) THEN e ELSE list[j - 1]]
Insertion(score) ==
    LET list[n \in 0..Experts] ==
            IF n = 0 THEN [j \in 1..Used |-> -1] ELSE InsertedExpert(score, n - 1, list[n - 1])
    IN  list[Experts]

RouterScoreBetterOrEqual(a, b) == a[1] >= b[1]     \* mutant: a tie goes to whom asks
RouterScoreBetter(a, b) == a[1] > b[1] \/ (a[1] = b[1] /\ a[2] < b[2])

(* A warp: every lane has the best of its own experts, then lanes exchange
   with a partner at half the distance each time; lane 0 has the result.   *)
Nobody == <<-1, Experts>>
Better(a, b) == IF RouterScoreBetter(a, b) THEN a ELSE b
LaneBest(score, lane) ==
    LET best[n \in 0..(Experts \div Lanes)] ==
            IF n = 0 THEN Nobody
            ELSE LET e == lane + (n - 1) * Lanes IN Better(<<score[e], e>>, best[n - 1])
    IN  best[Experts \div Lanes]
Partner(lane, mask) == IF (lane \div mask) % 2 = 0 THEN lane + mask ELSE lane - mask
Shuffled(own) ==
    LET best[n \in 0..Len(Masks)] ==
            IF n = 0 THEN own
            ELSE [lane \in 0..(Lanes - 1) |->
                     Better(best[n - 1][Partner(lane, Masks[n])], best[n - 1][lane])]
    IN  best[Len(Masks)]
WarpBest(score) == Shuffled([lane \in 0..(Lanes - 1) |-> LaneBest(score, lane)])[0][2]
WarpTop(score) ==
    LET left[n \in 0..Used] ==
            IF n = 0 THEN score
            ELSE LET before == left[n - 1] IN [before EXCEPT ![WarpBest(before)] = -1]
    IN  [n \in 1..Used |-> WarpBest(left[n - 1])]

(* A token id outside the table: the GPU reads row 0, the CPU dies. *)
HashRow(t) ==
    LET token == batch.tokens[t + 1]
    IN  HashRows[IF token \in DOMAIN HashRows THEN token ELSE 0]

Chosen(t) ==
    IF batch.hash THEN HashRow(t)
    ELSE IF ~CpuMachine /\ machine.warp THEN WarpTop(ScoreOf(t))
    ELSE Insertion(ScoreOf(t))

(* Weights are the unbiased probabilities over their sum. *)
SlotWeights(t, experts) ==
    LET prob(j) == batch.probs[t + 1][experts[j]]
    IN  [j \in 1..Used |-> <<prob(j), MapThenSumSet(prob, 1..Used)>>]

Route ==
    /\ stage = "route"
    /\ CpuMachine /\ batch.hash => \A t \in TokenIds : batch.tokens[t + 1] \in DOMAIN HashRows
    /\ chosen' = [t \in TokenIds |-> Chosen(t)]
    /\ weight' = [t \in TokenIds |-> SlotWeights(t, Chosen(t))]
    /\ stage' = IF CpuMachine THEN "group" ELSE "quantize"
    /\ UNCHANGED <<batch, machine, lists, toScatter, sorted, gate, mid, down, out>>

ExpertOf(pair) == chosen[PairToken(pair)][SlotOf(pair) + 1]
WeightOf(pair) == weight[PairToken(pair)][SlotOf(pair) + 1]
CountOf(e) == Cardinality({p \in Pairs : ExpertOf(p) = e})
OffsetOf(e) == Cardinality({p \in Pairs : ExpertOf(p) < e})

-----------------------------------------------------------------------------
(* Which kernels a CUDA process launches (routed_moe_launch). *)
Many == Len(batch.tokens) > 1
Wide == Len(batch.tokens) >= BigBatch
Tiles == Many /\ machine.tiles
TileM == IF machine.tile4 THEN Tile \div 2 ELSE Tile
Forced(switch, byDefault) == switch = "on" \/ (byDefault /\ switch # "off")
Atomic == Tiles /\ Forced(machine.atomic, Wide)
Tile16 == Atomic /\ TileM = Tile /\ Wide /\ machine.tile16
Row2048 == Atomic /\ TileM = Tile /\ Forced(machine.row2048, Tile16)
Direct == ~Many /\ machine.direct

(* The inputs are quantized into the buffer of the down projections. *)
Quantize ==
    /\ stage = "quantize"
    /\ down' = [p \in Pairs |-> IF p \in TokenIds THEN <<"x", p>> ELSE down[p]]
    /\ stage' = IF Many THEN "count" ELSE "gate_up"
    /\ UNCHANGED <<batch, machine, chosen, weight, lists, toScatter, sorted, gate, mid, out>>

Count ==
    /\ stage = "count"
    /\ lists' = [lists EXCEPT !.counts = [e \in ExpertIds |-> CountOf(e)]]
    /\ stage' = "prefix"
    /\ UNCHANGED <<batch, machine, chosen, weight, toScatter, sorted, gate, mid, down, out>>

PrefixSums(counts) ==
    LET sum[e \in 0..Experts] == IF e = 0 THEN 0 ELSE sum[e - 1] + counts[e - 1]
    IN  sum
Prefix ==
    /\ stage = "prefix"
    /\ lists' = [lists EXCEPT !.offsets = PrefixSums(lists.counts),
                              !.cursors = PrefixSums(lists.counts)]
    /\ toScatter' = Pairs
    /\ stage' = "scatter"
    /\ UNCHANGED <<batch, machine, chosen, weight, sorted, gate, mid, down, out>>

(* One thread takes the next place of its expert. *)
Scatter ==
    /\ stage = "scatter"
    /\ \E pair \in toScatter :
          LET e == ExpertOf(pair)
          IN  /\ sorted' = [sorted EXCEPT ![lists.cursors[e]] = pair]
              /\ lists' = [lists EXCEPT !.cursors[e] = @ + 1]
              /\ toScatter' = toScatter \ {pair}
    /\ stage' = IF toScatter' # {} THEN "scatter" ELSE IF Tiles THEN "tiles" ELSE "gate_up"
    /\ UNCHANGED <<batch, machine, chosen, weight, gate, mid, down, out>>

(* Tiles of m pairs of one expert; a tile is its expert and where it starts
   among that expert's pairs.                                              *)
TileList(counts, m) == UNION {{<<e, k * m>> : k \in 0..((counts[e] + m - 1) \div m - 1)} : e \in ExpertIds}
BuildTiles ==
    /\ stage = "tiles"
    /\ lists' = [lists EXCEPT !.tiles = TileList(lists.counts, TileM),
                              !.tiles16 = IF Tile16 THEN TileList(lists.counts, 2 * Tile) ELSE {}]
    /\ stage' = "gate_up"
    /\ UNCHANGED <<batch, machine, chosen, weight, toScatter, sorted, gate, mid, down, out>>

(* A job is one pair in the hands of one thread group, with the expert whose
   rows it reads: the tile's, or the one selected for the pair.            *)
Job(at, pair, expert) == [at |-> at, pair |-> pair, expert |-> expert]
TileJobs(tiles, m) ==
    UNION {{Job(<<tile, k>>, sorted[lists.offsets[tile[1]] + tile[2] + k], tile[1]) :
               k \in {k \in 0..(m - 1) : tile[2] + k < lists.counts[tile[1]]}} : tile \in tiles}
SortedJobs == {Job(i, sorted[i], ExpertOf(sorted[i])) : i \in Pairs}
PairJobs == {Job(p, p, ExpertOf(p)) : p \in Pairs}

(* The 16 pair kernels take every other tile of a list of 8 pair tiles. *)
EvenTiles(tiles) == {tile \in tiles : (tile[2] \div Tile) % 2 = 0}

GateJobs ==
    IF Tiles THEN TileJobs(lists.tiles, TileM)
    ELSE IF Many THEN SortedJobs ELSE PairJobs

DownTiles == IF Tile16 THEN lists.tiles16 ELSE lists.tiles
DownJobsTwice ==        \* mutant: 16 pair kernels on every tile of the list
    IF Tiles
    THEN IF Row2048 \/ Tile16 THEN TileJobs(DownTiles, 2 * Tile) ELSE TileJobs(DownTiles, TileM)
    ELSE IF Many THEN SortedJobs ELSE PairJobs
DownJobs ==
    IF Tiles
    THEN IF Row2048 THEN TileJobs(EvenTiles(DownTiles), 2 * Tile)
         ELSE TileJobs(DownTiles, IF Tile16 THEN 2 * Tile ELSE TileM)
    ELSE IF Many THEN SortedJobs ELSE PairJobs

(* Buffer entries its jobs write, value[job] each; what no job writes keeps
   its content.                                                            *)
Written(buffer, jobs, value) ==
    [p \in Pairs |->
        LET own == {job \in jobs : job.pair = p}
        IN  IF own = {} THEN buffer[p] ELSE value[CHOOSE job \in own : TRUE]]

GateUp ==
    /\ stage = "gate_up"
    /\ LET value == [job \in GateJobs |->
                        <<"mid", job.expert, down[PairToken(job.pair)], WeightOf(job.pair)>>]
           aux == [job \in GateJobs |-> <<"gate", job.expert>>]
       IN  /\ mid' = Written(mid, GateJobs, value)
           /\ gate' = IF machine.aux \/ (Many /\ ~Tiles) THEN Written(gate, GateJobs, aux) ELSE gate
    /\ stage' = "quantize_mid"
    /\ UNCHANGED <<batch, machine, chosen, weight, lists, toScatter, sorted, down, out>>

QuantizeMid ==
    /\ stage = "quantize_mid"
    /\ gate' = mid
    /\ stage' = IF Atomic THEN "zero" ELSE "down"
    /\ UNCHANGED <<batch, machine, chosen, weight, lists, toScatter, sorted, mid, down, out>>

Zero ==
    /\ stage = "zero"
    /\ out' = [t \in TokenIds |-> EmptyBag]
    /\ stage' = "down"
    /\ UNCHANGED <<batch, machine, chosen, weight, lists, toScatter, sorted, gate, mid, down>>

(* What each job gives its token. *)
Projected(jobs) == [job \in jobs |-> <<job.expert, gate[job.pair]>>]

(* The values of jobs, as often as they are added. *)
AddedBy(value) ==
    [v \in Range(value) |-> Cardinality({job \in DOMAIN value : value[job] = v})]
JobsOf(t, jobs) == {job \in jobs : PairToken(job.pair) = t}

(* One token's slots are added in registers; atomics add to the tokens'
   rows; the other kernels write a row per pair, to be summed next.        *)
DownProject ==
    /\ stage = "down"
    /\ IF Direct THEN out' = [t \in TokenIds |-> AddedBy(Projected(PairJobs))] /\ UNCHANGED down
       ELSE IF Atomic
       THEN /\ out' = [t \in TokenIds |->
                  out[t] (+) AddedBy(Projected(JobsOf(t, DownJobs)))]
            /\ UNCHANGED down
       ELSE down' = Written(down, DownJobs, Projected(DownJobs)) /\ UNCHANGED out
    /\ stage' = IF Direct \/ Atomic THEN "done" ELSE "sum"
    /\ UNCHANGED <<batch, machine, chosen, weight, lists, toScatter, sorted, gate, mid>>

SumSlots ==
    /\ stage = "sum"
    /\ out' = [t \in TokenIds |-> AddedBy([j \in 0..(Used - 1) |-> down[t * Used + j]])]
    /\ stage' = "done"
    /\ UNCHANGED <<batch, machine, chosen, weight, lists, toScatter, sorted, gate, mid, down>>

-----------------------------------------------------------------------------
(* The CPU (layer_routed_moe_batch): pairs grouped by expert in order, the
   mids and their quantized form in buffers of their own, and every output
   row summed over the active experts.                                     *)
Group ==
    /\ stage = "group"
    /\ lists' = [lists EXCEPT !.counts = [e \in 0..Experts |-> OffsetOf(e)]]
    /\ sorted' = [i \in Pairs |->
           CHOOSE p \in Pairs :
               i = OffsetOf(ExpertOf(p)) + Cardinality({q \in Pairs : q < p /\ ExpertOf(q) = ExpertOf(p)})]
    /\ stage' = "cpu_mid"
    /\ UNCHANGED <<batch, machine, chosen, weight, toScatter, gate, mid, down, out>>

CpuJobs ==
    UNION {{Job(i, sorted[i], e) : i \in lists.counts[e]..(lists.counts[e + 1] - 1)} : e \in ExpertIds}

CpuMid ==
    /\ stage = "cpu_mid"
    /\ mid' = Written(mid, CpuJobs, [job \in CpuJobs |->
                  <<"mid", job.expert, <<"x", PairToken(job.pair)>>, WeightOf(job.pair)>>])
    /\ gate' = mid'
    /\ stage' = "cpu_down"
    /\ UNCHANGED <<batch, machine, chosen, weight, lists, toScatter, sorted, down, out>>

CpuDown ==
    /\ stage = "cpu_down"
    /\ out' = [t \in TokenIds |-> AddedBy(Projected(JobsOf(t, CpuJobs)))]
    /\ stage' = "done"
    /\ UNCHANGED <<batch, machine, chosen, weight, lists, toScatter, sorted, gate, mid, down>>

-----------------------------------------------------------------------------
NoLists == [counts |-> <<>>, offsets |-> <<>>, cursors |-> <<>>, tiles |-> {}, tiles16 |-> {}]
DInit ==
    /\ batch \in Batches /\ machine \in Machines
    /\ stage = "route" /\ chosen = <<>> /\ weight = <<>> /\ lists = NoLists /\ toScatter = {}
    /\ sorted = [p \in Pairs |-> 0]
    /\ gate = [p \in Pairs |-> "stale"] /\ mid = gate /\ down = gate
    /\ out = [t \in TokenIds |-> SetToBag({"stale"})]

DNext ==
    \/ Route \/ Quantize \/ Count \/ Prefix \/ Scatter \/ BuildTiles \/ GateUp \/ QuantizeMid
    \/ Zero \/ DownProject \/ SumSlots \/ Group \/ CpuMid \/ CpuDown

-----------------------------------------------------------------------------
(* Reference: a token takes the Used experts that score best, the lower of
   two that score the same first.                                          *)
Rank(score, e) == Cardinality({f \in ExpertIds : score[f] > score[e] \/ (score[f] = score[e] /\ f < e)})
TakesBest(t) == \A j \in 1..Used : Rank(ScoreOf(t), chosen[t][j]) = j - 1

(* When the layer is done every token has the sum of its own experts over
   its own input, each with the weight of its slot and each exactly once; and
   these are the best experts by biased score, lower ids first among equals:
   whichever kernels ran and in whatever order the scatter placed the pairs
   (topk_desc, routed_moe_launch, layer_routed_moe_batch).                 *)
EveryPairOnce ==
    stage = "done" =>
        \A t \in TokenIds :
            /\ batch.hash \/ TakesBest(t)
            /\ out[t] = AddedBy([j \in 1..Used |->
                   <<chosen[t][j], <<"mid", chosen[t][j], <<"x", t>>, weight[t][j]>>>>])
=============================================================================
