------------------------------- MODULE TopRows -------------------------------
(***************************************************************************)
(* How the CUDA backend (src/ds4_gb10/ds4_cuda.cu) picks the compressed    *)
(* rows a token attends to: the indexer scores every row, one of six       *)
(* kernels selects the best ones by the number of rows, and the attention  *)
(* kernel gathers from the selection what the token may see.  An action is *)
(* one kernel launch; the threads of a launch write apart.                 *)
(***************************************************************************)
EXTENDS Integers, Sequences, FiniteSets

CONSTANTS
    IndexK,         \* DS4_N_INDEXER_TOP_K, for which the fast kernels are built
    SmallN, MidN, ChunkN, LargeN,   \* 1024, 2048, 4096, 8192: powers of two
    MergeGroup,     \* DS4_CUDA_TOPK_MERGE_GROUP
    RowRatio,       \* positions per compressed row
    TokTile, RowTile,           \* tile of a tensor core score kernel
    Lookups,        \* the calls: row scores per token, position, causality, top_k
    SwitchChoices   \* combinations of environment and device

ASSUME SortSizes == IndexK <= SmallN /\ SmallN <= MidN /\ MidN <= ChunkN /\ ChunkN <= LargeN
ASSUME GroupFits == MergeGroup * IndexK <= ChunkN
ASSUME RowsOfBatch ==
    \A call \in Lookups : call.causal => call.n = (call.pos0 + Len(call.score)) \div RowRatio

VARIABLES
    lookup,         \* the call in progress
    flags,
    step,           \* the launch to come
    scores,         \* per token, per row; Masked for a row it may not see
    scratch,        \* candidate rows: a flat buffer for all tokens and levels
    level,          \* of the tree: where it starts, how many sets, the stride
    selected,       \* comp_selected
    attended        \* rows the attention of each token read, in order

tvars == <<lookup, flags, step, scores, scratch, level, selected, attended>>

Masked == -1        \* -INFINITY
NoRow == 65535      \* UINT32_MAX, UINT16_MAX

Tokens == DOMAIN lookup.score
RowsOf(call) == 0..(call.n - 1)
LeastOf(a, b) == IF a <= b THEN a ELSE b
RoundedUp(a, b) == (a + b - 1) \div b

-----------------------------------------------------------------------------
(* Scores.  Tokens are 1, 2, ..: token t stands at pos0 + t - 1. *)
Sees(call, t) ==
    IF call.causal THEN LeastOf((call.pos0 + t) \div RowRatio, call.n) ELSE call.n

PlainScores ==
    [t \in Tokens |-> [c \in RowsOf(lookup) |->
        IF c < Sees(lookup, t) THEN lookup.score[t][c] ELSE Masked]]

\* mutant: the tile is judged by what its first token sees
TileScoresFirst ==
    LET first(t) == ((t - 1) \div TokTile) * TokTile + 1
        skipped(t, c) ==
            lookup.causal /\ (c \div RowTile) * RowTile >= Sees(lookup, first(t))
    IN  [t \in Tokens |-> [c \in RowsOf(lookup) |->
            IF skipped(t, c) \/ c >= Sees(lookup, t) THEN Masked ELSE lookup.score[t][c]]]

(* A tile nothing of which its last token can see is filled without a
   product; in the others every element has its own test.                  *)
TileScores ==
    LET n == Len(lookup.score)
        last(t) == LeastOf(((t - 1) \div TokTile) * TokTile + TokTile, n)
        skipped(t, c) ==
            lookup.causal /\ (c \div RowTile) * RowTile >= Sees(lookup, last(t))
    IN  [t \in Tokens |-> [c \in RowsOf(lookup) |->
            IF skipped(t, c) \/ c >= Sees(lookup, t) THEN Masked ELSE lookup.score[t][c]]]

Score ==
    /\ step = "score"
    /\ scores' = IF Len(lookup.score) > 1 /\ flags.tiles THEN TileScores ELSE PlainScores
    /\ step' = "select"
    /\ UNCHANGED <<lookup, flags, scratch, level, selected, attended>>

-----------------------------------------------------------------------------
(* Sorting.  An entry is a score and its row. *)
\* mutant: ties go to the later row
ScoreBetterLate(a, b) == a[1] > b[1] \/ (a[1] = b[1] /\ a[2] > b[2])
ScoreBetter(a, b) == a[1] > b[1] \/ (a[1] = b[1] /\ a[2] < b[2])

Entry(t, row) == IF row \in RowsOf(lookup) THEN <<scores[t][row], row>> ELSE <<Masked, NoRow>>

(* Compare and exchange at distance j in runs of k, by all threads between
   two barriers: position i keeps or takes the entry of its partner.       *)
Exchange(entries, k, j) ==
    [i \in DOMAIN entries |->
        LET partner == IF (i \div j) % 2 = 0 THEN i + j ELSE i - j
            low == entries[LeastOf(i, partner)]
            high == entries[IF i < partner THEN partner ELSE i]
            swap == IF (LeastOf(i, partner) \div k) % 2 = 0
                    THEN ScoreBetter(high, low) ELSE ScoreBetter(low, high)
        IN  IF swap THEN entries[partner] ELSE entries[i]]

RECURSIVE Bitonic(_, _, _)
Bitonic(entries, k, j) ==
    IF k > Cardinality(DOMAIN entries) THEN entries
    ELSE IF j = 0 THEN Bitonic(entries, 2 * k, k)
    ELSE Bitonic(Exchange(entries, k, j), k, j \div 2)

(* The first k rows of a sorted buffer of size entries, given the rows that
   fill it; the rest is padding.                                           *)
SortedRows(t, size, rows, k) ==
    LET filled == [i \in 0..(size - 1) |->
                       Entry(t, IF i \in DOMAIN rows THEN rows[i] ELSE NoRow)]
        order == Bitonic(filled, 2, 1)
    IN  [i \in 0..(k - 1) |-> order[i][2]]

(* cub's radix sort of the packed keys: best score, then least row, first. *)
RadixRows(t, k) ==
    LET before(r) == {s \in RowsOf(lookup) : ScoreBetter(Entry(t, s), Entry(t, r))}
    IN  [i \in 0..(k - 1) |-> CHOOSE r \in RowsOf(lookup) : Cardinality(before(r)) = i]

(* One thread per token inserts row after row into a list of k. *)
RECURSIVE Inserted(_, _, _, _)
Inserted(t, c, list, k) ==
    IF c = lookup.n THEN list
    ELSE LET place == {i \in 0..(k - 1) : i >= c \/ scores[t][c] > scores[t][list[i]]}
             at == CHOOSE i \in place : \A j \in place : i <= j
         IN  Inserted(t, c + 1,
                 IF place = {} THEN list
                 ELSE [i \in DOMAIN list |->
                          IF i < at THEN list[i] ELSE IF i = at THEN c ELSE list[i - 1]],
                 k)

-----------------------------------------------------------------------------
(* Which kernel selects (ds4_gpu_indexer_topk_tensor). *)
Fast == lookup.k = IndexK
Kernel ==
    IF Fast /\ lookup.n <= SmallN /\ flags.top1024 THEN <<"sort", SmallN>>
    ELSE IF Fast /\ lookup.n <= MidN /\ flags.top2048 THEN <<"sort", MidN>>
    ELSE IF Fast /\ lookup.n <= ChunkN /\ flags.top2048 THEN
        IF lookup.n = ChunkN /\ flags.bigShared THEN <<"radix">> ELSE <<"sort", ChunkN>>
    ELSE IF Fast /\ lookup.n <= LargeN /\ flags.top2048 /\ flags.top8192 THEN
        IF flags.bigShared THEN <<"radix">> ELSE <<"sort", LargeN>>
    ELSE IF Fast /\ flags.top2048 /\ flags.chunked THEN <<"tree">> ELSE <<"insert">>

AllRows == [c \in RowsOf(lookup) |-> c]
Selected(t) ==
    CASE Kernel[1] = "sort" -> SortedRows(t, Kernel[2], AllRows, lookup.k)
      [] Kernel[1] = "radix" -> RadixRows(t, lookup.k)
      [] Kernel[1] = "insert" -> Inserted(t, 0, [i \in 0..(lookup.k - 1) |-> 0], lookup.k)

Select ==
    /\ step = "select" /\ Kernel # <<"tree">>
    /\ selected' = [t \in Tokens |-> Selected(t)]
    /\ step' = "attend"
    /\ UNCHANGED <<lookup, flags, scores, scratch, level, attended>>

(* The tree: chunks, merges of MergeGroup sets while there are more than
   that, a last merge.  The levels follow each other in one buffer.        *)
Chunks == RoundedUp(lookup.n, ChunkN)
RECURSIVE ScratchPerToken(_)
ScratchPerToken(sets) ==
    sets * IndexK + IF sets > MergeGroup THEN ScratchPerToken(RoundedUp(sets, MergeGroup)) ELSE 0

Write(base, stride, sets, Rows(_, _)) ==
    [a \in DOMAIN scratch |->
        LET off == a - base
            t == off \div stride + 1
            set == (off % stride) \div IndexK
        IN  IF off >= 0 /\ t \in Tokens /\ set < sets THEN Rows(t, set)[off % IndexK]
            ELSE scratch[a]]

SelectChunks ==
    /\ step = "select" /\ Kernel = <<"tree">>
    /\ LET ofChunk(t, chunk) ==
               SortedRows(t, ChunkN,
                   [i \in {i \in 0..(ChunkN - 1) : chunk * ChunkN + i < lookup.n} |->
                       chunk * ChunkN + i], IndexK)
           stride == Chunks * IndexK
           size == Len(lookup.score) * ScratchPerToken(Chunks)
       IN  scratch' = [a \in 0..(size - 1) |->
               IF a < Len(lookup.score) * stride
               THEN ofChunk(a \div stride + 1, (a % stride) \div IndexK)[a % IndexK]
               ELSE NoRow]
    /\ level' = [base |-> 0, sets |-> Chunks, stride |-> Chunks * IndexK]
    /\ step' = "merge"
    /\ UNCHANGED <<lookup, flags, scores, selected, attended>>

Candidates(t, first, sets) ==
    [i \in 0..(sets * IndexK - 1) |->
        scratch[level.base + (t - 1) * level.stride + first * IndexK + i]]

MergedSet(t, group) ==
    LET first == group * MergeGroup
    IN  SortedRows(t, ChunkN, Candidates(t, first, LeastOf(MergeGroup, level.sets - first)), IndexK)

Merge ==
    /\ step = "merge" /\ level.sets > MergeGroup
    /\ LET sets == RoundedUp(level.sets, MergeGroup)
           base == level.base + Len(lookup.score) * level.stride
       IN  /\ scratch' = Write(base, sets * IndexK, sets, MergedSet)
           /\ level' = [base |-> base, sets |-> sets, stride |-> sets * IndexK]
    /\ UNCHANGED <<lookup, flags, step, scores, selected, attended>>

MergeLast ==
    /\ step = "merge" /\ level.sets <= MergeGroup
    /\ selected' = [t \in Tokens |->
           SortedRows(t, ChunkN, Candidates(t, 0, level.sets), IndexK)]
    /\ step' = "attend"
    /\ UNCHANGED <<lookup, flags, scores, scratch, level, attended>>

-----------------------------------------------------------------------------
(* Attention over a selection: a batch sorts it by row first and takes the
   first rows, as many as the token sees; the general kernel filters.      *)
Ascending(rows) ==      \* the same exchanges, by the row alone
    LET order == Bitonic([i \in DOMAIN rows |-> <<0, rows[i]>>], 2, 1)
    IN  [i \in DOMAIN rows |-> order[i][2]]

FirstSeen(t, rows) ==
    LET count == LeastOf(lookup.k, Sees(lookup, t))
    IN  {rows[i] : i \in 0..(count - 1)}
Filtered(t, rows) == {rows[i] : i \in {i \in DOMAIN rows : rows[i] < Sees(lookup, t)}}

Gathered(t) ==
    LET batch == Len(lookup.score) > 1
        rows == IF batch /\ Fast /\ flags.sortRows THEN Ascending(selected[t]) ELSE selected[t]
    IN  IF batch /\ flags.online THEN FirstSeen(t, rows) ELSE Filtered(t, rows)

Attend ==
    /\ step = "attend"
    /\ attended' = [t \in Tokens |-> Gathered(t)]
    /\ step' = "done"
    /\ UNCHANGED <<lookup, flags, scores, scratch, level, selected>>

TInit ==
    /\ lookup \in Lookups /\ flags \in SwitchChoices
    /\ step = "score"
    /\ scores = <<>> /\ scratch = <<>> /\ level = <<>> /\ selected = <<>> /\ attended = <<>>
TNext == Score \/ Select \/ SelectChunks \/ Merge \/ MergeLast \/ Attend

-----------------------------------------------------------------------------
(* Reference: the rows a token attends to are the best it may see, the
   earlier of two with one score, as the CPU takes them
   (indexer_allowed_decode_one).                                           *)
BestOf(t) ==
    LET seen == 0..(Sees(lookup, t) - 1)
        above(r) == {s \in seen : \/ lookup.score[t][s] > lookup.score[t][r]
                                  \/ lookup.score[t][s] = lookup.score[t][r] /\ s < r}
    IN  {r \in seen : Cardinality(above(r)) < lookup.k}

(* Every token attends to the best rows it may see, the earlier of two that
   score the same, whichever kernels the number of rows and the environment
   choose: as the CPU (indexer_allowed_decode_one) does.                   *)
AttendsBestRows == step = "done" => \A t \in Tokens : attended[t] = BestOf(t)
=============================================================================
