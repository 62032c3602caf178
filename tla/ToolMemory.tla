---------------------------- MODULE ToolMemory ----------------------------
(***************************************************************************)
(* The tool-call text memory of ds4_server.c: a bounded map from tool-call *)
(* ids to the DSML block the model sampled, as pure operators on a record  *)
(*   lru    ids, most recently used first        (head ... tail)           *)
(*   chain  ids, most recently inserted first    (block->entries lists)    *)
(*   entry  id -> DSML block                     (by_id)                   *)
(*   bytes  the running byte count               (m->bytes)                *)
(* Ids that share a block share its storage (by_block, refs).  A DSML      *)
(* block is a pair of parts: what the model samples has both parts from    *)
(* the same block, and only a torn file read pairs parts of two blocks.    *)
(***************************************************************************)
EXTENDS SequencesExt

CONSTANTS
    Ids,          \* tool-call ids
    Blocks,       \* DSML blocks the model may sample
    MaxEntries,   \* --tool-memory-max-ids
    MaxBytes,     \* DS4_TOOL_MEMORY_MAX_BYTES
    IdBytes, BlockBytes   \* sizes of an entry and of a block

ASSUME MemoryAssumption ==
    /\ MaxEntries \in Nat \ {0}
    /\ {MaxBytes, IdBytes, BlockBytes} \subseteq Nat

Whole(b) == <<b, b>>
Canonical == <<>>   \* no exact block: the JSON call is rendered anew

Empty == [lru |-> <<>>, chain |-> <<>>, entry |-> <<>>, bytes |-> 0]

Known(m) == DOMAIN m.entry

\* The elements of s that are in S, in their order.
Kept(s, S) ==
    LET kept[k \in 0 .. Len(s)] ==
            IF k = 0 THEN <<>>
            ELSE IF s[k] \in S THEN Append(kept[k - 1], s[k]) ELSE kept[k - 1]
    IN  kept[Len(s)]

\* The ids that share a block (b->refs counts them), and its entries, newest
\* first (b->entries).
Users(m, d) == {i \in Known(m) : m.entry[i] = d}
Holders(m, d) == Kept(m.chain, Users(m, d))

\* What was used last comes first, each id once.
Uses(ids, more) ==
    LET used[k \in 0 .. Len(more)] ==
            IF k = 0 THEN ids ELSE <<more[k]>> \o RemoveFirst(used[k - 1], more[k])
    IN  used[Len(more)]

Touch(m, id) == [m EXCEPT !.lru = <<id>> \o RemoveFirst(@, id)]

\* The count never goes below zero.
Less(bytes, gone) == IF bytes >= gone THEN bytes - gone ELSE 0

\* tool_memory_remove_entry_locked: a block goes with its last entry.
RemoveKeepingBlock(m, id) ==   \* mutant: the block's bytes are never given back
    [lru |-> RemoveFirst(m.lru, id), chain |-> RemoveFirst(m.chain, id),
     entry |-> [i \in Known(m) \ {id} |-> m.entry[i]],
     bytes |-> Less(m.bytes, IdBytes)]

RemoveEntry(m, id) ==
    [lru |-> RemoveFirst(m.lru, id), chain |-> RemoveFirst(m.chain, id),
     entry |-> [i \in Known(m) \ {id} |-> m.entry[i]],
     bytes |-> Less(Less(m.bytes, IdBytes),
                    IF Users(m, m.entry[id]) = {id} THEN BlockBytes ELSE 0)]

AddEntry(m, id, d) ==
    [lru |-> <<id>> \o m.lru, chain |-> <<id>> \o m.chain,
     entry |-> [i \in Known(m) \cup {id} |-> IF i = id THEN d ELSE m.entry[i]],
     bytes |-> m.bytes + IdBytes + (IF Users(m, d) = {} THEN BlockBytes ELSE 0)]

\* tool_memory_prune_locked: entries leave from the tail until both limits hold.
FitsAlmost(m) == Len(m.lru) <= MaxEntries /\ m.bytes <= MaxBytes + 1   \* mutant: off by one
Fits(m) == Len(m.lru) <= MaxEntries /\ m.bytes <= MaxBytes

PruneNewest(m) ==   \* mutant: entries leave from the wrong end
    LET left[k \in 0 .. Len(m.lru)] ==
            IF k = 0 THEN m
            ELSE IF Fits(left[k - 1]) THEN left[k - 1]
            ELSE RemoveEntry(left[k - 1], Head(left[k - 1].lru))
    IN  left[Len(m.lru)]

Prune(m) ==
    LET left[k \in 0 .. Len(m.lru)] ==
            IF k = 0 THEN m
            ELSE IF Fits(left[k - 1]) THEN left[k - 1]
            ELSE RemoveEntry(left[k - 1], left[k - 1].lru[Len(left[k - 1].lru)])
    IN  left[Len(m.lru)]

\* tool_memory_put_locked: the same mapping again is a use of it; another
\* block under a known id replaces what the id stood for.
Put(m, id, d) ==
    Prune(IF id \in Known(m) /\ m.entry[id] = d THEN Touch(m, id)
          ELSE AddEntry(IF id \in Known(m) THEN RemoveEntry(m, id) ELSE m, id, d))

\* tool_memory_remember: the calls of a turn, in order, all with its block.
PutAll(m, ids, d) ==
    LET put[k \in 0 .. Len(ids)] == IF k = 0 THEN m ELSE Put(put[k - 1], ids[k], d)
    IN  put[Len(ids)]

\* Looking up the calls of a message touches every id that is found.
Found(m, ids) == Kept(ids, Known(m))
LookUp(m, ids) == [m EXCEPT !.lru = Uses(@, Found(m, ids))]

\* tool_memory_attach_to_messages: a message is replayed exactly only when all
\* its ids are known and stand for one block.
ReplayOfFirst(m, ids) ==   \* mutant: the ids are not compared
    IF Found(m, ids) = ids THEN m.entry[ids[1]] ELSE Canonical

Replay(m, ids) ==
    IF /\ Found(m, ids) = ids
       /\ \A k \in DOMAIN ids : m.entry[ids[k]] = m.entry[ids[1]]
    THEN m.entry[ids[1]]
    ELSE Canonical

\* The tool-id map appended to a checkpoint file: a count, then for every
\* remembered block in the text, in text order, its ids newest first.
EntryCells(id, d) == << <<"id", id>>, <<"part", d[1]>>, <<"part", d[2]>> >>

AllHolders(m, text) == FlattenSeq([k \in DOMAIN text |-> Holders(m, Whole(text[k]))])

MapOfAll(m, text) ==   \* mutant: every id is written under the text's first block
    LET ids == Reverse(m.chain)
    IN  IF ids = <<>> THEN <<>>
        ELSE << <<"count", Len(ids)>> >>
             \o FlattenSeq([k \in DOMAIN ids |-> EntryCells(ids[k], Whole(text[1]))])

MapOf(m, text) ==
    LET ids == AllHolders(m, text)
    IN  IF ids = <<>> THEN <<>>
        ELSE << <<"count", Len(ids)>> >>
             \o FlattenSeq([k \in DOMAIN ids |-> EntryCells(ids[k], m.entry[ids[k]])])
============================================================================
