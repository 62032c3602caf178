---------------------------- MODULE ToolReplay ----------------------------
(***************************************************************************)
(* Exact replay of tool calls: the tool memory shared by the worker and    *)
(* the client threads of ds4_server.c, and the tool-id maps at the end of  *)
(* the checkpoint files.                                                   *)
(*                                                                         *)
(* The worker remembers the calls it generates, writes maps with the files *)
(* it stores, rewrites the map in place when a text is stored again, and   *)
(* loads the map of a file it resumes from.  A client thread that parses a *)
(* request first scans every file for the ids in the request, holding no   *)
(* lock but tool_mu for each entry it adds, then attaches exact blocks to  *)
(* the messages.  Which texts are stored, loaded and evicted is the        *)
(* business of KvCheckpoints; here every choice is possible.               *)
(***************************************************************************)
EXTENDS ToolMemory

CONSTANTS
    Clients,     \* client threads
    Worker,
    Texts,       \* checkpoint texts
    BlocksIn(_), \* the distinct DSML blocks of a text, in order
    Requests,    \* message lists: the call ids of each assistant message
    Calls,       \* id lists of one generated turn
    Buffer,      \* cells moved by one read or write system call
    MaxFiles, MaxRequests, MaxRestarts   \* bounds

ASSUME ReplayAssumption ==
    /\ Worker \notin Clients
    /\ Buffer \in Nat \ {0}
    /\ {MaxFiles, MaxRequests, MaxRestarts} \subseteq Nat
    /\ Requests \subseteq Seq(Seq(Ids)) /\ Calls \subseteq Seq(Ids)
    /\ \A t \in Texts : BlocksIn(t) \in Seq(Blocks)

Procs == Clients \cup {Worker}

VARIABLES
    mem,       \* s->tool_mem
    writing,   \* tool_mu is held across the worker's map writes
    inode,     \* checkpoint files ever created: header bit 0 and map cells
    dir,       \* text -> the inode under its name, 0 if none
    pc,        \* where each thread is
    stream,    \* the file each thread reads a map from, what it has read
               \* of it and the entry it loads next
    todo,      \* names the client's directory scan has yet to visit
    msgs,      \* the request a client is parsing
    out,       \* the worker's store: text, file, bit 0, cells not yet written
    answers,   \* requests rendered, with the block attached to each message
    sampled,   \* history: the block every id was given out for
    recent,    \* history: ids of this process, most recently used first
    restarts

vars == <<mem, writing, inode, dir, pc, stream, todo, msgs, out, answers,
          sampled, recent, restarts>>
files == <<inode, dir>>
history == <<sampled, restarts>>

NoStream == [file |-> 0, got |-> <<>>, next |-> 1]
NoStore == [text |-> CHOOSE t \in Texts : TRUE, file |-> 0, flag |-> FALSE,
            cells |-> <<>>]

\* The threads of a process that has just started.
Idle == [p \in Procs |-> "idle"]
NoStreams == [p \in Procs |-> NoStream]
NoScan == [c \in Clients |-> {}]
NoRequest == [c \in Clients |-> <<>>]

Init ==
    /\ mem = Empty /\ writing = FALSE
    /\ pc = Idle /\ stream = NoStreams /\ todo = NoScan /\ msgs = NoRequest
    /\ out = NoStore
    /\ recent = <<>>
    /\ inode = <<>>
    /\ dir = [t \in Texts |-> 0]
    /\ answers = <<>>
    /\ sampled = [i \in {} |-> {}]
    /\ restarts = 0

Goto(p, label) == pc' = [pc EXCEPT ![p] = label]
Used(ids) == recent' = Uses(recent, ids)

-----------------------------------------------------------------------------
(* Loading a map: kv_tool_map_load_from_pos, by a scanning client or by    *)
(* the worker after a checkpoint hit.  Entries have three cells.           *)

Count(s) == s.got[1][2]
Cell(s, k) == s.got[3 * s.next - 2 + k]   \* cell k of the entry loaded next
Buffered(s) == Len(s.got) >= 3 * s.next + 1
Refused(s) == s.got # <<>> /\ Count(s) > 4 * MaxEntries
Exhausted(s) == s.got # <<>> /\ s.next > Count(s)
Wanted(p) == IF p = Worker THEN Ids
             ELSE UNION {ToSet(msgs[p][k]) : k \in DOMAIN msgs[p]}

OpenMap(p, file) ==
    /\ Goto(p, "load")
    /\ stream' = [stream EXCEPT ![p] = [NoStream EXCEPT !.file = file]]

\* A read(2): what the file holds beyond what was read so far, now.
ReadMore(p) ==
    LET s == stream[p]
        cells == inode[s.file].cells
        upTo == IF Len(s.got) + Buffer < Len(cells) THEN Len(s.got) + Buffer ELSE Len(cells)
    IN  /\ pc[p] = "load"
        /\ ~Refused(s) /\ ~Exhausted(s) /\ ~Buffered(s)
        /\ IF upTo > Len(s.got)
           THEN /\ stream' = [stream EXCEPT ![p].got = @ \o SubSeq(cells, Len(@) + 1, upTo)]
                /\ UNCHANGED pc
           ELSE /\ Goto(p, IF p = Worker THEN "idle" ELSE "scan")
                /\ stream' = [stream EXCEPT ![p] = NoStream]
        /\ UNCHANGED <<mem, writing, files, todo, msgs, out, answers, history, recent>>

\* The next entry, which needs tool_mu if its id is wanted: what the thread
\* does itself, and what it does to the memory.
Take(p) ==
    LET s == stream[p]
    IN  /\ pc[p] = "load"
        /\ ~Refused(s) /\ ~Exhausted(s) /\ Buffered(s)
        /\ Cell(s, 1)[2] \in Wanted(p) => ~writing
        /\ stream' = [stream EXCEPT ![p].next = @ + 1]
        /\ UNCHANGED <<pc, todo, msgs, out>>

LoadEntry(p) ==
    LET s == stream[p]
        id == Cell(s, 1)[2]
    IN  /\ Take(p)
        /\ IF id \in Wanted(p)
           THEN /\ mem' = Put(mem, id, <<Cell(s, 2)[2], Cell(s, 3)[2]>>)
                /\ Used(<<id>>)
           ELSE UNCHANGED <<mem, recent>>
        /\ UNCHANGED <<writing, files, answers, history>>

CloseMap(p) ==
    /\ pc[p] = "load"
    /\ Refused(stream[p]) \/ Exhausted(stream[p])
    /\ Goto(p, IF p = Worker THEN "idle" ELSE "scan")
    /\ stream' = [stream EXCEPT ![p] = NoStream]
    /\ UNCHANGED <<mem, writing, files, todo, msgs, out, answers, history, recent>>

-----------------------------------------------------------------------------
(* A client thread parses a chat request.                                  *)

\* kv_cache_restore_tool_memory_for_messages: opendir, unless no id is wanted.
Parse(c) ==
    /\ pc[c] = "idle"
    /\ Len(answers) < MaxRequests
    /\ \E r \in Requests :
         /\ msgs' = [msgs EXCEPT ![c] = r]
         /\ Goto(c, IF r = <<>> THEN "attach" ELSE "scan")
    /\ todo' = [todo EXCEPT ![c] = {t \in Texts : dir[t] # 0}]
    /\ UNCHANGED <<mem, writing, files, stream, out, answers, history, recent>>

\* The next name: skipped when it is gone or its header bit is clear.
Visit(c) ==
    /\ pc[c] = "scan"
    /\ \E t \in todo[c] :
         /\ todo' = [todo EXCEPT ![c] = @ \ {t}]
         /\ IF dir[t] # 0 /\ inode[dir[t]].flag
            THEN OpenMap(c, dir[t])
            ELSE UNCHANGED <<pc, stream>>
    /\ UNCHANGED <<mem, writing, files, msgs, out, answers, history, recent>>

ScanDone(c) ==
    /\ pc[c] = "scan" /\ todo[c] = {}
    /\ Goto(c, "attach")
    /\ UNCHANGED <<mem, writing, files, stream, todo, msgs, out, answers, history, recent>>

\* tool_memory_attach_to_messages, one critical section for all messages: the
\* request gets its blocks and is ready for the queue, and the ids count as used.
Answer(c) ==
    /\ pc[c] = "attach"
    /\ ~writing
    /\ answers' = Append(answers, [k \in DOMAIN msgs[c] |->
           [ids |-> msgs[c][k], dsml |-> Replay(mem, msgs[c][k])]])
    /\ Goto(c, "idle")
    /\ msgs' = [msgs EXCEPT ![c] = <<>>]
    /\ UNCHANGED <<stream, todo, out>>

Attach(c) ==
    LET calls == FlattenSeq(msgs[c])
    IN  /\ Answer(c)
        /\ mem' = LookUp(mem, calls)
        /\ Used(Found(mem, calls))
        /\ UNCHANGED <<writing, files, history>>

-----------------------------------------------------------------------------
(* The worker.                                                             *)

\* tool_memory_remember: the ids are random and never given out before.
Remember ==
    /\ pc[Worker] = "idle"
    /\ \E ids \in Calls, b \in Blocks :
         /\ ToSet(ids) \cap DOMAIN sampled = {}
         /\ mem' = PutAll(mem, ids, Whole(b))
         /\ sampled' = [i \in DOMAIN sampled \cup ToSet(ids) |->
                          IF i \in DOMAIN sampled THEN sampled[i] ELSE Whole(b)]
         /\ Used(ids)
    /\ UNCHANGED <<writing, files, pc, stream, todo, msgs, out, answers, restarts>>

\* kv_cache_try_load_text: a checkpoint hit loads the file's map, if any.
Resume ==
    /\ pc[Worker] = "idle"
    /\ \E t \in Texts : dir[t] # 0 /\ inode[dir[t]].flag /\ OpenMap(Worker, dir[t])
    /\ UNCHANGED <<mem, writing, files, todo, msgs, out, answers, history, recent>>

\* kv_cache_store_live_prefix, a text with no file: the header bit is decided
\* first, the map is taken later, and the file appears by rename.
StoreHeader ==
    /\ pc[Worker] = "idle"
    /\ Len(inode) < MaxFiles
    /\ \E t \in Texts :
         /\ dir[t] = 0
         /\ out' = [NoStore EXCEPT !.text = t, !.flag = AllHolders(mem, BlocksIn(t)) # <<>>]
    /\ Goto(Worker, "map")
    /\ UNCHANGED <<mem, writing, files, stream, todo, msgs, answers, history, recent>>

StoreMap ==
    /\ pc[Worker] = "map"
    /\ out' = [out EXCEPT !.cells = MapOf(mem, BlocksIn(out.text))]
    /\ Goto(Worker, "rename")
    /\ UNCHANGED <<mem, writing, files, stream, todo, msgs, answers, history, recent>>

Rename ==
    /\ pc[Worker] = "rename"
    /\ inode' = Append(inode, [flag |-> out.flag, cells |-> out.cells])
    /\ dir' = [dir EXCEPT ![out.text] = Len(inode) + 1]
    /\ Goto(Worker, "idle")
    /\ out' = NoStore
    /\ UNCHANGED <<mem, writing, stream, todo, msgs, answers, sampled, recent, restarts>>

StoreFails ==
    /\ pc[Worker] = "rename"
    /\ Goto(Worker, "idle")
    /\ out' = NoStore
    /\ UNCHANGED <<mem, writing, files, stream, todo, msgs, answers, history, recent>>

\* kv_cache_rewrite_tool_map: the text already has its file and the memory has
\* an id for one of its blocks.
BeginRewrite ==
    /\ pc[Worker] = "idle"
    /\ \E t \in Texts :
         /\ dir[t] # 0
         /\ AllHolders(mem, BlocksIn(t)) # <<>>
         /\ out' = [NoStore EXCEPT !.text = t, !.file = dir[t]]
    /\ Goto(Worker, "truncate")
    /\ UNCHANGED <<mem, writing, files, stream, todo, msgs, answers, history, recent>>

Truncate ==
    /\ pc[Worker] = "truncate"
    /\ inode' = [inode EXCEPT ![out.file].cells = <<>>]
    /\ Goto(Worker, "lock")
    /\ UNCHANGED <<mem, writing, dir, stream, todo, msgs, out, answers, history, recent>>

\* kv_tool_map_write takes tool_mu; it gives it back at once when every id is gone.
Lock ==
    /\ pc[Worker] = "lock"
    /\ out' = [out EXCEPT !.cells = MapOf(mem, BlocksIn(out.text))]
    /\ writing' = (out'.cells # <<>>)
    /\ Goto(Worker, IF out'.cells = <<>> THEN "idle" ELSE "write")
    /\ UNCHANGED <<mem, files, stream, todo, msgs, answers, history, recent>>

\* Full stdio buffers are written as the map is produced, the rest by fflush.
Emit(n) ==
    /\ inode' = [inode EXCEPT ![out.file].cells = @ \o SubSeq(out.cells, 1, n)]
    /\ out' = [out EXCEPT !.cells = SubSeq(@, n + 1, Len(@))]

WriteChunk ==
    /\ pc[Worker] = "write" /\ writing
    /\ Len(out.cells) > Buffer
    /\ Emit(Buffer)
    /\ UNCHANGED <<mem, writing, dir, pc, stream, todo, msgs, answers, history, recent>>

UnlockKept ==   \* mutant: the map is written, the lock is kept
    /\ pc[Worker] = "write" /\ writing
    /\ Len(out.cells) <= Buffer
    /\ Goto(Worker, "flush")
    /\ UNCHANGED <<mem, writing, files, stream, todo, msgs, out, answers, history, recent>>

Unlock ==
    /\ pc[Worker] = "write" /\ writing
    /\ Len(out.cells) <= Buffer
    /\ writing' = FALSE
    /\ Goto(Worker, "flush")
    /\ UNCHANGED <<mem, files, stream, todo, msgs, out, answers, history, recent>>

Flush ==
    /\ pc[Worker] = "flush"
    /\ Emit(Len(out.cells))
    /\ Goto(Worker, "mark")
    /\ UNCHANGED <<mem, writing, dir, stream, todo, msgs, answers, history, recent>>

Mark ==
    /\ pc[Worker] = "mark"
    /\ inode' = [inode EXCEPT ![out.file].flag = TRUE]
    /\ Goto(Worker, "idle")
    /\ out' = NoStore
    /\ UNCHANGED <<mem, writing, dir, stream, todo, msgs, answers, sampled, recent, restarts>>

\* kv_cache_evict and the discarding of unusable files; readers keep their inode.
Evict ==
    /\ pc[Worker] = "idle"
    /\ \E t \in Texts :
         /\ dir[t] # 0
         /\ dir' = [dir EXCEPT ![t] = 0]
    /\ UNCHANGED <<mem, writing, inode, pc, stream, todo, msgs, out, answers, sampled,
                   recent, restarts>>

\* The process ends, in order or not, and starts again on the same directory.
Restart ==
    /\ restarts < MaxRestarts
    /\ restarts' = restarts + 1
    /\ mem' = Empty /\ writing' = FALSE
    /\ pc' = Idle /\ stream' = NoStreams /\ todo' = NoScan /\ msgs' = NoRequest
    /\ out' = NoStore
    /\ recent' = <<>>
    /\ UNCHANGED <<files, answers, sampled>>

-----------------------------------------------------------------------------
Loading(p) == ReadMore(p) \/ LoadEntry(p) \/ CloseMap(p)
Parsing(c) == Loading(c) \/ Visit(c) \/ ScanDone(c) \/ Attach(c)
Storing ==
    \/ StoreMap \/ Rename \/ StoreFails
    \/ Truncate \/ Lock \/ WriteChunk \/ Unlock \/ Flush \/ Mark

Next ==
    \/ \E c \in Clients : Parse(c) \/ Parsing(c)
    \/ Loading(Worker) \/ Storing
    \/ Remember \/ Resume \/ StoreHeader \/ BeginRewrite \/ Evict
    \/ Restart

Spec == Init /\ [][Next]_vars

\* Threads run; a client that wants tool_mu gets it if it is free again and
\* again (strong fairness): the worker holds it for one map write at a time.
\* A thread that can Take or Answer can LoadEntry or Attach, and does nothing
\* else of the kind, so fairness of the part is fairness of the whole.
place == <<pc, stream, todo, out>>
Moves(p) == ReadMore(p) \/ Take(p) \/ CloseMap(p)

FairSpec ==
    /\ Spec
    /\ \A c \in Clients :
         /\ WF_place(Moves(c) \/ Visit(c) \/ ScanDone(c) \/ Answer(c))
         /\ SF_place(Take(c)) /\ SF_place(Answer(c))
    /\ WF_place(Moves(Worker) \/ Storing)

-----------------------------------------------------------------------------
\* The running byte count, kept by increments and decrements on four paths, is
\* the size of what the memory holds, each block once however many ids share
\* it: a drift would prune too early or never.
BytesExact ==
    mem.bytes = IdBytes * Cardinality(Known(mem))
                + BlockBytes * Cardinality({mem.entry[i] : i \in Known(mem)})

\* The memory holds the ids used last, whoever used them, within its limits:
\* pruning takes no id while one that was used longer ago stays, and counts
\* what it holds (tool_memory_touch, tool_memory_prune_locked).
KeepsMostRecent ==
    /\ mem.lru = SubSeq(recent, 1, Len(mem.lru))
    /\ ToSet(mem.lru) = Known(mem) /\ ToSet(mem.chain) = Known(mem)
    /\ Len(mem.lru) <= MaxEntries /\ mem.bytes <= MaxBytes /\ BytesExact

\* A message that gets an exact block gets the one that was sampled for all its
\* calls; anything else would put text the model never produced into the
\* history (README: "the exact DSML bytes the model sampled").
ReplaysSampled ==
    \A r \in ToSet(answers) : \A k \in DOMAIN r :
        r[k].dsml # Canonical =>
            \A i \in ToSet(r[k].ids) : i \in DOMAIN sampled /\ sampled[i] = r[k].dsml

\* A request that a client began to parse is rendered, whatever the worker
\* does to the files and the lock meanwhile (no deadlock on tool_mu).
RequestRendered == \A c \in Clients : pc[c] = "scan" ~> pc[c] = "idle"
=============================================================================
