--------------------------- MODULE KvCheckpoints ---------------------------
(***************************************************************************)
(* The worker's checkpoint policy: generate_job in ds4_server.c, with the  *)
(* session calls it makes (ds4_session_sync, _eval, _invalidate, _rewrite  *)
(* and _load_payload in ds4.c) and the disk cache in KvFiles.              *)
(*                                                                         *)
(* The session is one live token history and a flag that says whether the  *)
(* backend state really is at its end.  A request is a text.  The worker   *)
(* finds the longest state it can reuse (live, then disk), stores what it  *)
(* is about to replace, prefills, generates, and after a finished turn may *)
(* rewrite the live history to what the next request will render.  The     *)
(* worker alone touches session and disk; the process may die between any  *)
(* two of its steps and restart, with another configuration, on the same   *)
(* directory.                                                              *)
(***************************************************************************)
EXTENDS KvFiles

CONSTANTS
    Runs,            \* configurations a process may be started with
    Vocab,           \* tokens
    Sampled,         \* tokens the model may sample
    Prompts,         \* texts clients send
    Rerendered(_),   \* texts a parsed tool turn may render back to
    ThinkTag, ThinkEnd, Eos,    \* the markers <think>, </think>, end of sentence
    ResumeMin,       \* shortest suffix extended by batched prefill
    MaxGenerated,    \* max_tokens
    MaxJobs, MaxFaults, MaxRestarts   \* bounds on the environment

ASSUME ServerAssumption ==
    /\ Sampled \subseteq Vocab
    /\ \A r \in Runs : {r.ctx, r.chunk} \subseteq Nat \ {0}
    /\ ResumeMin \in Nat \ {0}
    /\ {MaxGenerated, MaxJobs, MaxFaults, MaxRestarts} \subseteq Nat

VARIABLES
    run,      \* the configuration of this process
    live,     \* s->session->checkpoint: the live token history
    valid,    \* checkpoint_valid: the backend state is at the end of live
    disk,     \* the checkpoint directory
    last,     \* kv.continued_last_store_tokens
    pc,       \* the step the worker is at
    job,      \* the request: its text and whether it offers tools
    want,     \* the text the session is being brought to
    eff,      \* the tokens it is being brought to
    cached,   \* tokens of them found live or on disk
    sync,     \* the ds4_session_sync call in progress
    save,     \* the kv_cache_store_live_prefix call in progress
    out,      \* tokens generated for this job
    intool,   \* a tool-call block was started
    jobs, faults, restarts

session == <<live, valid>>
request == <<job, want, eff, cached>>
decode == <<out, intool>>
env == <<jobs, faults, restarts>>
vars == <<run, session, disk, last, pc, request, sync, save, decode, env>>

NoSync == [goal |-> <<>>, at |-> 0, next |-> "idle", quiet |-> TRUE]
NoSave == [next |-> "idle", note |-> FALSE, fresh |-> FALSE]
NoJob  == [text |-> <<>>, tools |-> FALSE]

-----------------------------------------------------------------------------
CommonPrefix(toks) ==
    IF valid THEN Len(LongestCommonPrefix({live, toks})) ELSE 0

(* The exact history of a stored or live prefix, then the tokens of the text
   after it. *)
ContinueRetokenized(toks, text) ==
    toks \o SubSeq(Tokenize(text), Len(toks) + 1, Len(Tokenize(text)))
Continue(toks, text) ==
    toks \o Tokenize(SubSeq(text, Len(TextOf(toks)) + 1, Len(text)))

Fault == faults < MaxFaults /\ faults' = faults + 1

(* Calls: where the worker goes on to, and what it does after. *)
CallSync(goal, next, quiet) ==
    /\ pc' = "sync"
    /\ sync' = [goal |-> goal, at |-> 0, next |-> next, quiet |-> quiet]
CallSave(next, note) ==
    /\ pc' = "store"
    /\ save' = [next |-> next, note |-> note, fresh |-> FALSE]

ResetJob ==
    /\ job' = NoJob /\ want' = <<>> /\ eff' = <<>> /\ cached' = 0
    /\ out' = <<>> /\ intool' = FALSE
    /\ sync' = NoSync /\ save' = NoSave

Init ==
    /\ run \in Runs
    /\ live = <<>> /\ valid = FALSE
    /\ disk = <<>> /\ last = 0
    /\ pc = "idle"
    /\ job = NoJob /\ want = <<>> /\ eff = <<>> /\ cached = 0
    /\ sync = NoSync /\ save = NoSave
    /\ out = <<>> /\ intool = FALSE
    /\ jobs = 0 /\ faults = 0 /\ restarts = 0

-----------------------------------------------------------------------------
(* Choosing what to reuse. *)

TokenHit(toks) == CommonPrefix(toks) = Len(live) /\ Len(toks) >= Len(live) /\ live # <<>>
TextHit(text)  == live # <<>> /\ IsPrefix(TextOf(live), text)

(* A miss forgets the frontier counter and stores the checkpoint about to be
   replaced, if it is long enough. *)
BeginLookupUnsaved == pc' = "load" /\ UNCHANGED save
BeginLookup ==
    \/ /\ Len(live) >= MinTokens
       /\ CallSave("load", FALSE)
    \/ /\ Len(live) < MinTokens
       /\ pc' = "load" /\ UNCHANGED save

TakeJob(text, tools) ==
    LET toks == Tokenize(text) IN
    /\ pc = "idle" /\ jobs < MaxJobs
    /\ jobs' = jobs + 1
    /\ job' = [text |-> text, tools |-> tools]
    /\ want' = text
    /\ \/ /\ TokenHit(toks)
          /\ eff' = toks /\ cached' = Len(live) /\ pc' = "cold"
          /\ UNCHANGED <<last, save>>
       \/ /\ ~TokenHit(toks) /\ TextHit(text)
          /\ eff' = Continue(live, text) /\ cached' = Len(live) /\ pc' = "cold"
          /\ UNCHANGED <<last, save>>
       \/ /\ ~TokenHit(toks) /\ ~TextHit(text)
          /\ eff' = toks /\ cached' = 0 /\ last' = 0
          /\ BeginLookup
    /\ UNCHANGED <<run, session, disk, sync, decode, faults, restarts>>

(* Where a lookup returns to: the job's prefill, or the rebuild of a
   canonical history, which first drops the session if nothing was found. *)
AfterLookup ==
    \/ pc = "load" /\ pc' = "cold" /\ UNCHANGED sync
    \/ pc = "reload" /\ CallSync(eff', "rewritten", TRUE)

LoadMiss ==
    /\ pc \in {"load", "reload"}
    /\ TextPrefixes(disk, want, run) = {}
    /\ IF pc = "reload" THEN live' = <<>> /\ valid' = FALSE ELSE UNCHANGED session
    /\ UNCHANGED <<eff, cached>>
    /\ AfterLookup
    /\ UNCHANGED <<run, disk, last, job, want, save, decode, env>>

LoadHit(i) ==
    /\ pc \in {"load", "reload"}
    /\ i \in TextPrefixes(disk, want, run)
    /\ Loadable(disk[i], run)
    /\ live' = disk[i].tokens /\ valid' = TRUE
    /\ eff' = Continue(disk[i].tokens, want)
    /\ cached' = IF pc = "load" THEN Len(disk[i].tokens) ELSE cached
    /\ last' = Len(disk[i].tokens)
    /\ disk' = AfterHit(disk, i)
    /\ AfterLookup
    /\ UNCHANGED <<run, job, want, save, decode, env>>

(* The header fits but the payload does not load: the session is invalidated
   and the file stays. *)
LoadFails(i) ==
    /\ pc \in {"load", "reload"}
    /\ i \in TextPrefixes(disk, want, run)
    /\ ~Loadable(disk[i], run)
    /\ live' = <<>> /\ valid' = FALSE
    /\ UNCHANGED <<eff, cached>>
    /\ AfterLookup
    /\ UNCHANGED <<run, disk, last, job, want, save, decode, env>>

-----------------------------------------------------------------------------
(* Prefill, with the cold checkpoint on the way. *)

ColdStoreLen ==
    IF cached = 0 /\ Len(eff) >= MinTokens /\ ColdMax > 0 /\ Len(eff) <= ColdMax
    THEN StoreLen(Len(eff)) ELSE 0

Prefill ==
    /\ pc = "cold"
    /\ IF ColdStoreLen >= MinTokens /\ ColdStoreLen < Len(eff)
       THEN CallSync(SubSeq(eff, 1, ColdStoreLen), "coldstore", FALSE)
       ELSE CallSync(eff, "synced", FALSE)
    /\ UNCHANGED <<run, session, disk, last, request, save, decode, env>>

StoreCold ==
    /\ pc = "coldstore"
    /\ CallSave("full", TRUE)
    /\ UNCHANGED <<run, session, disk, last, request, sync, decode, env>>

PrefillRest ==
    /\ pc = "full"
    /\ CallSync(eff, "synced", FALSE)
    /\ UNCHANGED <<run, session, disk, last, request, save, decode, env>>

StartDecode ==
    /\ pc = "synced"
    /\ IF ColdStoreLen = Len(eff) THEN CallSave("decode", TRUE)
       ELSE pc' = "decode" /\ UNCHANGED save
    /\ UNCHANGED <<run, session, disk, last, request, sync, decode, env>>

(* The client went away before the stream headers were written. *)
StreamStartFails ==
    /\ pc = "decode" /\ out = <<>> /\ Fault
    /\ pc' = "done"
    /\ UNCHANGED <<run, session, disk, last, request, sync, save, decode, jobs, restarts>>

-----------------------------------------------------------------------------
(* ds4_session_sync. *)

Extends == valid /\ IsPrefix(live, sync.goal)
Suffix  == Len(sync.goal) - Len(live)
Batched ==
    IF Extends THEN Suffix >= ResumeMin ELSE run.chunk < Len(sync.goal)

(* Absolute chunk boundaries, also when a prefix is already there. *)
NextBoundaryRounded(n) == Min({Len(sync.goal), ((n + run.chunk - 1) \div run.chunk) * run.chunk})
NextBoundary(n) == Min({Len(sync.goal), (n \div run.chunk + 1) * run.chunk})

SyncRefused ==
    /\ pc = "sync"
    /\ sync.goal = <<>> \/ Len(sync.goal) >= run.ctx
    /\ pc' = "done"
    /\ UNCHANGED <<run, session, disk, last, request, sync, save, decode, env>>

Accepted == pc = "sync" /\ sync.goal # <<>> /\ Len(sync.goal) < run.ctx

(* One batch, single tokens, or chunks nobody observes. *)
SyncAtOnce ==
    /\ Accepted
    /\ sync.quiet \/ ~Batched
    /\ live' = sync.goal /\ valid' = TRUE
    /\ pc' = sync.next
    /\ UNCHANGED <<run, disk, last, request, sync, save, decode, env>>

(* Decode or prefill fails on the way: single tokens leave the ones already
   evaluated in the history, the batched paths what it was. *)
SyncFails ==
    /\ Accepted
    /\ sync.quiet \/ ~Batched
    /\ Fault
    /\ valid' = FALSE
    /\ IF Extends /\ ~Batched
       THEN \E n \in Len(live) .. Len(sync.goal) - 1 : live' = SubSeq(sync.goal, 1, n)
       ELSE UNCHANGED live
    /\ ~Extends \/ live # sync.goal
    /\ pc' = "done"
    /\ UNCHANGED <<run, disk, last, request, sync, save, decode, jobs, restarts>>

(* server_progress_cb at position n, with the history already noted. *)
Progress(n) ==
    /\ sync' = [sync EXCEPT !.at = n]
    /\ IF n > cached /\ ContinuedDue(Len(live'), last)
       THEN CallSave("chunk", TRUE)
       ELSE pc' = "chunk" /\ UNCHANGED save

SyncChunked ==
    /\ Accepted /\ ~sync.quiet /\ Batched
    /\ UNCHANGED session
    /\ Progress(IF Extends THEN Len(live) ELSE 0)
    /\ UNCHANGED <<run, disk, last, request, decode, env>>

Chunk ==
    /\ pc = "chunk" /\ sync.at < Len(sync.goal)
    /\ live' = SubSeq(sync.goal, 1, NextBoundary(sync.at)) /\ valid' = TRUE
    /\ Progress(NextBoundary(sync.at))
    /\ UNCHANGED <<run, disk, last, request, decode, env>>

ChunkFails ==
    /\ pc = "chunk" /\ Fault
    /\ valid' = FALSE /\ UNCHANGED live
    /\ pc' = "done"
    /\ UNCHANGED <<run, disk, last, request, sync, save, decode, jobs, restarts>>

ChunksDone ==
    /\ pc = "chunk" /\ sync.at = Len(sync.goal)
    /\ live' = sync.goal /\ valid' = TRUE
    /\ pc' = sync.next
    /\ UNCHANGED <<run, disk, last, request, sync, save, decode, env>>

-----------------------------------------------------------------------------
(* kv_cache_store_live_prefix.  Every caller asks for exactly the live
   history. *)

LiveName == Named(disk, TextOf(live))

Noted == IF save.note THEN last' = Max({last, Len(live)}) ELSE UNCHANGED last

StoreSkipped ==
    /\ pc = "store"
    /\ ~valid \/ Len(live) < MinTokens
    /\ pc' = save.next
    /\ UNCHANGED <<run, session, disk, last, request, sync, save, decode, env>>

(* A file of that name this header check accepts counts as stored. *)
StoreKnown(i) ==
    /\ pc = "store" /\ valid /\ Len(live) >= MinTokens
    /\ i \in LiveName /\ FitsHeader(disk[i], run)
    /\ pc' = save.next /\ Noted
    /\ UNCHANGED <<run, session, disk, request, sync, save, decode, env>>

StoreReplaces(i) ==
    /\ pc = "store" /\ valid /\ Len(live) >= MinTokens
    /\ i \in LiveName /\ ~FitsHeader(disk[i], run)
    /\ disk' = RemoveAt(disk, i)
    /\ pc' = "write"
    /\ UNCHANGED <<run, session, last, request, sync, save, decode, env>>

StoreNew ==
    /\ pc = "store" /\ valid /\ Len(live) >= MinTokens
    /\ LiveName = {}
    /\ pc' = "write"
    /\ UNCHANGED <<run, session, disk, last, request, sync, save, decode, env>>

(* The temporary file becomes visible to lookups only by the rename. *)
WriteFails ==
    /\ pc = "write" /\ Fault
    /\ pc' = save.next
    /\ UNCHANGED <<run, session, disk, last, request, sync, save, decode, jobs, restarts>>

RenameForRequest ==
    /\ pc = "write"
    /\ disk' = Append(disk, [NewFile(live, run) EXCEPT !.text = want])
    /\ save' = [save EXCEPT !.fresh = TRUE]
    /\ pc' = "evict"
    /\ UNCHANGED <<run, session, last, request, sync, decode, env>>
Rename ==
    /\ pc = "write"
    /\ disk' = Append(disk, NewFile(live, run))
    /\ save' = [save EXCEPT !.fresh = TRUE]
    /\ pc' = "evict"
    /\ UNCHANGED <<run, session, last, request, sync, decode, env>>

Evict ==
    /\ pc = "evict" /\ Total(disk) > Budget /\ disk # <<>>
    /\ disk' = RemoveAt(disk, Victim(disk))
    /\ UNCHANGED <<run, session, last, pc, request, sync, save, decode, env>>

EvictDone ==
    /\ pc = "evict" /\ (Total(disk) <= Budget \/ disk = <<>>)
    /\ pc' = save.next /\ Noted
    /\ UNCHANGED <<run, session, disk, request, sync, save, decode, env>>

(* unlink fails: eviction gives up, the file stays. *)
EvictFails ==
    /\ pc = "evict" /\ Total(disk) > Budget /\ Fault
    /\ pc' = save.next /\ Noted
    /\ UNCHANGED <<run, session, disk, request, sync, save, decode, jobs, restarts>>

-----------------------------------------------------------------------------
(* Generation. *)

Room == Len(out) < MaxGenerated /\ Len(live) < run.ctx

StoreContinued ==
    /\ pc = "decode" /\ Room
    /\ IF ~intool /\ ContinuedDue(Len(live), last)
       THEN CallSave("sample", TRUE)
       ELSE pc' = "sample" /\ UNCHANGED save
    /\ UNCHANGED <<run, session, disk, last, request, sync, decode, env>>

(* A token is evaluated; with tools it may open a tool-call block. *)
Eval(t) ==
    /\ pc = "sample"
    /\ live' = Append(live, t) /\ out' = Append(out, t)
    /\ intool' \in (IF job.tools THEN {intool, TRUE} ELSE {intool})
    /\ pc' = "decode"
    /\ UNCHANGED <<run, valid, disk, last, request, sync, save, env>>

EvalFails ==
    /\ pc = "sample" /\ Fault
    /\ valid' = FALSE /\ UNCHANGED live
    /\ pc' = "done"
    /\ UNCHANGED <<run, disk, last, request, sync, save, decode, jobs, restarts>>

(* End of sentence.  A tool-call block it cuts off is an error: nothing is
   rewritten.  A closed block is rewritten unless it does not parse. *)
Stop ==
    /\ pc = "sample"
    /\ pc' = IF intool THEN "done" ELSE "think"
    /\ UNCHANGED <<run, session, disk, last, request, sync, save, decode, env>>

ToolCallEnds ==
    /\ pc = "decode" /\ intool
    /\ pc' \in {"tool", "done"}
    /\ UNCHANGED <<run, session, disk, last, request, sync, save, decode, env>>

(* A stop sequence cuts text the session has already evaluated. *)
StopSequence ==
    /\ pc = "decode" /\ out # <<>>
    /\ live' = <<>> /\ valid' = FALSE
    /\ pc' = IF intool THEN "done" ELSE "think"
    /\ UNCHANGED <<run, disk, last, request, sync, save, decode, env>>

(* max_tokens, the context, or a stop request. *)
Cut ==
    /\ pc = "decode"
    /\ pc' = "done"
    /\ UNCHANGED <<run, session, disk, last, request, sync, save, decode, env>>

-----------------------------------------------------------------------------
(* Rewriting the finished turn to what the next request will render. *)

Replied == TextOf(out)

(* ds4_session_rewrite_from_common: extend in place, or rebuild through an
   older checkpoint. *)
Rewrite(text) ==
    LET canonical == Tokenize(text) IN
    IF ~valid \/ Len(canonical) \notin 1 .. run.ctx - 1
    THEN pc' = "done" /\ UNCHANGED <<want, eff, sync>>
    ELSE /\ want' = text /\ eff' = canonical
         /\ IF CommonPrefix(canonical) = Len(live)
            THEN CallSync(canonical, "rewritten", TRUE)
            ELSE pc' = "reload" /\ UNCHANGED sync

Leave == pc' = "done" /\ UNCHANGED <<want, eff, sync>>

(* Reasoning is not rendered back: prompt without <think>, then </think>, the
   visible content and the end of sentence. *)
CanonicalThinking ==
    LET shown == SubSeq(Replied, Max({i \in DOMAIN Replied : Replied[i] = ThinkEnd} \cup {0}) + 1,
                        Len(Replied))
        stable == Front(job.text)
        text == stable \o <<ThinkEnd>> \o shown \o <<Eos>>
        common == CommonPrefix(Tokenize(text))
    IN  /\ pc = "think"
        /\ IF \/ job.tools \/ job.text = <<>> \/ Last(job.text) # ThinkTag
              \/ ~Contains(Replied, ThinkEnd)
              \/ common = Len(live) /\ Len(Tokenize(text)) = Len(live)
              \/ common < Len(Tokenize(stable))
           THEN Leave ELSE Rewrite(text)
        /\ UNCHANGED <<run, session, disk, last, job, cached, save, decode, env>>

CanonicalTool(reply) ==
    LET text == job.text \o reply \o <<Eos>>
        common == CommonPrefix(Tokenize(text))
    IN  /\ pc = "tool"
        /\ reply \in Rerendered(Replied)
        /\ IF \/ common = Len(live) /\ Len(Tokenize(text)) = Len(live)
              \/ TextOf(live) = text
              \/ common < Len(Tokenize(job.text))
           THEN Leave ELSE Rewrite(text)
        /\ UNCHANGED <<run, session, disk, last, job, cached, save, decode, env>>

Rewritten ==
    /\ pc = "rewritten"
    /\ pc' = "done"
    /\ UNCHANGED <<run, session, disk, last, request, sync, save, decode, env>>

EndJob ==
    /\ pc = "done"
    /\ pc' = "idle"
    /\ ResetJob
    /\ UNCHANGED <<run, session, disk, last, env>>

-----------------------------------------------------------------------------
(* The end of a process, and the next one on the same directory. *)

Shutdown ==
    /\ pc = "idle" /\ restarts < MaxRestarts
    /\ CallSave("exit", FALSE)
    /\ UNCHANGED <<run, session, disk, last, request, sync, decode, env>>

(* main of the next process: kv_cache_open evicts down to the budget. *)
Start(r) ==
    /\ run' = r
    /\ live' = <<>> /\ valid' = FALSE /\ last' = 0
    /\ ResetJob
    /\ pc' = "evict"
    /\ UNCHANGED <<disk, jobs, faults>>

Crash(r) ==
    /\ pc # "exit" /\ restarts < MaxRestarts
    /\ restarts' = restarts + 1
    /\ Start(r)

Exit(r) ==
    /\ pc = "exit" /\ restarts' = restarts + 1
    /\ Start(r)

-----------------------------------------------------------------------------
LookupStep ==
    \/ \E text \in Prompts, tools \in BOOLEAN : TakeJob(text, tools)
    \/ LoadMiss
    \/ \E i \in DOMAIN disk : LoadHit(i) \/ LoadFails(i)

SyncStep ==
    \/ Prefill \/ StoreCold \/ PrefillRest \/ StartDecode \/ StreamStartFails
    \/ SyncRefused \/ SyncAtOnce \/ SyncFails \/ SyncChunked
    \/ Chunk \/ ChunkFails \/ ChunksDone

StoreStep ==
    \/ StoreSkipped \/ StoreNew \/ WriteFails \/ Rename
    \/ \E i \in DOMAIN disk : StoreKnown(i) \/ StoreReplaces(i)
    \/ Evict \/ EvictDone \/ EvictFails

DecodeStep ==
    \/ StoreContinued \/ EvalFails \/ Stop \/ ToolCallEnds \/ StopSequence \/ Cut
    \/ \E t \in Sampled : Eval(t)
    \/ CanonicalThinking \/ Rewritten \/ EndJob
    \/ \E reply \in Rerendered(Replied) : CanonicalTool(reply)

(* The worker's own steps; jobs, shutdowns and crashes come from outside. *)
Work == (LookupStep /\ pc # "idle") \/ SyncStep \/ StoreStep \/ DecodeStep

Next ==
    \/ LookupStep \/ SyncStep \/ StoreStep \/ DecodeStep
    \/ Shutdown
    \/ \E r \in Runs : Crash(r) \/ Exit(r)

Spec == Init /\ [][Next]_vars

(* The worker thread is scheduled; nothing is assumed of the environment. *)
FairSpec == Spec /\ WF_vars(Work)

-----------------------------------------------------------------------------
(* Properties. *)

(* Whatever was reused, generation continues exactly the text the client
   sent: the backend is at the end of a history that renders to the prompt
   followed by what was generated.  And a finished turn is rewritten to
   exactly the text the next request will render, whether in place, from disk
   or from token zero (generate_job, canonicalize_thinking_checkpoint). *)
Generating ==
    \/ pc \in {"decode", "sample"}
    \/ pc \in {"store", "write", "evict"} /\ save.next \in {"decode", "sample"}
GeneratesFromPrompt ==
    /\ Generating => valid /\ TextOf(live) = job.text \o TextOf(out)
    /\ pc = "rewritten" => valid /\ TextOf(live) = want


(* Every visible file is a whole checkpoint under its own name, also after a
   crash between any two steps of a store: one file a text, none below the
   minimum, none past the context it was made with. *)
FilesAreCheckpoints ==
    \A i \in DOMAIN disk :
        /\ disk[i].text = TextOf(disk[i].tokens)
        /\ Len(disk[i].tokens) \in MinTokens .. disk[i].run.ctx
        /\ \A j \in DOMAIN disk : disk[i].text = disk[j].text => i = j

(* A disk hit is found only when nothing longer could be: no usable file that
   is a longer prefix of the wanted text was passed over. *)
Usable(f) == IsPrefix(f.text, want) /\ FitsHeader(f, run) /\ Loadable(f, run)
DiskHit == pc \in {"load", "reload"} /\ live' # <<>> /\ live' # live
HitIsLongest ==
    [][DiskHit => \A i \in DOMAIN disk :
                    Usable(disk[i]) => Len(disk[i].text) <= Len(TextOf(live'))]_vars

(* A request that replaces a live checkpoint long enough to be kept finds it
   on disk, loadable, at that moment; a failed write or a full disk excepted,
   and a history that fills the context, which nothing could continue. *)
KeptText(history) ==
    \E i \in DOMAIN disk : disk[i].text = TextOf(history) /\ Loadable(disk[i], run)
Replaced ==
    /\ valid /\ Len(live) \in MinTokens .. run.ctx - 1
    /\ faults' = 0 /\ restarts' = restarts
    /\ pc \in {"load", "sync", "chunk"} /\ ~sync.quiet
    /\ ~IsPrefix(live, live')
ReplacedIsKept == [][Replaced => KeptText(live)]_vars

(* Every job ends: no sync, store or eviction loop runs for ever. *)
JobEnds == (job # NoJob) ~> (job = NoJob)

(* ds4_server.c:5840: a file this server cannot use is replaced, so that this
   context can still populate its own cache.  A store that did not fail
   leaves a loadable file. *)
StoreLeavesLoadable ==
    [][pc = "store" /\ pc' = save.next /\ save'.note /\ valid /\ Len(live) < run.ctx => KeptText(live)]_vars
=============================================================================
