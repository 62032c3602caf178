----------------------------- MODULE ReaderPool -----------------------------
(***************************************************************************)
(* ChunkedPreadPool (src/io_pool.cpp): threads that read chunks of expert  *)
(* files.  A read is split into chunks of whole pages; its callback runs   *)
(* with the aggregate once the last chunk is counted down.  A critical     *)
(* section of mutex_ is one step, so is each operation on the two atomics. *)
(***************************************************************************)
EXTENDS Integers, FiniteSets, SequencesExt

CONSTANTS
    Readers,        \* the worker threads
    ReadLists       \* what the owner may submit: sequences of [pages, split]

ASSUME ReadersAssumption == IsFiniteSet(Readers) /\ Readers # {}
ASSUME ReadListsAssumption ==
    ReadLists \subseteq Seq([pages : Nat \ {0}, split : Nat])

VARIABLES
    reads,          \* the list being submitted
    owner,          \* "submit", "drain", "draining", "stop", "joining" or "gone"
    next,           \* the chunk submitted next
    queue, inFlight, stopping,
    reader,         \* per thread "ready", "asleep", "pread", "add", "count", "report", "gone"
    task, result,   \* per thread the chunk it holds and what pread returned
    aggregate, remaining,   \* per read the shared atomics
    called,         \* per read the results its callback was called with
    pagesRead       \* history: per read the pages whose pread succeeded in full

rvars == <<reads, owner, next, queue, inFlight, stopping, reader, task, result,
           aggregate, remaining, called, pagesRead>>

NoTask == [read |-> 0, chunk |-> 0]

(* submit_chunked: the number of chunks, the pages of chunk i of n, i from 0,
   and the page each of them starts at.                                     *)
Chunks(r) == IF r.split <= 1 THEN 1 ELSE IF r.split < r.pages THEN r.split ELSE r.pages
PagesOf(r, i) == r.pages \div Chunks(r) + IF i < r.pages % Chunks(r) THEN 1 ELSE 0
PageCursor(r) ==
    LET cursor[i \in 0..Chunks(r)] == IF i = 0 THEN 0 ELSE cursor[i - 1] + PagesOf(r, i - 1)
    IN  cursor

Size(x) == PagesOf(reads[x.read], x.chunk)
Pages(x) ==
    LET first == PageCursor(reads[x.read])[x.chunk]
    IN  first..(first + Size(x) - 1)

RInit ==
    /\ reads \in ReadLists /\ owner = "submit" /\ next = [read |-> 1, chunk |-> 0]
    /\ queue = <<>> /\ inFlight = 0 /\ stopping = FALSE
    /\ reader = [t \in Readers |-> "ready"]
    /\ task = [t \in Readers |-> NoTask] /\ result = [t \in Readers |-> 0]
    /\ aggregate = [k \in DOMAIN reads |-> 0]
    /\ remaining = [k \in DOMAIN reads |-> Chunks(reads[k])]
    /\ called = [k \in DOMAIN reads |-> <<>>]
    /\ pagesRead = [k \in DOMAIN reads |-> {}]

OwnerOnly == UNCHANGED <<reads, task, result, aggregate, remaining, called, pagesRead>>

(* notify_one wakes one sleeper, if there is one. *)
WakeOne ==
    IF \E t \in Readers : reader[t] = "asleep"
    THEN \E t \in Readers : reader[t] = "asleep" /\ reader' = [reader EXCEPT ![t] = "ready"]
    ELSE UNCHANGED reader

-----------------------------------------------------------------------------
(* The owner.  Every chunk is submitted, counted and announced by itself, read
   after read.                                                             *)
AllSubmitted == next.read > Len(reads)
Following(x) ==
    IF x.chunk + 1 < Chunks(reads[x.read])
    THEN [read |-> x.read, chunk |-> x.chunk + 1]
    ELSE [read |-> x.read + 1, chunk |-> 0]

Submit ==
    /\ owner = "submit" /\ ~AllSubmitted
    /\ queue' = Append(queue, next)
    /\ inFlight' = inFlight + 1
    /\ WakeOne
    /\ next' = Following(next)
    /\ UNCHANGED <<owner, stopping>> /\ OwnerOnly

(* It drains the pool, which tests the predicate before it waits. *)
Drain ==
    /\ owner \in {"submit", "drain"} /\ AllSubmitted
    /\ owner' = IF inFlight = 0 /\ queue = <<>> THEN "stop" ELSE "draining"
    /\ UNCHANGED <<next, queue, inFlight, stopping, reader>> /\ OwnerOnly

(* The destructor, with or without a drain before it. *)
Stop ==
    /\ owner \in {"submit", "stop"} /\ AllSubmitted
    /\ stopping' = TRUE
    /\ reader' = [t \in Readers |-> IF reader[t] = "asleep" THEN "ready" ELSE reader[t]]
    /\ owner' = "joining"
    /\ UNCHANGED <<next, queue, inFlight>> /\ OwnerOnly

Join ==
    /\ owner = "joining" /\ \A t \in Readers : reader[t] = "gone"
    /\ owner' = "gone"
    /\ UNCHANGED <<next, queue, inFlight, stopping, reader>> /\ OwnerOnly

-----------------------------------------------------------------------------
(* A thread of the pool. *)
\* mutant: the queue is left when the pool stops
TestLeavesQueue(t) ==
    /\ reader[t] = "ready"
    /\ IF ~stopping /\ queue # <<>>
       THEN /\ task' = [task EXCEPT ![t] = Head(queue)]
            /\ queue' = Tail(queue)
            /\ reader' = [reader EXCEPT ![t] = "pread"]
       ELSE /\ reader' = [reader EXCEPT ![t] = IF stopping THEN "gone" ELSE "asleep"]
            /\ UNCHANGED <<task, queue>>
    /\ UNCHANGED <<reads, owner, next, inFlight, stopping, result, aggregate, remaining, called, pagesRead>>

Test(t) ==
    /\ reader[t] = "ready"
    /\ IF queue # <<>>
       THEN /\ task' = [task EXCEPT ![t] = Head(queue)]
            /\ queue' = Tail(queue)
            /\ reader' = [reader EXCEPT ![t] = "pread"]
       ELSE /\ reader' = [reader EXCEPT ![t] = IF stopping THEN "gone" ELSE "asleep"]
            /\ UNCHANGED <<task, queue>>
    /\ UNCHANGED <<reads, owner, next, inFlight, stopping, result, aggregate, remaining, called, pagesRead>>

(* pread: everything, or -1, or fewer bytes, counted here in pages. *)
Pread(t) ==
    /\ reader[t] = "pread"
    /\ \E n \in -1..Size(task[t]) :
           /\ result' = [result EXCEPT ![t] = n]
           /\ pagesRead' = IF n = Size(task[t])
                           THEN [pagesRead EXCEPT ![task[t].read] = @ \cup Pages(task[t])]
                           ELSE pagesRead
    /\ reader' = [reader EXCEPT ![t] = IF Chunks(reads[task[t].read]) = 1 THEN "count" ELSE "add"]
    /\ UNCHANGED <<reads, owner, next, queue, inFlight, stopping, task, aggregate, remaining, called>>

(* The callback of a chunk: a success is added, a failure stored. *)
Aggregate(t) ==
    /\ reader[t] = "add"
    /\ aggregate' = [aggregate EXCEPT ![task[t].read] = IF result[t] > 0 THEN @ + result[t] ELSE result[t]]
    /\ reader' = [reader EXCEPT ![t] = "count"]
    /\ UNCHANGED <<reads, owner, next, queue, inFlight, stopping, task, result, remaining, called, pagesRead>>

(* The last one to count down calls on_complete; a read of one chunk has no
   aggregate and is answered with the result itself.                       *)
\* mutant: the callback runs when the count was already zero
CountsOffByOne(t) ==
    /\ reader[t] = "count"
    /\ LET k == task[t].read
       IN  /\ remaining' = [remaining EXCEPT ![k] = @ - 1]
           /\ called' = IF remaining[k] <= 2 THEN [called EXCEPT ![k] = Append(@, aggregate[k])] ELSE called
    /\ reader' = [reader EXCEPT ![t] = "report"]
    /\ UNCHANGED <<reads, owner, next, queue, inFlight, stopping, task, result, aggregate, pagesRead>>

CountDown(t) ==
    /\ reader[t] = "count"
    /\ LET k == task[t].read
           answer == IF Chunks(reads[k]) = 1 THEN result[t] ELSE aggregate[k]
       IN  /\ remaining' = [remaining EXCEPT ![k] = @ - 1]
           /\ called' = IF remaining[k] = 1 THEN [called EXCEPT ![k] = Append(@, answer)] ELSE called
    /\ reader' = [reader EXCEPT ![t] = "report"]
    /\ UNCHANGED <<reads, owner, next, queue, inFlight, stopping, task, result, aggregate, pagesRead>>

\* mutant: a drain is only told when it was the last task of the queue
ReportSilent(t) ==
    /\ reader[t] = "report"
    /\ inFlight' = IF inFlight > 0 THEN inFlight - 1 ELSE inFlight
    /\ owner' = IF owner = "draining" /\ inFlight = 0 THEN "drain" ELSE owner
    /\ reader' = [reader EXCEPT ![t] = "ready"]
    /\ UNCHANGED <<reads, next, queue, stopping, task, result, aggregate, remaining, called, pagesRead>>

Report(t) ==
    /\ reader[t] = "report"
    /\ inFlight' = IF inFlight > 0 THEN inFlight - 1 ELSE inFlight
    /\ owner' = IF owner = "draining" /\ inFlight' = 0 /\ queue = <<>> THEN "drain" ELSE owner
    /\ reader' = [reader EXCEPT ![t] = "ready"]
    /\ UNCHANGED <<reads, next, queue, stopping, task, result, aggregate, remaining, called, pagesRead>>

ReaderStep(t) == Test(t) \/ Pread(t) \/ Aggregate(t) \/ CountDown(t) \/ Report(t)
OwnerStep == Submit \/ Drain \/ Stop \/ Join
RNext == OwnerStep \/ \E t \in Readers : ReaderStep(t)

RSpec == RInit /\ [][RNext]_rvars

-----------------------------------------------------------------------------
Busy == {t \in Readers : reader[t] \in {"pread", "add", "count", "report"}}

(* in_flight_ counts what is queued and what a thread holds, so neither drain
   nor the destructor returns while a chunk is left or a thread still uses
   the buffer or callback of one (submit, drain, worker_loop).              *)
NothingLeftBehind ==
    /\ inFlight = Len(queue) + Cardinality(Busy)
    /\ owner \in {"stop", "gone"} => Busy = {} /\ queue = <<>>

(* A read is answered once, by its last chunk, and told its size when every
   page was read; nothing is left, and all are answered, by the end of a
   drain (submit_chunked, drain).                                          *)
ReadsAnswered ==
    /\ NothingLeftBehind
    /\ owner \in {"stop", "gone"} => \A k \in DOMAIN reads : Len(called[k]) = 1
    /\ \A k \in DOMAIN reads :
           called[k] # <<>> =>
               /\ Len(called[k]) = 1 /\ remaining[k] = 0
               /\ pagesRead[k] = 0..(reads[k].pages - 1) => called[k] = <<reads[k].pages>>
=============================================================================
