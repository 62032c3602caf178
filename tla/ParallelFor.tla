---------------------------- MODULE ParallelFor ----------------------------
(***************************************************************************)
(* The CPU worker pool of ds4.c: ds4_parallel_for splits the rows of a     *)
(* kernel over persistent threads that wait for the next generation.  The  *)
(* caller takes the first share itself; job and context live on its stack. *)
(* A critical section of g_pool.mutex is one step, a thread that waits on  *)
(* a condition is "asleep" until it is woken.                              *)
(***************************************************************************)
EXTENDS Integers, FiniteSets, Sequences

CONSTANTS
    Threads,        \* g_pool.n_threads: the caller and Threads - 1 workers
    MinRows,        \* min_parallel_rows
    CallLists       \* the calls a run may make: sequences of row counts

ASSUME ThreadsAssumption == Threads \in Nat \ {0} /\ MinRows \in Nat
ASSUME CallsAssumption == CallLists \subseteq Seq(Nat)

VARIABLES
    calls,          \* row counts of the calls still to come
    caller,         \* "idle", "share", "await", "asleep", "joining" or "gone"
    generation, doneWorkers, shutdown,      \* g_pool
    jobRows,        \* g_pool.n_rows, and with it fn and ctx
    worker,         \* per worker "ready", "asleep", "share", "report" or "gone"
    seenGeneration, \* its seen_generation
    taken,          \* the rows of the job it read before it unlocked
    runs            \* history: how often fn ran over each row of this call

pvars == <<calls, caller, generation, doneWorkers, shutdown, jobRows, worker, seenGeneration, taken, runs>>

Workers == 1..(Threads - 1)

(* rows_per_thread and the share of thread tid, 0 for the caller; the last
   shares may be short or empty.                                           *)
RowsPerThread(n) == (n + Threads - 1) \div Threads
\* mutant: shares of the rounded down size
ShareTruncated(tid, n) ==
    {row \in 0..(n - 1) : tid * (n \div Threads) <= row /\ row < (tid + 1) * (n \div Threads)}
Share(tid, n) ==
    {row \in 0..(n - 1) : tid * RowsPerThread(n) <= row /\ row < (tid + 1) * RowsPerThread(n)}

RunOver(rows) == runs' = [row \in DOMAIN runs |-> runs[row] + IF row \in rows THEN 1 ELSE 0]

PInit ==
    /\ calls \in CallLists /\ caller = "idle"
    /\ generation = 0 /\ doneWorkers = 0 /\ shutdown = FALSE /\ jobRows = 0
    /\ worker = [w \in Workers |-> "ready"]
    /\ seenGeneration = [w \in Workers |-> 0] /\ taken = [w \in Workers |-> 0]
    /\ runs = <<>>

NewRuns(n) == [row \in 0..(n - 1) |-> 0]
Woken == [w \in Workers |-> IF worker[w] = "asleep" THEN "ready" ELSE worker[w]]

-----------------------------------------------------------------------------
(* The caller.  Small jobs run serially, so does every job of one thread.  *)
CallSerial ==
    /\ caller = "idle" /\ calls # <<>> /\ ~shutdown
    /\ Threads = 1 \/ Head(calls) < MinRows
    /\ runs' = [row \in 0..(Head(calls) - 1) |-> 1]
    /\ calls' = Tail(calls)
    /\ UNCHANGED <<caller, generation, doneWorkers, shutdown, jobRows, worker, seenGeneration, taken>>

CallParallel ==
    /\ caller = "idle" /\ calls # <<>> /\ ~shutdown
    /\ Threads > 1 /\ Head(calls) >= MinRows
    /\ jobRows' = Head(calls)
    /\ doneWorkers' = 0
    /\ generation' = generation + 1
    /\ worker' = Woken
    /\ runs' = NewRuns(Head(calls))
    /\ calls' = Tail(calls)
    /\ caller' = "share"
    /\ UNCHANGED <<shutdown, seenGeneration, taken>>

CallerShare ==
    /\ caller = "share"
    /\ RunOver(Share(0, jobRows))
    /\ caller' = "await"
    /\ UNCHANGED <<calls, generation, doneWorkers, shutdown, jobRows, worker, seenGeneration, taken>>

(* The test of the wait loop and what follows it, in one critical section. *)
\* mutant: waits for one worker less
AwaitFewer ==
    /\ caller = "await"
    /\ caller' = IF doneWorkers < Threads - 2 THEN "asleep" ELSE "idle"
    /\ UNCHANGED <<calls, generation, doneWorkers, shutdown, jobRows, worker, seenGeneration, taken, runs>>
Await ==
    /\ caller = "await"
    /\ caller' = IF doneWorkers < Threads - 1 THEN "asleep" ELSE "idle"
    /\ UNCHANGED <<calls, generation, doneWorkers, shutdown, jobRows, worker, seenGeneration, taken, runs>>

(* ds4_threads_shutdown, once no call is to come. *)
Shutdown ==
    /\ caller = "idle" /\ calls = <<>> /\ ~shutdown /\ Threads > 1
    /\ shutdown' = TRUE /\ generation' = generation + 1
    /\ worker' = Woken
    /\ caller' = "joining"
    /\ UNCHANGED <<calls, doneWorkers, jobRows, seenGeneration, taken, runs>>

(* The joins, after which the pool is zeroed. *)
Joined ==
    /\ caller = "joining" /\ \A w \in Workers : worker[w] = "gone"
    /\ caller' = "gone"
    /\ UNCHANGED <<calls, generation, doneWorkers, shutdown, jobRows, worker, seenGeneration, taken, runs>>

-----------------------------------------------------------------------------
(* A worker: the test of its wait loop, with the copy of the job. *)
WorkerTest(w) ==
    /\ worker[w] = "ready"
    /\ worker' = [worker EXCEPT ![w] =
           IF shutdown THEN "gone" ELSE IF seenGeneration[w] = generation THEN "asleep" ELSE "share"]
    /\ LET takes == ~shutdown /\ seenGeneration[w] # generation
       IN  /\ seenGeneration' = IF takes THEN [seenGeneration EXCEPT ![w] = generation] ELSE seenGeneration
           /\ taken' = IF takes THEN [taken EXCEPT ![w] = jobRows] ELSE taken
    /\ UNCHANGED <<calls, caller, generation, doneWorkers, shutdown, jobRows, runs>>

WorkerShare(w) ==
    /\ worker[w] = "share"
    /\ RunOver(Share(w, taken[w]))
    /\ worker' = [worker EXCEPT ![w] = "report"]
    /\ UNCHANGED <<calls, caller, generation, doneWorkers, shutdown, jobRows, seenGeneration, taken>>

(* done++ and the signal of the last one. *)
WorkerReport(w) ==
    /\ worker[w] = "report"
    /\ doneWorkers' = doneWorkers + 1
    /\ caller' = IF caller = "asleep" /\ doneWorkers' = Threads - 1 THEN "await" ELSE caller
    /\ worker' = [worker EXCEPT ![w] = "ready"]
    /\ UNCHANGED <<calls, generation, shutdown, jobRows, seenGeneration, taken, runs>>

WorkerStep(w) == WorkerTest(w) \/ WorkerShare(w) \/ WorkerReport(w)
CallerStep == CallSerial \/ CallParallel \/ CallerShare \/ Await \/ Shutdown \/ Joined
PNext == CallerStep \/ \E w \in Workers : WorkerStep(w)

PSpec == PInit /\ [][PNext]_pvars

(* A call returns when fn ran over every row of it exactly once, and a worker
   inside fn works for the call that is in progress: the context on the
   caller's stack is alive and the rows are those of this job
   (ds4_parallel_for_min_rows, ds4_worker_main).                           *)
EveryRowOnce ==
    /\ caller \in {"idle", "joining", "gone"} => \A row \in DOMAIN runs : runs[row] = 1
    /\ \A w \in Workers :
           worker[w] \in {"share", "report"} =>
               /\ caller \in {"share", "await", "asleep"}
               /\ seenGeneration[w] = generation /\ taken[w] = jobRows
=============================================================================
