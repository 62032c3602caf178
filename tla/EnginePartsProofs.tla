------------------------- MODULE EnginePartsProofs -------------------------
(***************************************************************************)
(* Parts the engines rest on, which share no variable.                     *)
(*                                                                         *)
(* The CPU worker pool of ds4.c for any number of threads, any threshold   *)
(* and any sequence of calls: every row of a job is computed once before   *)
(* its call returns, and no worker is inside a job that is over.           *)
(*                                                                         *)
(* ChunkedPreadPool for any threads and any reads: what drain and the      *)
(* destructor wait for, whatever a read is cut into, and then what a read  *)
(* is answered, from where its chunks are and what they read.              *)
(*                                                                         *)
(* The weights and the device memory of the CUDA backend for any models,   *)
(* tensors, switches, sizes of spans, chunks, buffers and arenas, and any  *)
(* failures.                                                               *)
(*                                                                         *)
(* The routed experts of a layer for any number of experts, slots, lanes   *)
(* and tokens, any tile sizes and switches, and any order of the scatter.  *)
(***************************************************************************)
EXTENDS ParallelFor, ReaderPool, WeightCache, ExpertDispatch, NatProofs, FiniteSetTheorems, SequenceTheorems

-----------------------------------------------------------------------------
(* The shares of the threads partition the rows. *)

LEMMA Divide ==
    ASSUME NEW a \in Nat, NEW b \in Nat, b > 0
    PROVE  /\ a \div b \in Nat
           /\ (a \div b) * b <= a
           /\ a < (a \div b + 1) * b
BY SMT

LEMMA SharesCover ==
    ASSUME NEW n \in Nat
    PROVE  /\ RowsPerThread(n) \in Nat
           /\ n <= RowsPerThread(n) * Threads
<1> DEFINE k == RowsPerThread(n)
<1>1. Threads \in Nat /\ Threads > 0
    BY ThreadsAssumption
<1>2. n + Threads - 1 \in Nat
    BY <1>1
<1>3. /\ k \in Nat
      /\ n + Threads - 1 < (k + 1) * Threads
    BY <1>1, <1>2, Divide DEF RowsPerThread
<1>4. (k + 1) * Threads = k * Threads + Threads
    BY <1>1, <1>3
<1>5. k * Threads \in Nat
    BY <1>1, <1>3
<1> HIDE DEF k
<1>6. n <= k * Threads
    BY <1>1, <1>3, <1>4, <1>5
<1> QED
    BY <1>3, <1>6 DEF k

LEMMA ShareOfEveryRow ==
    ASSUME NEW n \in Nat, NEW row \in 0 .. (n - 1)
    PROVE  \E tid \in 0 .. (Threads - 1) : row \in Share(tid, n)
<1> DEFINE k == RowsPerThread(n)
           tid == row \div k
<1>1. Threads \in Nat /\ Threads > 0 /\ k \in Nat /\ n <= k * Threads
    BY ThreadsAssumption, SharesCover
<1>2. k > 0
  <2>1. CASE k = 0
    BY <1>1, <2>1
  <2> QED BY <1>1, <2>1
<1>3. /\ tid \in Nat /\ tid * k <= row /\ row < (tid + 1) * k
    BY <1>1, <1>2, Divide
<1>4. tid < Threads
  <2>1. SUFFICES ASSUME Threads <= tid PROVE FALSE
    BY <1>1, <1>3
  <2>2. Threads * k <= tid * k
    BY <1>1, <1>3, <2>1, TimesMonotone
  <2>3. Threads * k = k * Threads
    BY <1>1
  <2> HIDE DEF tid, k
  <2>4. Threads * k \in Nat /\ tid * k \in Nat
    BY <1>1, <1>3
  <2> QED BY <1>1, <1>3, <2>2, <2>3, <2>4
<1> QED
    BY <1>1, <1>3, <1>4 DEF Share

LEMMA ShareOfOneThread ==
    ASSUME NEW n \in Nat, NEW row \in 0 .. (n - 1),
           NEW s \in 0 .. (Threads - 1), NEW t \in 0 .. (Threads - 1),
           row \in Share(s, n), row \in Share(t, n)
    PROVE  s = t
<1> DEFINE k == RowsPerThread(n)
<1>1. k \in Nat /\ Threads \in Nat
    BY ThreadsAssumption, SharesCover
<1>2. ASSUME NEW a \in Nat, NEW b \in Nat, a < b, row < (a + 1) * k, b * k <= row
      PROVE  FALSE
  <2>1. (a + 1) * k <= b * k
    BY <1>1, <1>2, TimesMonotone
  <2> HIDE DEF k
  <2>2. (a + 1) * k \in Nat /\ b * k \in Nat
    BY <1>1
  <2> QED BY <1>2, <2>1, <2>2
<1>3. /\ s * k <= row /\ row < (s + 1) * k
      /\ t * k <= row /\ row < (t + 1) * k
    BY DEF Share
<1> HIDE DEF k
<1>4. ~(s < t) /\ ~(t < s)
    BY <1>1, <1>2, <1>3
<1> QED
    BY <1>1, <1>4

-----------------------------------------------------------------------------
(* The inductive invariant. *)

InCall == caller \in {"share", "await", "asleep"}

PTypeOK ==
    /\ calls \in Seq(Nat)
    /\ caller \in {"idle", "share", "await", "asleep", "joining", "gone"}
    /\ generation \in Nat /\ doneWorkers \in Nat /\ shutdown \in BOOLEAN /\ jobRows \in Nat
    /\ worker \in [Workers -> {"ready", "asleep", "share", "report", "gone"}]
    /\ seenGeneration \in [Workers -> Nat] /\ taken \in [Workers -> Nat]

(* Workers that counted themselves for this generation; threads that ran
   their share of it.                                                      *)
Reported == {w \in Workers : seenGeneration[w] = generation /\ worker[w] \in {"ready", "asleep"}}
RanShare(tid) ==
    IF tid = 0 THEN caller # "share"
    ELSE seenGeneration[tid] = generation /\ worker[tid] # "share"

(* Between calls every worker has seen the generation and is out of its job. *)
RestInv ==
    ~ InCall =>
        /\ \A row \in DOMAIN runs : runs[row] = 1
        /\ \A w \in Workers : worker[w] \notin {"share", "report"}
        /\ caller = "idle" => \A w \in Workers : seenGeneration[w] = generation
        /\ shutdown <=> caller # "idle"

(* During a call a row was run exactly by the threads whose share has it and
   that ran their share; done counts the workers that reported.            *)
CallInv ==
    InCall =>
        /\ ~ shutdown
        /\ doneWorkers = Cardinality(Reported)
        /\ runs \in [0 .. (jobRows - 1) -> {0, 1}]
        /\ \A tid \in 0 .. (Threads - 1) : \A row \in Share(tid, jobRows) :
               runs[row] = 1 <=> RanShare(tid)
        /\ \A w \in Workers :
               worker[w] \in {"share", "report"} =>
                   seenGeneration[w] = generation /\ taken[w] = jobRows

PoolInv == PTypeOK /\ RestInv /\ CallInv

LEMMA WorkersFinite ==
    /\ Workers \subseteq Nat
    /\ IsFiniteSet(Workers)
    /\ Cardinality(Workers) = Threads - 1
    /\ \A w \in Workers : w # 0 /\ w \in 0 .. (Threads - 1)
<1>1. Threads \in Nat /\ Threads > 0
    BY ThreadsAssumption
<1>2. IsFiniteSet(1 .. (Threads - 1)) /\ Cardinality(1 .. (Threads - 1)) = Threads - 1
    BY <1>1, FS_Interval
<1> QED
    BY <1>1, <1>2 DEF Workers

(* The invariant says more than the property. *)
LEMMA InvSuffices == PoolInv => EveryRowOnce
BY DEF PoolInv, RestInv, CallInv, PTypeOK, InCall, EveryRowOnce

LEMMA PoolInit == PInit => PoolInv
<1> SUFFICES ASSUME PInit PROVE PoolInv
    OBVIOUS
<1>1. PTypeOK
    BY CallsAssumption DEF PInit, PTypeOK
<1>2. RestInv /\ CallInv
    BY DEF PInit, RestInv, CallInv, InCall
<1> QED
    BY <1>1, <1>2 DEF PoolInv

LEMMA WorkerTestStep ==
    ASSUME PoolInv, NEW w \in Workers, WorkerTest(w)
    PROVE  PoolInv'
<1> USE DEF PoolInv, InCall
<1>1. PTypeOK'
    BY DEF PTypeOK, WorkerTest
<1>2. RestInv'
    BY DEF PTypeOK, RestInv, CallInv, WorkerTest
<1>3. ASSUME InCall PROVE CallInv'
  <2>1. Reported' = Reported
    BY <1>3 DEF PTypeOK, CallInv, WorkerTest, Reported
  <2>2. \A tid \in 0 .. (Threads - 1) : RanShare(tid)' <=> RanShare(tid)
    BY <1>3, WorkersFinite DEF PTypeOK, CallInv, WorkerTest, RanShare, Workers
  <2> QED
    BY <1>3, <2>1, <2>2 DEF PTypeOK, CallInv, WorkerTest, Share, RowsPerThread
<1> QED
    BY <1>1, <1>2, <1>3 DEF WorkerTest, CallInv

LEMMA WorkerShareStep ==
    ASSUME PoolInv, NEW w \in Workers, WorkerShare(w)
    PROVE  PoolInv'
<1> USE DEF PoolInv, InCall
<1>1. InCall /\ seenGeneration[w] = generation /\ taken[w] = jobRows
    BY DEF RestInv, CallInv, WorkerShare
<1>2. PTypeOK' /\ RestInv'
    BY <1>1 DEF PTypeOK, RestInv, WorkerShare
<1>3. w \in 0 .. (Threads - 1) /\ w # 0
    BY WorkersFinite
<1>4. Reported' = Reported
    BY DEF PTypeOK, WorkerShare, Reported
<1>5. \A tid \in 0 .. (Threads - 1) : RanShare(tid)' <=> (RanShare(tid) \/ tid = w)
    BY <1>1, <1>3, WorkersFinite DEF PTypeOK, WorkerShare, RanShare, Workers
<1>6. ~ RanShare(w)
    BY <1>3 DEF WorkerShare, RanShare
<1>7. ASSUME NEW row \in Share(w, jobRows) PROVE row \in 0 .. (jobRows - 1) /\ runs[row] = 0
    BY <1>1, <1>3, <1>6, <1>7 DEF CallInv, Share
<1>8. runs' = [row \in 0 .. (jobRows - 1) |-> IF row \in Share(w, jobRows) THEN 1 ELSE runs[row]]
  <2>1. DOMAIN runs = 0 .. (jobRows - 1) /\ \A row \in DOMAIN runs : runs[row] \in {0, 1}
    BY <1>1 DEF CallInv
  <2>2. runs' = [row \in DOMAIN runs |-> runs[row] + IF row \in Share(w, jobRows) THEN 1 ELSE 0]
    BY <1>1 DEF WorkerShare, RunOver
  <2>3. \A row \in DOMAIN runs :
           runs[row] + (IF row \in Share(w, jobRows) THEN 1 ELSE 0) =
               IF row \in Share(w, jobRows) THEN 1 ELSE runs[row]
    BY <1>7, <2>1
  <2> QED BY <2>1, <2>2, <2>3
<1>9. runs' \in [0 .. (jobRows - 1) -> {0, 1}]
    BY <1>1, <1>8 DEF CallInv
<1>10. ASSUME NEW tid \in 0 .. (Threads - 1), NEW row \in Share(tid, jobRows)
       PROVE  runs'[row] = 1 <=> RanShare(tid)'
  <2>1. row \in 0 .. (jobRows - 1)
    BY DEF Share
  <2>2. CASE tid = w
    BY <1>5, <1>8, <1>7, <2>1, <2>2
  <2>3. CASE tid # w
    <3>1. row \notin Share(w, jobRows)
      BY <1>3, <2>1, <2>3, ShareOfOneThread DEF PTypeOK
    <3>2. runs'[row] = runs[row] /\ (runs[row] = 1 <=> RanShare(tid))
      BY <1>1, <1>8, <1>10, <2>1, <3>1 DEF CallInv
    <3> QED BY <1>5, <2>3, <3>2
  <2> QED BY <2>2, <2>3
<1>11. jobRows' = jobRows
    BY DEF WorkerShare
<1>12. \A tid : Share(tid, jobRows)' = Share(tid, jobRows)
    BY <1>11 DEF Share, RowsPerThread
<1>13. CallInv'
    BY <1>1, <1>4, <1>9, <1>10, <1>11, <1>12 DEF CallInv, WorkerShare, PTypeOK
<1> QED
    BY <1>2, <1>13

LEMMA WorkerReportStep ==
    ASSUME PoolInv, NEW w \in Workers, WorkerReport(w)
    PROVE  PoolInv'
<1> USE DEF PoolInv, InCall
<1>1. InCall /\ seenGeneration[w] = generation
    BY DEF RestInv, CallInv, WorkerReport
<1>2. PTypeOK' /\ RestInv'
    BY <1>1 DEF PTypeOK, RestInv, WorkerReport
<1>3. doneWorkers' = Cardinality(Reported')
  <2>1. w \notin Reported /\ Reported' = Reported \cup {w}
    BY <1>1 DEF Reported, WorkerReport, PTypeOK
  <2>2. IsFiniteSet(Reported)
    BY WorkersFinite, FS_Subset DEF Reported
  <2>3. Cardinality(Reported \cup {w}) = Cardinality(Reported) + 1
    BY <2>1, <2>2, FS_AddElement
  <2> QED BY <1>1, <2>1, <2>3 DEF CallInv, WorkerReport
<1>4. \A tid \in 0 .. (Threads - 1) : RanShare(tid)' <=> RanShare(tid)
    BY <1>1, WorkersFinite DEF PTypeOK, WorkerReport, RanShare, Workers
<1>5. CallInv'
    BY <1>1, <1>3, <1>4 DEF PTypeOK, CallInv, WorkerReport, Share, RowsPerThread
<1> QED
    BY <1>2, <1>5

-----------------------------------------------------------------------------
(* The caller. *)

LEMMA CallSerialStep == PoolInv /\ CallSerial => PoolInv'
BY HeadTailProperties DEF PoolInv, PTypeOK, RestInv, CallInv, InCall, CallSerial

LEMMA CallParallelStep == ASSUME PoolInv, CallParallel PROVE PoolInv'
<1> USE DEF PoolInv, InCall
<1>1. Head(calls) \in Nat /\ Tail(calls) \in Seq(Nat)
    BY HeadTailProperties DEF PTypeOK, CallParallel
<1>2. PTypeOK' /\ RestInv'
    BY <1>1 DEF PTypeOK, RestInv, CallParallel, Woken
<1>3. \A w \in Workers : seenGeneration'[w] # generation' /\ worker'[w] \notin {"share", "report"}
    BY DEF PTypeOK, RestInv, CallParallel, Woken
<1>4. Reported' = {}
    BY <1>3 DEF Reported
<1>5. \A tid \in 0 .. (Threads - 1) : ~ RanShare(tid)'
    BY <1>3 DEF RanShare, CallParallel, Workers
<1>6. runs' = [row \in 0 .. (jobRows' - 1) |-> 0]
    BY DEF CallParallel, NewRuns
<1>7. \A tid : Share(tid, jobRows)' \subseteq 0 .. (jobRows' - 1)
    BY DEF Share
<1>8. doneWorkers' = Cardinality(Reported')
    BY <1>4, FS_EmptySet DEF CallParallel
<1>9. \A tid \in 0 .. (Threads - 1) : \A row \in Share(tid, jobRows)' : (runs'[row] = 1 <=> RanShare(tid)')
    BY <1>5, <1>6, <1>7
<1> QED
    BY <1>2, <1>3, <1>6, <1>8, <1>9 DEF CallInv, CallParallel

LEMMA CallerShareStep == ASSUME PoolInv, CallerShare PROVE PoolInv'
<1> USE DEF PoolInv, InCall
<1>1. InCall
    BY DEF CallerShare
<1>2. PTypeOK' /\ RestInv'
    BY DEF PTypeOK, RestInv, CallerShare
<1>3. 0 \in 0 .. (Threads - 1)
    BY ThreadsAssumption
<1>4. Reported' = Reported
    BY DEF CallerShare, Reported
<1>5. \A tid \in 0 .. (Threads - 1) : RanShare(tid)' <=> (RanShare(tid) \/ tid = 0)
    BY DEF CallerShare, RanShare
<1>6. ~ RanShare(0)
    BY DEF CallerShare, RanShare
<1>7. ASSUME NEW row \in Share(0, jobRows) PROVE row \in 0 .. (jobRows - 1) /\ runs[row] = 0
    BY <1>1, <1>3, <1>6, <1>7 DEF CallInv, Share
<1>8. runs' = [row \in 0 .. (jobRows - 1) |-> IF row \in Share(0, jobRows) THEN 1 ELSE runs[row]]
  <2>1. DOMAIN runs = 0 .. (jobRows - 1) /\ \A row \in DOMAIN runs : runs[row] \in {0, 1}
    BY <1>1 DEF CallInv
  <2>2. runs' = [row \in DOMAIN runs |-> runs[row] + IF row \in Share(0, jobRows) THEN 1 ELSE 0]
    BY <1>1 DEF CallerShare, RunOver
  <2>3. \A row \in DOMAIN runs :
           runs[row] + (IF row \in Share(0, jobRows) THEN 1 ELSE 0) =
               IF row \in Share(0, jobRows) THEN 1 ELSE runs[row]
    BY <1>7, <2>1
  <2> QED BY <2>1, <2>2, <2>3
<1>9. runs' \in [0 .. (jobRows - 1) -> {0, 1}]
    BY <1>1, <1>8 DEF CallInv
<1>10. ASSUME NEW tid \in 0 .. (Threads - 1), NEW row \in Share(tid, jobRows)
       PROVE  runs'[row] = 1 <=> RanShare(tid)'
  <2>1. row \in 0 .. (jobRows - 1)
    BY DEF Share
  <2>2. CASE tid = 0
    BY <1>5, <1>8, <1>7, <2>1, <2>2
  <2>3. CASE tid # 0
    <3>1. row \notin Share(0, jobRows)
      BY <1>3, <2>1, <2>3, ShareOfOneThread DEF PTypeOK
    <3>2. runs'[row] = runs[row] /\ (runs[row] = 1 <=> RanShare(tid))
      BY <1>1, <1>8, <1>10, <2>1, <3>1 DEF CallInv
    <3> QED BY <1>5, <2>3, <3>2
  <2> QED BY <2>2, <2>3
<1>11. jobRows' = jobRows
    BY DEF CallerShare
<1>12. \A tid : Share(tid, jobRows)' = Share(tid, jobRows)
    BY <1>11 DEF Share, RowsPerThread
<1>13. CallInv'
    BY <1>1, <1>4, <1>9, <1>10, <1>11, <1>12 DEF CallInv, CallerShare
<1> QED
    BY <1>2, <1>13

LEMMA AwaitStep == ASSUME PoolInv, Await PROVE PoolInv'
<1> USE DEF PoolInv, InCall
<1>1. PTypeOK'
    BY DEF PTypeOK, Await
<1>2. CASE doneWorkers < Threads - 1
  <2>1. Reported' = Reported /\ \A tid \in 0 .. (Threads - 1) : RanShare(tid)' <=> RanShare(tid)
    BY <1>2 DEF Await, Reported, RanShare
  <2>2. RestInv' /\ CallInv'
    BY <1>2, <2>1 DEF RestInv, CallInv, Await, Share, RowsPerThread
  <2> QED BY <1>1, <2>2
<1>3. CASE ~ (doneWorkers < Threads - 1)
  <2>1. Reported = Workers
    <3>1. Reported \subseteq Workers
      BY DEF Reported
    <3>2. /\ Cardinality(Reported) <= Cardinality(Workers)
          /\ Cardinality(Workers) = Cardinality(Reported) => Workers = Reported
      BY <3>1, WorkersFinite, FS_Subset
    <3>3. doneWorkers = Cardinality(Reported) /\ doneWorkers \in Nat
      BY DEF CallInv, Await, PTypeOK
    <3>4. Cardinality(Reported) = Cardinality(Workers)
      BY <1>3, <3>2, <3>3, WorkersFinite, ThreadsAssumption
    <3> QED BY <3>2, <3>4
  <2>2. \A tid \in 0 .. (Threads - 1) : RanShare(tid)
    BY <2>1 DEF Reported, RanShare, Await, Workers
  <2>3. \A row \in DOMAIN runs : runs[row] = 1
    <3>1. DOMAIN runs = 0 .. (jobRows - 1)
      BY DEF CallInv, Await
    <3> QED BY <3>1, <2>2, ShareOfEveryRow DEF CallInv, Await, PTypeOK
  <2>4. RestInv' /\ CallInv'
    BY <1>3, <2>1, <2>3 DEF RestInv, CallInv, Await, Reported
  <2> QED BY <1>1, <2>4
<1> QED
    BY <1>2, <1>3

LEMMA EndStep == ASSUME PoolInv, Shutdown \/ Joined PROVE PoolInv'
<1> USE DEF PoolInv, InCall
<1>1. CASE Shutdown
    BY <1>1 DEF PTypeOK, RestInv, CallInv, Shutdown, Woken
<1>2. CASE Joined
    BY <1>2 DEF PTypeOK, RestInv, CallInv, Joined
<1> QED
    BY <1>1, <1>2

-----------------------------------------------------------------------------
LEMMA PoolStep == PoolInv /\ [PNext]_pvars => PoolInv'
<1> SUFFICES ASSUME PoolInv, [PNext]_pvars PROVE PoolInv'
    OBVIOUS
<1>1. CASE CallerStep
    BY <1>1, CallSerialStep, CallParallelStep, CallerShareStep, AwaitStep, EndStep DEF CallerStep
<1>2. CASE \E w \in Workers : WorkerStep(w)
    BY <1>2, WorkerTestStep, WorkerShareStep, WorkerReportStep DEF WorkerStep
<1>3. CASE UNCHANGED pvars
  <2>1. Reported' = Reported /\ \A tid \in 0 .. (Threads - 1) : RanShare(tid)' <=> RanShare(tid)
    BY <1>3 DEF pvars, Reported, RanShare
  <2> QED
    BY <1>3, <2>1 DEF pvars, PoolInv, PTypeOK, RestInv, CallInv, InCall, Share, RowsPerThread
<1> QED
    BY <1>1, <1>2, <1>3 DEF PNext

(* ds4_parallel_for_min_rows and ds4_worker_main, for any thread count,
   threshold and calls: when a call has returned its function ran over every
   row once, and a worker inside the function has the job in progress, so
   the context on the caller's stack is still there.                       *)
THEOREM RowsRunOnce == PSpec => []EveryRowOnce
<1>1. PSpec => []PoolInv
    BY PoolInit, PoolStep, PTL DEF PSpec
<1> QED
    BY <1>1, InvSuffices, PTL

-----------------------------------------------------------------------------
(* The reader pool: nothing is left behind.                                *)

RTypeOK ==
    /\ owner \in {"submit", "drain", "draining", "stop", "joining", "gone"}
    /\ \E Tasks : queue \in Seq(Tasks)
    /\ inFlight \in Nat
    /\ stopping \in BOOLEAN
    /\ reader \in [Readers -> {"ready", "asleep", "pread", "add", "count", "report", "gone"}]

(* A thread leaves only when the pool stops, after the last submission, and
   it finds the queue empty; a drain that is over left nothing.            *)
LeftInv ==
    /\ stopping <=> owner \in {"joining", "gone"}
    /\ \A t \in Readers : reader[t] = "gone" => stopping /\ queue = <<>>
    /\ owner = "gone" => \A t \in Readers : reader[t] = "gone"

RInv == RTypeOK /\ LeftInv /\ NothingLeftBehind

LEMMA BusyFinite == IsFiniteSet(Busy)
BY ReadersAssumption, FS_Subset DEF Busy

LEMMA ReaderInit == RInit => RInv
<1> SUFFICES ASSUME RInit PROVE RInv
    OBVIOUS
<1>1. Busy = {}
    BY DEF RInit, Busy
<1>2. Cardinality(Busy) = 0
    BY <1>1, FS_EmptySet
<1>3. queue \in Seq({}) /\ Len(queue) = 0
    BY EmptySeq DEF RInit
<1>4. /\ reader = [t \in Readers |-> "ready"]
      /\ owner = "submit" /\ inFlight = 0 /\ stopping = FALSE
    BY DEF RInit
<1>5. RTypeOK
  <2>1. \E Tasks : queue \in Seq(Tasks)
    BY <1>3
  <2>2. inFlight \in Nat
    BY <1>4
  <2>3. stopping \in BOOLEAN
    BY <1>4, Zenon
  <2>4. reader \in [Readers -> {"ready", "asleep", "pread", "add", "count", "report", "gone"}]
    BY <1>4
  <2>5. owner \in {"submit", "drain", "draining", "stop", "joining", "gone"}
    BY <1>4
  <2> QED BY <2>1, <2>2, <2>4, <2>5, <2>3 DEF RTypeOK
<1> QED
    BY <1>1, <1>2, <1>3, <1>5 DEF RInit, RInv, LeftInv, NothingLeftBehind

(* Waking threads changes nothing but who sleeps. *)
LEMMA WakeKeepsBusy ==
    ASSUME RTypeOK,
           \/ WakeOne
           \/ reader' = [t \in Readers |-> IF reader[t] = "asleep" THEN "ready" ELSE reader[t]]
    PROVE  /\ Busy' = Busy
           /\ reader' \in [Readers -> {"ready", "asleep", "pread", "add", "count", "report", "gone"}]
           /\ \A t \in Readers : reader'[t] = "gone" <=> reader[t] = "gone"
BY DEF RTypeOK, WakeOne, Busy

LEMMA SubmitStep == ASSUME RInv, Submit PROVE RInv'
<1> USE DEF RInv
<1>1. PICK Tasks : queue \in Seq(Tasks)
    BY DEF RTypeOK
<1>2. queue' \in Seq(Tasks \cup {next}) /\ Len(queue') = Len(queue) + 1
  <2>1. queue \in Seq(Tasks \cup {next})
    BY <1>1, SeqMonotonic
  <2> QED BY <2>1, AppendProperties DEF Submit
<1>3. /\ Busy' = Busy
      /\ \A t \in Readers : reader'[t] = "gone" <=> reader[t] = "gone"
      /\ reader' \in [Readers -> {"ready", "asleep", "pread", "add", "count", "report", "gone"}]
    BY WakeKeepsBusy DEF Submit
<1>4. RTypeOK'
    BY <1>2, <1>3 DEF Submit, OwnerOnly, RTypeOK
<1>5. LeftInv'
    BY <1>3 DEF Submit, LeftInv, RTypeOK
<1>6. Cardinality(Busy) \in Nat /\ Len(queue) \in Nat
    BY BusyFinite, FS_CardinalityType, LenProperties DEF RTypeOK
<1>7. NothingLeftBehind'
    BY <1>2, <1>3, <1>6 DEF Submit, NothingLeftBehind, RTypeOK
<1> QED
    BY <1>4, <1>5, <1>7

LEMMA DrainStep == ASSUME RInv, Drain PROVE RInv'
<1> USE DEF RInv
<1>1. Busy' = Busy
    BY DEF Drain, Busy
<1>2. CASE inFlight = 0 /\ queue = <<>>
  <2>1. Len(queue) = 0 /\ Cardinality(Busy) \in Nat
    BY <1>2, BusyFinite, FS_CardinalityType, EmptySeq
  <2>2. Busy = {}
    BY <1>2, <2>1, BusyFinite, FS_EmptySet DEF NothingLeftBehind
  <2> QED
    BY <1>1, <1>2, <2>2 DEF Drain, OwnerOnly, RTypeOK, LeftInv, NothingLeftBehind
<1>3. CASE ~ (inFlight = 0 /\ queue = <<>>)
    BY <1>1, <1>3 DEF Drain, OwnerOnly, RTypeOK, LeftInv, NothingLeftBehind
<1> QED
    BY <1>2, <1>3

LEMMA StopStep == ASSUME RInv, Stop PROVE RInv'
<1> USE DEF RInv
<1>1. /\ Busy' = Busy
      /\ \A t \in Readers : reader'[t] = "gone" <=> reader[t] = "gone"
      /\ reader' \in [Readers -> {"ready", "asleep", "pread", "add", "count", "report", "gone"}]
    BY WakeKeepsBusy DEF Stop
<1> QED
    BY <1>1 DEF Stop, OwnerOnly, RTypeOK, LeftInv, NothingLeftBehind

LEMMA JoinStep == ASSUME RInv, Join PROVE RInv'
<1> USE DEF RInv
<1>1. Busy' = Busy /\ Busy = {}
    BY DEF Join, Busy, RTypeOK
<1>2. queue = <<>>
    BY ReadersAssumption DEF Join, LeftInv
<1> QED
    BY <1>1, <1>2 DEF Join, OwnerOnly, RTypeOK, LeftInv, NothingLeftBehind

-----------------------------------------------------------------------------
LEMMA TestStep == ASSUME RInv, NEW t \in Readers, Test(t) PROVE RInv'
<1> USE DEF RInv
<1>1. t \notin Busy
    BY DEF Test, Busy
<1>2. CASE queue # <<>>
  <2>1. PICK Tasks : queue \in Seq(Tasks)
    BY DEF RTypeOK
  <2>2. queue' \in Seq(Tasks) /\ Len(queue) \in Nat /\ Len(queue') = Len(queue) - 1
    BY <1>2, <2>1, HeadTailProperties, LenProperties DEF Test
  <2>3. reader' = [reader EXCEPT ![t] = "pread"]
    BY <1>2 DEF Test
  <2>4. Busy' = Busy \cup {t}
    BY <2>3 DEF Busy, RTypeOK
  <2>5. Cardinality(Busy') = Cardinality(Busy) + 1 /\ Cardinality(Busy) \in Nat
    BY <1>1, <2>4, BusyFinite, FS_AddElement, FS_CardinalityType
  <2>6. owner \notin {"stop", "gone"}
    BY <1>2 DEF NothingLeftBehind
  <2>7. \E Rest : queue' \in Seq(Rest)
    BY <2>2
  <2> QED
    BY <1>2, <2>2, <2>3, <2>5, <2>6, <2>7 DEF Test, RTypeOK, LeftInv, NothingLeftBehind
<1>3. CASE queue = <<>>
  <2>1. reader' = [reader EXCEPT ![t] = IF stopping THEN "gone" ELSE "asleep"] /\ queue' = queue
    BY <1>3 DEF Test
  <2>2. Busy' = Busy
    BY <1>1, <2>1 DEF Busy, RTypeOK
  <2> QED
    BY <1>3, <2>1, <2>2 DEF Test, RTypeOK, LeftInv, NothingLeftBehind
<1> QED
    BY <1>2, <1>3

(* Steps inside a chunk. *)
LEMMA ChunkStep ==
    ASSUME RInv, NEW t \in Readers, Pread(t) \/ Aggregate(t) \/ CountDown(t)
    PROVE  RInv'
<1> USE DEF RInv
<1>1. /\ t \in Busy
      /\ \E s \in {"add", "count", "report"} : reader' = [reader EXCEPT ![t] = s]
      /\ UNCHANGED <<reads, owner, next, queue, inFlight, stopping>>
    BY DEF Pread, Aggregate, CountDown, Busy
<1>2. Busy' = Busy
    BY <1>1 DEF Busy, RTypeOK
<1> QED
    BY <1>1, <1>2 DEF RTypeOK, LeftInv, NothingLeftBehind, Busy

LEMMA ReportStep == ASSUME RInv, NEW t \in Readers, Report(t) PROVE RInv'
<1> USE DEF RInv
<1>1. t \in Busy /\ reader' = [reader EXCEPT ![t] = "ready"]
    BY DEF Report, Busy
<1>2. Busy' = Busy \ {t}
    BY <1>1 DEF Busy, RTypeOK
<1>3. Cardinality(Busy') = Cardinality(Busy) - 1 /\ Cardinality(Busy) \in Nat
    BY <1>1, <1>2, BusyFinite, FS_RemoveElement, FS_CardinalityType
<1>4. Cardinality(Busy) # 0 /\ Len(queue) \in Nat
    BY <1>1, BusyFinite, FS_EmptySet, LenProperties DEF RTypeOK
<1>5. inFlight' = inFlight - 1
    BY <1>3, <1>4 DEF Report, NothingLeftBehind
<1>6. owner' \notin {"stop", "gone"}
    BY <1>1 DEF Report, NothingLeftBehind
<1>7. RTypeOK'
    BY <1>1, <1>3, <1>4, <1>5 DEF Report, RTypeOK, NothingLeftBehind
<1>8. LeftInv'
    BY <1>1, <1>6 DEF Report, RTypeOK, LeftInv
<1>9. NothingLeftBehind'
    BY <1>3, <1>4, <1>5, <1>6 DEF Report, NothingLeftBehind
<1> QED
    BY <1>7, <1>8, <1>9

-----------------------------------------------------------------------------
LEMMA ReaderPoolStep == ASSUME RInv, [RNext]_rvars PROVE RInv'
<1>1. CASE OwnerStep
    BY <1>1, SubmitStep, DrainStep, StopStep, JoinStep DEF OwnerStep
<1>2. CASE \E t \in Readers : ReaderStep(t)
    BY <1>2, TestStep, ChunkStep, ReportStep DEF ReaderStep
<1>3. CASE UNCHANGED rvars
    BY <1>3 DEF rvars, RInv, RTypeOK, LeftInv, NothingLeftBehind, Busy
<1> QED
    BY <1>1, <1>2, <1>3 DEF RNext

(* drain and ~ChunkedPreadPool, for any number of threads and any reads: they
   return only when no chunk is queued and no thread holds one.            *)
THEOREM DrainIsComplete == RSpec => []NothingLeftBehind
<1>1. RSpec => []RInv
    BY ReaderInit, ReaderPoolStep, PTL DEF RSpec
<1>2. RInv => NothingLeftBehind
    BY DEF RInv
<1> QED
    BY <1>1, <1>2, PTL

-----------------------------------------------------------------------------
(* The chunks of a read, and where each of them is: not yet submitted, in the
   queue, or with a thread.                                                *)
Of(k) == [read : {k}, chunk : 0..(Chunks(reads[k]) - 1)]
AllChunks == UNION {Of(k) : k \in DOMAIN reads}

Later(x) == next.read < x.read \/ (next.read = x.read /\ next.chunk <= x.chunk)
Queued(x) == \E i \in DOMAIN queue : queue[i] = x
Held(x, where) == \E t \in Readers : reader[t] \in where /\ task[t] = x

ToRead(x) == Later(x) \/ Queued(x) \/ Held(x, {"pread"})
ToAdd(x) == ToRead(x) \/ Held(x, {"add"})
ToCount(x) == ToAdd(x) \/ Held(x, {"count"})

(* A chunk is in one place. *)
PlacesInv ==
    /\ reads \in ReadLists
    /\ next \in [read : 1..(Len(reads) + 1), chunk : Nat]
    /\ ~AllSubmitted => next \in AllChunks
    /\ owner # "submit" => AllSubmitted
    /\ queue \in Seq(AllChunks)
    /\ task \in [Readers -> AllChunks \cup {NoTask}]
    /\ \A t \in Busy : task[t] \in AllChunks
    /\ \A x \in AllChunks :
           /\ Queued(x) \/ Held(x, {"pread", "add", "count"}) => ~Later(x)
           /\ Queued(x) => ~Held(x, {"pread", "add", "count"})
    /\ \A i \in DOMAIN queue, j \in DOMAIN queue : queue[i] = queue[j] => i = j
    /\ \A t \in Readers, u \in Readers :
           /\ {reader[t], reader[u]} \subseteq {"pread", "add", "count"}
           /\ task[t] = task[u]
           => t = u

(* What is read of a read, and what its chunks know of it: a chunk that was
   not read in full leaves its pages out for good; as long as there is none,
   the aggregate is what the chunks added to it.                           *)
PagesIn(chunks) == UNION {Pages(x) : x \in chunks}
Failed(k) == \E x \in Of(k) : ~ToRead(x) /\ Pages(x) \cap pagesRead[k] = {}
ReadSoFar(k) ==
    /\ pagesRead[k] = PagesIn({x \in Of(k) : ~ToRead(x)})
    /\ \A t \in Readers :
           reader[t] \in {"add", "count"} /\ task[t].read = k => result[t] = Size(task[t])
    /\ Chunks(reads[k]) > 1 => aggregate[k] = Cardinality(PagesIn({x \in Of(k) : ~ToAdd(x)}))

AnswerOf(k) ==
    /\ remaining[k] = Cardinality({x \in Of(k) : ToCount(x)})
    /\ Len(called[k]) = IF remaining[k] = 0 THEN 1 ELSE 0
    /\ pagesRead[k] \subseteq PagesIn({x \in Of(k) : ~ToRead(x)})
    /\ Failed(k) \/ ReadSoFar(k)
    /\ remaining[k] = 0 /\ pagesRead[k] = 0..(reads[k].pages - 1)
           => called[k] = <<reads[k].pages>>

AnswersInv ==
    /\ remaining \in [DOMAIN reads -> Nat] /\ pagesRead \in [DOMAIN reads -> SUBSET Nat]
    /\ aggregate \in [DOMAIN reads -> Int] /\ result \in [Readers -> Int]
    /\ called \in [DOMAIN reads -> Seq(Int)]
    /\ \A k \in DOMAIN reads : AnswerOf(k)

-----------------------------------------------------------------------------
(* The chunks of a read follow each other from its first page to its last. *)
AnyRead == [pages : Nat \ {0}, split : Nat]

LEMMA ChunkFacts ==
    ASSUME NEW r \in AnyRead
    PROVE  /\ r.pages \in Nat \ {0} /\ Chunks(r) \in Nat \ {0} /\ Chunks(r) <= r.pages
           /\ r.pages \div Chunks(r) \in Nat \ {0} /\ r.pages % Chunks(r) \in 0..(Chunks(r) - 1)
           /\ r.pages = (r.pages \div Chunks(r)) * Chunks(r) + (r.pages % Chunks(r))
           /\ (r.pages \div Chunks(r)) * Chunks(r) \in Nat
<1> DEFINE n == Chunks(r)
           p == r.pages
<1>1. p \in Nat \ {0} /\ r.split \in Nat
    BY DEF AnyRead
<1>2. n \in Nat \ {0} /\ n <= p
    BY <1>1 DEF Chunks
<1> HIDE DEF n, p
<1>3. p \div n \in Nat /\ p % n \in 0..(n - 1) /\ p = (p \div n) * n + (p % n) /\ (p \div n) * n \in Nat
    BY <1>1, <1>2, DivMod, Zenon
<1>4. p \div n # 0
    BY <1>1, <1>2, <1>3
<1> QED
    BY <1>1, <1>2, <1>3, <1>4 DEF n, p

LEMMA PagesOfFacts ==
    ASSUME NEW r \in AnyRead, NEW i \in Nat
    PROVE  /\ PagesOf(r, i) \in Nat \ {0}
           /\ PagesOf(r, i) = r.pages \div Chunks(r) + (IF i < r.pages % Chunks(r) THEN 1 ELSE 0)
<1> DEFINE q == r.pages \div Chunks(r)
           m == r.pages % Chunks(r)
<1>1. q \in Nat \ {0} /\ m \in Nat
    BY ChunkFacts
<1>2. PagesOf(r, i) = q + (IF i < m THEN 1 ELSE 0)
    BY DEF PagesOf
<1> HIDE DEF q, m
<1>3. q + (IF i < m THEN 1 ELSE 0) \in Nat \ {0}
    BY <1>1
<1> QED
    BY <1>2, <1>3 DEF q, m

StartOf(r, i) ==
    i * (r.pages \div Chunks(r)) + (IF i < r.pages % Chunks(r) THEN i ELSE r.pages % Chunks(r))

LEMMA StartFacts ==
    ASSUME NEW r \in AnyRead
    PROVE  /\ \A i \in Nat : StartOf(r, i) \in Nat /\ StartOf(r, i + 1) = StartOf(r, i) + PagesOf(r, i)
           /\ \A i \in Nat, j \in Nat : i <= j => StartOf(r, i) <= StartOf(r, j)
           /\ StartOf(r, 0) = 0 /\ StartOf(r, Chunks(r)) = r.pages
<1> DEFINE q == r.pages \div Chunks(r)
           m == r.pages % Chunks(r)
           n == Chunks(r)
<1>1. q \in Nat \ {0} /\ m \in 0..(n - 1) /\ n \in Nat \ {0} /\ r.pages = q * n + m /\ q * n \in Nat
    BY ChunkFacts
<1>2. \A i \in Nat : StartOf(r, i) = i * q + (IF i < m THEN i ELSE m)
    BY DEF StartOf
<1>3. \A i \in Nat : PagesOf(r, i) = q + (IF i < m THEN 1 ELSE 0)
    BY PagesOfFacts
<1> HIDE DEF q, m, n
<1>4. ASSUME NEW i \in Nat
      PROVE  StartOf(r, i) \in Nat /\ StartOf(r, i + 1) = StartOf(r, i) + PagesOf(r, i)
  <2>1. i * q \in Nat /\ (i + 1) * q = i * q + q
    BY <1>1
  <2> QED BY <1>1, <1>2, <1>3, <2>1
<1>5. ASSUME NEW i \in Nat, NEW j \in Nat, i <= j PROVE StartOf(r, i) <= StartOf(r, j)
  <2> DEFINE a == i * q
             b == j * q
  <2>1. a \in Nat /\ b \in Nat /\ a <= b
    BY <1>1, <1>5, TimesMonotone
  <2>2. StartOf(r, i) = a + (IF i < m THEN i ELSE m) /\ StartOf(r, j) = b + (IF j < m THEN j ELSE m)
    BY <1>2
  <2> HIDE DEF a, b
  <2> QED BY <1>1, <1>5, <2>1, <2>2
<1>6. StartOf(r, 0) = 0
    BY <1>1, <1>2
<1>7. StartOf(r, n) = r.pages
  <2>1. n * q = q * n
    BY <1>1
  <2> QED BY <1>1, <1>2, <2>1
<1> QED
    BY <1>4, <1>5, <1>6, <1>7 DEF n

LEMMA PageCursorIs ==
    ASSUME NEW r \in AnyRead
    PROVE  \A i \in 0..Chunks(r) : PageCursor(r)[i] = StartOf(r, i)
<1> DEFINE n == Chunks(r)
           cursor[i \in 0..n] == IF i = 0 THEN 0 ELSE cursor[i - 1] + PagesOf(r, i - 1)
           closed == [i \in 0..n |-> StartOf(r, i)]
           T == {i \in 0..n : cursor[i] = StartOf(r, i)}
<1>1. n \in Nat
    BY ChunkFacts
<1>2. closed = [i \in 0..n |-> IF i = 0 THEN 0 ELSE closed[i - 1] + PagesOf(r, i - 1)]
  <2>1. ASSUME NEW i \in 0..n
        PROVE  StartOf(r, i) = IF i = 0 THEN 0 ELSE closed[i - 1] + PagesOf(r, i - 1)
    <3>1. CASE i = 0
      BY <3>1, StartFacts
    <3>2. CASE i # 0
      <4>1. i - 1 \in Nat /\ i - 1 \in 0..n /\ (i - 1) + 1 = i
        BY <1>1, <3>2
      <4> QED BY <3>2, <4>1, StartFacts
    <3> QED BY <3>1, <3>2
  <2> QED BY <2>1
<1>3. \E g : g = [i \in 0..n |-> IF i = 0 THEN 0 ELSE g[i - 1] + PagesOf(r, i - 1)]
    BY <1>2
<1>4. cursor = [i \in 0..n |-> IF i = 0 THEN 0 ELSE cursor[i - 1] + PagesOf(r, i - 1)]
    BY <1>3
<1>5. PageCursor(r) = cursor
    BY DEF PageCursor
<1> HIDE DEF cursor, n
<1>6. 0 \in T
    BY <1>1, <1>4, StartFacts
<1>7. \A i \in 0..(n - 1) : i \in T => i + 1 \in T
  <2> SUFFICES ASSUME NEW i \in 0..(n - 1), i \in T PROVE i + 1 \in T
    OBVIOUS
  <2>1. i \in Nat /\ i + 1 \in 0..n /\ i + 1 # 0 /\ (i + 1) - 1 = i
    BY <1>1
  <2>2. cursor[i + 1] = cursor[i] + PagesOf(r, i)
    BY <1>4, <2>1
  <2> QED BY <2>1, <2>2, StartFacts
<1> HIDE DEF T
<1>8. \A i \in 0..n : i \in T
    BY <1>1, <1>6, <1>7, InductUpTo, Zenon
<1> QED
    BY <1>5, <1>8 DEF T, n

(* So the chunks have their own pages, all of them pages of the read. *)
LEMMA ChunkPages ==
    ASSUME reads \in ReadLists, NEW k \in DOMAIN reads, NEW x \in Of(k)
    PROVE  /\ Size(x) \in Nat \ {0} /\ Pages(x) # {} /\ Pages(x) \subseteq 0..(reads[k].pages - 1)
           /\ IsFiniteSet(Pages(x)) /\ Cardinality(Pages(x)) = Size(x)
           /\ \A y \in Of(k) : x # y => Pages(x) \cap Pages(y) = {}
<1> DEFINE r == reads[k]
           start(i) == StartOf(r, i)
<1>1. r \in AnyRead
  <2>1. reads \in Seq(AnyRead)
    BY ReadListsAssumption DEF AnyRead
  <2> QED BY <2>1, ElementOfSeq, LenProperties
<1>2. ASSUME NEW y \in Of(k)
      PROVE  /\ y.chunk \in Nat /\ y.chunk + 1 <= Chunks(r) /\ y.read = k
             /\ Size(y) \in Nat \ {0} /\ start(y.chunk) \in Nat /\ start(y.chunk + 1) = start(y.chunk) + Size(y)
             /\ Pages(y) = start(y.chunk)..(start(y.chunk) + Size(y) - 1)
             /\ start(y.chunk) + Size(y) <= r.pages
  <2>1. y.chunk \in Nat /\ y.chunk + 1 <= Chunks(r) /\ y.read = k /\ y.chunk \in 0..Chunks(r)
    BY <1>1, ChunkFacts DEF Of
  <2>2. Size(y) = PagesOf(r, y.chunk) /\ Size(y) \in Nat \ {0}
    BY <1>1, <2>1, PagesOfFacts DEF Size
  <2>3. start(y.chunk) \in Nat /\ start(y.chunk + 1) = start(y.chunk) + Size(y)
    BY <1>1, <2>1, <2>2, StartFacts
  <2>4. Pages(y) = start(y.chunk)..(start(y.chunk) + Size(y) - 1)
    BY <1>1, <2>1, PageCursorIs DEF Pages
  <2>5. start(y.chunk + 1) <= r.pages
    <3>1. start(y.chunk + 1) <= start(Chunks(r))
      <4>1. y.chunk + 1 \in Nat /\ Chunks(r) \in Nat /\ y.chunk + 1 <= Chunks(r)
        BY <1>1, <2>1, ChunkFacts
      <4> QED BY <1>1, <4>1, StartFacts
    <3> QED BY <1>1, <3>1, StartFacts
  <2> QED BY <2>1, <2>2, <2>3, <2>4, <2>5
<1>3. \A i \in Nat, j \in Nat : i <= j => start(i) <= start(j)
    BY <1>1, StartFacts
<1>4. r.pages \in Nat
    BY <1>1, ChunkFacts
<1> DEFINE first == start(x.chunk)
           size == Size(x)
<1>5. /\ size \in Nat \ {0} /\ first \in Nat /\ Pages(x) = first..(first + size - 1)
      /\ first + size <= r.pages
    BY <1>2
<1>6. ASSUME NEW y \in Of(k), x # y PROVE Pages(x) \cap Pages(y) = {}
  <2> DEFINE other == start(y.chunk)
             length == Size(y)
  <2>1. /\ length \in Nat \ {0} /\ other \in Nat /\ Pages(y) = other..(other + length - 1)
    BY <1>2
  <2>2. x.chunk \in Nat /\ y.chunk \in Nat /\ x.chunk # y.chunk
    <3>1. x.chunk = y.chunk => x = y
      BY DEF Of
    <3> QED BY <1>2, <1>6, <3>1
  <2>3. x.chunk < y.chunk => first + size <= other
    BY <1>2, <1>3, <2>2
  <2>4. y.chunk < x.chunk => other + length <= first
    BY <1>2, <1>3, <2>2
  <2> HIDE DEF other, length, first, size
  <2> QED BY <1>5, <2>1, <2>2, <2>3, <2>4
<1> HIDE DEF first
<1>7. IsFiniteSet(Pages(x)) /\ Cardinality(Pages(x)) = size
  <2> HIDE DEF size
  <2>1. first \in Int /\ first + size - 1 \in Int /\ (first + size - 1) - first + 1 = size /\ ~(first > first + size - 1)
    BY <1>5
  <2> QED BY <1>5, <2>1, FS_Interval
<1>8. Pages(x) # {} /\ Pages(x) \subseteq 0..(reads[k].pages - 1)
  <2> HIDE DEF size
  <2>1. first \in first..(first + size - 1)
    BY <1>5
  <2>2. first..(first + size - 1) \subseteq 0..(r.pages - 1)
    BY <1>4, <1>5
  <2> QED BY <1>5, <2>1, <2>2
<1> QED
    BY <1>2, <1>6, <1>7, <1>8

LEMMA ReadFacts ==
    ASSUME reads \in ReadLists
    PROVE  /\ Len(reads) \in Nat /\ DOMAIN reads = 1..Len(reads)
           /\ \A k \in DOMAIN reads : reads[k] \in AnyRead /\ Chunks(reads[k]) \in Nat \ {0}
<1>1. reads \in Seq(AnyRead)
    BY ReadListsAssumption DEF AnyRead
<1>2. Len(reads) \in Nat /\ DOMAIN reads = 1..Len(reads)
    BY <1>1, LenProperties
<1>3. \A k \in DOMAIN reads : reads[k] \in AnyRead
    BY <1>1, <1>2, ElementOfSeq
<1> QED
    BY <1>2, <1>3, ChunkFacts

LEMMA AllChunksAre ==
    ASSUME reads \in ReadLists
    PROVE  /\ \A x \in AllChunks : /\ x.read \in DOMAIN reads /\ x \in Of(x.read)
                                   /\ x.chunk \in Nat /\ x.chunk < Chunks(reads[x.read])
                                   /\ x = [read |-> x.read, chunk |-> x.chunk]
           /\ \A k \in DOMAIN reads : \A x \in Of(k) : x \in AllChunks /\ x.read = k
           /\ \A k \in DOMAIN reads, i \in Nat :
                  i < Chunks(reads[k]) => [read |-> k, chunk |-> i] \in AllChunks
<1>1. \A k \in DOMAIN reads : Chunks(reads[k]) \in Nat \ {0}
    BY ReadFacts
<1> QED
    BY <1>1 DEF AllChunks, Of

LEMMA ChunkCount ==
    ASSUME reads \in ReadLists, NEW k \in DOMAIN reads
    PROVE  IsFiniteSet(Of(k)) /\ Cardinality(Of(k)) = Chunks(reads[k])
<1> DEFINE n == Chunks(reads[k])
           f == [i \in 0..(n - 1) |-> [read |-> k, chunk |-> i]]
<1>1. n \in Nat \ {0}
    BY ReadFacts
<1>2. IsFiniteSet(0..(n - 1)) /\ Cardinality(0..(n - 1)) = n
  <2> HIDE DEF n
  <2>1. 0 \in Int /\ n - 1 \in Int /\ (n - 1) - 0 + 1 = n /\ ~(0 > n - 1)
    BY <1>1
  <2> QED BY <2>1, FS_Interval
<1>3. Of(k) = [read : {k}, chunk : 0..(n - 1)]
    BY DEF Of
<1> HIDE DEF n
<1>4. f \in Bijection(0..(n - 1), Of(k))
    BY <1>3 DEF Bijection, Injection, Surjection, IsInjective
<1>5. ExistsBijection(0..(n - 1), Of(k))
    BY <1>4 DEF ExistsBijection
<1> QED
    BY <1>2, <1>5, FS_Bijection DEF n

(* The pages of some chunks of a read, and of one more. *)
LEMMA PagesInFacts ==
    ASSUME reads \in ReadLists, NEW k \in DOMAIN reads, NEW S, S \subseteq Of(k)
    PROVE  /\ PagesIn(S) \subseteq 0..(reads[k].pages - 1) /\ PagesIn(S) \subseteq Nat
           /\ IsFiniteSet(PagesIn(S)) /\ Cardinality(PagesIn(S)) \in Nat
           /\ \A x \in Of(k) : x \notin S =>
                  /\ PagesIn(S \cup {x}) = PagesIn(S) \cup Pages(x) /\ PagesIn(S) \cap Pages(x) = {}
                  /\ Cardinality(PagesIn(S \cup {x})) = Cardinality(PagesIn(S)) + Size(x)
<1>1. reads[k].pages \in Nat \ {0}
    BY ReadFacts, ChunkFacts
<1>2. PagesIn(S) \subseteq 0..(reads[k].pages - 1)
    BY ChunkPages DEF PagesIn
<1>3. IsFiniteSet(0..(reads[k].pages - 1))
  <2>1. 0 \in Int /\ reads[k].pages - 1 \in Int
    BY <1>1
  <2> QED BY <2>1, FS_Interval
<1>4. IsFiniteSet(PagesIn(S)) /\ Cardinality(PagesIn(S)) \in Nat
    BY <1>2, <1>3, FS_Subset, FS_CardinalityType
<1>5. ASSUME NEW x \in Of(k), x \notin S
      PROVE  /\ PagesIn(S \cup {x}) = PagesIn(S) \cup Pages(x) /\ PagesIn(S) \cap Pages(x) = {}
             /\ Cardinality(PagesIn(S \cup {x})) = Cardinality(PagesIn(S)) + Size(x)
  <2>1. PagesIn(S \cup {x}) = PagesIn(S) \cup Pages(x)
    BY DEF PagesIn
  <2>2. PagesIn(S) \cap Pages(x) = {}
    BY <1>5, ChunkPages DEF PagesIn
  <2>3. IsFiniteSet(Pages(x)) /\ Cardinality(Pages(x)) = Size(x) /\ Size(x) \in Nat
    BY ChunkPages
  <2>4. Cardinality(PagesIn(S) \cup Pages(x))
            = Cardinality(PagesIn(S)) + Cardinality(Pages(x)) - Cardinality(PagesIn(S) \cap Pages(x))
    BY <1>4, <2>3, FS_Union
  <2>5. Cardinality(PagesIn(S) \cap Pages(x)) = 0
    BY <2>2, FS_EmptySet
  <2> DEFINE a == Cardinality(PagesIn(S))
             b == Cardinality(Pages(x))
             c == Cardinality(PagesIn(S) \cap Pages(x))
  <2>6. Cardinality(PagesIn(S \cup {x})) = a + b - c /\ a \in Nat /\ b = Size(x) /\ b \in Nat /\ c = 0
    BY <1>4, <2>1, <2>3, <2>4, <2>5
  <2> HIDE DEF a, b, c
  <2>7. a + b - c = a + b
    BY <2>6
  <2>8. Cardinality(PagesIn(S \cup {x})) = a + b
    BY <2>6, <2>7
  <2> QED BY <2>1, <2>2, <2>6, <2>8 DEF a
<1>6. PagesIn(S) \subseteq Nat
    BY <1>1, <1>2
<1> QED
    BY <1>2, <1>4, <1>5, <1>6

-----------------------------------------------------------------------------
(* Where a step leaves the chunks. *)
Unmoved(x) == /\ ToRead(x)' <=> ToRead(x)
              /\ ToAdd(x)' <=> ToAdd(x)
              /\ ToCount(x)' <=> ToCount(x)

LEMMA HeldSame ==
    ASSUME NEW x, NEW S, task' = task, \A t \in Readers : reader'[t] \in S <=> reader[t] \in S
    PROVE  Held(x, S)' <=> Held(x, S)
BY DEF Held

(* A chunk that a thread has not counted yet is nowhere else. *)
LEMMA Whereabouts ==
    ASSUME PlacesInv, NEW t \in Readers, reader[t] \in {"pread", "add", "count"}
    PROVE  /\ task[t] \in AllChunks
           /\ ToRead(task[t]) <=> reader[t] = "pread"
           /\ ToAdd(task[t]) <=> reader[t] \in {"pread", "add"}
           /\ ToCount(task[t])
<1> DEFINE x == task[t]
<1>1. x \in AllChunks
    BY DEF PlacesInv, Busy
<1>2. Held(x, {"pread", "add", "count"})
    BY DEF Held
<1>3. ~Later(x) /\ ~Queued(x)
    BY <1>1, <1>2 DEF PlacesInv
<1>4. ASSUME NEW u \in Readers, reader[u] \in {"pread", "add", "count"}, task[u] = x PROVE u = t
    BY <1>4 DEF PlacesInv
<1>5. \A s \in {"pread", "add", "count"} : Held(x, {s}) <=> reader[t] = s
    BY <1>4 DEF Held
<1> QED
    BY <1>1, <1>3, <1>5 DEF ToRead, ToAdd, ToCount

LEMMA PlacesSubmit ==
    ASSUME RInv, PlacesInv, Submit
    PROVE  PlacesInv' /\ \A x \in AllChunks : Unmoved(x)
<1>1. /\ task' = task /\ reads' = reads /\ queue' = Append(queue, next) /\ next' = Following(next)
      /\ owner = "submit" /\ owner' = owner /\ next \in AllChunks
      /\ reads \in ReadLists /\ queue \in Seq(AllChunks)
    BY DEF Submit, OwnerOnly, PlacesInv
<1>2. \A t \in Readers : \A s \in {"pread", "add", "count", "report"} : reader'[t] = s <=> reader[t] = s
    BY DEF Submit, WakeOne, RInv, RTypeOK
<1>3. ASSUME NEW x \in AllChunks
      PROVE  /\ Held(x, {"pread"})' <=> Held(x, {"pread"})
             /\ Held(x, {"add"})' <=> Held(x, {"add"})
             /\ Held(x, {"count"})' <=> Held(x, {"count"})
             /\ Held(x, {"pread", "add", "count"})' <=> Held(x, {"pread", "add", "count"})
    BY <1>1, <1>2, HeldSame
<1>4. /\ Len(queue) \in Nat /\ DOMAIN queue = 1..Len(queue)
      /\ queue' \in Seq(AllChunks) /\ Len(queue') = Len(queue) + 1 /\ DOMAIN queue' = 1..(Len(queue) + 1)
      /\ queue'[Len(queue) + 1] = next /\ \A i \in DOMAIN queue : queue'[i] = queue[i]
    BY <1>1, AppendProperties, LenProperties
<1>5. ASSUME NEW x \in AllChunks PROVE Queued(x)' <=> (Queued(x) \/ x = next)
  <2>1. ASSUME Queued(x)' PROVE Queued(x) \/ x = next
    <3>1. PICK i \in 1..(Len(queue) + 1) : queue'[i] = x
      BY <1>4, <2>1 DEF Queued
    <3>2. CASE i = Len(queue) + 1
      BY <1>4, <3>1, <3>2
    <3>3. CASE i # Len(queue) + 1
      <4>1. i \in DOMAIN queue
        BY <1>4, <3>3
      <4> QED BY <1>4, <3>1, <4>1 DEF Queued
    <3> QED BY <3>2, <3>3
  <2>2. ASSUME Queued(x) PROVE Queued(x)'
    <3>1. PICK i \in DOMAIN queue : queue[i] = x
      BY <2>2 DEF Queued
    <3>2. i \in DOMAIN queue' /\ queue'[i] = x
      BY <1>4, <3>1
    <3> QED BY <3>2 DEF Queued
  <2>3. ASSUME x = next PROVE Queued(x)'
    <3>1. Len(queue) + 1 \in DOMAIN queue' /\ queue'[Len(queue) + 1] = x
      BY <1>4, <2>3
    <3> QED BY <3>1 DEF Queued
  <2> QED BY <2>1, <2>2, <2>3
<1>6. /\ Len(reads) \in Nat /\ DOMAIN reads = 1..Len(reads)
      /\ next.read \in 1..Len(reads) /\ next.chunk \in Nat /\ next.chunk < Chunks(reads[next.read])
      /\ next = [read |-> next.read, chunk |-> next.chunk]
      /\ \A k \in DOMAIN reads : Chunks(reads[k]) \in Nat \ {0}
    BY <1>1, ReadFacts, AllChunksAre
<1>7. /\ next' \in [read : 1..(Len(reads) + 1), chunk : Nat]
      /\ next'.read <= Len(reads) => next' \in AllChunks
      /\ \/ next'.read = next.read /\ next'.chunk = next.chunk + 1
         \/ next'.read = next.read + 1 /\ next'.chunk = 0 /\ ~(next.chunk + 1 < Chunks(reads[next.read]))
  <2>1. CASE next.chunk + 1 < Chunks(reads[next.read])
    <3>1. next' = [read |-> next.read, chunk |-> next.chunk + 1]
      BY <1>1, <2>1 DEF Following
    <3> QED BY <1>1, <1>6, <2>1, <3>1, AllChunksAre
  <2>2. CASE ~(next.chunk + 1 < Chunks(reads[next.read]))
    <3>1. next' = [read |-> next.read + 1, chunk |-> 0]
      BY <1>1, <2>2 DEF Following
    <3>2. next.read + 1 <= Len(reads) => next.read + 1 \in DOMAIN reads /\ 0 < Chunks(reads[next.read + 1])
      BY <1>6
    <3> QED BY <1>1, <1>6, <2>2, <3>1, <3>2, AllChunksAre
  <2> QED BY <2>1, <2>2
<1>8. ASSUME NEW x \in AllChunks PROVE Later(x)' <=> (Later(x) /\ x # next)
  <2>1. /\ x.read \in 1..Len(reads) /\ x.chunk \in Nat /\ x.chunk < Chunks(reads[x.read])
        /\ x = [read |-> x.read, chunk |-> x.chunk]
    BY <1>1, <1>6, AllChunksAre
  <2>2. x = next <=> x.read = next.read /\ x.chunk = next.chunk
    BY <1>6, <2>1
  <2>3. next'.read < x.read \/ (next'.read = x.read /\ next'.chunk <= x.chunk)
          <=> /\ next.read < x.read \/ (next.read = x.read /\ next.chunk <= x.chunk)
              /\ ~(x.read = next.read /\ x.chunk = next.chunk)
    <3>1. CASE x.read = next.read
      <4>1. x.chunk < Chunks(reads[next.read])
        BY <2>1, <3>1
      <4> QED BY <1>6, <1>7, <2>1, <3>1, <4>1
    <3>2. CASE x.read # next.read
      BY <1>6, <1>7, <2>1, <3>2
    <3> QED BY <3>1, <3>2
  <2> QED BY <2>2, <2>3 DEF Later
<1>9. Later(next)
    BY <1>6 DEF Later
<1>10. ASSUME NEW x \in AllChunks PROVE Unmoved(x)
    BY <1>3, <1>5, <1>8, <1>9 DEF Unmoved, ToRead, ToAdd, ToCount
<1>11. AllChunks' = AllChunks
    BY <1>1 DEF AllChunks, Of
<1>12. \A x \in AllChunks : /\ (Queued(x) \/ Held(x, {"pread", "add", "count"}) => ~Later(x))'
                            /\ (Queued(x) => ~Held(x, {"pread", "add", "count"}))'
    BY <1>3, <1>5, <1>8, <1>9 DEF PlacesInv
<1>13. ASSUME NEW i \in DOMAIN queue', NEW j \in DOMAIN queue', queue'[i] = queue'[j] PROVE i = j
  <2>1. ~Queued(next)
    BY <1>1, <1>9 DEF PlacesInv
  <2>2. \A l \in DOMAIN queue : queue'[l] # next
    BY <1>4, <2>1 DEF Queued
  <2>3. \A l \in DOMAIN queue' : l \in DOMAIN queue \/ l = Len(queue) + 1
    BY <1>4
  <2>4. CASE i \in DOMAIN queue /\ j \in DOMAIN queue
    BY <1>4, <1>13, <2>4 DEF PlacesInv
  <2>5. CASE ~(i \in DOMAIN queue /\ j \in DOMAIN queue)
    BY <1>4, <1>13, <2>2, <2>3, <2>5
  <2> QED BY <2>4, <2>5
<1>14. Busy' = Busy
    BY <1>2 DEF Busy
<1>15. (~AllSubmitted => next \in AllChunks)' /\ (owner # "submit" => AllSubmitted)'
    BY <1>1, <1>6, <1>7, <1>11 DEF AllSubmitted
<1>16. \A t \in Readers, u \in Readers :
           ({reader[t], reader[u]} \subseteq {"pread", "add", "count"} /\ task[t] = task[u] => t = u)'
    BY <1>1, <1>2 DEF PlacesInv
<1>17. task' \in [Readers -> AllChunks \cup {NoTask}] /\ \A t \in Busy : task'[t] \in AllChunks
    BY <1>1 DEF PlacesInv
<1> QED
    BY <1>1, <1>4, <1>7, <1>10, <1>11, <1>12, <1>13, <1>14, <1>15, <1>16, <1>17 DEF PlacesInv


LEMMA PlacesTest ==
    ASSUME RInv, PlacesInv, NEW t \in Readers, Test(t)
    PROVE  PlacesInv' /\ \A x \in AllChunks : Unmoved(x)
<1>1. /\ UNCHANGED <<reads, owner, next>> /\ reads \in ReadLists /\ queue \in Seq(AllChunks)
      /\ reader[t] = "ready" /\ reader \in [Readers -> {"ready", "asleep", "pread", "add", "count", "report", "gone"}]
      /\ task \in [Readers -> AllChunks \cup {NoTask}]
    BY DEF Test, PlacesInv, RInv, RTypeOK
<1>2. AllChunks' = AllChunks
    BY <1>1 DEF AllChunks, Of
<1>3. \A x : Later(x)' <=> Later(x)
    BY <1>1 DEF Later
<1>4. /\ (next \in [read : 1..(Len(reads) + 1), chunk : Nat])' /\ (~AllSubmitted => next \in AllChunks)'
      /\ (owner # "submit" => AllSubmitted)' /\ (reads \in ReadLists)'
    BY <1>1, <1>2 DEF AllSubmitted, PlacesInv
<1>5. CASE queue # <<>>
  <2>1. /\ task' = [task EXCEPT ![t] = Head(queue)] /\ queue' = Tail(queue)
        /\ reader' = [reader EXCEPT ![t] = "pread"]
    BY <1>5 DEF Test
  <2>2. /\ Len(queue) \in Nat \ {0} /\ DOMAIN queue = 1..Len(queue) /\ Head(queue) = queue[1] /\ Head(queue) \in AllChunks
        /\ queue' \in Seq(AllChunks) /\ DOMAIN queue' = 1..(Len(queue) - 1)
        /\ \A i \in DOMAIN queue' : queue'[i] = queue[i + 1]
    <3>1. /\ Head(queue) \in AllChunks /\ Tail(queue) \in Seq(AllChunks) /\ Len(Tail(queue)) = Len(queue) - 1
          /\ \A i \in 1..Len(Tail(queue)) : Tail(queue)[i] = queue[i + 1]
      BY <1>1, <1>5, HeadTailProperties
    <3>2. Len(queue) \in Nat \ {0} /\ DOMAIN queue = 1..Len(queue) /\ Head(queue) = queue[1]
      BY <1>1, <1>5, LenProperties, EmptySeq
    <3>3. DOMAIN Tail(queue) = 1..Len(Tail(queue))
      BY <3>1, LenProperties
    <3> QED BY <2>1, <3>1, <3>2, <3>3
  <2> DEFINE h == Head(queue)
  <2>3. ASSUME NEW x PROVE Queued(x)' <=> (Queued(x) /\ x # h)
    <3>1. \A i \in DOMAIN queue, j \in DOMAIN queue : queue[i] = queue[j] => i = j
      BY DEF PlacesInv
    <3>2. ASSUME Queued(x)' PROVE Queued(x) /\ x # h
      <4>1. PICK i \in DOMAIN queue' : queue'[i] = x
        BY <3>2 DEF Queued
      <4>2. i + 1 \in DOMAIN queue /\ queue[i + 1] = x /\ 1 \in DOMAIN queue /\ i + 1 # 1
        BY <2>2, <4>1
      <4> QED BY <2>2, <3>1, <4>2 DEF Queued
    <3>3. ASSUME Queued(x), x # h PROVE Queued(x)'
      <4>1. PICK i \in DOMAIN queue : queue[i] = x
        BY <3>3 DEF Queued
      <4>2. i # 1
        BY <2>2, <3>3, <4>1
      <4>3. i - 1 \in DOMAIN queue' /\ (i - 1) + 1 = i
        BY <2>2, <4>1, <4>2
      <4> QED BY <2>2, <4>1, <4>3 DEF Queued
    <3> QED BY <3>2, <3>3
  <2>4. Queued(h)
    BY <2>2 DEF Queued
  <2>5. ASSUME NEW x, NEW S, "ready" \notin S
        PROVE  Held(x, S)' <=> (Held(x, S) \/ ("pread" \in S /\ x = h))
    BY <1>1, <2>1, <2>5 DEF Held
  <2>6. ASSUME NEW x PROVE Unmoved(x)
    BY <1>3, <2>3, <2>4, <2>5 DEF Unmoved, ToRead, ToAdd, ToCount
  <2>7. \A x \in AllChunks : /\ (Queued(x) \/ Held(x, {"pread", "add", "count"}) => ~Later(x))'
                             /\ (Queued(x) => ~Held(x, {"pread", "add", "count"}))'
    BY <1>3, <2>2, <2>3, <2>4, <2>5 DEF PlacesInv
  <2>8. \A i \in DOMAIN queue', j \in DOMAIN queue' : queue'[i] = queue'[j] => i = j
    <3> SUFFICES ASSUME NEW i \in DOMAIN queue', NEW j \in DOMAIN queue', queue'[i] = queue'[j] PROVE i = j
      OBVIOUS
    <3>1. i \in Int /\ j \in Int /\ i + 1 \in DOMAIN queue /\ j + 1 \in DOMAIN queue
      BY <2>2
    <3>2. queue[i + 1] = queue[j + 1]
      BY <2>2
    <3>3. i + 1 = j + 1
      BY <3>1, <3>2 DEF PlacesInv
    <3> QED BY <3>1, <3>3
  <2>9. /\ task' \in [Readers -> AllChunks \cup {NoTask}]
        /\ \A u \in Readers : u # t => task'[u] = task[u] /\ reader'[u] = reader[u]
        /\ task'[t] = h /\ reader'[t] = "pread"
    BY <1>1, <2>1, <2>2
  <2>10. \A u \in Busy' : task'[u] \in AllChunks
    BY <2>2, <2>9 DEF Busy, PlacesInv
  <2>11. \A u \in Readers : reader[u] \in {"pread", "add", "count"} => task[u] # h
    <3>1. ~Held(h, {"pread", "add", "count"})
      BY <2>2, <2>4 DEF PlacesInv
    <3> QED BY <3>1 DEF Held
  <2>12. ASSUME NEW u \in Readers, NEW v \in Readers, {reader'[u], reader'[v]} \subseteq {"pread", "add", "count"},
                task'[u] = task'[v]
         PROVE  u = v
    <3> HIDE DEF h
    <3>1. CASE u = t /\ v # t
      BY <2>9, <2>11, <2>12, <3>1
    <3>2. CASE u # t /\ v = t
      BY <2>9, <2>11, <2>12, <3>2
    <3>3. CASE u # t /\ v # t
      BY <2>9, <2>12, <3>3 DEF PlacesInv
    <3> QED BY <3>1, <3>2, <3>3
  <2> QED
    BY <1>2, <1>4, <2>2, <2>6, <2>7, <2>8, <2>9, <2>10, <2>12 DEF PlacesInv
<1>6. CASE queue = <<>>
  <2>1. /\ task' = task /\ queue' = queue
        /\ reader' = [reader EXCEPT ![t] = IF stopping THEN "gone" ELSE "asleep"]
    BY <1>6 DEF Test
  <2>2. \A u \in Readers : \A s \in {"pread", "add", "count", "report"} : reader'[u] = s <=> reader[u] = s
    BY <1>1, <2>1
  <2>3. ASSUME NEW x
        PROVE  /\ Queued(x)' <=> Queued(x)
               /\ \A s \in {"pread", "add", "count"} : Held(x, {s})' <=> Held(x, {s})
               /\ Held(x, {"pread", "add", "count"})' <=> Held(x, {"pread", "add", "count"})
    BY <2>1, <2>2 DEF Held, Queued
  <2>4. Busy' = Busy
    BY <2>2 DEF Busy
  <2>5. \A x : Unmoved(x)
    BY <1>3, <2>3 DEF Unmoved, ToRead, ToAdd, ToCount
  <2>6. \A x \in AllChunks : /\ (Queued(x) \/ Held(x, {"pread", "add", "count"}) => ~Later(x))'
                             /\ (Queued(x) => ~Held(x, {"pread", "add", "count"}))'
    BY <1>3, <2>3 DEF PlacesInv
  <2>7. \A u \in Readers, v \in Readers :
           ({reader[u], reader[v]} \subseteq {"pread", "add", "count"} /\ task[u] = task[v] => u = v)'
    BY <2>1, <2>2 DEF PlacesInv
  <2> QED
    BY <1>1, <1>2, <1>4, <2>1, <2>4, <2>5, <2>6, <2>7 DEF PlacesInv
<1> QED
    BY <1>5, <1>6

(* Steps that touch neither the queue nor the chunks a thread has yet to count. *)
LEMMA PlacesKept ==
    ASSUME PlacesInv, UNCHANGED <<reads, next, queue, task>>,
           owner' # "submit" => AllSubmitted,
           \A t \in Readers : /\ reader'[t] = "report" => reader[t] = "report"
                              /\ \A s \in {"pread", "add", "count"} : reader'[t] = s <=> reader[t] = s
    PROVE  PlacesInv' /\ \A x \in AllChunks : Unmoved(x)
<1>1. AllChunks' = AllChunks
    BY DEF AllChunks, Of
<1>2. ASSUME NEW x
      PROVE  /\ (Queued(x)' <=> Queued(x)) /\ (Later(x)' <=> Later(x))
             /\ \A s \in {"pread", "add", "count"} : Held(x, {s})' <=> Held(x, {s})
             /\ Held(x, {"pread", "add", "count"})' <=> Held(x, {"pread", "add", "count"})
    BY DEF Held, Queued, Later
<1>3. Busy' \subseteq Busy
    BY DEF Busy
<1>4. \A x : Unmoved(x)
    BY <1>2 DEF Unmoved, ToRead, ToAdd, ToCount
<1>5. \A x \in AllChunks : /\ (Queued(x) \/ Held(x, {"pread", "add", "count"}) => ~Later(x))'
                           /\ (Queued(x) => ~Held(x, {"pread", "add", "count"}))'
    BY <1>2 DEF PlacesInv
<1>6. \A u \in Readers, v \in Readers :
         ({reader[u], reader[v]} \subseteq {"pread", "add", "count"} /\ task[u] = task[v] => u = v)'
    BY DEF PlacesInv
<1>7. (~AllSubmitted => next \in AllChunks)' /\ (owner # "submit" => AllSubmitted)'
    BY <1>1 DEF AllSubmitted, PlacesInv
<1> QED
    BY <1>1, <1>3, <1>4, <1>5, <1>6, <1>7 DEF PlacesInv

(* A thread goes on with its chunk. *)
LEMMA PlacesInside ==
    ASSUME RInv, PlacesInv, NEW t \in Readers, NEW s \in {"add", "count", "report"},
           reader[t] \in {"pread", "add", "count"},
           NEW c, c = task[t], reader' = [reader EXCEPT ![t] = s], UNCHANGED <<reads, owner, next, queue, task>>
    PROVE  /\ PlacesInv' /\ task[t] \in AllChunks
           /\ \A x \in AllChunks :
                  /\ x # task[t] => Unmoved(x)
                  /\ x = task[t] => /\ ~ToRead(x)' /\ (ToAdd(x)' <=> s = "add")
                                    /\ ToCount(x)' <=> s # "report"
<1>1. c \in AllChunks /\ Held(c, {"pread", "add", "count"})
    BY DEF PlacesInv, Busy, Held
<1>2. ~Later(c) /\ ~Queued(c)
    BY <1>1 DEF PlacesInv
<1>3. \A u \in Readers : u # t /\ reader[u] \in {"pread", "add", "count"} => task[u] # c
    BY DEF PlacesInv
<1>4. AllChunks' = AllChunks
    BY DEF AllChunks, Of
<1>5. reader'[t] = s /\ \A u \in Readers : u # t => reader'[u] = reader[u]
    BY DEF RInv, RTypeOK
<1>6. ASSUME NEW x PROVE (Queued(x)' <=> Queued(x)) /\ (Later(x)' <=> Later(x))
    BY DEF Queued, Later
<1>7. ASSUME NEW x, x # c, NEW S PROVE Held(x, S)' <=> Held(x, S)
    BY <1>5, <1>7 DEF Held
<1>8. \A l \in {"pread", "add", "count"} : Held(c, {l})' <=> s = l
    BY <1>3, <1>5 DEF Held
<1>9. \A x \in AllChunks : x # c => Unmoved(x)
    BY <1>6, <1>7 DEF Unmoved, ToRead, ToAdd, ToCount
<1>10. /\ ~ToRead(c)' /\ (ToAdd(c)' <=> s = "add") /\ (ToCount(c)' <=> s # "report")
    BY <1>2, <1>6, <1>8 DEF ToRead, ToAdd, ToCount
<1>11. \A x \in AllChunks : /\ (Queued(x) \/ Held(x, {"pread", "add", "count"}) => ~Later(x))'
                            /\ (Queued(x) => ~Held(x, {"pread", "add", "count"}))'
    BY <1>2, <1>6, <1>7 DEF PlacesInv
<1>12. ASSUME NEW u \in Readers, NEW v \in Readers, {reader'[u], reader'[v]} \subseteq {"pread", "add", "count"},
              task[u] = task[v]
       PROVE  u = v
    BY <1>5, <1>12 DEF PlacesInv
<1>13. Busy' = Busy
    BY <1>5 DEF Busy
<1>14. (~AllSubmitted => next \in AllChunks)' /\ (owner # "submit" => AllSubmitted)'
    BY <1>4 DEF AllSubmitted, PlacesInv
<1>15. PlacesInv'
    BY <1>4, <1>11, <1>12, <1>13, <1>14 DEF PlacesInv
<1> QED
    BY <1>1, <1>9, <1>10, <1>15


-----------------------------------------------------------------------------
(* A step leaves a read alone that moves no chunk of it. *)
LEMMA AnswerKept ==
    ASSUME reads \in ReadLists, NEW k \in DOMAIN reads, AnswerOf(k), reads' = reads,
           \A x \in Of(k) : Unmoved(x),
           pagesRead'[k] = pagesRead[k], aggregate'[k] = aggregate[k],
           remaining'[k] = remaining[k], called'[k] = called[k],
           \A t \in Readers : reader'[t] \in {"add", "count"} /\ task'[t].read = k =>
               reader[t] \in {"add", "count"} /\ task'[t] = task[t] /\ result'[t] = result[t]
    PROVE  AnswerOf(k)'
<1>1. Of(k)' = Of(k) /\ \A x : Pages(x)' = Pages(x) /\ Size(x)' = Size(x)
    BY DEF Of, Pages, Size
<1>2. /\ {x \in Of(k) : ToCount(x)}' = {x \in Of(k) : ToCount(x)}
      /\ {x \in Of(k) : ~ToRead(x)}' = {x \in Of(k) : ~ToRead(x)}
      /\ {x \in Of(k) : ~ToAdd(x)}' = {x \in Of(k) : ~ToAdd(x)}
    BY <1>1 DEF Unmoved
<1>3. \A S : PagesIn(S)' = PagesIn(S)
    BY <1>1 DEF PagesIn
<1>4. Failed(k) => Failed(k)'
    BY <1>1 DEF Failed, Unmoved
<1>5. ReadSoFar(k) => ReadSoFar(k)'
  <2> SUFFICES ASSUME ReadSoFar(k) PROVE ReadSoFar(k)'
    OBVIOUS
  <2>1. (pagesRead[k] = PagesIn({x \in Of(k) : ~ToRead(x)}))'
    BY <1>2, <1>3 DEF ReadSoFar
  <2>2. \A t \in Readers :
            reader'[t] \in {"add", "count"} /\ task'[t].read = k => result'[t] = Size(task[t])'
    BY <1>1 DEF ReadSoFar
  <2>3. (Chunks(reads[k]) > 1 => aggregate[k] = Cardinality(PagesIn({x \in Of(k) : ~ToAdd(x)})))'
    BY <1>2, <1>3 DEF ReadSoFar
  <2> QED BY <2>1, <2>2, <2>3 DEF ReadSoFar
<1> QED
    BY <1>2, <1>3, <1>4, <1>5 DEF AnswerOf

(* Steps that move no chunk and read none. *)
LEMMA AnswersKept ==
    ASSUME reads \in ReadLists, AnswersInv, \A x \in AllChunks : Unmoved(x),
           UNCHANGED <<reads, result, aggregate, remaining, called, pagesRead>>,
           \A t \in Readers : reader'[t] \in {"add", "count"} =>
               reader'[t] = reader[t] /\ task'[t] = task[t]
    PROVE  AnswersInv'
<1>1. ASSUME NEW k \in DOMAIN reads PROVE AnswerOf(k)'
  <2>1. \A x \in Of(k) : Unmoved(x)
    BY AllChunksAre
  <2>2. AnswerOf(k)
    BY DEF AnswersInv
  <2> QED BY <2>1, <2>2, AnswerKept
<1> QED
    BY <1>1 DEF AnswersInv


(* The chunk a thread has not counted yet keeps its read open. *)
LEMMA CountsOpen ==
    ASSUME reads \in ReadLists, NEW k \in DOMAIN reads, AnswerOf(k), NEW x \in Of(k), ToCount(x)
    PROVE  remaining[k] \in Nat \ {0}
<1> DEFINE S == {y \in Of(k) : ToCount(y)}
<1>1. IsFiniteSet(S)
    BY ChunkCount, FS_Subset
<1>2. Cardinality(S) \in Nat /\ Cardinality(S) # 0
    BY <1>1, FS_CardinalityType, FS_EmptySet
<1> QED
    BY <1>2 DEF AnswerOf

(* A chunk is read, in full or not. *)
LEMMA AnswerPread ==
    ASSUME RInv, PlacesInv, AnswersInv, NEW t \in Readers, Pread(t),
           NEW c, c = task[t], NEW k \in DOMAIN reads, c.read = k
    PROVE  AnswerOf(k)'
<1> DEFINE before == {x \in Of(k) : ~ToRead(x)}
<1>1. PICK n \in -1..Size(c) :
          /\ result' = [result EXCEPT ![t] = n]
          /\ pagesRead' = IF n = Size(c) THEN [pagesRead EXCEPT ![k] = @ \cup Pages(c)] ELSE pagesRead
    BY DEF Pread
<1>2. PICK s \in {"add", "count"} : /\ reader' = [reader EXCEPT ![t] = s]
                                    /\ s = "add" <=> Chunks(reads[k]) # 1
    BY DEF Pread
<1>3. /\ reader[t] = "pread" /\ UNCHANGED <<reads, owner, next, queue, task, aggregate, remaining, called>>
      /\ reads \in ReadLists
    BY DEF Pread, PlacesInv
<1>4. /\ c \in AllChunks /\ ~ToRead(c)' /\ (ToAdd(c)' <=> s = "add") /\ ToCount(c)'
      /\ \A x \in AllChunks : x # c => Unmoved(x)
    BY <1>2, <1>3, PlacesInside
<1>5. ToRead(c) /\ ToAdd(c) /\ ToCount(c)
    BY <1>3, Whereabouts
<1>6. c \in Of(k) /\ \A x \in Of(k) : x \in AllChunks
    BY <1>3, <1>4, AllChunksAre
<1>7. Of(k)' = Of(k) /\ \A x : Pages(x)' = Pages(x) /\ Size(x)' = Size(x)
    BY <1>3 DEF Of, Pages, Size
<1>8. \A S : PagesIn(S)' = PagesIn(S)
    BY <1>7 DEF PagesIn
<1>9. /\ {x \in Of(k) : ToCount(x)}' = {x \in Of(k) : ToCount(x)}
      /\ {x \in Of(k) : ~ToRead(x)}' = before \cup {c}
      /\ Chunks(reads[k]) > 1 => {x \in Of(k) : ~ToAdd(x)}' = {x \in Of(k) : ~ToAdd(x)}
  <2>1. {x \in Of(k) : ToCount(x)}' = {x \in Of(k) : ToCount(x)}
    BY <1>4, <1>5, <1>6, <1>7 DEF Unmoved
  <2>2. {x \in Of(k) : ~ToRead(x)}' = before \cup {c}
    BY <1>4, <1>5, <1>6, <1>7 DEF Unmoved
  <2>3. Chunks(reads[k]) > 1 => s = "add"
    BY <1>2, <1>3, ReadFacts
  <2>4. s = "add" => {x \in Of(k) : ~ToAdd(x)}' = {x \in Of(k) : ~ToAdd(x)}
    BY <1>4, <1>5, <1>6, <1>7 DEF Unmoved
  <2> QED BY <2>1, <2>2, <2>3, <2>4
<1>10. AnswerOf(k)
    BY DEF AnswersInv
<1>11. remaining[k] \in Nat \ {0}
    BY <1>3, <1>5, <1>6, <1>10, CountsOpen
<1>12. /\ PagesIn(before \cup {c}) = PagesIn(before) \cup Pages(c) /\ PagesIn(before) \cap Pages(c) = {}
       /\ Size(c) \in Nat \ {0} /\ pagesRead[k] \subseteq PagesIn(before)
       /\ \A x \in Of(k) : x # c => Pages(x) \cap Pages(c) = {}
  <2>1. c \notin before /\ before \subseteq Of(k)
    BY <1>5
  <2> HIDE DEF before
  <2>2. PagesIn(before \cup {c}) = PagesIn(before) \cup Pages(c) /\ PagesIn(before) \cap Pages(c) = {}
    BY <1>3, <1>6, <2>1, PagesInFacts
  <2>3. Size(c) \in Nat \ {0} /\ \A x \in Of(k) : x # c => Pages(x) \cap Pages(c) = {}
    BY <1>3, <1>6, ChunkPages
  <2> QED BY <1>10, <2>2, <2>3 DEF before, AnswerOf
<1>13. pagesRead'[k] = IF n = Size(c) THEN pagesRead[k] \cup Pages(c) ELSE pagesRead[k]
    BY <1>1 DEF AnswersInv
<1>14. result'[t] = n /\ \A u \in Readers : u # t => result'[u] = result[u]
    BY <1>1 DEF AnswersInv
<1> HIDE DEF before
<1>15. pagesRead'[k] \subseteq PagesIn({x \in Of(k) : ~ToRead(x)})'
    BY <1>8, <1>9, <1>12, <1>13
<1>16. (Failed(k) \/ ReadSoFar(k))'
  <2>1. CASE n # Size(c)
    <3>1. Pages(c) \cap pagesRead'[k] = {}
      BY <1>12, <1>13, <2>1
    <3> QED BY <1>4, <1>6, <1>7, <3>1 DEF Failed
  <2>2. CASE n = Size(c) /\ Failed(k)
    <3>1. PICK x \in Of(k) : ~ToRead(x) /\ Pages(x) \cap pagesRead[k] = {}
      BY <2>2 DEF Failed
    <3>2. x # c
      BY <1>5, <3>1
    <3>3. ~ToRead(x)' /\ Pages(x) \cap pagesRead'[k] = {}
      BY <1>4, <1>6, <1>12, <1>13, <2>2, <3>1, <3>2 DEF Unmoved
    <3> QED BY <1>7, <3>3 DEF Failed
  <2>3. CASE n = Size(c) /\ ~Failed(k)
    <3>1. ReadSoFar(k)
      BY <1>10, <2>3 DEF AnswerOf
    <3>2. (pagesRead[k] = PagesIn({x \in Of(k) : ~ToRead(x)}))'
      <4>1. pagesRead[k] = PagesIn(before)
        BY <3>1 DEF ReadSoFar, before
      <4> QED BY <1>8, <1>9, <1>12, <1>13, <2>3, <4>1
    <3>3. \A u \in Readers :
              reader'[u] \in {"add", "count"} /\ task'[u].read = k => result'[u] = Size(task[u])'
      <4> SUFFICES ASSUME NEW u \in Readers, reader'[u] \in {"add", "count"}, task'[u].read = k
                   PROVE  result'[u] = Size(task[u])'
        OBVIOUS
      <4>1. CASE u = t
        BY <1>3, <1>7, <1>14, <2>3, <4>1
      <4>2. CASE u # t
        <5>1. reader[u] \in {"add", "count"} /\ task[u].read = k
          BY <1>2, <1>3, <4>2 DEF RInv, RTypeOK
        <5> QED BY <1>3, <1>7, <1>14, <3>1, <4>2, <5>1 DEF ReadSoFar
      <4> QED BY <4>1, <4>2
    <3>4. (Chunks(reads[k]) > 1 => aggregate[k] = Cardinality(PagesIn({x \in Of(k) : ~ToAdd(x)})))'
      BY <1>3, <1>8, <1>9, <3>1 DEF ReadSoFar
    <3> QED BY <3>2, <3>3, <3>4 DEF ReadSoFar
  <2> QED BY <2>1, <2>2, <2>3
<1>17. (remaining[k] = Cardinality({x \in Of(k) : ToCount(x)}))'
       /\ Len(called'[k]) = (IF remaining'[k] = 0 THEN 1 ELSE 0) /\ remaining'[k] # 0
    BY <1>3, <1>9, <1>10, <1>11 DEF AnswerOf
<1> QED
    BY <1>15, <1>16, <1>17 DEF AnswerOf

(* A chunk adds what it read. *)
LEMMA AnswerAggregate ==
    ASSUME RInv, PlacesInv, AnswersInv, NEW t \in Readers, Aggregate(t),
           NEW c, c = task[t], NEW k \in DOMAIN reads, c.read = k
    PROVE  AnswerOf(k)'
<1> DEFINE before == {x \in Of(k) : ~ToAdd(x)}
<1>1. /\ aggregate' = [aggregate EXCEPT ![k] = IF result[t] > 0 THEN @ + result[t] ELSE result[t]]
      /\ reader' = [reader EXCEPT ![t] = "count"]
      /\ reader[t] = "add" /\ UNCHANGED <<reads, owner, next, queue, task, result, remaining, called, pagesRead>>
      /\ reads \in ReadLists
    BY DEF Aggregate, PlacesInv
<1>2. /\ c \in AllChunks /\ ~ToRead(c)' /\ ~ToAdd(c)' /\ ToCount(c)'
      /\ \A x \in AllChunks : x # c => Unmoved(x)
    BY <1>1, PlacesInside
<1>3. ~ToRead(c) /\ ToAdd(c) /\ ToCount(c)
    BY <1>1, Whereabouts
<1>4. c \in Of(k) /\ \A x \in Of(k) : x \in AllChunks
    BY <1>1, <1>2, AllChunksAre
<1>5. Of(k)' = Of(k) /\ \A x : Pages(x)' = Pages(x) /\ Size(x)' = Size(x)
    BY <1>1 DEF Of, Pages, Size
<1>6. \A S : PagesIn(S)' = PagesIn(S)
    BY <1>5 DEF PagesIn
<1>7. /\ {x \in Of(k) : ToCount(x)}' = {x \in Of(k) : ToCount(x)}
      /\ {x \in Of(k) : ~ToRead(x)}' = {x \in Of(k) : ~ToRead(x)}
      /\ {x \in Of(k) : ~ToAdd(x)}' = before \cup {c}
  <2>1. {x \in Of(k) : ToCount(x)}' = {x \in Of(k) : ToCount(x)}
    BY <1>2, <1>3, <1>4, <1>5 DEF Unmoved
  <2>2. {x \in Of(k) : ~ToRead(x)}' = {x \in Of(k) : ~ToRead(x)}
    BY <1>2, <1>3, <1>4, <1>5 DEF Unmoved
  <2>3. {x \in Of(k) : ~ToAdd(x)}' = before \cup {c}
    BY <1>2, <1>3, <1>4, <1>5 DEF Unmoved
  <2> QED BY <2>1, <2>2, <2>3
<1>8. AnswerOf(k)
    BY DEF AnswersInv
<1>9. remaining[k] \in Nat \ {0}
    BY <1>1, <1>3, <1>4, <1>8, CountsOpen
<1>10. /\ Cardinality(PagesIn(before \cup {c})) = Cardinality(PagesIn(before)) + Size(c)
       /\ Size(c) \in Nat \ {0} /\ Cardinality(PagesIn(before)) \in Nat
  <2>1. c \notin before /\ before \subseteq Of(k)
    BY <1>3
  <2> HIDE DEF before
  <2>2. /\ Cardinality(PagesIn(before \cup {c})) = Cardinality(PagesIn(before)) + Size(c)
        /\ Cardinality(PagesIn(before)) \in Nat
    BY <1>1, <1>4, <2>1, PagesInFacts
  <2>3. Size(c) \in Nat \ {0}
    BY <1>1, <1>4, ChunkPages
  <2> QED BY <2>2, <2>3
<1>11. (Failed(k) \/ ReadSoFar(k))'
  <2>1. CASE Failed(k)
    <3>1. PICK x \in Of(k) : ~ToRead(x) /\ Pages(x) \cap pagesRead[k] = {}
      BY <2>1 DEF Failed
    <3>2. ~ToRead(x)'
      BY <1>2, <1>4, <3>1 DEF Unmoved
    <3> QED BY <1>1, <1>5, <3>1, <3>2 DEF Failed
  <2>2. CASE ReadSoFar(k)
    <3>1. (pagesRead[k] = PagesIn({x \in Of(k) : ~ToRead(x)}))'
      BY <1>1, <1>6, <1>7, <2>2 DEF ReadSoFar
    <3>2. \A u \in Readers :
              reader'[u] \in {"add", "count"} /\ task'[u].read = k => result'[u] = Size(task[u])'
      <4> SUFFICES ASSUME NEW u \in Readers, reader'[u] \in {"add", "count"}, task'[u].read = k
                   PROVE  result'[u] = Size(task[u])'
        OBVIOUS
      <4>1. reader[u] \in {"add", "count"} /\ task[u].read = k
        BY <1>1 DEF RInv, RTypeOK
      <4> QED BY <1>1, <1>5, <2>2, <4>1 DEF ReadSoFar
    <3>3. ASSUME Chunks(reads[k]) > 1
          PROVE  aggregate'[k] = Cardinality(PagesIn(before \cup {c}))
      <4>1. aggregate[k] = Cardinality(PagesIn(before)) /\ result[t] = Size(c)
        BY <1>1, <2>2, <3>3 DEF ReadSoFar
      <4>2. aggregate'[k] = aggregate[k] + result[t]
        BY <1>1, <1>10, <4>1 DEF AnswersInv
      <4> QED BY <1>10, <4>1, <4>2
    <3>4. (Chunks(reads[k]) > 1 => aggregate[k] = Cardinality(PagesIn({x \in Of(k) : ~ToAdd(x)})))'
      BY <1>1, <1>6, <1>7, <3>3
    <3> QED BY <3>1, <3>2, <3>4 DEF ReadSoFar
  <2> QED BY <1>8, <2>1, <2>2 DEF AnswerOf
<1>12. /\ (remaining[k] = Cardinality({x \in Of(k) : ToCount(x)}))'
       /\ Len(called'[k]) = (IF remaining'[k] = 0 THEN 1 ELSE 0) /\ remaining'[k] # 0
       /\ pagesRead'[k] \subseteq PagesIn({x \in Of(k) : ~ToRead(x)})'
    BY <1>1, <1>6, <1>7, <1>8, <1>9 DEF AnswerOf
<1> QED
    BY <1>11, <1>12 DEF AnswerOf


(* A chunk is counted, and the last one answers. *)
LEMMA AnswerCount ==
    ASSUME RInv, PlacesInv, AnswersInv, NEW t \in Readers, CountDown(t),
           NEW c, c = task[t], NEW k \in DOMAIN reads, c.read = k
    PROVE  AnswerOf(k)'
<1> DEFINE open == {x \in Of(k) : ToCount(x)}
           reply == IF Chunks(reads[k]) = 1 THEN result[t] ELSE aggregate[k]
<1>1. /\ remaining' = [remaining EXCEPT ![k] = @ - 1]
      /\ called' = IF remaining[k] = 1 THEN [called EXCEPT ![k] = Append(@, reply)] ELSE called
      /\ reader' = [reader EXCEPT ![t] = "report"]
      /\ reader[t] = "count" /\ UNCHANGED <<reads, owner, next, queue, task, result, aggregate, pagesRead>>
      /\ reads \in ReadLists
    BY DEF CountDown, PlacesInv
<1>2. /\ c \in AllChunks /\ ~ToRead(c)' /\ ~ToAdd(c)' /\ ~ToCount(c)'
      /\ \A x \in AllChunks : x # c => Unmoved(x)
    BY <1>1, PlacesInside
<1>3. ~ToRead(c) /\ ~ToAdd(c) /\ ToCount(c)
    BY <1>1, Whereabouts
<1>4. c \in Of(k) /\ \A x \in Of(k) : x \in AllChunks
    BY <1>1, <1>2, AllChunksAre
<1>5. Of(k)' = Of(k) /\ \A x : Pages(x)' = Pages(x) /\ Size(x)' = Size(x)
    BY <1>1 DEF Of, Pages, Size
<1>6. \A S : PagesIn(S)' = PagesIn(S)
    BY <1>5 DEF PagesIn
<1>7. /\ {x \in Of(k) : ToCount(x)}' = open \ {c}
      /\ {x \in Of(k) : ~ToRead(x)}' = {x \in Of(k) : ~ToRead(x)}
      /\ {x \in Of(k) : ~ToAdd(x)}' = {x \in Of(k) : ~ToAdd(x)}
  <2>1. {x \in Of(k) : ToCount(x)}' = open \ {c}
    BY <1>2, <1>3, <1>4, <1>5 DEF Unmoved
  <2>2. {x \in Of(k) : ~ToRead(x)}' = {x \in Of(k) : ~ToRead(x)}
    BY <1>2, <1>3, <1>4, <1>5 DEF Unmoved
  <2>3. {x \in Of(k) : ~ToAdd(x)}' = {x \in Of(k) : ~ToAdd(x)}
    BY <1>2, <1>3, <1>4, <1>5 DEF Unmoved
  <2> QED BY <2>1, <2>2, <2>3
<1>8. AnswerOf(k)
    BY DEF AnswersInv
<1>9. /\ remaining[k] \in Nat \ {0} /\ remaining'[k] = remaining[k] - 1
      /\ called[k] \in Seq(Int) /\ Len(called[k]) = 0
      /\ called'[k] = IF remaining[k] = 1 THEN Append(called[k], reply) ELSE called[k]
  <2>1. remaining[k] \in Nat \ {0}
    BY <1>1, <1>3, <1>4, <1>8, CountsOpen
  <2>2. remaining'[k] = remaining[k] - 1
    BY <1>1 DEF AnswersInv
  <2>3. called[k] \in Seq(Int) /\ Len(called[k]) = 0
    BY <1>8, <2>1 DEF AnswersInv, AnswerOf
  <2>4. called'[k] = IF remaining[k] = 1 THEN Append(called[k], reply) ELSE called[k]
    <3> HIDE DEF reply
    <3> QED BY <1>1 DEF AnswersInv
  <2> QED BY <2>1, <2>2, <2>3, <2>4
<1>10. IsFiniteSet(open) /\ c \in open /\ remaining[k] = Cardinality(open)
       /\ Cardinality(open \ {c}) = Cardinality(open) - 1 /\ Cardinality(open) \in Nat
  <2>1. IsFiniteSet(open) /\ c \in open
    BY <1>1, <1>3, <1>4, ChunkCount, FS_Subset
  <2>2. remaining[k] = Cardinality(open)
    BY <1>8 DEF AnswerOf
  <2> HIDE DEF open
  <2> QED BY <2>1, <2>2, FS_RemoveElement, FS_CardinalityType
<1>11. (remaining[k] = Cardinality({x \in Of(k) : ToCount(x)}))'
    BY <1>7, <1>9, <1>10
<1>12. called[k] = <<>>
    BY <1>9, EmptySeq
<1>13. Len(called'[k]) = (IF remaining'[k] = 0 THEN 1 ELSE 0)
  <2> HIDE DEF reply
  <2>1. CASE remaining[k] = 1
    <3>1. called'[k] = <<reply>>
      BY <1>9, <1>12, <2>1
    <3>2. Len(<<reply>>) = 1
      OBVIOUS
    <3>3. remaining'[k] = 0
      BY <1>9, <2>1
    <3> QED BY <3>1, <3>2, <3>3
  <2>2. CASE remaining[k] # 1
    BY <1>9, <2>2
  <2> QED BY <2>1, <2>2
<1>14. pagesRead'[k] \subseteq PagesIn({x \in Of(k) : ~ToRead(x)})'
    BY <1>1, <1>6, <1>7, <1>8 DEF AnswerOf
<1>15. (Failed(k) \/ ReadSoFar(k))'
  <2>1. CASE Failed(k)
    <3>1. PICK x \in Of(k) : ~ToRead(x) /\ Pages(x) \cap pagesRead[k] = {}
      BY <2>1 DEF Failed
    <3>2. ~ToRead(x)'
      BY <1>2, <1>4, <3>1 DEF Unmoved
    <3> QED BY <1>1, <1>5, <3>1, <3>2 DEF Failed
  <2>2. CASE ReadSoFar(k)
    <3>1. (pagesRead[k] = PagesIn({x \in Of(k) : ~ToRead(x)}))'
      BY <1>1, <1>6, <1>7, <2>2 DEF ReadSoFar
    <3>2. \A u \in Readers :
              reader'[u] \in {"add", "count"} /\ task'[u].read = k => result'[u] = Size(task[u])'
      <4> SUFFICES ASSUME NEW u \in Readers, reader'[u] \in {"add", "count"}, task'[u].read = k
                   PROVE  result'[u] = Size(task[u])'
        OBVIOUS
      <4>1. reader[u] \in {"add", "count"} /\ task[u].read = k
        BY <1>1 DEF RInv, RTypeOK
      <4> QED BY <1>1, <1>5, <2>2, <4>1 DEF ReadSoFar
    <3>3. (Chunks(reads[k]) > 1 => aggregate[k] = Cardinality(PagesIn({x \in Of(k) : ~ToAdd(x)})))'
      BY <1>1, <1>6, <1>7, <2>2 DEF ReadSoFar
    <3> QED BY <3>1, <3>2, <3>3 DEF ReadSoFar
  <2> QED BY <1>8, <2>1, <2>2 DEF AnswerOf
<1>16. ASSUME remaining'[k] = 0, pagesRead'[k] = 0..(reads'[k].pages - 1) PROVE called'[k] = <<reads'[k].pages>>
  <2> DEFINE p == reads[k].pages
  <2>1. remaining[k] = 1 /\ pagesRead[k] = 0..(p - 1) /\ reads[k] \in AnyRead
    BY <1>1, <1>9, <1>16, ReadFacts
  <2>2. p \in Nat \ {0} /\ Cardinality(0..(p - 1)) = p
    <3>1. p \in Nat \ {0}
      BY <2>1, ChunkFacts
    <3> HIDE DEF p
    <3>2. 0 \in Int /\ p - 1 \in Int /\ (p - 1) - 0 + 1 = p /\ ~(0 > p - 1)
      BY <3>1
    <3> QED BY <3>1, <3>2, FS_Interval
  <2>3. open = {c}
    <3>1. open \ {c} = {}
      <4> HIDE DEF open
      <4>1. Cardinality(open \ {c}) = 0 /\ IsFiniteSet(open \ {c})
        BY <1>10, <2>1, FS_Subset
      <4> QED BY <4>1, FS_EmptySet
    <3> QED BY <1>10, <3>1
  <2>4. \A x \in Of(k) : ~ToAdd(x) /\ ~ToRead(x)
    BY <1>3, <2>3 DEF ToCount, ToAdd
  <2>5. ~Failed(k)
    <3>1. \A x \in Of(k) : Pages(x) # {} /\ Pages(x) \subseteq 0..(p - 1)
      BY <1>1, ChunkPages
    <3> QED BY <2>1, <3>1 DEF Failed
  <2>6. ReadSoFar(k)
    BY <1>8, <2>5 DEF AnswerOf
  <2>7. {x \in Of(k) : ~ToAdd(x)} = Of(k) /\ {x \in Of(k) : ~ToRead(x)} = Of(k)
    BY <2>4
  <2>8. PagesIn(Of(k)) = 0..(p - 1)
    BY <2>1, <2>6, <2>7 DEF ReadSoFar
  <2>9. reply = p
    <3>1. CASE Chunks(reads[k]) = 1
      <4>1. \A x \in Of(k) : x = c
        BY <1>4, <3>1 DEF Of
      <4>2. PagesIn(Of(k)) = Pages(c)
        BY <1>4, <4>1 DEF PagesIn
      <4>3. Cardinality(Pages(c)) = Size(c)
        BY <1>1, <1>4, ChunkPages
      <4>4. result[t] = Size(c)
        BY <1>1, <2>6 DEF ReadSoFar
      <4> QED BY <2>2, <2>8, <3>1, <4>2, <4>3, <4>4
    <3>2. CASE Chunks(reads[k]) # 1
      <4>1. Chunks(reads[k]) > 1
        BY <1>1, <3>2, ReadFacts
      <4>2. aggregate[k] = Cardinality(PagesIn(Of(k)))
        BY <2>6, <2>7, <4>1 DEF ReadSoFar
      <4> QED BY <2>2, <2>8, <3>2, <4>2
    <3> QED BY <3>1, <3>2
  <2> HIDE DEF reply
  <2>10. called'[k] = <<reply>>
    BY <1>9, <1>12, <2>1
  <2> QED BY <1>1, <2>9, <2>10
<1> QED
    BY <1>11, <1>13, <1>14, <1>15, <1>16 DEF AnswerOf

(* The steps inside a chunk. *)
LEMMA AnswersChunk ==
    ASSUME RInv, PlacesInv, AnswersInv, NEW t \in Readers, Pread(t) \/ Aggregate(t) \/ CountDown(t)
    PROVE  PlacesInv' /\ AnswersInv'
<1>0. PICK c : c = task[t]
    OBVIOUS
<1>1. PICK s \in {"add", "count", "report"} :
          /\ reader' = [reader EXCEPT ![t] = s] /\ reader[t] \in {"pread", "add", "count"}
          /\ UNCHANGED <<reads, owner, next, queue, task>>
    BY DEF Pread, Aggregate, CountDown
<1>2. PlacesInv' /\ c \in AllChunks /\ \A x \in AllChunks : x # c => Unmoved(x)
    BY <1>0, <1>1, PlacesInside
<1>3. reads \in ReadLists /\ c.read \in DOMAIN reads
    BY <1>2, AllChunksAre DEF PlacesInv
<1>4. ASSUME NEW k \in DOMAIN reads PROVE AnswerOf(k)'
  <2>1. CASE c.read = k
    BY <1>0, <2>1, AnswerPread, AnswerAggregate, AnswerCount
  <2>2. CASE c.read # k
    <3>1. \A x \in Of(k) : Unmoved(x)
      <4>1. \A x \in Of(k) : x \in AllChunks /\ x # c
        BY <1>3, <2>2, AllChunksAre
      <4> QED BY <1>2, <4>1
    <3>2. /\ pagesRead'[k] = pagesRead[k] /\ aggregate'[k] = aggregate[k]
          /\ remaining'[k] = remaining[k] /\ called'[k] = called[k]
          /\ \A u \in Readers : u # t => result'[u] = result[u]
      BY <1>0, <2>2 DEF Pread, Aggregate, CountDown, AnswersInv
    <3>3. \A u \in Readers : reader'[u] \in {"add", "count"} /\ task'[u].read = k =>
               reader[u] \in {"add", "count"} /\ task'[u] = task[u] /\ result'[u] = result[u]
      <4>1. \A u \in Readers : task'[u].read = k => u # t
        BY <1>0, <1>1, <2>2
      <4>2. \A u \in Readers : u # t => reader'[u] = reader[u]
        BY <1>1 DEF RInv, RTypeOK
      <4> QED BY <1>1, <3>2, <4>1, <4>2
    <3>4. AnswerOf(k)
      BY DEF AnswersInv
    <3> QED BY <1>1, <1>3, <3>1, <3>2, <3>3, <3>4, AnswerKept
  <2> QED BY <2>1, <2>2
<1>5. /\ remaining' \in [DOMAIN reads -> Nat] /\ pagesRead' \in [DOMAIN reads -> SUBSET Nat]
      /\ aggregate' \in [DOMAIN reads -> Int] /\ result' \in [Readers -> Int]
      /\ called' \in [DOMAIN reads -> Seq(Int)]
  <2>1. c \in Of(c.read) /\ Size(c) \in Nat /\ Pages(c) \subseteq Nat
    <3>1. c \in Of(c.read)
      BY <1>2, <1>3, AllChunksAre
    <3>2. Size(c) \in Nat /\ Pages(c) \subseteq 0..(reads[c.read].pages - 1)
      BY <1>3, <3>1, ChunkPages
    <3>3. 0..(reads[c.read].pages - 1) \subseteq Nat
      BY <1>3, ReadFacts, ChunkFacts
    <3> QED BY <3>1, <3>2, <3>3
  <2>2. CASE Pread(t)
    <3>1. PICK n \in -1..Size(c) :
              /\ result' = [result EXCEPT ![t] = n]
              /\ pagesRead' = IF n = Size(c) THEN [pagesRead EXCEPT ![c.read] = @ \cup Pages(c)] ELSE pagesRead
      BY <1>0, <2>2 DEF Pread
    <3>2. n \in Int
      BY <2>1
    <3>3. result' \in [Readers -> Int]
      BY <3>1, <3>2 DEF AnswersInv
    <3>4. pagesRead[c.read] \cup Pages(c) \in SUBSET Nat
      BY <1>3, <2>1 DEF AnswersInv
    <3>5. pagesRead' \in [DOMAIN reads -> SUBSET Nat]
      BY <3>1, <3>4 DEF AnswersInv
    <3> QED BY <2>2, <3>3, <3>5 DEF Pread, AnswersInv
  <2>3. CASE Aggregate(t)
    <3>1. aggregate[c.read] \in Int /\ result[t] \in Int
      BY <1>3 DEF AnswersInv
    <3>2. PICK a \in Int : aggregate' = [aggregate EXCEPT ![c.read] = a]
      <4>1. aggregate' = [aggregate EXCEPT ![c.read] = IF result[t] > 0 THEN aggregate[c.read] + result[t] ELSE result[t]]
        BY <1>0, <2>3 DEF Aggregate
      <4>2. (IF result[t] > 0 THEN aggregate[c.read] + result[t] ELSE result[t]) \in Int
        BY <3>1
      <4> QED BY <4>1, <4>2
    <3>3. aggregate' \in [DOMAIN reads -> Int]
      BY <3>2 DEF AnswersInv
    <3> QED BY <2>3, <3>3 DEF Aggregate, AnswersInv
  <2>4. CASE CountDown(t)
    <3>1. ToCount(c) /\ AnswerOf(c.read) /\ c \in Of(c.read)
      BY <1>0, <1>1, <1>3, <2>1, Whereabouts DEF AnswersInv
    <3>2. remaining[c.read] \in Nat \ {0}
      BY <1>3, <3>1, CountsOpen
    <3>3. remaining' \in [DOMAIN reads -> Nat]
      <4>1. remaining[c.read] - 1 \in Nat
        BY <3>2
      <4> QED BY <1>0, <1>3, <2>4, <4>1 DEF CountDown, AnswersInv
    <3>4. called' \in [DOMAIN reads -> Seq(Int)]
      <4>1. PICK a \in Int :
                called' = IF remaining[c.read] = 1 THEN [called EXCEPT ![c.read] = Append(@, a)] ELSE called
        BY <1>0, <1>3, <2>4 DEF CountDown, AnswersInv
      <4>2. Append(called[c.read], a) \in Seq(Int)
        BY <1>3, AppendProperties DEF AnswersInv
      <4> QED BY <1>3, <4>1, <4>2 DEF AnswersInv
    <3> QED BY <2>4, <3>3, <3>4 DEF CountDown, AnswersInv
  <2> QED BY <2>2, <2>3, <2>4
<1> QED
    BY <1>1, <1>2, <1>4, <1>5 DEF AnswersInv


-----------------------------------------------------------------------------
LEMMA AnswersInit == ASSUME RInit PROVE PlacesInv /\ AnswersInv
<1>1. /\ reads \in ReadLists /\ owner = "submit" /\ next = [read |-> 1, chunk |-> 0]
      /\ queue = <<>> /\ reader = [t \in Readers |-> "ready"]
      /\ task = [t \in Readers |-> NoTask] /\ result = [t \in Readers |-> 0]
      /\ aggregate = [k \in DOMAIN reads |-> 0]
      /\ remaining = [k \in DOMAIN reads |-> Chunks(reads[k])]
      /\ called = [k \in DOMAIN reads |-> <<>>]
      /\ pagesRead = [k \in DOMAIN reads |-> {}]
    BY DEF RInit
<1>2. /\ Len(reads) \in Nat /\ DOMAIN reads = 1..Len(reads)
      /\ \A k \in DOMAIN reads : Chunks(reads[k]) \in Nat \ {0}
    BY <1>1, ReadFacts
<1>3. /\ next \in [read : 1..(Len(reads) + 1), chunk : Nat]
      /\ ~AllSubmitted => next \in AllChunks
  <2>1. 1 <= Len(reads) => 1 \in DOMAIN reads /\ 0 < Chunks(reads[1])
    BY <1>2
  <2>2. 1 <= Len(reads) => [read |-> 1, chunk |-> 0] \in AllChunks
    BY <1>1, <2>1, AllChunksAre
  <2>3. next \in [read : 1..(Len(reads) + 1), chunk : Nat]
    BY <1>1, <1>2
  <2>4. ~AllSubmitted => 1 <= Len(reads)
    BY <1>1, <1>2 DEF AllSubmitted
  <2> QED BY <1>1, <2>2, <2>3, <2>4
<1>4. \A x \in AllChunks : Later(x)
  <2> SUFFICES ASSUME NEW x \in AllChunks PROVE Later(x)
    OBVIOUS
  <2>1. x.read \in DOMAIN reads /\ x.chunk \in Nat
    BY <1>1, AllChunksAre
  <2>2. x.read \in Nat /\ 1 <= x.read /\ next.read = 1 /\ next.chunk = 0
    BY <1>1, <1>2, <2>1
  <2> QED BY <2>1, <2>2 DEF Later
<1>5. queue \in Seq(AllChunks) /\ DOMAIN queue = {}
  <2>1. <<>> \in Seq(AllChunks) /\ Len(<<>>) = 0
    BY EmptySeq
  <2>2. DOMAIN queue = 1..0
    BY <1>1, <2>1, LenProperties
  <2> QED BY <1>1, <2>1, <2>2
<1>6. /\ \A x : ~Queued(x) /\ \A S : "ready" \notin S => ~Held(x, S)
      /\ Busy = {}
    BY <1>1, <1>5 DEF Queued, Held, Busy
<1>7. PlacesInv
  <2>1. task \in [Readers -> AllChunks \cup {NoTask}]
    BY <1>1
  <2>2. owner # "submit" => AllSubmitted
    BY <1>1
  <2>3. \A t \in Readers : {reader[t]} \subseteq {"pread", "add", "count"} => FALSE
    BY <1>1
  <2>4. \A t \in Readers, u \in Readers :
           {reader[t], reader[u]} \subseteq {"pread", "add", "count"} /\ task[t] = task[u] => t = u
    BY <2>3
  <2>5. \A x \in AllChunks : /\ Queued(x) \/ Held(x, {"pread", "add", "count"}) => ~Later(x)
                             /\ Queued(x) => ~Held(x, {"pread", "add", "count"})
    BY <1>6
  <2>6. \A i \in DOMAIN queue, j \in DOMAIN queue : queue[i] = queue[j] => i = j
    BY <1>5
  <2> QED BY <1>1, <1>3, <1>5, <1>6, <2>1, <2>2, <2>4, <2>5, <2>6 DEF PlacesInv
<1>8. ASSUME NEW k \in DOMAIN reads PROVE AnswerOf(k)
  <2>1. \A x \in Of(k) : ToRead(x) /\ ToAdd(x) /\ ToCount(x)
    BY <1>1, <1>4, AllChunksAre DEF ToRead, ToAdd, ToCount
  <2>2. /\ {x \in Of(k) : ToCount(x)} = Of(k)
        /\ {x \in Of(k) : ~ToRead(x)} = {} /\ {x \in Of(k) : ~ToAdd(x)} = {}
    BY <2>1
  <2>3. PagesIn({}) = {} /\ Cardinality({}) = 0
    BY FS_EmptySet DEF PagesIn
  <2>4. remaining[k] = Cardinality(Of(k)) /\ remaining[k] # 0
    BY <1>1, <1>2, ChunkCount
  <2>5. pagesRead[k] = {} /\ aggregate[k] = 0 /\ Len(called[k]) = 0
    BY <1>1, EmptySeq
  <2>6. \A t \in Readers : reader[t] \notin {"add", "count"}
    BY <1>1
  <2>7. ReadSoFar(k)
    BY <2>2, <2>3, <2>5, <2>6 DEF ReadSoFar
  <2> QED BY <2>2, <2>3, <2>4, <2>5, <2>7 DEF AnswerOf
<1>9. AnswersInv
  <2>1. remaining \in [DOMAIN reads -> Nat]
    BY <1>1, <1>2
  <2>2. pagesRead \in [DOMAIN reads -> SUBSET Nat] /\ aggregate \in [DOMAIN reads -> Int] /\ result \in [Readers -> Int]
    BY <1>1
  <2>3. called \in [DOMAIN reads -> Seq(Int)]
    BY <1>1, EmptySeq
  <2> QED BY <1>8, <2>1, <2>2, <2>3 DEF AnswersInv
<1> QED
    BY <1>7, <1>9

LEMMA AnswersStep == ASSUME RInv, PlacesInv, AnswersInv, [RNext]_rvars PROVE PlacesInv' /\ AnswersInv'
<1>0. reads \in ReadLists /\ reader \in [Readers -> {"ready", "asleep", "pread", "add", "count", "report", "gone"}]
    BY DEF PlacesInv, RInv, RTypeOK
<1>1. CASE Submit
  <2>1. UNCHANGED <<reads, task, result, aggregate, remaining, called, pagesRead>>
    BY <1>1 DEF Submit, OwnerOnly
  <2>2. \A t \in Readers : reader'[t] \in {"add", "count"} => reader'[t] = reader[t]
    BY <1>0, <1>1 DEF Submit, WakeOne
  <2> QED BY <1>0, <1>1, <2>1, <2>2, PlacesSubmit, AnswersKept
<1>2. CASE Drain \/ Stop \/ Join
  <2>1. UNCHANGED <<reads, next, queue, task, result, aggregate, remaining, called, pagesRead>>
    BY <1>2 DEF Drain, Stop, Join, OwnerOnly
  <2>2. \A t \in Readers : \A s \in {"pread", "add", "count", "report"} : reader'[t] = s <=> reader[t] = s
    BY <1>0, <1>2 DEF Drain, Stop, Join
  <2>3. AllSubmitted
    BY <1>2 DEF Drain, Stop, Join, PlacesInv
  <2>4. PlacesInv' /\ \A x \in AllChunks : Unmoved(x)
    BY <2>1, <2>2, <2>3, PlacesKept
  <2>5. \A t \in Readers : reader'[t] \in {"add", "count"} => reader'[t] = reader[t] /\ task'[t] = task[t]
    BY <2>1, <2>2
  <2> QED BY <1>0, <2>1, <2>4, <2>5, AnswersKept
<1>3. ASSUME NEW t \in Readers, Test(t) PROVE PlacesInv' /\ AnswersInv'
  <2>1. UNCHANGED <<reads, result, aggregate, remaining, called, pagesRead>>
    BY <1>3 DEF Test
  <2>2. \A u \in Readers : reader'[u] \in {"add", "count"} => reader'[u] = reader[u] /\ task'[u] = task[u]
    <3> SUFFICES ASSUME NEW u \in Readers, reader'[u] \in {"add", "count"} PROVE reader'[u] = reader[u] /\ task'[u] = task[u]
      OBVIOUS
    <3>1. u # t
      BY <1>0, <1>3 DEF Test
    <3> QED BY <1>0, <1>3, <3>1 DEF Test, PlacesInv
  <2> QED BY <1>0, <1>3, <2>1, <2>2, PlacesTest, AnswersKept
<1>4. ASSUME NEW t \in Readers, Report(t) PROVE PlacesInv' /\ AnswersInv'
  <2>1. UNCHANGED <<reads, next, queue, task, result, aggregate, remaining, called, pagesRead>>
    BY <1>4 DEF Report
  <2>2. reader[t] = "report" /\ reader' = [reader EXCEPT ![t] = "ready"]
    BY <1>4 DEF Report
  <2>3. /\ \A u \in Readers : \A s \in {"pread", "add", "count"} : reader'[u] = s <=> reader[u] = s
        /\ \A u \in Readers : reader'[u] = "report" => reader[u] = "report"
    BY <1>0, <2>2
  <2>4. owner' # "submit" => AllSubmitted
    BY <1>4 DEF Report, PlacesInv
  <2>5. PlacesInv' /\ \A x \in AllChunks : Unmoved(x)
    BY <2>1, <2>3, <2>4, PlacesKept
  <2>6. \A u \in Readers : reader'[u] \in {"add", "count"} => reader'[u] = reader[u] /\ task'[u] = task[u]
    BY <2>1, <2>3
  <2> QED BY <1>0, <2>1, <2>5, <2>6, AnswersKept
<1>5. ASSUME NEW t \in Readers, Pread(t) \/ Aggregate(t) \/ CountDown(t) PROVE PlacesInv' /\ AnswersInv'
    BY <1>5, AnswersChunk
<1>6. CASE UNCHANGED rvars
  <2>1. /\ UNCHANGED <<reads, next, queue, task, result, aggregate, remaining, called, pagesRead>>
        /\ reader' = reader /\ owner' = owner
    BY <1>6 DEF rvars
  <2>2. owner' # "submit" => AllSubmitted
    BY <2>1 DEF PlacesInv
  <2>3. PlacesInv' /\ \A x \in AllChunks : Unmoved(x)
    BY <2>1, <2>2, PlacesKept
  <2> QED BY <1>0, <2>1, <2>3, AnswersKept
<1> QED
    BY <1>1, <1>2, <1>3, <1>4, <1>5, <1>6 DEF RNext, OwnerStep, ReaderStep

(* Every read is answered once, by the last of its chunks, and told its size
   when all its pages were read, however the threads interleave: the counter of
   a read is the number of its chunks that are not counted yet, wherever they
   are, and the aggregate what its chunks read as long as each read its all;
   no chunk is left when the owner has drained or joined (submit_chunked,
   drain, worker_loop).                                                     *)
THEOREM EveryReadAnswered == RSpec => []ReadsAnswered
<1>1. RInit => RInv /\ PlacesInv /\ AnswersInv
    BY ReaderInit, AnswersInit
<1>2. (RInv /\ PlacesInv /\ AnswersInv) /\ [RNext]_rvars => (RInv /\ PlacesInv /\ AnswersInv)'
    BY ReaderPoolStep, AnswersStep
<1>3. RInv /\ PlacesInv /\ AnswersInv => ReadsAnswered
  <2> SUFFICES ASSUME RInv, PlacesInv, AnswersInv PROVE ReadsAnswered
    OBVIOUS
  <2>1. NothingLeftBehind
    BY DEF RInv
  <2>2. ASSUME owner \in {"stop", "gone"}, NEW k \in DOMAIN reads PROVE Len(called[k]) = 1
    <3>1. Busy = {} /\ queue = <<>> /\ AllSubmitted /\ reads \in ReadLists
      BY <2>1, <2>2 DEF NothingLeftBehind, PlacesInv
    <3>2. ASSUME NEW x \in Of(k) PROVE ~ToCount(x)
      <4>1. x \in AllChunks /\ x.read = k
        BY <3>1, AllChunksAre
      <4>2. ~Later(x)
        <5>1. k <= Len(reads) /\ k \in Nat /\ next.read > Len(reads) /\ Len(reads) \in Nat /\ next.read \in Nat
          BY <3>1, ReadFacts DEF AllSubmitted, PlacesInv
        <5> QED BY <4>1, <5>1 DEF Later
      <4>3. ~Queued(x)
        <5>1. DOMAIN queue = 1..0
          BY <3>1, EmptySeq, LenProperties DEF PlacesInv
        <5> QED BY <5>1 DEF Queued
      <4>4. \A S \in SUBSET {"pread", "add", "count"} : ~Held(x, S)
        BY <3>1 DEF Held, Busy
      <4> QED BY <4>2, <4>3, <4>4 DEF ToCount, ToAdd, ToRead
    <3>3. {x \in Of(k) : ToCount(x)} = {}
      BY <3>2
    <3>4. remaining[k] = 0
      BY <3>3, FS_EmptySet DEF AnswersInv, AnswerOf
    <3> QED BY <3>4 DEF AnswersInv, AnswerOf
  <2>3. ASSUME NEW k \in DOMAIN reads, called[k] # <<>>
        PROVE  /\ Len(called[k]) = 1 /\ remaining[k] = 0
               /\ pagesRead[k] = 0..(reads[k].pages - 1) => called[k] = <<reads[k].pages>>
    <3>1. AnswerOf(k) /\ called[k] \in Seq(Int)
      BY DEF AnswersInv
    <3>2. Len(called[k]) # 0
      BY <2>3, <3>1, EmptySeq
    <3> QED BY <3>1, <3>2 DEF AnswerOf
  <2> QED BY <2>1, <2>2, <2>3 DEF ReadsAnswered
<1> QED
    BY <1>1, <1>2, <1>3, PTL DEF RSpec

-----------------------------------------------------------------------------
(* The weight cache. *)

Weights == [map : Maps, off : Nat, n : Nat]
Pointers == ({"host", "reg"} \X Maps \X Nat) \cup ({"dev"} \X Nat \X Nat)
Kinds == {"span", "raw", "f16"}
Models == [host : Maps \cup {NoMap}, size : Nat, base : {<<"host">>, <<"reg">>} \cup ({"dev"} \X Nat),
           hmm : BOOLEAN, mapping : BOOLEAN, full : BOOLEAN, fd : BOOLEAN,
           fdMap : Maps \cup {NoMap}, direct : BOOLEAN]
Ranges == [map : Maps, off : Nat, n : Nat, ptr : Pointers, arena : BOOLEAN, lo : Nat, hi : Nat]
Arenas == [id : Nat, size : Nat, used : Nat]
Expansions == [map : Maps, off : Nat, n : Nat, id : Nat]
Copies == [id : Nat, at : Nat, buffer : Nat, from : Nat, n : Nat]
Fetches ==
    {NoFetch}
    \cup [step : {"map", "arena", "copy"}, w : Weights, kind : Kinds]
    \cup [step : {"have"}, w : Weights, kind : Kinds, ptr : Pointers]
    \cup [step : {"upload"}, w : Weights, kind : Kinds, id : Nat, at : Nat, copied : Nat, chunk : Nat]
Answers == {NoAnswer} \cup [given : {TRUE}, w : Tensors, form : {"raw", "f16"}, ptr : Pointers]

Mapping == {"closed", "map_main", "map_mtp"}

CacheTypeOK ==
    /\ env \in Switches /\ hasDraft \in BOOLEAN
    /\ phase \in Mapping \cup {"preload", "running", "failed"}
    /\ model \in Models
    /\ ranges \in Seq(Ranges) /\ arenas \in Seq(Arenas) /\ f16 \in Seq(Expansions)
    /\ \A o \in DOMAIN byOffset :
           byOffset[o] \in DOMAIN ranges /\ ranges[byOffset[o]].off = o
    /\ \A o \in DOMAIN f16ByOffset :
           f16ByOffset[o] \in DOMAIN f16 /\ f16[f16ByOffset[o]].off = o
    /\ DOMAIN memory \subseteq Nat /\ IsFiniteSet(DOMAIN memory)
    /\ DOMAIN buffers = 0 .. Buffers - 1
    /\ copies \in Seq(Copies)
    /\ todo \in [left : SUBSET {w \in Tensors : w.map = "main"}, off : Nat, end : Nat]
    /\ fetch \in Fetches /\ answer \in Answers

(* What the phase says. *)
PhaseInv ==
    /\ hasDraft => "mtp" \in Maps
    /\ phase \in Mapping =>
         /\ ranges = <<>> /\ arenas = <<>> /\ f16 = <<>> /\ copies = <<>> /\ inUse = {}
         /\ fetch = NoFetch /\ answer = NoAnswer
    /\ phase \in {"closed", "map_main"} => DOMAIN memory = {} /\ model.base = <<"host">>
    /\ phase = "closed" => model.host = NoMap
    /\ phase = "map_main" => model.fd /\ model.fdMap = NoMap
    /\ phase = "map_mtp" => hasDraft
    /\ phase \notin {"closed", "map_main"} =>
         /\ model.fd /\ model.fdMap = "main"
         /\ model.host \in Maps /\ model.size = MapSize[model.host]
    /\ fetch # NoFetch => phase \in {"preload", "running"}

(* Every allocation has one kind of owner. *)
OwnersInv ==
    /\ DOMAIN memory = OwnedIds \cup ArenaIds \cup RangeIds \cup F16Ids
    /\ F16Ids \cap (OwnedIds \cup ArenaIds \cup RangeIds) = {}
    /\ ArenaIds \cap (OwnedIds \cup RangeIds) = {}
    /\ \A i, j \in DOMAIN arenas : arenas[i].id = arenas[j].id => i = j
UseInv == inUse \subseteq DOMAIN memory

(* What allocations hold, as operators on constants: mem is a memory, as a *)
(* list of arenas, rs one of ranges, m a model.                            *)
Content(mem, ptr, w) == \A k \in 0 .. w.n - 1 : mem[ptr[2]][ptr[3] + k] = <<w.map, w.off + k>>
InArena(as, id, at, n) == \E i \in DOMAIN as : as[i].id = id /\ at + n <= as[i].used
Apart(at, n, by, m) == at + n <= by \/ by + m <= at
AwayFrom(rs, id, at, n) ==
    \A i \in DOMAIN rs : rs[i].arena /\ rs[i].ptr[2] = id => Apart(at, n, rs[i].ptr[3], rs[i].n)

GoodArena(mem, a) == a.used <= a.size /\ DOMAIN mem[a.id] = 0 .. a.size - 1
GoodRange(mem, as, r) ==
    \/ /\ r.ptr = RegPtr(r.map, r.off) /\ ~r.arena
       /\ r.lo <= r.off /\ r.off + r.n <= r.hi
    \/ /\ r.ptr[1] = "dev" /\ Content(mem, r.ptr, r)
       /\ r.arena => InArena(as, r.ptr[2], r.ptr[3], r.n)
GoodExpansion(mem, e) ==
    \A k \in 0 .. e.n - 1 : mem[e.id][k] = <<"f16", <<e.map, e.off + k>>>>

OwnedInv ==
    model.base[1] = "dev" => memory[model.base[2]] = HostUnits(model.host, 0, model.size)
ArenasInv == \A i \in DOMAIN arenas : GoodArena(memory, arenas[i])
RangesInv == \A i \in DOMAIN ranges : GoodRange(memory, arenas, ranges[i])
F16Inv == \A i \in DOMAIN f16 : GoodExpansion(memory, f16[i])

(* A queued copy goes to a place of its own in an arena. *)
CopiesInv ==
    \A j \in DOMAIN copies :
        /\ InArena(arenas, copies[j].id, copies[j].at, copies[j].n)
        /\ AwayFrom(ranges, copies[j].id, copies[j].at, copies[j].n)

(* The weight being uploaded: a copy is one of its own or none of its      *)
(* business, and what is not copied yet is in a buffer.                    *)
Mine(f, bufs, c) ==
    /\ c.id = f.id /\ f.at <= c.at /\ c.at + c.n <= f.at + f.copied
    /\ c.buffer \in 0 .. Buffers - 1
    /\ f.chunk <= Buffers => c.buffer < f.chunk
    /\ \A i \in 0 .. c.n - 1 :
           bufs[c.buffer][c.from + i] = <<f.w.map, f.w.off + (c.at - f.at) + i>>
Other(f, c) == c.id # f.id \/ Apart(c.at, c.n, f.at, f.w.n)
Arrived(f, mem, k) == mem[f.id][f.at + k] = <<f.w.map, f.w.off + k>>
OnItsWay(f, bufs, cs, k) ==
    \E j \in DOMAIN cs : /\ Mine(f, bufs, cs[j])
                         /\ cs[j].at <= f.at + k /\ f.at + k < cs[j].at + cs[j].n
UploadInv ==
    fetch.step = "upload" =>
        /\ fetch.w.map = "main" /\ fetch.copied <= fetch.w.n
        /\ InArena(arenas, fetch.id, fetch.at, fetch.w.n)
        /\ AwayFrom(ranges, fetch.id, fetch.at, fetch.w.n)
        /\ \A j \in DOMAIN copies : Mine(fetch, buffers, copies[j]) \/ Other(fetch, copies[j])
        /\ \A k \in 0 .. fetch.copied - 1 :
               Arrived(fetch, memory, k) \/ OnItsWay(fetch, buffers, copies, k)

(* A pointer from which w can be read until the engine closes. *)
ReadableAt(m, rs, ptr, w) ==
    \/ ptr = HostPtr(w.map, w.off)
    \/ /\ ptr = RegPtr(w.map, w.off)
       /\ \/ m.base[1] = "reg" /\ m.host = w.map
          \/ \E i \in DOMAIN rs : InRegion(w, rs[i])
    \/ /\ m.base[1] = "dev" /\ m.host = w.map /\ w.off + w.n <= m.size
       /\ ptr = DevPtr(m.base[2], w.off)
    \/ \E i \in DOMAIN rs :
         /\ rs[i].ptr[1] = "dev" /\ Inside(w, rs[i])
         /\ ptr = Beyond(rs[i].ptr, w.off - rs[i].off)

FetchInv ==
    /\ fetch.step = "arena" => fetch.w.map = "main"
    /\ fetch # NoFetch /\ fetch.kind # "span" =>
           fetch.w \in Tensors /\ (fetch.step = "have" => ReadableAt(model, ranges, fetch.ptr, fetch.w))

Expanded(es, ptr, w) ==
    \E i \in DOMAIN es : /\ ptr = DevPtr(es[i].id, 0)
                         /\ es[i].map = w.map /\ es[i].off = w.off /\ es[i].n = w.n
AnswerInv ==
    answer.given => IF answer.form = "raw" THEN ReadableAt(model, ranges, answer.ptr, answer.w)
                    ELSE Expanded(f16, answer.ptr, answer.w)

CacheInv ==
    /\ CacheTypeOK /\ PhaseInv /\ OwnersInv /\ UseInv
    /\ OwnedInv /\ ArenasInv /\ RangesInv /\ F16Inv
    /\ CopiesInv /\ UploadInv /\ FetchInv /\ AnswerInv
-----------------------------------------------------------------------------
(* Sequences and allocations. *)

LEMMA IsIn ==
    ASSUME NEW S, NEW s \in Seq(S), NEW i \in DOMAIN s
    PROVE  s[i] \in S /\ i \in 1 .. Len(s)
BY ElementOfSeq, LenProperties

LEMMA ElementsAre ==
    ASSUME CacheTypeOK
    PROVE  /\ \A i \in DOMAIN ranges : ranges[i] \in Ranges
           /\ \A i \in DOMAIN arenas : arenas[i] \in Arenas
           /\ \A i \in DOMAIN f16 : f16[i] \in Expansions
           /\ \A j \in DOMAIN copies : copies[j] \in Copies
BY IsIn, Zenon DEF CacheTypeOK

LEMMA Appended ==
    ASSUME NEW S, NEW s \in Seq(S), NEW e \in S, NEW m, m = Len(s) + 1
    PROVE  /\ Append(s, e) \in Seq(S) /\ m \in Nat /\ m \notin DOMAIN s
           /\ DOMAIN Append(s, e) = DOMAIN s \cup {m}
           /\ \A i \in DOMAIN s : Append(s, e)[i] = s[i]
           /\ Append(s, e)[m] = e
<1>1. Len(s) \in Nat /\ DOMAIN s = 1 .. Len(s)
    BY LenProperties
<1> QED
    BY <1>1, AppendProperties

(* A place of its own for a new allocation. *)
LEMMA NewId ==
    ASSUME NEW S, IsFiniteSet(S)
    PROVE  \E id \in 1 .. Cardinality(S) + 1 : id \notin S
<1>1. Cardinality(S) \in Nat
    BY FS_CardinalityType
<1>2. PICK n \in Nat : n = Cardinality(S) + 1
    BY <1>1
<1>3. IsFiniteSet(1 .. n) /\ Cardinality(1 .. n) = n
    BY <1>2, FS_Interval
<1>4. ASSUME 1 .. n \subseteq S PROVE FALSE
  <2>1. Cardinality(1 .. n) <= Cardinality(S)
    BY <1>4, FS_Subset
  <2> QED BY <1>1, <1>2, <1>3, <2>1
<1> QED
    BY <1>2, <1>4

LEMMA FreshIs ==
    ASSUME CacheTypeOK
    PROVE  Fresh \in Nat \ DOMAIN memory
<1>1. IsFiniteSet(DOMAIN memory)
    BY DEF CacheTypeOK
<1>2. \E id \in 1 .. Cardinality(DOMAIN memory) + 1 : id \notin DOMAIN memory
    BY <1>1, NewId
<1> QED
    BY <1>2, FS_CardinalityType, <1>1 DEF Fresh

LEMMA AllocatedIs ==
    ASSUME CacheTypeOK, NEW n \in Nat
    PROVE  /\ DOMAIN Allocated(n) = DOMAIN memory \cup {Fresh}
           /\ \A id \in DOMAIN memory : Allocated(n)[id] = memory[id]
           /\ DOMAIN Allocated(n)[Fresh] = 0 .. n - 1
BY FreshIs DEF Allocated

(* Who owns what. *)
LEMMA IdsAre ==
    /\ \A x : x \in RangeIds <=> \E i \in DOMAIN ranges :
                 ranges[i].ptr[1] = "dev" /\ ~ranges[i].arena /\ x = ranges[i].ptr[2]
    /\ \A x : x \in ArenaIds <=> \E i \in DOMAIN arenas : x = arenas[i].id
    /\ \A x : x \in F16Ids <=> \E i \in DOMAIN f16 : x = f16[i].id
    /\ \A x : x \in OwnedIds <=> model.base[1] = "dev" /\ x = model.base[2]
BY DEF RangeIds, ArenaIds, F16Ids, OwnedIds, Range

LEMMA IdsAreNext ==
    /\ \A x : x \in RangeIds' <=> \E i \in DOMAIN ranges' :
                 ranges'[i].ptr[1] = "dev" /\ ~ranges'[i].arena /\ x = ranges'[i].ptr[2]
    /\ \A x : x \in ArenaIds' <=> \E i \in DOMAIN arenas' : x = arenas'[i].id
    /\ \A x : x \in F16Ids' <=> \E i \in DOMAIN f16' : x = f16'[i].id
    /\ \A x : x \in OwnedIds' <=> model'.base[1] = "dev" /\ x = model'.base[2]
BY DEF RangeIds, ArenaIds, F16Ids, OwnedIds, Range

-----------------------------------------------------------------------------
(* What a held pointer reads. *)

LEMMA RangeIdIs ==
    ASSUME CacheTypeOK, OwnersInv, RangesInv, NEW i \in DOMAIN ranges, ranges[i].ptr[1] = "dev"
    PROVE  ranges[i].ptr[2] \in (DOMAIN memory) \ F16Ids /\ Content(memory, ranges[i].ptr, ranges[i])
<1>1. GoodRange(memory, arenas, ranges[i])
    BY DEF RangesInv
<1>2. ~(ranges[i].ptr = RegPtr(ranges[i].map, ranges[i].off))
    BY DEF RegPtr
<1>3. Content(memory, ranges[i].ptr, ranges[i])
    BY <1>1, <1>2 DEF GoodRange
<1>4. CASE ranges[i].arena
  <2>1. ranges[i].ptr[2] \in ArenaIds
    BY <1>1, <1>2, <1>4, IdsAre DEF GoodRange, InArena
  <2> QED BY <1>3, <2>1 DEF OwnersInv
<1>5. CASE ~ranges[i].arena
  <2>1. ranges[i].ptr[2] \in RangeIds
    BY <1>5, IdsAre
  <2> QED BY <1>3, <2>1 DEF OwnersInv
<1> QED
    BY <1>4, <1>5

LEMMA HeldReads ==
    ASSUME CacheTypeOK, OwnersInv, OwnedInv, RangesInv,
           NEW w \in Weights, NEW ptr, ReadableAt(model, ranges, ptr, w)
    PROVE  /\ \A k \in 0 .. w.n - 1 : Unit(ptr, k) = <<w.map, w.off + k>>
           /\ IdsOf(ptr) \subseteq (DOMAIN memory) \ F16Ids
<1>0. w.map \in Maps /\ w.off \in Nat /\ w.n \in Nat
    BY DEF Weights
<1>1. CASE ptr = HostPtr(w.map, w.off)
    BY <1>0, <1>1 DEF HostPtr, Unit, IdsOf
<1>2. CASE /\ ptr = RegPtr(w.map, w.off)
           /\ \/ model.base[1] = "reg" /\ model.host = w.map
              \/ \E i \in DOMAIN ranges : InRegion(w, ranges[i])
  <2>1. ptr[1] = "reg" /\ ptr[2] = w.map /\ ptr[3] = w.off
    BY <1>2 DEF RegPtr
  <2>2. ASSUME NEW k \in 0 .. w.n - 1 PROVE Unit(ptr, k) = <<w.map, w.off + k>>
    <3>1. CASE model.base[1] = "reg" /\ model.host = w.map
      BY <2>1, <3>1 DEF Unit
    <3>2. CASE \E i \in DOMAIN ranges : InRegion(w, ranges[i])
      <4>1. PICK i \in DOMAIN ranges : InRegion(w, ranges[i])
        BY <3>2
      <4>2. ranges[i] \in Ranges /\ ranges[i] \in Range(ranges)
        BY <4>1 DEF CacheTypeOK, Range
      <4>3. w.off + k \in ranges[i].lo .. ranges[i].hi - 1
        BY <1>0, <4>1, <4>2 DEF InRegion, Ranges
      <4> QED BY <2>1, <4>1, <4>2, <4>3 DEF InRegion, Unit
    <3> QED BY <1>2, <3>1, <3>2
  <2>3. IdsOf(ptr) = {}
    BY <2>1 DEF IdsOf
  <2> QED BY <2>2, <2>3
<1>3. CASE /\ model.base[1] = "dev" /\ model.host = w.map /\ w.off + w.n <= model.size
           /\ ptr = DevPtr(model.base[2], w.off)
  <2>1. ptr[1] = "dev" /\ ptr[2] = model.base[2] /\ ptr[3] = w.off
    BY <1>3 DEF DevPtr
  <2>2. model.base[2] \in (DOMAIN memory) \ F16Ids
    BY <1>3, IdsAre DEF OwnersInv
  <2>3. memory[model.base[2]] = HostUnits(w.map, 0, model.size)
    BY <1>3 DEF OwnedInv
  <2>4. model.size \in Nat
    BY DEF CacheTypeOK, Models
  <2>5. ASSUME NEW k \in 0 .. w.n - 1 PROVE Unit(ptr, k) = <<w.map, w.off + k>>
    <3>1. w.off + k \in 0 .. model.size - 1
      BY <1>0, <1>3, <2>4
    <3>2. memory[model.base[2]][w.off + k] = <<w.map, 0 + (w.off + k)>>
      BY <2>3, <3>1 DEF HostUnits
    <3> QED BY <1>0, <2>1, <2>2, <3>2 DEF Unit
  <2>6. IdsOf(ptr) = {model.base[2]}
    BY <2>1 DEF IdsOf
  <2> QED BY <2>2, <2>5, <2>6
<1>4. CASE \E i \in DOMAIN ranges :
              /\ ranges[i].ptr[1] = "dev" /\ Inside(w, ranges[i])
              /\ ptr = Beyond(ranges[i].ptr, w.off - ranges[i].off)
  <2>1. PICK i \in DOMAIN ranges :
            /\ ranges[i].ptr[1] = "dev" /\ Inside(w, ranges[i])
            /\ ptr = Beyond(ranges[i].ptr, w.off - ranges[i].off)
    BY <1>4
  <2>2. PICK r \in Ranges : r = ranges[i]
    BY DEF CacheTypeOK
  <2>3. r.ptr[2] \in (DOMAIN memory) \ F16Ids /\ Content(memory, r.ptr, r)
    BY <2>1, <2>2, RangeIdIs
  <2>4. /\ ptr[1] = "dev" /\ ptr[2] = r.ptr[2] /\ ptr[3] = r.ptr[3] + (w.off - r.off)
        /\ r.map = w.map /\ w.off >= r.off /\ w.off + w.n <= r.off + r.n
    BY <2>1, <2>2 DEF Beyond, Inside
  <2>5. r.off \in Nat /\ r.n \in Nat /\ r.ptr[3] \in Nat
    BY <2>1, <2>2 DEF Ranges, Pointers
  <2>6. ASSUME NEW k \in 0 .. w.n - 1 PROVE Unit(ptr, k) = <<w.map, w.off + k>>
    <3>1. PICK j : j = w.off - r.off + k
      OBVIOUS
    <3>2. j \in 0 .. r.n - 1 /\ r.off + j = w.off + k /\ r.ptr[3] + j = ptr[3] + k
      BY <1>0, <2>4, <2>5, <3>1
    <3>3. memory[ptr[2]][ptr[3] + k] = <<w.map, w.off + k>>
      BY <2>3, <2>4, <3>2 DEF Content
    <3> QED BY <2>3, <2>4, <3>3 DEF Unit
  <2>7. IdsOf(ptr) = {r.ptr[2]}
    BY <2>4 DEF IdsOf
  <2> QED BY <2>3, <2>6, <2>7
<1> QED
    BY <1>1, <1>2, <1>3, <1>4 DEF ReadableAt

LEMMA HeldStays ==
    ASSUME NEW m, NEW n, n.base = m.base, n.host = m.host, n.size = m.size,
           NEW rs, NEW ss, DOMAIN rs \subseteq DOMAIN ss, \A i \in DOMAIN rs : ss[i] = rs[i],
           NEW ptr, NEW w, ReadableAt(m, rs, ptr, w)
    PROVE  ReadableAt(n, ss, ptr, w)
BY DEF ReadableAt

-----------------------------------------------------------------------------
(* Looking a range up. *)

LEMMA MapPtrIs ==
    ASSUME CacheTypeOK, PhaseInv, phase \in {"preload", "running"}, NEW w \in Weights
    PROVE  /\ MapPtr(w.map, w.off) \in Pointers
           /\ w \in Tensors => ReadableAt(model, ranges, MapPtr(w.map, w.off), w)
<1>1. /\ model \in Models /\ model.size = MapSize[model.host]
      /\ w.map \in Maps /\ w.off \in Nat
    BY DEF CacheTypeOK, PhaseInv, Mapping, Weights
<1>2. w \in Tensors => w.off + w.n <= MapSize[w.map]
    BY WeightAssumption
<1>3. CASE w.map # model.host
    BY <1>1, <1>3 DEF MapPtr, HostPtr, Pointers, ReadableAt
<1>4. CASE w.map = model.host /\ model.base[1] = "dev"
  <2>1. MapPtr(w.map, w.off) = DevPtr(model.base[2], w.off) /\ model.base[2] \in Nat
    BY <1>1, <1>4 DEF MapPtr, Models
  <2> QED BY <1>1, <1>2, <1>4, <2>1 DEF DevPtr, Pointers, ReadableAt
<1>5. CASE w.map = model.host /\ model.base[1] = "reg"
  <2>1. MapPtr(w.map, w.off) = RegPtr(w.map, w.off)
    BY <1>1, <1>5 DEF MapPtr, Models
  <2> QED BY <1>1, <1>5, <2>1 DEF RegPtr, Pointers, ReadableAt
<1>6. CASE w.map = model.host /\ model.base[1] \notin {"dev", "reg"}
  <2>1. MapPtr(w.map, w.off) = HostPtr(w.map, w.off)
    BY <1>6 DEF MapPtr
  <2> QED BY <1>1, <2>1 DEF HostPtr, Pointers, ReadableAt
<1> QED
    BY <1>3, <1>4, <1>5, <1>6

LEMMA ExactIs ==
    ASSUME CacheTypeOK, NEW w, NEW i \in Exact(w)
    PROVE  i \in DOMAIN ranges /\ ranges[i].map = w.map /\ ranges[i].off = w.off /\ w.n <= ranges[i].n
BY DEF CacheTypeOK, Exact

LEMMA FoundIs ==
    ASSUME CacheTypeOK, RangesInv, NEW w \in Weights, Exact(w) # {} \/ Holding(w) # {}
    PROVE  Found(w) \in Pointers /\ ReadableAt(model, ranges, Found(w), w)
<1>0. w.map \in Maps /\ w.off \in Nat /\ w.n \in Nat
    BY DEF Weights
<1>1. \A i \in DOMAIN ranges : ranges[i] \in Ranges /\ GoodRange(memory, arenas, ranges[i])
    BY DEF CacheTypeOK, RangesInv
<1>2. CASE Exact(w) # {}
  <2>1. PICK i \in Exact(w) : Found(w) = ranges[i].ptr
    BY <1>2 DEF Found
  <2>2. /\ i \in DOMAIN ranges /\ ranges[i].map = w.map /\ ranges[i].off = w.off
        /\ w.n <= ranges[i].n
    BY ExactIs
  <2>3. PICK r \in Ranges : r = ranges[i] /\ GoodRange(memory, arenas, r)
    BY <1>1, <2>2
  <2>4. r.ptr \in Pointers /\ r.n \in Nat /\ r.lo \in Nat /\ r.hi \in Nat
    BY DEF Ranges
  <2>5. CASE r.ptr = RegPtr(r.map, r.off) /\ r.lo <= r.off /\ r.off + r.n <= r.hi
    <3>1. InRegion(w, ranges[i])
      BY <1>0, <2>2, <2>3, <2>4, <2>5 DEF InRegion, RegPtr
    <3> QED BY <2>1, <2>2, <2>3, <2>4, <2>5, <3>1 DEF ReadableAt
  <2>6. CASE r.ptr[1] = "dev"
    <3>1. Inside(w, ranges[i])
      BY <1>0, <2>2, <2>3, <2>4 DEF Inside
    <3>2. r.ptr = Beyond(r.ptr, w.off - r.off)
      BY <1>0, <2>2, <2>3, <2>4, <2>6 DEF Beyond, Pointers
    <3> QED BY <2>1, <2>2, <2>3, <2>4, <2>6, <3>1, <3>2 DEF ReadableAt
  <2> QED BY <2>3, <2>5, <2>6 DEF GoodRange
<1>3. CASE Exact(w) = {}
  <2>1. Holding(w) \subseteq Nat /\ Holding(w) # {}
    BY <1>3, LenProperties DEF Holding, CacheTypeOK
  <2>2. PICK i \in Holding(w) : i = Min(Holding(w))
    BY <2>1, LeastNat, Zenon DEF Min
  <2>3. i \in DOMAIN ranges /\ (Inside(w, ranges[i]) \/ InRegion(w, ranges[i]))
    BY DEF Holding
  <2>4. PICK r \in Ranges : r = ranges[i] /\ GoodRange(memory, arenas, r)
    BY <1>1, <2>3
  <2>5. Found(w) = IF Inside(w, r) THEN Beyond(r.ptr, w.off - r.off) ELSE RegPtr(w.map, w.off)
    BY <1>3, <2>2, <2>4 DEF Found
  <2>6. r.ptr \in Pointers /\ r.off \in Nat /\ r.n \in Nat /\ r.lo \in Nat /\ r.hi \in Nat
    BY DEF Ranges
  <2>7. RegPtr(w.map, w.off) \in Pointers
    BY <1>0 DEF RegPtr, Pointers
  <2>8. CASE ~Inside(w, r)
    BY <2>3, <2>4, <2>5, <2>7, <2>8 DEF ReadableAt
  <2>9. CASE Inside(w, r) /\ r.ptr = RegPtr(r.map, r.off) /\ r.lo <= r.off /\ r.off + r.n <= r.hi
    <3>1. InRegion(w, ranges[i])
      BY <1>0, <2>4, <2>6, <2>9 DEF Inside, InRegion, RegPtr
    <3>2. Beyond(r.ptr, w.off - r.off) = RegPtr(w.map, w.off)
      BY <1>0, <2>6, <2>9 DEF Beyond, RegPtr, Inside
    <3> QED BY <2>3, <2>5, <2>7, <2>9, <3>1, <3>2 DEF ReadableAt
  <2>10. CASE Inside(w, r) /\ r.ptr[1] = "dev"
    <3>1. Beyond(r.ptr, w.off - r.off) \in Pointers
      BY <1>0, <2>6, <2>10 DEF Beyond, Pointers, Inside
    <3> QED BY <2>3, <2>4, <2>5, <2>10, <3>1 DEF ReadableAt
  <2> QED BY <2>4, <2>8, <2>9, <2>10 DEF GoodRange
<1> QED
    BY <1>2, <1>3

(* What a lookup starts. *)
LEMMA BeginIs ==
    ASSUME CacheTypeOK, PhaseInv, RangesInv, phase \in {"preload", "running"},
           NEW w \in Weights, NEW kind \in Kinds, kind # "span" => w \in Tensors,
           NEW f, f = Begin(w, kind)
    PROVE  /\ f \in Fetches /\ f.step \in {"have", "map", "arena"} /\ f.w = w /\ f.kind = kind
           /\ f.step = "arena" => w.map = "main"
           /\ f.step = "have" /\ kind # "span" => ReadableAt(model, ranges, f.ptr, w)
<1>1. MapPtr(w.map, w.off) \in Pointers /\ (w \in Tensors => ReadableAt(model, ranges, MapPtr(w.map, w.off), w))
    BY MapPtrIs
<1>2. Exact(w) # {} \/ Holding(w) # {} => Found(w) \in Pointers /\ ReadableAt(model, ranges, Found(w), w)
    BY FoundIs
<1>3. FromFile(w) => w.map = "main"
    BY DEF FromFile, PhaseInv, NoMap
<1>4. \/ \E ptr \in {MapPtr(w.map, w.off), Found(w)} :
            /\ f = [step |-> "have", w |-> w, kind |-> kind, ptr |-> ptr]
            /\ ptr = Found(w) => \/ Exact(w) # {} \/ Holding(w) # {}
                                 \/ Found(w) = MapPtr(w.map, w.off)
      \/ f = [step |-> "map", w |-> w, kind |-> kind]
      \/ f = [step |-> "arena", w |-> w, kind |-> kind] /\ FromFile(w)
    BY DEF Begin
<1> QED
    BY <1>1, <1>2, <1>3, <1>4 DEF Fetches

-----------------------------------------------------------------------------
(* Spans to preload. *)

LEMMA FirstIs ==
    ASSUME NEW left, left \subseteq {w \in Tensors : w.map = "main"}, left # {}
    PROVE  FirstOf(left) \in left /\ \A v \in left : Before(FirstOf(left), v)
<1>0. \A w \in left : w.off \in Nat /\ w.n \in Nat
    BY WeightAssumption
<1> DEFINE offs == {w.off : w \in left}
<1>1. offs \subseteq Nat /\ offs # {}
    BY <1>0
<1>2. PICK o \in offs : \A n \in offs : o <= n
    BY <1>1, LeastNat, Zenon
<1> DEFINE ns == {w.n : w \in {w \in left : w.off = o}}
<1>3. ns \subseteq Nat /\ ns # {}
    BY <1>0
<1>4. PICK n \in ns : \A m \in ns : n <= m
    BY <1>3, LeastNat, Zenon
<1>5. PICK w \in left : w.off = o /\ w.n = n
    BY <1>4
<1>6. ASSUME NEW v \in left PROVE Before(w, v)
  <2>1. w.off <= v.off /\ (v.off = o => w.n <= v.n)
    BY <1>2, <1>4, <1>5
  <2> QED BY <1>0, <1>5, <2>1 DEF Before
<1> QED
    BY <1>5, <1>6 DEF FirstOf

LEMMA JoinedIs ==
    ASSUME NEW left, left \subseteq {w \in Tensors : w.map = "main"}, left # {}
    PROVE  /\ OneSpan(left) \subseteq left
           /\ Max({End(w) : w \in OneSpan(left)}) \in Nat
           /\ FirstOf(left).off < Max({End(w) : w \in OneSpan(left)})
<1>0. \A w \in left : /\ w \in [map : Maps, off : Nat, n : Nat \ {0}] /\ w.map = "main"
                      /\ w.off + w.n <= MapSize["main"]
    BY WeightAssumption DEF Maps
<1>1. MapSize["main"] \in Nat
    BY WeightAssumption
<1>2. FirstOf(left) \in left /\ \A v \in left : Before(FirstOf(left), v)
    BY FirstIs
<1>3. FirstOf(left) \in OneSpan(left)
  <2>1. ASSUME NEW v \in left, Before(v, FirstOf(left)) PROVE v = FirstOf(left)
    BY <1>0, <1>2, <2>1 DEF Before
  <2> QED BY <1>2, <2>1 DEF OneSpan
<1> DEFINE ends == {End(w) : w \in OneSpan(left)}
<1>4. OneSpan(left) \subseteq left
    BY DEF OneSpan
<1>5. ends \subseteq 0 .. MapSize["main"] /\ ends # {} /\ End(FirstOf(left)) \in ends
    BY <1>0, <1>1, <1>3, <1>4 DEF End
<1>6. PICK m \in ends : \A n \in ends : n <= m
    BY <1>1, <1>5, GreatestNat, Zenon
<1>7. Max(ends) \in ends /\ \A n \in ends : n <= Max(ends)
  <2>1. \A n \in ends : m >= n
    BY <1>1, <1>5, <1>6
  <2>2. Max(ends) \in ends /\ \A n \in ends : Max(ends) >= n
    BY <2>1, Zenon DEF Max
  <2> QED BY <1>1, <1>5, <2>2
<1>8. FirstOf(left).off < End(FirstOf(left)) /\ FirstOf(left).off \in Nat /\ End(FirstOf(left)) \in Nat
    BY <1>0, <1>2 DEF End
<1>9. Max(ends) \in Nat /\ End(FirstOf(left)) <= Max(ends)
    BY <1>1, <1>5, <1>7
<1> QED
    BY <1>4, <1>8, <1>9

LEMMA NextSpanIs ==
    ASSUME CacheTypeOK, ~AllPreloaded
    PROVE  /\ NextSpan \in [left : SUBSET {w \in Tensors : w.map = "main"}, off : Nat, end : Nat]
           /\ NextSpan.off < NextSpan.end
<1>1. todo \in [left : SUBSET {w \in Tensors : w.map = "main"}, off : Nat, end : Nat]
    BY DEF CacheTypeOK
<1>2. CASE todo.off < todo.end
    BY <1>1, <1>2 DEF NextSpan
<1>3. CASE ~(todo.off < todo.end)
  <2>1. todo.left # {}
    BY <1>1, <1>3 DEF AllPreloaded
  <2>2. FirstOf(todo.left) \in todo.left
    BY <1>1, <2>1, FirstIs
  <2>3. FirstOf(todo.left).off \in Nat
    BY <1>1, <2>2, WeightAssumption
  <2> QED BY <1>1, <1>3, <2>1, <2>3, JoinedIs DEF NextSpan
<1> QED
    BY <1>2, <1>3

-----------------------------------------------------------------------------
(* What a step leaves alone. *)

SameModel == model'.base = model.base /\ model'.host = model.host /\ model'.size = model.size

LEMMA SameHeap ==
    ASSUME OwnersInv, OwnedInv, ArenasInv, RangesInv, F16Inv,
           UNCHANGED <<memory, ranges, arenas, f16>>, SameModel
    PROVE  OwnersInv' /\ OwnedInv' /\ ArenasInv' /\ RangesInv' /\ F16Inv'
<1>1. OwnedIds' = OwnedIds /\ ArenaIds' = ArenaIds /\ RangeIds' = RangeIds /\ F16Ids' = F16Ids
    BY DEF OwnedIds, ArenaIds, RangeIds, F16Ids, SameModel
<1>2. OwnersInv'
    BY <1>1 DEF OwnersInv
<1>3. OwnedInv'
    BY DEF OwnedInv, SameModel
<1> QED
    BY <1>2, <1>3 DEF ArenasInv, RangesInv, F16Inv

LEMMA SameCopies ==
    ASSUME CopiesInv, UNCHANGED <<copies, ranges, arenas>>
    PROVE  CopiesInv'
BY DEF CopiesInv

LEMMA SameAnswer ==
    ASSUME AnswerInv, UNCHANGED <<answer, f16>>, SameModel,
           DOMAIN ranges \subseteq DOMAIN ranges', \A i \in DOMAIN ranges : ranges'[i] = ranges[i]
    PROVE  AnswerInv'
<1>1. ASSUME ReadableAt(model, ranges, answer.ptr, answer.w)
      PROVE  ReadableAt(model', ranges', answer'.ptr, answer'.w)
    BY <1>1, HeldStays DEF SameModel
<1> QED
    BY <1>1 DEF AnswerInv

LEMMA NotUploading ==
    ASSUME fetch'.step # "upload"
    PROVE  UploadInv'
BY DEF UploadInv

(* A step that only puts another fetch in place. *)
LEMMA NewFetch ==
    ASSUME CacheInv, UNCHANGED <<env, hasDraft, model, memory, ranges, byOffset, arenas, f16,
                                 f16ByOffset, f16Off, buffers, copies, inUse, answer>>,
           todo' \in [left : SUBSET {w \in Tensors : w.map = "main"}, off : Nat, end : Nat],
           fetch' \in Fetches, fetch'.step # "upload", FetchInv',
           phase \notin Mapping, phase' \in {"preload", "running", "failed"},
           fetch' # NoFetch => phase' \in {"preload", "running"}
    PROVE  CacheInv'
<1>1. CacheTypeOK'
    BY DEF CacheInv, CacheTypeOK
<1>2. PhaseInv'
    BY DEF CacheInv, PhaseInv, Mapping, CacheTypeOK
<1>3. SameModel
    BY DEF SameModel
<1>4. OwnersInv' /\ OwnedInv' /\ ArenasInv' /\ RangesInv' /\ F16Inv'
    BY <1>3, SameHeap DEF CacheInv
<1>5. CopiesInv' /\ AnswerInv'
    BY <1>3, SameCopies, SameAnswer DEF CacheInv
<1>6. UseInv'
    BY DEF CacheInv, UseInv
<1> QED
    BY <1>1, <1>2, <1>4, <1>5, <1>6, NotUploading DEF CacheInv

-----------------------------------------------------------------------------
(* Steps that leave the caches alone. *)

LEMMA OpenStep ==
    ASSUME CacheInv, OpenEngine
    PROVE  CacheInv'
<1>1. /\ phase = "closed" /\ phase' = "map_main" /\ env \in Switches /\ model \in Models
      /\ model' = [model EXCEPT !.fd = TRUE, !.fdMap = model.host, !.direct = env.direct_io]
      /\ hasDraft' \in BOOLEAN /\ (hasDraft' => "mtp" \in Maps)
      /\ UNCHANGED <<env, memory, todo, fetch, answer, ranges, byOffset, arenas, f16, f16ByOffset,
                     f16Off, buffers, copies, inUse>>
    BY DEF OpenEngine, cacheVars, f16Vars, streamVars, CacheInv, CacheTypeOK
<1>2. env.direct_io \in BOOLEAN
    BY <1>1, WeightAssumption
<1>3. model' \in Models /\ SameModel /\ model'.fd /\ model'.fdMap = model.host
    BY <1>1, <1>2 DEF Models, SameModel
<1>4. CacheTypeOK'
  <2>1. CacheTypeOK /\ phase' \in Mapping /\ hasDraft' \in BOOLEAN
    BY <1>1 DEF CacheInv, Mapping
  <2>2. UNCHANGED <<env, memory, todo, fetch, answer, ranges, byOffset, arenas, f16, f16ByOffset,
                    buffers, copies>>
    BY <1>1
  <2> QED BY <1>3, <2>1, <2>2 DEF CacheTypeOK
<1>5. PhaseInv'
    BY <1>1, <1>3 DEF CacheInv, PhaseInv, Mapping, SameModel
<1>6. OwnersInv' /\ OwnedInv' /\ ArenasInv' /\ RangesInv' /\ F16Inv'
    BY <1>1, <1>3, SameHeap DEF CacheInv
<1>7. CopiesInv' /\ AnswerInv'
    BY <1>1, <1>3, SameCopies, SameAnswer DEF CacheInv
<1>8. UseInv' /\ FetchInv' /\ fetch' = NoFetch
    BY <1>1 DEF CacheInv, UseInv, FetchInv, PhaseInv, Mapping, NoFetch
<1> QED
    BY <1>4, <1>5, <1>6, <1>7, <1>8, NotUploading DEF CacheInv, NoFetch

LEMMA PreloadStep ==
    ASSUME CacheInv, Preload
    PROVE  CacheInv'
<1> DEFINE n == SmallerOf(NextSpan.end - NextSpan.off, MaxSpan)
<1>1. /\ phase = "preload" /\ ~AllPreloaded
      /\ fetch' = Begin([map |-> "main", off |-> NextSpan.off, n |-> n], "span")
      /\ todo' = [NextSpan EXCEPT !.off = @ + n]
      /\ UNCHANGED <<env, phase, hasDraft, model, memory, ranges, byOffset, arenas, f16,
                     f16ByOffset, f16Off, buffers, copies, inUse, answer, budget>>
    BY DEF Preload, cacheVars, f16Vars, streamVars
<1>2. /\ NextSpan \in [left : SUBSET {w \in Tensors : w.map = "main"}, off : Nat, end : Nat]
      /\ NextSpan.off < NextSpan.end
    BY <1>1, NextSpanIs DEF CacheInv
<1>3. n \in Nat
    BY <1>2, WeightAssumption DEF SmallerOf
<1> HIDE DEF n
<1>4. todo' \in [left : SUBSET {w \in Tensors : w.map = "main"}, off : Nat, end : Nat]
    BY <1>1, <1>2, <1>3
<1>5. [map |-> "main", off |-> NextSpan.off, n |-> n] \in Weights
    BY <1>2, <1>3, WeightAssumption DEF Weights, Maps
<1>6. "span" \in Kinds
    BY DEF Kinds
<1>7. /\ fetch' \in Fetches /\ fetch'.step \in {"have", "map", "arena"} /\ fetch'.kind = "span"
      /\ fetch'.step = "arena" => fetch'.w.map = "main"
    BY <1>1, <1>5, <1>6, BeginIs DEF CacheInv
<1>8. FetchInv'
    BY <1>7 DEF FetchInv
<1> QED
    BY <1>1, <1>4, <1>7, <1>8, NewFetch DEF Mapping

LEMMA PreloadedStep ==
    ASSUME CacheInv, Preloaded
    PROVE  CacheInv'
<1>1. /\ phase = "preload" /\ phase' = "running" /\ fetch = NoFetch
      /\ UNCHANGED <<env, hasDraft, model, memory, ranges, byOffset, arenas, f16, f16ByOffset,
                     f16Off, buffers, copies, inUse, todo, fetch, answer>>
    BY DEF Preloaded, cacheVars, f16Vars, streamVars
<1>2. /\ todo' \in [left : SUBSET {w \in Tensors : w.map = "main"}, off : Nat, end : Nat]
      /\ fetch' \in Fetches
    BY <1>1 DEF CacheInv, CacheTypeOK
<1>3. FetchInv' /\ fetch'.step # "upload"
    BY <1>1 DEF FetchInv, NoFetch
<1> QED
    BY <1>1, <1>2, <1>3, NewFetch DEF Mapping

LEMMA WantStep ==
    ASSUME CacheInv, Want
    PROVE  CacheInv'
<1>1. PICK w \in Tensors, kind \in {"raw", "f16"} :
          /\ phase = "running" /\ fetch' = Begin(w, kind)
          /\ UNCHANGED <<env, phase, hasDraft, model, memory, ranges, byOffset, arenas, f16,
                         f16ByOffset, f16Off, buffers, copies, inUse, todo, answer>>
    BY DEF Want, cacheVars, f16Vars, streamVars
<1>2. w \in Weights /\ kind \in Kinds /\ kind # "span"
    BY WeightAssumption DEF Weights, Kinds, Maps
<1>3. PICK f : f = Begin(w, kind)
    OBVIOUS
<1>4. /\ f \in Fetches /\ f.step \in {"have", "map", "arena"} /\ f.w = w /\ f.kind = kind
      /\ f.step = "arena" => w.map = "main"
      /\ f.step = "have" => ReadableAt(model, ranges, f.ptr, w)
    BY <1>1, <1>2, <1>3, BeginIs DEF CacheInv
<1>5. FetchInv'
    BY <1>1, <1>3, <1>4 DEF FetchInv
<1>6. /\ todo' \in [left : SUBSET {v \in Tensors : v.map = "main"}, off : Nat, end : Nat]
      /\ fetch' \in Fetches /\ fetch'.step # "upload"
    BY <1>1, <1>3, <1>4 DEF CacheInv, CacheTypeOK
<1> QED
    BY <1>1, <1>5, <1>6, NewFetch DEF Mapping

LEMMA FetchIs ==
    ASSUME CacheTypeOK
    PROVE  /\ fetch.step \in {"idle", "map", "arena", "copy", "have", "upload"}
           /\ fetch.step = "idle" <=> fetch = NoFetch
           /\ fetch # NoFetch => fetch.w \in Weights /\ fetch.kind \in Kinds
           /\ fetch.step \in {"map", "arena", "copy"} =>
                  fetch \in [step : {"map", "arena", "copy"}, w : Weights, kind : Kinds]
           /\ fetch.step = "have" => fetch \in [step : {"have"}, w : Weights, kind : Kinds, ptr : Pointers]
           /\ fetch.step = "upload" =>
                  fetch \in [step : {"upload"}, w : Weights, kind : Kinds, id : Nat, at : Nat,
                             copied : Nat, chunk : Nat]
<1>1. fetch \in Fetches
    BY DEF CacheTypeOK
<1>2. CASE fetch = NoFetch
    BY <1>2 DEF NoFetch
<1>3. CASE fetch \in [step : {"map", "arena", "copy"}, w : Weights, kind : Kinds]
    BY <1>3 DEF NoFetch
<1>4. CASE fetch \in [step : {"have"}, w : Weights, kind : Kinds, ptr : Pointers]
    BY <1>4 DEF NoFetch
<1>5. CASE fetch \in [step : {"upload"}, w : Weights, kind : Kinds, id : Nat, at : Nat,
                      copied : Nat, chunk : Nat]
    BY <1>5 DEF NoFetch
<1> QED
    BY <1>1, <1>2, <1>3, <1>4, <1>5 DEF Fetches

LEMMA UploadFailsStep ==
    ASSUME CacheInv, UploadFails
    PROVE  CacheInv'
<1>1. /\ fetch.step = "upload" /\ fetch' = [step |-> "map", w |-> fetch.w, kind |-> fetch.kind]
      /\ UNCHANGED <<env, phase, hasDraft, model, memory, ranges, byOffset, arenas, f16,
                     f16ByOffset, f16Off, buffers, copies, inUse, todo, answer>>
    BY DEF UploadFails, cacheVars, f16Vars, streamVars
<1>2. fetch # NoFetch /\ fetch.w \in Weights /\ fetch.kind \in Kinds
    BY <1>1, FetchIs DEF CacheInv
<1>3. phase \in {"preload", "running"}
    BY <1>2 DEF CacheInv, PhaseInv
<1>4. fetch' \in Fetches /\ fetch'.step # "upload"
    BY <1>1, <1>2 DEF Fetches
<1>5. FetchInv'
    BY <1>1, <1>2 DEF CacheInv, FetchInv
<1>6. todo' \in [left : SUBSET {w \in Tensors : w.map = "main"}, off : Nat, end : Nat]
    BY <1>1 DEF CacheInv, CacheTypeOK
<1> QED
    BY <1>1, <1>3, <1>4, <1>5, <1>6, NewFetch DEF Mapping

LEMMA NowhereStep ==
    ASSUME CacheInv, Nowhere \/ SpanDone
    PROVE  CacheInv'
<1>1. /\ fetch.step \in {"copy", "have"} /\ fetch' = NoFetch /\ phase' \in {phase, "failed"}
      /\ UNCHANGED <<env, hasDraft, model, memory, ranges, byOffset, arenas, f16,
                     f16ByOffset, f16Off, buffers, copies, inUse, todo, answer>>
    BY DEF Nowhere, SpanDone, cacheVars, f16Vars, streamVars
<1>2. fetch # NoFetch
    BY <1>1 DEF NoFetch
<1>3. phase \in {"preload", "running"}
    BY <1>2 DEF CacheInv, PhaseInv
<1>4. fetch' \in Fetches /\ fetch'.step # "upload" /\ FetchInv'
    BY <1>1 DEF Fetches, FetchInv, NoFetch
<1>5. todo' \in [left : SUBSET {w \in Tensors : w.map = "main"}, off : Nat, end : Nat]
    BY <1>1 DEF CacheInv, CacheTypeOK
<1> QED
    BY <1>1, <1>3, <1>4, <1>5, NewFetch DEF Mapping

LEMMA RegisterFailsStep ==
    ASSUME CacheInv, RegisterFails
    PROVE  CacheInv'
<1>1. /\ fetch.step = "map" /\ fetch' = [fetch EXCEPT !.step = "copy"]
      /\ UNCHANGED <<env, phase, hasDraft, memory, ranges, byOffset, arenas, f16,
                     f16ByOffset, f16Off, buffers, copies, inUse, todo, answer>>
    BY DEF RegisterFails, cacheVars, f16Vars, streamVars
<1>2. PICK supported \in {model.mapping, FALSE} : model' = [model EXCEPT !.mapping = supported]
    BY DEF RegisterFails
<1>3. model \in Models /\ supported \in BOOLEAN
    BY DEF CacheInv, CacheTypeOK, Models
<1>4. /\ model' \in Models /\ SameModel
      /\ model'.fd = model.fd /\ model'.fdMap = model.fdMap
    BY <1>2, <1>3 DEF Models, SameModel
<1>5. /\ fetch # NoFetch /\ fetch.w \in Weights /\ fetch.kind \in Kinds
      /\ fetch \in [step : {"map", "arena", "copy"}, w : Weights, kind : Kinds]
    BY <1>1, FetchIs DEF CacheInv
<1>6. phase \in {"preload", "running"}
    BY <1>5 DEF CacheInv, PhaseInv
<1>7. /\ fetch' \in Fetches /\ fetch'.step = "copy" /\ fetch' # NoFetch
      /\ fetch'.w = fetch.w /\ fetch'.kind = fetch.kind
    BY <1>1, <1>5 DEF Fetches, NoFetch
<1>8. FetchInv'
    BY <1>5, <1>7 DEF CacheInv, FetchInv
<1>9. CacheTypeOK'
  <2>1. CacheTypeOK
    BY DEF CacheInv
  <2> QED BY <1>1, <1>4, <1>7, <2>1 DEF CacheTypeOK
<1>10. PhaseInv'
  <2>1. PhaseInv
    BY DEF CacheInv
  <2> QED BY <1>1, <1>4, <1>6, <2>1 DEF PhaseInv, Mapping, SameModel
<1>11. OwnersInv' /\ OwnedInv' /\ ArenasInv' /\ RangesInv' /\ F16Inv'
    BY <1>1, <1>4, SameHeap DEF CacheInv
<1>12. CopiesInv' /\ AnswerInv'
    BY <1>1, <1>4, SameCopies, SameAnswer DEF CacheInv
<1>13. UseInv'
    BY <1>1 DEF CacheInv, UseInv
<1> QED
    BY <1>7, <1>8, <1>9, <1>10, <1>11, <1>12, <1>13, NotUploading DEF CacheInv

(* A kernel is launched, or all are done. *)
LEMMA NewAnswer ==
    ASSUME CacheInv, UNCHANGED <<env, phase, hasDraft, model, memory, ranges, byOffset, arenas, f16,
                                 f16ByOffset, f16Off, buffers, copies, todo>>,
           phase \notin Mapping, fetch' = NoFetch, answer' \in Answers, AnswerInv', UseInv'
    PROVE  CacheInv'
<1>1. CacheTypeOK'
    BY DEF CacheInv, CacheTypeOK, Fetches
<1>2. PhaseInv'
    BY DEF CacheInv, PhaseInv
<1>3. SameModel
    BY DEF SameModel
<1>4. OwnersInv' /\ OwnedInv' /\ ArenasInv' /\ RangesInv' /\ F16Inv'
    BY <1>3, SameHeap DEF CacheInv
<1>5. CopiesInv'
    BY SameCopies DEF CacheInv
<1>6. FetchInv' /\ fetch'.step # "upload"
    BY DEF FetchInv, NoFetch
<1> QED
    BY <1>1, <1>2, <1>4, <1>5, <1>6, NotUploading DEF CacheInv

LEMMA UseRawStep ==
    ASSUME CacheInv, UseRaw
    PROVE  CacheInv'
<1>1. /\ fetch.step = "have" /\ fetch.kind # "span" /\ fetch' = NoFetch
      /\ answer' = [given |-> TRUE, w |-> fetch.w, form |-> "raw", ptr |-> fetch.ptr]
      /\ inUse' = inUse \cup IdsOf(fetch.ptr)
      /\ UNCHANGED <<env, phase, hasDraft, model, memory, ranges, byOffset, arenas, f16,
                     f16ByOffset, f16Off, buffers, copies, todo>>
    BY DEF UseRaw, Launch, cacheVars, f16Vars
<1>2. /\ fetch # NoFetch /\ fetch.w \in Weights /\ fetch.ptr \in Pointers
    BY <1>1, FetchIs DEF CacheInv
<1>3. fetch.w \in Tensors /\ ReadableAt(model, ranges, fetch.ptr, fetch.w)
    BY <1>1, <1>2 DEF CacheInv, FetchInv
<1>4. phase \notin Mapping
    BY <1>2 DEF CacheInv, PhaseInv, Mapping
<1>5. IdsOf(fetch.ptr) \subseteq DOMAIN memory
    BY <1>2, <1>3, HeldReads DEF CacheInv
<1>6. answer' \in Answers /\ AnswerInv'
    BY <1>1, <1>2, <1>3 DEF Answers, AnswerInv
<1>7. UseInv'
    BY <1>1, <1>5 DEF CacheInv, UseInv
<1> QED
    BY <1>1, <1>4, <1>6, <1>7, NewAnswer

LEMMA HitIs ==
    ASSUME CacheTypeOK, NEW w, NEW i \in F16Hit(w)
    PROVE  i \in DOMAIN f16 /\ f16[i].map = w.map /\ f16[i].off = w.off /\ f16[i].n = w.n
BY DEF CacheTypeOK, F16Hit

LEMMA UseF16Step ==
    ASSUME CacheInv, UseF16
    PROVE  CacheInv'
<1>1. /\ fetch.step = "have" /\ fetch.kind = "f16" /\ fetch' = NoFetch /\ F16Hit(fetch.w) # {}
      /\ UNCHANGED <<env, phase, hasDraft, model, memory, ranges, byOffset, arenas, f16,
                     f16ByOffset, f16Off, buffers, copies, todo>>
    BY DEF UseF16, Launch, cacheVars, f16Vars
<1>2. PICK i \in F16Hit(fetch.w) :
          /\ answer' = [given |-> TRUE, w |-> fetch.w, form |-> "f16", ptr |-> DevPtr(f16[i].id, 0)]
          /\ inUse' = inUse \cup IdsOf(DevPtr(f16[i].id, 0))
    BY <1>1 DEF UseF16, Launch
<1>3. fetch # NoFetch
    BY <1>1, FetchIs DEF CacheInv
<1>4. fetch.w \in Tensors
    BY <1>1, <1>3 DEF CacheInv, FetchInv
<1>5. phase \notin Mapping
    BY <1>3 DEF CacheInv, PhaseInv, Mapping
<1>6. i \in DOMAIN f16 /\ f16[i].map = fetch.w.map /\ f16[i].off = fetch.w.off /\ f16[i].n = fetch.w.n
    BY HitIs DEF CacheInv
<1>7. f16[i].id \in Nat
  <2>1. f16[i] \in Expansions
    BY <1>6, ElementsAre DEF CacheInv
  <2> QED BY <2>1 DEF Expansions
<1>8. answer' \in Answers
    BY <1>2, <1>4, <1>7 DEF Answers, DevPtr, Pointers
<1>9. AnswerInv'
    BY <1>1, <1>2, <1>6 DEF AnswerInv, Expanded
<1>10. IdsOf(DevPtr(f16[i].id, 0)) \subseteq DOMAIN memory
  <2>1. f16[i].id \in F16Ids
    BY <1>6, IdsAre
  <2>2. f16[i].id \in DOMAIN memory
    BY <2>1 DEF CacheInv, OwnersInv
  <2> QED BY <2>2 DEF DevPtr, IdsOf
<1>11. UseInv'
    BY <1>1, <1>2, <1>10 DEF CacheInv, UseInv
<1> QED
    BY <1>1, <1>5, <1>8, <1>9, <1>11, NewAnswer

LEMMA KernelsDoneStep ==
    ASSUME CacheInv, KernelsDone
    PROVE  CacheInv'
<1>1. /\ inUse # {} /\ inUse' = {}
      /\ UNCHANGED <<env, phase, hasDraft, model, memory, ranges, byOffset, arenas, f16,
                     f16ByOffset, f16Off, buffers, copies, todo, fetch, answer>>
    BY DEF KernelsDone, cacheVars, f16Vars
<1>2. CacheTypeOK'
  <2>1. CacheTypeOK
    BY DEF CacheInv
  <2> QED BY <1>1, <2>1 DEF CacheTypeOK
<1>3. PhaseInv'
  <2>1. PhaseInv
    BY DEF CacheInv
  <2> QED BY <1>1, <2>1 DEF PhaseInv
<1>4. SameModel
    BY <1>1 DEF SameModel
<1>5. OwnersInv' /\ OwnedInv' /\ ArenasInv' /\ RangesInv' /\ F16Inv'
    BY <1>1, <1>4, SameHeap DEF CacheInv
<1>6. CopiesInv' /\ AnswerInv'
    BY <1>1, <1>4, SameCopies, SameAnswer DEF CacheInv
<1>7. UseInv' /\ FetchInv' /\ UploadInv'
  <2>1. UseInv'
    BY <1>1 DEF UseInv
  <2>2. FetchInv'
    BY <1>1 DEF CacheInv, FetchInv
  <2>3. UploadInv'
    BY <1>1 DEF CacheInv, UploadInv
  <2> QED BY <2>1, <2>2, <2>3
<1> QED
    BY <1>2, <1>3, <1>5, <1>6, <1>7 DEF CacheInv

-----------------------------------------------------------------------------
(* A place for an upload. *)

Grows(as, bs) ==
    \A i \in DOMAIN as : i \in DOMAIN bs /\ bs[i].id = as[i].id /\ as[i].used <= bs[i].used

LEMMA InArenaStays ==
    ASSUME NEW as, \A i \in DOMAIN as : as[i] \in Arenas,
           NEW bs, \A i \in DOMAIN bs : bs[i] \in Arenas, Grows(as, bs),
           NEW id, NEW at \in Nat, NEW n \in Nat, InArena(as, id, at, n)
    PROVE  InArena(bs, id, at, n)
<1>1. PICK i \in DOMAIN as : as[i].id = id /\ at + n <= as[i].used
    BY DEF InArena
<1>2. i \in DOMAIN bs /\ bs[i].id = id /\ as[i].used <= bs[i].used
    BY <1>1 DEF Grows
<1>3. PICK a \in Nat, b \in Nat : a = as[i].used /\ b = bs[i].used
    BY <1>1, <1>2 DEF Arenas
<1>4. at + n <= a /\ a <= b
    BY <1>1, <1>2, <1>3
<1>5. at + n <= b
    BY <1>4
<1>6. at + n <= bs[i].used
    BY <1>3, <1>5, Zenon
<1> QED
    BY <1>2, <1>6 DEF InArena

LEMMA RangeStays ==
    ASSUME NEW as, \A i \in DOMAIN as : as[i] \in Arenas,
           NEW bs, \A i \in DOMAIN bs : bs[i] \in Arenas, Grows(as, bs), NEW r \in Ranges,
           NEW mem, NEW new, r.ptr[1] = "dev" => new[r.ptr[2]] = mem[r.ptr[2]],
           GoodRange(mem, as, r)
    PROVE  GoodRange(new, bs, r)
<1>1. CASE r.ptr = RegPtr(r.map, r.off) /\ ~r.arena /\ r.lo <= r.off /\ r.off + r.n <= r.hi
    BY <1>1 DEF GoodRange
<1>2. CASE /\ r.ptr[1] = "dev" /\ Content(mem, r.ptr, r)
           /\ r.arena => InArena(as, r.ptr[2], r.ptr[3], r.n)
  <2>1. Content(new, r.ptr, r)
    BY <1>2 DEF Content
  <2>2. r.ptr[3] \in Nat /\ r.n \in Nat
    BY <1>2 DEF Ranges, Pointers
  <2>3. r.arena => InArena(bs, r.ptr[2], r.ptr[3], r.n)
    <3>1. PICK at \in Nat, n \in Nat : at = r.ptr[3] /\ n = r.n
      BY <2>2
    <3>2. ASSUME InArena(as, r.ptr[2], at, n) PROVE InArena(bs, r.ptr[2], at, n)
      BY <3>2, InArenaStays
    <3> QED BY <1>2, <3>1, <3>2
  <2> QED BY <1>2, <2>1, <2>3 DEF GoodRange
<1> QED
    BY <1>1, <1>2 DEF GoodRange

LEMMA F16IdIs ==
    ASSUME OwnersInv, NEW i \in DOMAIN f16
    PROVE  f16[i].id \in DOMAIN memory
BY IdsAre DEF OwnersInv

LEMMA OwnedIdIs ==
    ASSUME OwnersInv, model.base[1] = "dev"
    PROVE  model.base[2] \in (DOMAIN memory) \ F16Ids
BY IdsAre DEF OwnersInv

(* What is allocated, expansions aside, stays as it is, and arenas only    *)
(* fill up.                                                                *)
LEMMA HeapStays ==
    ASSUME CacheInv, SameModel, \A i \in DOMAIN arenas' : arenas'[i] \in Arenas,
           Grows(arenas, arenas'),
           \A id \in (DOMAIN memory) \ F16Ids : memory'[id] = memory[id]
    PROVE  /\ OwnedInv'
           /\ \A i \in DOMAIN ranges : GoodRange(memory', arenas', ranges[i])
           /\ UNCHANGED arenas => ArenasInv'
           /\ UNCHANGED <<copies, ranges>> => CopiesInv'
<1>1. /\ \A i \in DOMAIN arenas : arenas[i] \in Arenas
      /\ \A i \in DOMAIN ranges : ranges[i] \in Ranges
      /\ \A j \in DOMAIN copies : copies[j] \in Copies
    BY ElementsAre DEF CacheInv
<1>2. OwnedInv'
    BY OwnedIdIs DEF CacheInv, OwnedInv, SameModel
<1>3. ASSUME NEW i \in DOMAIN ranges PROVE GoodRange(memory', arenas', ranges[i])
  <2>1. GoodRange(memory, arenas, ranges[i]) /\ ranges[i] \in Ranges
    BY <1>1 DEF CacheInv, RangesInv
  <2>2. ranges[i].ptr[1] = "dev" => memory'[ranges[i].ptr[2]] = memory[ranges[i].ptr[2]]
    BY RangeIdIs DEF CacheInv
  <2> QED BY <1>1, <2>1, <2>2, RangeStays
<1>4. ASSUME UNCHANGED arenas PROVE ArenasInv'
  <2>1. ASSUME NEW i \in DOMAIN arenas PROVE GoodArena(memory', arenas[i])
    <3>1. GoodArena(memory, arenas[i])
      BY DEF CacheInv, ArenasInv
    <3>2. arenas[i].id \in ArenaIds
      BY IdsAre
    <3>3. memory'[arenas[i].id] = memory[arenas[i].id]
      BY <3>2 DEF CacheInv, OwnersInv
    <3> QED BY <3>1, <3>3 DEF GoodArena
  <2> QED BY <1>4, <2>1 DEF ArenasInv
<1>5. ASSUME UNCHANGED <<copies, ranges>> PROVE CopiesInv'
  <2>1. ASSUME NEW j \in DOMAIN copies
        PROVE  /\ InArena(arenas', copies[j].id, copies[j].at, copies[j].n)
               /\ AwayFrom(ranges, copies[j].id, copies[j].at, copies[j].n)
    <3>1. /\ InArena(arenas, copies[j].id, copies[j].at, copies[j].n)
          /\ AwayFrom(ranges, copies[j].id, copies[j].at, copies[j].n)
      BY DEF CacheInv, CopiesInv
    <3>2. copies[j].at \in Nat /\ copies[j].n \in Nat
      BY <1>1 DEF Copies
    <3> QED BY <1>1, <3>1, <3>2, InArenaStays
  <2> QED BY <1>5, <2>1 DEF CopiesInv
<1> QED
    BY <1>2, <1>3, <1>4, <1>5

LEMMA F16Stays ==
    ASSUME CacheInv, \A id \in DOMAIN memory : memory'[id] = memory[id]
    PROVE  \A i \in DOMAIN f16 : GoodExpansion(memory', f16[i])
<1>1. ASSUME NEW i \in DOMAIN f16 PROVE GoodExpansion(memory', f16[i])
  <2>1. memory'[f16[i].id] = memory[f16[i].id]
    BY F16IdIs DEF CacheInv
  <2> QED BY <2>1 DEF CacheInv, F16Inv, GoodExpansion
<1> QED
    BY <1>1

(* A step that changes flags of the model and puts another fetch in place. *)
LEMMA NewFlags ==
    ASSUME CacheInv, UNCHANGED <<env, phase, hasDraft, memory, ranges, byOffset, arenas, f16,
                                 f16ByOffset, f16Off, buffers, copies, inUse, todo, answer>>,
           model' \in Models, SameModel, model'.fd = model.fd, model'.fdMap = model.fdMap,
           fetch' \in Fetches, fetch'.step # "upload", FetchInv', phase \in {"preload", "running"}
    PROVE  CacheInv'
<1>1. CacheTypeOK'
  <2>1. CacheTypeOK
    BY DEF CacheInv
  <2> QED BY <2>1 DEF CacheTypeOK
<1>2. PhaseInv'
  <2>1. PhaseInv
    BY DEF CacheInv
  <2> QED BY <2>1 DEF PhaseInv, Mapping, SameModel
<1>3. OwnersInv' /\ OwnedInv' /\ ArenasInv' /\ RangesInv' /\ F16Inv'
    BY SameHeap DEF CacheInv
<1>4. CopiesInv' /\ AnswerInv'
    BY SameCopies, SameAnswer DEF CacheInv
<1>5. UseInv'
    BY DEF CacheInv, UseInv
<1> QED
    BY <1>1, <1>2, <1>3, <1>4, <1>5, NotUploading DEF CacheInv

LEMMA InsteadStep ==
    ASSUME CacheInv, UNCHANGED <<env, phase, hasDraft, memory, ranges, byOffset, arenas, f16,
                                 f16ByOffset, f16Off, buffers, copies, inUse, todo, answer>>,
           fetch.step = "arena", fetch' = Instead(fetch.w, fetch.kind),
           model' \in {model, [model EXCEPT !.full = TRUE]}
    PROVE  CacheInv'
<1>1. /\ fetch # NoFetch /\ fetch.w \in Weights /\ fetch.kind \in Kinds
    BY FetchIs, Zenon DEF CacheInv
<1>2. phase \in {"preload", "running"}
    BY <1>1 DEF CacheInv, PhaseInv
<1>3. model \in Models
    BY DEF CacheInv, CacheTypeOK
<1>4. /\ model' \in Models /\ SameModel /\ model'.fd = model.fd /\ model'.fdMap = model.fdMap
    BY <1>3 DEF Models, SameModel
<1>5. PICK ptr : ptr = MapPtr(fetch.w.map, fetch.w.off)
    OBVIOUS
<1>6. ptr \in Pointers /\ (fetch.w \in Tensors => ReadableAt(model, ranges, ptr, fetch.w))
    BY <1>1, <1>2, <1>5, MapPtrIs DEF CacheInv
<1>7. fetch.w \in Tensors => ReadableAt(model', ranges', ptr, fetch.w)
    BY <1>4, <1>6, HeldStays DEF SameModel
<1>8. \/ fetch' = [step |-> "map", w |-> fetch.w, kind |-> fetch.kind]
      \/ fetch' = [step |-> "have", w |-> fetch.w, kind |-> fetch.kind, ptr |-> ptr]
    BY <1>5 DEF Instead
<1>9. fetch' \in Fetches /\ fetch'.step # "upload"
    BY <1>1, <1>6, <1>8 DEF Fetches
<1>10. fetch.kind # "span" => fetch.w \in Tensors
    BY <1>1 DEF CacheInv, FetchInv
<1>11. FetchInv'
    BY <1>7, <1>8, <1>10 DEF FetchInv
<1> QED
    BY <1>2, <1>4, <1>9, <1>11, NewFlags

(* The place of an upload lies behind all that arenas are used for. *)
LEMMA BehindAll ==
    ASSUME CacheInv, NEW id, NEW at \in Nat, NEW n \in Nat,
           \A i \in DOMAIN arenas : arenas[i].id = id => arenas[i].used <= at
    PROVE  /\ AwayFrom(ranges, id, at, n)
           /\ \A j \in DOMAIN copies : copies[j].id # id \/ Apart(copies[j].at, copies[j].n, at, n)
<1>1. ASSUME NEW p \in Nat, NEW m \in Nat, InArena(arenas, id, p, m) PROVE p + m <= at
  <2>1. PICK i \in DOMAIN arenas : arenas[i].id = id /\ p + m <= arenas[i].used
    BY <1>1 DEF InArena
  <2>2. PICK u \in Nat : u = arenas[i].used
    BY <2>1, ElementsAre DEF CacheInv, Arenas
  <2>3. p + m <= u /\ u <= at
    BY <2>1, <2>2
  <2> QED BY <2>3
<1>2. ASSUME NEW i \in DOMAIN ranges, ranges[i].arena, ranges[i].ptr[2] = id
      PROVE  Apart(at, n, ranges[i].ptr[3], ranges[i].n)
  <2>1. PICK r \in Ranges : r = ranges[i] /\ GoodRange(memory, arenas, r)
    BY ElementsAre DEF CacheInv, RangesInv
  <2>2. InArena(arenas, id, r.ptr[3], r.n) /\ r.ptr[1] = "dev"
    BY <1>2, <2>1 DEF GoodRange
  <2>3. PICK p \in Nat, m \in Nat : p = r.ptr[3] /\ m = r.n
    BY <2>2 DEF Ranges, Pointers
  <2>4. p + m <= at
    BY <1>1, <2>2, <2>3
  <2> QED BY <2>1, <2>3, <2>4 DEF Apart
<1>3. ASSUME NEW j \in DOMAIN copies, copies[j].id = id
      PROVE  Apart(copies[j].at, copies[j].n, at, n)
  <2>1. InArena(arenas, id, copies[j].at, copies[j].n)
    BY <1>3 DEF CacheInv, CopiesInv
  <2>2. PICK p \in Nat, m \in Nat : p = copies[j].at /\ m = copies[j].n
    BY ElementsAre DEF CacheInv, Copies
  <2>3. p + m <= at
    BY <1>1, <2>1, <2>2
  <2> QED BY <2>2, <2>3 DEF Apart
<1> QED
    BY <1>2, <1>3 DEF AwayFrom

LEMMA UploadStarts ==
    ASSUME CacheInv, UNCHANGED <<env, phase, hasDraft, model, ranges, byOffset, f16, f16ByOffset,
                                 f16Off, buffers, copies, inUse, todo, answer>>,
           fetch.step = "arena", NEW id \in Nat, NEW at \in Nat,
           fetch' = Upload(fetch.w, fetch.kind, id, at),
           arenas' \in Seq(Arenas), \A i \in DOMAIN arenas' : arenas'[i] \in Arenas,
           Grows(arenas, arenas'), InArena(arenas', id, at, fetch.w.n),
           \A i \in DOMAIN arenas : arenas[i].id = id => arenas[i].used <= at,
           DOMAIN memory \subseteq DOMAIN memory', DOMAIN memory' \subseteq Nat,
           IsFiniteSet(DOMAIN memory'), \A i \in DOMAIN memory : memory'[i] = memory[i],
           OwnersInv', ArenasInv'
    PROVE  CacheInv'
<1>1. /\ fetch # NoFetch /\ fetch.w \in Weights /\ fetch.kind \in Kinds
    BY FetchIs, Zenon DEF CacheInv
<1>2. phase \in {"preload", "running"}
    BY <1>1 DEF CacheInv, PhaseInv
<1>3. fetch.w.map = "main" /\ fetch.w.n \in Nat
    BY <1>1 DEF CacheInv, FetchInv, Weights
<1>4. fetch' = [step |-> "upload", w |-> fetch.w, kind |-> fetch.kind, id |-> id, at |-> at,
                copied |-> 0, chunk |-> 0]
    BY DEF Upload
<1>5. fetch' \in Fetches
    BY <1>1, <1>4 DEF Fetches
<1>6. CacheTypeOK'
  <2>1. CacheTypeOK
    BY DEF CacheInv
  <2> QED BY <1>5, <2>1 DEF CacheTypeOK
<1>7. PhaseInv'
  <2>1. PhaseInv
    BY DEF CacheInv
  <2> QED BY <1>2, <2>1 DEF PhaseInv, Mapping
<1>8. SameModel
    BY DEF SameModel
<1>9. OwnedInv' /\ RangesInv' /\ F16Inv' /\ CopiesInv'
    BY <1>8, HeapStays, F16Stays DEF RangesInv, F16Inv
<1>10. UseInv'
    BY DEF CacheInv, UseInv
<1>11. UploadInv'
  <2>1. /\ AwayFrom(ranges, id, at, fetch.w.n)
        /\ \A j \in DOMAIN copies :
               copies[j].id # id \/ Apart(copies[j].at, copies[j].n, at, fetch.w.n)
    BY <1>3, BehindAll
  <2>2. \A j \in DOMAIN copies : Other(fetch', copies[j])
    BY <1>4, <2>1 DEF Other
  <2>3. 0 .. fetch'.copied - 1 = {} /\ fetch'.copied <= fetch'.w.n
    BY <1>3, <1>4
  <2>4. /\ fetch'.w = fetch.w /\ fetch'.id = id /\ fetch'.at = at
    BY <1>4
  <2> QED BY <1>3, <2>1, <2>2, <2>3, <2>4 DEF UploadInv
<1>12. FetchInv'
    BY <1>1, <1>4 DEF CacheInv, FetchInv
<1>13. AnswerInv'
    BY <1>8, SameAnswer DEF CacheInv
<1> QED
    BY <1>6, <1>7, <1>9, <1>10, <1>11, <1>12, <1>13 DEF CacheInv

LEMMA UsesRoom ==
    ASSUME CacheInv, UNCHANGED <<env, phase, hasDraft, model, memory, ranges, byOffset, f16,
                                 f16ByOffset, f16Off, buffers, copies, inUse, todo, answer>>,
           fetch.step = "arena", NEW i \in DOMAIN arenas,
           fetch.w.n <= arenas[i].size - arenas[i].used,
           arenas' = [arenas EXCEPT ![i].used = @ + fetch.w.n],
           fetch' = Upload(fetch.w, fetch.kind, arenas[i].id, arenas[i].used)
    PROVE  CacheInv'
<1>1. /\ fetch # NoFetch /\ fetch.w \in Weights /\ fetch.w.n \in Nat
    BY FetchIs DEF CacheInv, Weights
<1>2. arenas \in Seq(Arenas) /\ \A j \in DOMAIN arenas : arenas[j] \in Arenas
    BY ElementsAre DEF CacheInv, CacheTypeOK
<1>3. arenas[i].id \in Nat /\ arenas[i].size \in Nat /\ arenas[i].used \in Nat
    BY <1>2 DEF Arenas
<1>4. /\ DOMAIN arenas' = DOMAIN arenas
      /\ arenas'[i] = [arenas[i] EXCEPT !.used = @ + fetch.w.n]
      /\ \A j \in DOMAIN arenas \ {i} : arenas'[j] = arenas[j]
    OBVIOUS
<1>5. [arenas[i] EXCEPT !.used = @ + fetch.w.n] \in Arenas
    BY <1>1, <1>2, <1>3 DEF Arenas
<1>6. \A j \in DOMAIN arenas' : arenas'[j] \in Arenas
    BY <1>2, <1>4, <1>5, Zenon
<1>7. arenas' \in Seq(Arenas)
  <2>1. i \in 1 .. Len(arenas)
    BY <1>2, LenProperties
  <2>2. PICK e \in Arenas : e = [arenas[i] EXCEPT !.used = @ + fetch.w.n]
    BY <1>5
  <2>3. [arenas EXCEPT ![i] = e] \in Seq(Arenas)
    BY <1>2, <2>1, ExceptSeq
  <2> QED BY <2>2, <2>3
<1>8. arenas'[i].id = arenas[i].id /\ arenas'[i].used = arenas[i].used + fetch.w.n
      /\ arenas'[i].size = arenas[i].size
    BY <1>2, <1>4 DEF Arenas
<1>9. Grows(arenas, arenas')
  <2>1. ASSUME NEW j \in DOMAIN arenas
        PROVE  j \in DOMAIN arenas' /\ arenas'[j].id = arenas[j].id /\ arenas[j].used <= arenas'[j].used
    <3>1. CASE j = i
      BY <1>1, <1>3, <1>4, <1>8, <3>1
    <3>2. CASE j # i
      <4>1. arenas[j].used \in Nat
        BY <1>2 DEF Arenas
      <4> QED BY <1>4, <3>2, <4>1
    <3> QED BY <3>1, <3>2
  <2> QED BY <2>1 DEF Grows
<1>10. InArena(arenas', arenas[i].id, arenas[i].used, fetch.w.n)
    BY <1>1, <1>3, <1>4, <1>8 DEF InArena
<1>11. \A j \in DOMAIN arenas : arenas[j].id = arenas[i].id => arenas[j].used <= arenas[i].used
    BY <1>3 DEF CacheInv, OwnersInv
<1>12. OwnersInv'
  <2>1. \A j \in DOMAIN arenas : arenas'[j].id = arenas[j].id
    BY <1>9 DEF Grows
  <2>2. ArenaIds' = ArenaIds
    <3>1. ASSUME NEW x PROVE x \in ArenaIds' <=> x \in ArenaIds
      <4>1. x \in ArenaIds' <=> \E j \in DOMAIN arenas' : x = arenas'[j].id
        BY IdsAreNext
      <4>2. x \in ArenaIds <=> \E j \in DOMAIN arenas : x = arenas[j].id
        BY IdsAre
      <4>3. DOMAIN arenas' = DOMAIN arenas
        BY <1>4
      <4> QED BY <2>1, <4>1, <4>2, <4>3
    <3> QED BY <3>1
  <2>3. OwnedIds' = OwnedIds /\ RangeIds' = RangeIds /\ F16Ids' = F16Ids
    BY DEF OwnedIds, RangeIds, F16Ids
  <2>4. OwnersInv
    BY DEF CacheInv
  <2> QED BY <1>4, <2>1, <2>2, <2>3, <2>4 DEF OwnersInv
<1>13. ArenasInv'
  <2>1. ASSUME NEW j \in DOMAIN arenas PROVE GoodArena(memory, arenas'[j])
    <3>1. GoodArena(memory, arenas[j])
      BY DEF CacheInv, ArenasInv
    <3>2. CASE j = i
      BY <1>1, <1>3, <1>4, <1>8, <3>1, <3>2 DEF GoodArena
    <3>3. CASE j # i
      BY <1>4, <3>1, <3>3 DEF GoodArena
    <3> QED BY <3>2, <3>3
  <2> QED BY <1>4, <2>1 DEF ArenasInv
<1>14. DOMAIN memory' \subseteq Nat /\ IsFiniteSet(DOMAIN memory')
    BY DEF CacheInv, CacheTypeOK
<1> QED
    BY <1>3, <1>6, <1>7, <1>9, <1>10, <1>11, <1>12, <1>13, <1>14, UploadStarts

LEMMA NewArena ==
    ASSUME CacheInv, UNCHANGED <<env, phase, hasDraft, model, ranges, byOffset, f16,
                                 f16ByOffset, f16Off, buffers, copies, inUse, todo, answer>>,
           fetch.step = "arena", NEW size \in Nat, fetch.w.n <= size,
           arenas' = Append(arenas, [id |-> Fresh, size |-> size, used |-> fetch.w.n]),
           memory' = Allocated(size), fetch' = Upload(fetch.w, fetch.kind, Fresh, 0)
    PROVE  CacheInv'
<1>1. /\ fetch # NoFetch /\ fetch.w \in Weights /\ fetch.w.n \in Nat
    BY FetchIs DEF CacheInv, Weights
<1>2. arenas \in Seq(Arenas) /\ \A j \in DOMAIN arenas : arenas[j] \in Arenas
    BY ElementsAre DEF CacheInv, CacheTypeOK
<1>3. Fresh \in Nat \ DOMAIN memory
    BY FreshIs DEF CacheInv
<1>4. PICK a \in Arenas : a = [id |-> Fresh, size |-> size, used |-> fetch.w.n]
    BY <1>1, <1>3 DEF Arenas
<1>5. PICK m \in Nat : m = Len(arenas) + 1
    BY <1>2, LenProperties
<1>6. /\ arenas' \in Seq(Arenas) /\ DOMAIN arenas' = DOMAIN arenas \cup {m} /\ m \notin DOMAIN arenas
      /\ \A j \in DOMAIN arenas : arenas'[j] = arenas[j]
      /\ arenas'[m] = a
    BY <1>2, <1>4, <1>5, Appended
<1>7. \A j \in DOMAIN arenas' : arenas'[j] \in Arenas
    BY <1>2, <1>6, Zenon
<1>8. Grows(arenas, arenas')
  <2>1. \A j \in DOMAIN arenas : arenas[j].used <= arenas[j].used
    BY <1>2 DEF Arenas
  <2> QED BY <1>6, <2>1 DEF Grows
<1>9. InArena(arenas', Fresh, 0, fetch.w.n)
    BY <1>1, <1>4, <1>6 DEF InArena
<1>10. Fresh \notin ArenaIds \cup OwnedIds \cup RangeIds \cup F16Ids
    BY <1>3 DEF CacheInv, OwnersInv
<1>11. \A j \in DOMAIN arenas : arenas[j].id # Fresh
    BY <1>10, IdsAre
<1>12. /\ DOMAIN memory' = DOMAIN memory \cup {Fresh}
       /\ \A id \in DOMAIN memory : memory'[id] = memory[id]
       /\ DOMAIN memory'[Fresh] = 0 .. size - 1
    BY AllocatedIs, Zenon DEF CacheInv
<1>13. DOMAIN memory' \subseteq Nat /\ IsFiniteSet(DOMAIN memory')
  <2>1. DOMAIN memory \subseteq Nat /\ IsFiniteSet(DOMAIN memory)
    BY DEF CacheInv, CacheTypeOK
  <2> QED BY <1>3, <1>12, <2>1, FS_AddElement
<1>14. OwnersInv'
  <2>1. ArenaIds' = ArenaIds \cup {Fresh}
    <3>1. \A x : x \in ArenaIds' <=> x \in ArenaIds \/ x = a.id
      BY <1>6, IdsAre, IdsAreNext
    <3> QED BY <1>4, <3>1
  <2>2. OwnedIds' = OwnedIds /\ RangeIds' = RangeIds /\ F16Ids' = F16Ids
    BY DEF OwnedIds, RangeIds, F16Ids
  <2>3. OwnersInv
    BY DEF CacheInv
  <2>4. \A i, j \in DOMAIN arenas' : arenas'[i].id = arenas'[j].id => i = j
    <3>1. \A i \in DOMAIN arenas' : arenas'[i].id = IF i = m THEN Fresh ELSE arenas[i].id
      BY <1>4, <1>6
    <3> QED BY <1>6, <1>11, <2>3, <3>1 DEF OwnersInv
  <2>5. /\ DOMAIN memory' = OwnedIds \cup (ArenaIds \cup {Fresh}) \cup RangeIds \cup F16Ids
        /\ F16Ids \cap (OwnedIds \cup (ArenaIds \cup {Fresh}) \cup RangeIds) = {}
        /\ (ArenaIds \cup {Fresh}) \cap (OwnedIds \cup RangeIds) = {}
    BY <1>10, <1>12, <2>3 DEF OwnersInv
  <2> QED BY <2>1, <2>2, <2>4, <2>5 DEF OwnersInv
<1>15. ArenasInv'
  <2>1. ASSUME NEW j \in DOMAIN arenas PROVE GoodArena(memory', arenas[j])
    <3>1. GoodArena(memory, arenas[j])
      BY DEF CacheInv, ArenasInv
    <3>2. arenas[j].id \in ArenaIds
      BY IdsAre
    <3>3. memory'[arenas[j].id] = memory[arenas[j].id]
      BY <1>12, <3>2 DEF CacheInv, OwnersInv
    <3> QED BY <3>1, <3>3 DEF GoodArena
  <2>2. GoodArena(memory', a)
    BY <1>4, <1>12 DEF GoodArena
  <2> QED BY <1>6, <2>1, <2>2 DEF ArenasInv
<1>16. \A j \in DOMAIN arenas : arenas[j].id = Fresh => arenas[j].used <= 0
    BY <1>11
<1>17. Fresh \in Nat /\ 0 \in Nat /\ DOMAIN memory \subseteq DOMAIN memory'
    BY <1>3, <1>12
<1> QED
    BY <1>6, <1>7, <1>8, <1>9, <1>12, <1>13, <1>14, <1>15, <1>16, <1>17, UploadStarts

LEMMA ArenaAllocStep ==
    ASSUME CacheInv, ArenaAlloc
    PROVE  CacheInv'
<1>1. /\ fetch.step = "arena"
      /\ UNCHANGED <<env, phase, hasDraft, ranges, byOffset, f16, f16ByOffset, f16Off, buffers,
                     copies, inUse, todo, answer>>
    BY DEF ArenaAlloc, f16Vars, streamVars
<1>2. /\ fetch # NoFetch /\ fetch.w \in Weights /\ fetch.w.n \in Nat
    BY <1>1, FetchIs DEF CacheInv, Weights
<1>3. CASE /\ fetch' = Instead(fetch.w, fetch.kind) /\ UNCHANGED <<arenas, memory>>
           /\ model' \in {model, [model EXCEPT !.full = TRUE]}
    BY <1>1, <1>3, InsteadStep
<1> DEFINE i == Min(Room(fetch.w))
           size == IF fetch.w.n > ArenaUnits THEN fetch.w.n ELSE ArenaUnits
<1>4. CASE /\ Room(fetch.w) # {}
           /\ arenas' = [arenas EXCEPT ![i].used = @ + fetch.w.n]
           /\ fetch' = Upload(fetch.w, fetch.kind, arenas[i].id, arenas[i].used)
           /\ UNCHANGED <<model, memory>>
  <2>1. Room(fetch.w) \subseteq Nat
    BY LenProperties DEF Room, CacheInv, CacheTypeOK
  <2>2. PICK j \in Room(fetch.w) : \A k \in Room(fetch.w) : j <= k
    BY <1>4, <2>1, LeastNat, Zenon
  <2>3. i \in Room(fetch.w)
    BY <2>2, Zenon DEF Min
  <2>4. i \in DOMAIN arenas /\ fetch.w.n <= arenas[i].size - arenas[i].used
    BY <2>3 DEF Room
  <2> HIDE DEF i
  <2> QED BY <1>1, <1>4, <2>4, UsesRoom
<1>5. CASE /\ arenas' = Append(arenas, [id |-> Fresh, size |-> size, used |-> fetch.w.n])
           /\ memory' = Allocated(size) /\ fetch' = Upload(fetch.w, fetch.kind, Fresh, 0)
           /\ UNCHANGED model
  <2>1. size \in Nat /\ fetch.w.n <= size
    BY <1>2, WeightAssumption
  <2> HIDE DEF size
  <2> QED BY <1>1, <1>5, <2>1, NewArena
<1> QED
    BY <1>1, <1>3, <1>4, <1>5 DEF ArenaAlloc

-----------------------------------------------------------------------------
(* Uploading. *)

LEMMA AlignedIs ==
    ASSUME NEW v \in Nat, NEW a \in Nat \ {0}
    PROVE  /\ DownTo(v, a) \in Nat /\ DownTo(v, a) <= v
           /\ UpTo(v, a) \in Nat /\ v <= UpTo(v, a)
<1>1. DownTo(v, a) \in Nat /\ DownTo(v, a) <= v
  <2>1. PICK q \in Nat, r \in 0 .. a - 1 : q = (v \div a) * a /\ v = q + r
    BY DivMod
  <2> QED BY <2>1 DEF DownTo
<1>2. UpTo(v, a) \in Nat /\ v <= UpTo(v, a)
  <2>1. PICK u \in Nat : u = v + a - 1
    OBVIOUS
  <2>2. PICK q \in Nat, r \in 0 .. a - 1 : q = (u \div a) * a /\ u = q + r
    BY DivMod
  <2> QED BY <2>1, <2>2 DEF UpTo
<1> QED
    BY <1>1, <1>2

(* What is read into a buffer for a chunk. *)
LEMMA ReadIs ==
    ASSUME NEW off \in Nat, NEW n \in Nat, NEW read, read \in {DirectRead(off, n), PlainRead(off, n)}
    PROVE  /\ read.from \in Nat
           /\ \A i \in 0 .. n - 1 : /\ read.from + i \in DOMAIN read.units
                                    /\ read.units[read.from + i] = <<"main", off + i>>
<1>1. CASE read = PlainRead(off, n)
    BY <1>1 DEF PlainRead, HostUnits
<1>2. CASE read = DirectRead(off, n)
  <2>1. PICK start \in Nat : start = DownTo(off, Align) /\ start <= off
    BY AlignedIs, WeightAssumption
  <2>2. PICK from \in Nat : from = off - start
    BY <2>1
  <2>3. from + n \in Nat /\ off - start + n = from + n
    BY <2>1, <2>2
  <2>4. PICK size \in Nat : size = UpTo(from + n, Align) /\ from + n <= size
    BY <2>3, AlignedIs, WeightAssumption
  <2>5. read = [from |-> from, units |-> HostUnits("main", start, size)]
    BY <1>2, <2>1, <2>2, <2>3, <2>4 DEF DirectRead
  <2>6. ASSUME NEW i \in 0 .. n - 1
        PROVE  /\ from + i \in 0 .. size - 1
               /\ start + (from + i) = off + i
    BY <2>1, <2>2, <2>4
  <2> QED BY <2>5, <2>6 DEF HostUnits
<1> QED
    BY <1>1, <1>2

(* One more chunk: a buffer that no queued copy reads from is filled. *)
LEMMA UploadChunkStep ==
    ASSUME CacheInv, UploadChunk
    PROVE  CacheInv'
<1>1. PICK f : f = fetch
    OBVIOUS
<1>2. /\ f \in [step : {"upload"}, w : Weights, kind : Kinds, id : Nat, at : Nat, copied : Nat, chunk : Nat]
      /\ f # NoFetch /\ f.copied < f.w.n
    BY <1>1, FetchIs DEF CacheInv, UploadChunk, NoFetch
<1>3. /\ f.w \in Weights /\ f.w.off \in Nat /\ f.w.n \in Nat /\ f.copied \in Nat
      /\ f.id \in Nat /\ f.at \in Nat /\ f.chunk \in Nat /\ f.step = "upload"
    BY <1>2 DEF Weights
<1>4. /\ f.w.map = "main"
      /\ InArena(arenas, f.id, f.at, f.w.n) /\ AwayFrom(ranges, f.id, f.at, f.w.n)
      /\ \A j \in DOMAIN copies : Mine(f, buffers, copies[j]) \/ Other(f, copies[j])
      /\ \A k \in 0 .. f.copied - 1 : Arrived(f, memory, k) \/ OnItsWay(f, buffers, copies, k)
    BY <1>1, <1>3 DEF CacheInv, UploadInv
<1>5. PICK bi : bi = f.chunk % Buffers
    OBVIOUS
<1>6. PICK n : n = SmallerOf(f.w.n - f.copied, CopyChunk)
    OBVIOUS
<1>7. PICK off : off = f.w.off + f.copied
    OBVIOUS
<1>8. PICK read \in {DirectRead(off, n), PlainRead(off, n)}, forGood \in BOOLEAN :
          /\ buffers' = [buffers EXCEPT ![bi] = Overwritten(@, read.units)]
          /\ copies' = Append(copies, [id |-> f.id, at |-> f.at + f.copied, buffer |-> bi,
                                       from |-> read.from, n |-> n])
          /\ model' = [model EXCEPT !.direct = @ /\ ~forGood]
    BY <1>1, <1>5, <1>6, <1>7 DEF UploadChunk
<1>9. /\ BufferReusable(bi)
      /\ fetch' = [fetch EXCEPT !.copied = @ + n, !.chunk = @ + 1]
      /\ UNCHANGED <<env, phase, hasDraft, memory, ranges, byOffset, arenas, f16, f16ByOffset,
                     f16Off, inUse, todo, answer>>
    BY <1>1, <1>5, <1>6 DEF UploadChunk, cacheVars, f16Vars
<1>10. n \in Nat /\ f.copied + n <= f.w.n
    BY <1>2, <1>3, <1>6, WeightAssumption DEF SmallerOf
<1>11. off \in Nat
    BY <1>3, <1>7
<1>12. bi \in 0 .. Buffers - 1 /\ bi \in Nat /\ (f.chunk < Buffers => bi = f.chunk)
  <2>1. Buffers \in Nat \ {0}
    BY WeightAssumption
  <2>2. bi \in 0 .. Buffers - 1
    BY <1>3, <1>5, <2>1, DivMod
  <2>3. f.chunk < Buffers => bi = f.chunk
    BY <1>3, <1>5, <2>1, SMT
  <2> QED BY <2>1, <2>2, <2>3
<1>13. /\ read.from \in Nat
       /\ \A i \in 0 .. n - 1 : /\ read.from + i \in DOMAIN read.units
                                /\ read.units[read.from + i] = <<"main", off + i>>
    BY <1>10, <1>11, ReadIs
<1>14. PICK c : c = [id |-> f.id, at |-> f.at + f.copied, buffer |-> bi, from |-> read.from, n |-> n]
    OBVIOUS
<1>15. c \in Copies
    BY <1>3, <1>10, <1>12, <1>13, <1>14 DEF Copies
<1>16. PICK g : g = [f EXCEPT !.copied = @ + n, !.chunk = @ + 1]
    OBVIOUS
<1>17. /\ g \in [step : {"upload"}, w : Weights, kind : Kinds, id : Nat, at : Nat, copied : Nat, chunk : Nat]
       /\ g.step = "upload" /\ g.w = f.w /\ g.kind = f.kind /\ g.id = f.id /\ g.at = f.at
       /\ g.copied = f.copied + n /\ g.chunk = f.chunk + 1 /\ fetch' = g
  <2>1. f.copied + n \in Nat /\ f.chunk + 1 \in Nat
    BY <1>3, <1>10
  <2>2. g = [f EXCEPT !.copied = f.copied + n, !.chunk = f.chunk + 1]
    BY <1>16
  <2>3. fetch' = g
    BY <1>1, <1>9, <1>16
  <2> QED BY <1>2, <2>1, <2>2, <2>3
<1>18. g # NoFetch
    BY <1>17 DEF NoFetch
<1>19. PICK m \in Nat : m = Len(copies) + 1
    BY LenProperties DEF CacheInv, CacheTypeOK
<1>20. /\ copies' \in Seq(Copies) /\ DOMAIN copies' = DOMAIN copies \cup {m} /\ m \notin DOMAIN copies
       /\ \A j \in DOMAIN copies : copies'[j] = copies[j]
       /\ copies'[m] = c
  <2>1. copies \in Seq(Copies)
    BY DEF CacheInv, CacheTypeOK
  <2> QED BY <1>8, <1>14, <1>15, <1>19, <2>1, Appended
<1>21. /\ DOMAIN buffers = 0 .. Buffers - 1 /\ DOMAIN buffers' = 0 .. Buffers - 1
       /\ \A b \in 0 .. Buffers - 1 : b # bi => buffers'[b] = buffers[b]
       /\ \A i \in 0 .. n - 1 : buffers'[bi][read.from + i] = <<"main", off + i>>
  <2>1. DOMAIN buffers = 0 .. Buffers - 1
    BY DEF CacheInv, CacheTypeOK
  <2>2. buffers'[bi] = Overwritten(buffers[bi], read.units)
    BY <1>8, <1>12, <2>1
  <2>3. ASSUME NEW i \in 0 .. n - 1 PROVE buffers'[bi][read.from + i] = <<"main", off + i>>
    <3>1. PICK p : p = read.from + i
      OBVIOUS
    <3>2. p \in DOMAIN read.units /\ read.units[p] = <<"main", off + i>>
      BY <1>13, <3>1
    <3> QED BY <2>2, <3>1, <3>2 DEF Overwritten
  <2> QED BY <1>8, <2>1, <2>3
<1>22. Mine(g, buffers', c)
  <2>1. /\ c.id = g.id /\ c.at = f.at + f.copied /\ c.n = n /\ c.buffer = bi /\ c.from = read.from
    BY <1>14, <1>17
  <2>2. g.at <= c.at /\ c.at + c.n <= g.at + g.copied
    BY <1>3, <1>10, <1>17, <2>1
  <2>3. g.chunk <= Buffers => c.buffer < g.chunk
    BY <1>3, <1>12, <1>17, <2>1, WeightAssumption
  <2>4. ASSUME NEW i \in 0 .. c.n - 1
        PROVE  buffers'[c.buffer][c.from + i] = <<g.w.map, g.w.off + (c.at - g.at) + i>>
    <3>1. g.w.off + (c.at - g.at) + i = off + i
      BY <1>3, <1>7, <1>10, <1>17, <2>1
    <3> QED BY <1>4, <1>17, <1>21, <2>1, <3>1
  <2> QED BY <1>12, <2>1, <2>2, <2>3, <2>4 DEF Mine
<1>23. ASSUME NEW j \in DOMAIN copies, Mine(f, buffers, copies[j])
       PROVE  Mine(g, buffers', copies[j])
  <2>1. PICK d \in Copies : d = copies[j]
    BY ElementsAre DEF CacheInv
  <2>2. Mine(f, buffers, d) /\ d \in Range(copies)
    BY <1>23, <2>1 DEF Range
  <2>3. d.at \in Nat /\ d.n \in Nat /\ d.buffer \in Nat
    BY DEF Copies
  <2>4. d.buffer # bi
    <3>1. CASE f.chunk >= Buffers
      BY <1>1, <1>9, <2>2, <3>1 DEF BufferReusable
    <3>2. CASE ~(f.chunk >= Buffers)
      BY <1>3, <1>12, <2>2, <2>3, <3>2, WeightAssumption DEF Mine
    <3> QED BY <3>1, <3>2
  <2>5. d.id = g.id /\ g.at <= d.at /\ d.at + d.n <= g.at + g.copied
    BY <1>3, <1>10, <1>17, <2>2, <2>3 DEF Mine
  <2>6. g.chunk <= Buffers => d.buffer < g.chunk
    BY <1>3, <1>17, <2>2, <2>3, WeightAssumption DEF Mine
  <2>7. buffers'[d.buffer] = buffers[d.buffer]
    BY <1>21, <2>2, <2>4 DEF Mine
  <2> QED BY <1>17, <2>1, <2>2, <2>5, <2>6, <2>7 DEF Mine
<1>24. UploadInv'
  <2>1. \A j \in DOMAIN copies' : Mine(g, buffers', copies'[j]) \/ Other(g, copies'[j])
    <3>1. ASSUME NEW j \in DOMAIN copies PROVE Mine(g, buffers', copies[j]) \/ Other(g, copies[j])
      BY <1>4, <1>17, <1>23 DEF Other
    <3> QED BY <1>20, <1>22, <3>1
  <2>2. ASSUME NEW k \in 0 .. g.copied - 1
        PROVE  Arrived(g, memory, k) \/ OnItsWay(g, buffers', copies', k)
    <3>1. CASE k < f.copied
      <4>1. Arrived(f, memory, k) \/ OnItsWay(f, buffers, copies, k)
        BY <1>3, <1>4, <3>1
      <4>2. CASE Arrived(f, memory, k)
        BY <1>17, <4>2 DEF Arrived
      <4>3. CASE OnItsWay(f, buffers, copies, k)
        <5>1. PICK j \in DOMAIN copies :
                  /\ Mine(f, buffers, copies[j])
                  /\ copies[j].at <= f.at + k /\ f.at + k < copies[j].at + copies[j].n
          BY <4>3 DEF OnItsWay
        <5>2. j \in DOMAIN copies' /\ copies'[j] = copies[j] /\ Mine(g, buffers', copies[j])
          BY <1>20, <1>23, <5>1
        <5> QED BY <1>17, <5>1, <5>2 DEF OnItsWay
      <4> QED BY <4>1, <4>2, <4>3
    <3>2. CASE ~(k < f.copied)
      <4>1. c.at <= g.at + k /\ g.at + k < c.at + c.n
        BY <1>3, <1>10, <1>14, <1>17, <3>2
      <4> QED BY <1>20, <1>22, <4>1 DEF OnItsWay
    <3> QED BY <3>1, <3>2
  <2>3. g.copied <= g.w.n
    BY <1>10, <1>17
  <2> QED BY <1>4, <1>9, <1>17, <2>1, <2>2, <2>3 DEF UploadInv
<1>25. CopiesInv'
  <2>1. InArena(arenas, c.id, c.at, c.n)
    <3>1. PICK i \in DOMAIN arenas : arenas[i].id = f.id /\ f.at + f.w.n <= arenas[i].used
      BY <1>4 DEF InArena
    <3>2. PICK u \in Nat : u = arenas[i].used
      BY ElementsAre DEF CacheInv, Arenas
    <3>3. c.at + c.n <= u
      BY <1>3, <1>10, <1>14, <3>1, <3>2
    <3> QED BY <1>14, <3>1, <3>2, <3>3 DEF InArena
  <2>2. AwayFrom(ranges, c.id, c.at, c.n)
    <3>1. ASSUME NEW i \in DOMAIN ranges, ranges[i].arena, ranges[i].ptr[2] = c.id
          PROVE  Apart(c.at, c.n, ranges[i].ptr[3], ranges[i].n)
      <4>1. Apart(f.at, f.w.n, ranges[i].ptr[3], ranges[i].n)
        BY <1>4, <1>14, <3>1 DEF AwayFrom
      <4>2. PICK r \in Ranges : r = ranges[i] /\ GoodRange(memory, arenas, r)
        BY ElementsAre DEF CacheInv, RangesInv
      <4>3. PICK p \in Nat, q \in Nat : p = r.ptr[3] /\ q = r.n
        BY <3>1, <4>2 DEF Ranges, Pointers, GoodRange
      <4>4. f.at + f.w.n <= p \/ p + q <= f.at
        BY <4>1, <4>2, <4>3 DEF Apart
      <4>5. c.at + c.n <= p \/ p + q <= c.at
        BY <1>3, <1>10, <1>14, <4>4
      <4> QED BY <4>2, <4>3, <4>5 DEF Apart
    <3> QED BY <3>1 DEF AwayFrom
  <2>3. ASSUME NEW j \in DOMAIN copies'
        PROVE  /\ InArena(arenas, copies'[j].id, copies'[j].at, copies'[j].n)
               /\ AwayFrom(ranges, copies'[j].id, copies'[j].at, copies'[j].n)
    BY <1>20, <2>1, <2>2 DEF CacheInv, CopiesInv
  <2> QED BY <1>9, <2>3 DEF CopiesInv
<1>26. /\ model' \in Models /\ SameModel /\ model'.fd = model.fd /\ model'.fdMap = model.fdMap
    BY <1>8 DEF CacheInv, CacheTypeOK, Models, SameModel
<1>27. CacheTypeOK'
  <2>1. CacheTypeOK
    BY DEF CacheInv
  <2>2. fetch' \in Fetches
    BY <1>17 DEF Fetches
  <2> QED BY <1>9, <1>20, <1>21, <1>26, <2>1, <2>2 DEF CacheTypeOK
<1>28. PhaseInv'
  <2>1. PhaseInv
    BY DEF CacheInv
  <2>2. phase \in {"preload", "running"}
    BY <1>1, <1>2, <2>1 DEF PhaseInv
  <2> QED BY <1>9, <1>26, <2>1, <2>2 DEF PhaseInv, Mapping, SameModel
<1>29. OwnersInv' /\ OwnedInv' /\ ArenasInv' /\ RangesInv' /\ F16Inv'
    BY <1>9, <1>26, SameHeap DEF CacheInv
<1>30. AnswerInv' /\ UseInv'
    BY <1>9, <1>26, SameAnswer DEF CacheInv, UseInv
<1>31. FetchInv'
    BY <1>1, <1>2, <1>17 DEF CacheInv, FetchInv
<1> QED
    BY <1>24, <1>25, <1>27, <1>28, <1>29, <1>30, <1>31 DEF CacheInv

LEMMA PlaceIs ==
    ASSUME CacheTypeOK, ArenasInv, NEW id, NEW at \in Nat, NEW n \in Nat, InArena(arenas, id, at, n)
    PROVE  id \in ArenaIds /\ \A k \in 0 .. n - 1 : at + k \in DOMAIN memory[id]
<1>1. PICK i \in DOMAIN arenas : arenas[i].id = id /\ at + n <= arenas[i].used
    BY DEF InArena
<1>2. PICK a \in Arenas : a = arenas[i] /\ GoodArena(memory, a)
    BY ElementsAre DEF ArenasInv
<1>3. PICK u \in Nat, s \in Nat : u = a.used /\ s = a.size
    BY DEF Arenas
<1>4. at + n <= u /\ u <= s /\ DOMAIN memory[id] = 0 .. s - 1
    BY <1>1, <1>2, <1>3 DEF GoodArena
<1>5. id \in ArenaIds
    BY <1>1, IdsAre
<1> QED
    BY <1>4, <1>5

(* The oldest copy is done: its cells change, no other does. *)
LEMMA CopyDoneStep ==
    ASSUME CacheInv, CopyDone
    PROVE  CacheInv'
<1>1. /\ copies \in Seq(Copies) /\ copies # <<>> /\ copies' = Tail(copies)
      /\ UNCHANGED <<env, phase, hasDraft, model, ranges, byOffset, arenas, f16, f16ByOffset,
                     f16Off, buffers, inUse, todo, fetch, answer>>
    BY DEF CopyDone, cacheVars, f16Vars, CacheInv, CacheTypeOK
<1>2. PICK c \in Copies : c = Head(copies) /\ c = copies[1] /\ 1 \in DOMAIN copies
    BY <1>1, LenProperties, EmptySeq, ElementsAre DEF CacheInv
<1>3. c.id \in Nat /\ c.at \in Nat /\ c.n \in Nat /\ c.from \in Nat /\ c.buffer \in Nat
    BY DEF Copies
<1>4. memory' = [memory EXCEPT ![c.id] =
                    [i \in DOMAIN @ |-> IF i \in c.at..(c.at + c.n - 1)
                                        THEN buffers[c.buffer][c.from + i - c.at] ELSE @[i]]]
    BY <1>2 DEF CopyDone
<1>5. /\ \A j \in DOMAIN copies' : j + 1 \in DOMAIN copies /\ copies'[j] = copies[j + 1]
      /\ \A j \in DOMAIN copies : j # 1 => j - 1 \in DOMAIN copies' /\ copies'[j - 1] = copies[j]
      /\ copies' \in Seq(Copies)
    BY <1>1, HeadTailProperties, LenProperties
<1>6. InArena(arenas, c.id, c.at, c.n) /\ AwayFrom(ranges, c.id, c.at, c.n)
    BY <1>2 DEF CacheInv, CopiesInv
<1>7. c.id \in ArenaIds
    BY <1>3, <1>6, PlaceIs DEF CacheInv
<1>8. c.id \in DOMAIN memory
    BY <1>7 DEF CacheInv, OwnersInv
<1>9. /\ DOMAIN memory' = DOMAIN memory
      /\ \A id \in DOMAIN memory \ {c.id} : memory'[id] = memory[id]
      /\ DOMAIN memory'[c.id] = DOMAIN memory[c.id]
      /\ \A i \in DOMAIN memory[c.id] :
             memory'[c.id][i] = IF i \in c.at..(c.at + c.n - 1)
                                THEN buffers[c.buffer][c.from + i - c.at] ELSE memory[c.id][i]
    BY <1>4, <1>8
<1>10. \A id : DOMAIN memory'[id] = DOMAIN memory[id] \/ id \notin DOMAIN memory
    BY <1>9
<1>11. \A id \in OwnedIds \cup RangeIds \cup F16Ids : memory'[id] = memory[id]
    BY <1>7, <1>9 DEF CacheInv, OwnersInv
<1>12. phase \notin Mapping /\ UNCHANGED <<OwnedIds, ArenaIds, RangeIds, F16Ids>>
    BY <1>1 DEF CacheInv, PhaseInv, OwnedIds, ArenaIds, RangeIds, F16Ids
<1>13. CacheTypeOK'
  <2>1. CacheTypeOK
    BY DEF CacheInv
  <2> QED BY <1>1, <1>5, <1>9, <2>1 DEF CacheTypeOK
<1>14. PhaseInv'
  <2>1. PhaseInv
    BY DEF CacheInv
  <2> QED BY <1>1, <1>12, <2>1 DEF PhaseInv, Mapping
<1>15. OwnersInv'
  <2>1. OwnersInv
    BY DEF CacheInv
  <2> QED BY <1>1, <1>9, <1>12, <2>1 DEF OwnersInv
<1>16. OwnedInv'
  <2>1. model.base[1] = "dev" => model.base[2] \in OwnedIds
    BY IdsAre
  <2> QED BY <1>1, <1>11, <2>1 DEF CacheInv, OwnedInv
<1>17. ArenasInv'
  <2>1. ASSUME NEW i \in DOMAIN arenas PROVE GoodArena(memory', arenas[i])
    <3>1. GoodArena(memory, arenas[i])
      BY DEF CacheInv, ArenasInv
    <3>2. arenas[i].id \in ArenaIds
      BY IdsAre
    <3>3. arenas[i].id \in DOMAIN memory
      BY <3>2 DEF CacheInv, OwnersInv
    <3> QED BY <1>10, <3>1, <3>3 DEF GoodArena
  <2> QED BY <1>1, <2>1 DEF ArenasInv
<1>18. RangesInv'
  <2>1. ASSUME NEW i \in DOMAIN ranges PROVE GoodRange(memory', arenas, ranges[i])
    <3>1. PICK r \in Ranges : r = ranges[i] /\ GoodRange(memory, arenas, r)
      BY ElementsAre DEF CacheInv, RangesInv
    <3>2. CASE r.ptr = RegPtr(r.map, r.off) /\ ~r.arena /\ r.lo <= r.off /\ r.off + r.n <= r.hi
      BY <3>1, <3>2 DEF GoodRange
    <3>3. CASE r.ptr[1] = "dev" /\ ~r.arena /\ Content(memory, r.ptr, r)
      <4>1. r.ptr[2] \in RangeIds
        BY <3>1, <3>3, IdsAre
      <4>2. Content(memory', r.ptr, r)
        BY <1>11, <3>3, <4>1 DEF Content
      <4> QED BY <3>1, <3>3, <4>2 DEF GoodRange
    <3>4. CASE /\ r.ptr[1] = "dev" /\ r.arena /\ Content(memory, r.ptr, r)
               /\ InArena(arenas, r.ptr[2], r.ptr[3], r.n)
      <4>1. PICK id \in Nat, p \in Nat, q \in Nat : id = r.ptr[2] /\ p = r.ptr[3] /\ q = r.n
        BY <3>4 DEF Ranges, Pointers
      <4>2. id \in ArenaIds /\ \A k \in 0 .. q - 1 : p + k \in DOMAIN memory[id]
        BY <3>4, <4>1, PlaceIs DEF CacheInv
      <4>3. ASSUME NEW k \in 0 .. q - 1 PROVE memory'[id][p + k] = memory[id][p + k]
        <5>1. CASE id # c.id
          <6>1. id \in DOMAIN memory
            BY <4>2 DEF CacheInv, OwnersInv
          <6> QED BY <1>9, <5>1, <6>1
        <5>2. CASE id = c.id
          <6>1. c.at + c.n <= p \/ p + q <= c.at
            BY <1>6, <3>1, <3>4, <4>1, <5>2 DEF AwayFrom, Apart
          <6>2. p + k \notin c.at..(c.at + c.n - 1)
            BY <1>3, <4>1, <6>1
          <6> QED BY <1>9, <4>2, <5>2, <6>2
        <5> QED BY <5>1, <5>2
      <4>4. Content(memory', r.ptr, r)
        BY <3>4, <4>1, <4>3 DEF Content
      <4> QED BY <3>1, <3>4, <4>4 DEF GoodRange
    <3> QED BY <3>1, <3>2, <3>3, <3>4 DEF GoodRange
  <2> QED BY <1>1, <2>1 DEF RangesInv
<1>19. F16Inv'
  <2>1. ASSUME NEW i \in DOMAIN f16 PROVE GoodExpansion(memory', f16[i])
    <3>1. f16[i].id \in F16Ids
      BY IdsAre
    <3> QED BY <1>11, <3>1 DEF CacheInv, F16Inv, GoodExpansion
  <2> QED BY <1>1, <2>1 DEF F16Inv
<1>20. CopiesInv'
    BY <1>1, <1>5 DEF CacheInv, CopiesInv
<1>21. UseInv' /\ AnswerInv' /\ FetchInv'
  <2>1. UseInv'
    BY <1>1, <1>9 DEF CacheInv, UseInv
  <2>2. AnswerInv'
    BY <1>1, SameAnswer DEF CacheInv, SameModel
  <2>3. FetchInv'
    BY <1>1 DEF CacheInv, FetchInv
  <2> QED BY <2>1, <2>2, <2>3
<1>22. ASSUME fetch.step = "upload" PROVE UploadInv'
  <2>1. PICK f : f = fetch
    OBVIOUS
  <2>2. f \in [step : {"upload"}, w : Weights, kind : Kinds, id : Nat, at : Nat, copied : Nat, chunk : Nat]
    BY <1>22, <2>1, FetchIs DEF CacheInv
  <2>3. /\ f.w.off \in Nat /\ f.w.n \in Nat /\ f.copied \in Nat /\ f.id \in Nat /\ f.at \in Nat
    BY <2>2 DEF Weights
  <2>4. /\ f.w.map = "main" /\ f.copied <= f.w.n
        /\ InArena(arenas, f.id, f.at, f.w.n) /\ AwayFrom(ranges, f.id, f.at, f.w.n)
        /\ \A j \in DOMAIN copies : Mine(f, buffers, copies[j]) \/ Other(f, copies[j])
        /\ \A k \in 0 .. f.copied - 1 : Arrived(f, memory, k) \/ OnItsWay(f, buffers, copies, k)
    BY <1>22, <2>1 DEF CacheInv, UploadInv
  <2>5. f.id \in ArenaIds /\ \A k \in 0 .. f.w.n - 1 : f.at + k \in DOMAIN memory[f.id]
    BY <2>3, <2>4, PlaceIs DEF CacheInv
  <2>6. f.id \in DOMAIN memory
    BY <2>5 DEF CacheInv, OwnersInv
  <2>7. ASSUME NEW k \in 0 .. f.copied - 1
        PROVE  Arrived(f, memory', k) \/ OnItsWay(f, buffers, copies', k)
    <3>1. PICK i \in Nat : i = f.at + k
      BY <2>3
    <3>2. i \in DOMAIN memory[f.id]
      BY <2>3, <2>4, <2>5, <3>1
    <3>3. CASE f.id = c.id /\ i \in c.at..(c.at + c.n - 1)
      <4>1. Mine(f, buffers, c)
        <5>1. Mine(f, buffers, c) \/ Other(f, c)
          BY <1>2, <2>4
        <5>2. ~Other(f, c)
          BY <1>3, <2>3, <2>4, <3>1, <3>3 DEF Other, Apart
        <5> QED BY <5>1, <5>2
      <4>2. PICK l \in 0 .. c.n - 1 : l = i - c.at
        BY <1>3, <3>3
      <4>3. buffers[c.buffer][c.from + l] = <<f.w.map, f.w.off + (c.at - f.at) + l>>
        BY <4>1, <4>2 DEF Mine
      <4>4. c.from + i - c.at = c.from + l /\ f.w.off + (c.at - f.at) + l = f.w.off + k
        BY <1>3, <2>3, <3>1, <4>2
      <4>5. memory'[f.id][i] = buffers[c.buffer][c.from + i - c.at]
        BY <1>9, <3>2, <3>3
      <4> QED BY <3>1, <4>3, <4>4, <4>5 DEF Arrived
    <3>4. CASE ~(f.id = c.id /\ i \in c.at..(c.at + c.n - 1))
      <4>1. memory'[f.id][i] = memory[f.id][i]
        BY <1>9, <2>6, <3>2, <3>4
      <4>2. CASE Arrived(f, memory, k)
        BY <3>1, <4>1, <4>2 DEF Arrived
      <4>3. CASE OnItsWay(f, buffers, copies, k)
        <5>1. PICK j \in DOMAIN copies :
                  /\ Mine(f, buffers, copies[j])
                  /\ copies[j].at <= i /\ i < copies[j].at + copies[j].n
          BY <3>1, <4>3 DEF OnItsWay
        <5>2. j # 1
          BY <1>2, <1>3, <3>1, <3>4, <5>1 DEF Mine
        <5>3. j - 1 \in DOMAIN copies' /\ copies'[j - 1] = copies[j]
          BY <1>5, <5>2
        <5> QED BY <3>1, <5>1, <5>3 DEF OnItsWay
      <4> QED BY <2>4, <4>2, <4>3
    <3> QED BY <3>3, <3>4
  <2>8. \A j \in DOMAIN copies' : Mine(f, buffers, copies'[j]) \/ Other(f, copies'[j])
    BY <1>5, <2>4
  <2> QED BY <1>1, <2>1, <2>4, <2>7, <2>8 DEF UploadInv
<1>23. UploadInv'
    BY <1>1, <1>22 DEF UploadInv
<1> QED
    BY <1>13, <1>14, <1>15, <1>16, <1>17, <1>18, <1>19, <1>20, <1>21, <1>23 DEF CacheInv

-----------------------------------------------------------------------------
(* A range is kept. *)

LEMMA SameGrows ==
    ASSUME CacheTypeOK, arenas' = arenas
    PROVE  Grows(arenas, arenas') /\ \A i \in DOMAIN arenas' : arenas'[i] \in Arenas
<1>1. \A i \in DOMAIN arenas : arenas[i] \in Arenas
    BY ElementsAre
<1>2. ASSUME NEW i \in DOMAIN arenas PROVE arenas[i].used <= arenas[i].used
  <2>1. arenas[i].used \in Nat
    BY <1>1 DEF Arenas
  <2> QED BY <2>1
<1> QED
    BY <1>1, <1>2 DEF Grows

LEMMA KeepStep ==
    ASSUME CacheInv, UNCHANGED <<env, phase, hasDraft, model, arenas, f16, f16ByOffset, f16Off,
                                 buffers, copies, inUse, todo, answer>>,
           fetch # NoFetch, NEW ptr \in Pointers, NEW arena \in BOOLEAN, NEW lo \in Nat, NEW hi \in Nat,
           Keep(fetch.w, ptr, arena, lo, hi), NEW r,
           r = [map |-> fetch.w.map, off |-> fetch.w.off, n |-> fetch.w.n, ptr |-> ptr,
                arena |-> arena, lo |-> lo, hi |-> hi],
           DOMAIN memory \subseteq DOMAIN memory', DOMAIN memory' \subseteq Nat,
           IsFiniteSet(DOMAIN memory'), \A id \in DOMAIN memory : memory'[id] = memory[id],
           GoodRange(memory', arenas, r), arena => copies = <<>>, OwnersInv'
    PROVE  CacheInv'
<1>1. /\ fetch.w \in Weights /\ fetch.kind \in Kinds
    BY FetchIs, Zenon DEF CacheInv
<1>2. fetch.w.map \in Maps /\ fetch.w.off \in Nat /\ fetch.w.n \in Nat
    BY <1>1 DEF Weights
<1>3. phase \in {"preload", "running"}
    BY DEF CacheInv, PhaseInv
<1>4. r \in Ranges
    BY <1>2 DEF Ranges
<1>5. ranges \in Seq(Ranges)
    BY DEF CacheInv, CacheTypeOK
<1>6. PICK m \in Nat : m = Len(ranges) + 1
    BY <1>5, LenProperties
<1>7. /\ ranges' \in Seq(Ranges) /\ DOMAIN ranges' = DOMAIN ranges \cup {m} /\ m \notin DOMAIN ranges
      /\ \A i \in DOMAIN ranges : ranges'[i] = ranges[i]
      /\ ranges'[m] = r
    BY <1>4, <1>5, <1>6, Appended DEF Keep
<1>8. /\ DOMAIN byOffset' = DOMAIN byOffset \cup {fetch.w.off}
      /\ \A o \in DOMAIN byOffset' : byOffset'[o] = IF o = fetch.w.off THEN m ELSE byOffset[o]
    BY <1>6 DEF Keep
<1>9. fetch' = [step |-> "have", w |-> fetch.w, kind |-> fetch.kind, ptr |-> ptr]
    BY DEF Keep
<1>10. fetch' \in Fetches /\ fetch'.step # "upload"
    BY <1>1, <1>9 DEF Fetches
<1>11. CacheTypeOK'
  <2>1. CacheTypeOK
    BY DEF CacheInv
  <2>2. \A o \in DOMAIN byOffset' : byOffset'[o] \in DOMAIN ranges' /\ ranges'[byOffset'[o]].off = o
    <3>1. ASSUME NEW o \in DOMAIN byOffset'
          PROVE  byOffset'[o] \in DOMAIN ranges' /\ ranges'[byOffset'[o]].off = o
      <4>1. CASE o = fetch.w.off
        BY <1>7, <1>8, <4>1
      <4>2. CASE o # fetch.w.off
        <5>1. byOffset[o] \in DOMAIN ranges /\ ranges[byOffset[o]].off = o /\ byOffset'[o] = byOffset[o]
          BY <1>8, <2>1, <4>2 DEF CacheTypeOK
        <5> QED BY <1>7, <5>1
      <4> QED BY <4>1, <4>2
    <3> QED BY <3>1
  <2> QED BY <1>7, <1>10, <2>1, <2>2 DEF CacheTypeOK
<1>12. PhaseInv'
  <2>1. PhaseInv
    BY DEF CacheInv
  <2> QED BY <1>3, <2>1 DEF PhaseInv, Mapping
<1>13. SameModel
    BY DEF SameModel
<1>14. /\ Grows(arenas, arenas') /\ \A i \in DOMAIN arenas' : arenas'[i] \in Arenas
    BY SameGrows DEF CacheInv
<1>15. /\ OwnedInv'
       /\ \A i \in DOMAIN ranges : GoodRange(memory', arenas', ranges[i])
       /\ \A i \in DOMAIN f16 : GoodExpansion(memory', f16[i])
       /\ ArenasInv'
    BY <1>13, <1>14, HeapStays, F16Stays
<1>16. RangesInv'
    BY <1>7, <1>15 DEF RangesInv
<1>17. F16Inv'
    BY <1>15 DEF F16Inv
<1>18. CopiesInv'
  <2>1. CASE arena
    BY <2>1, EmptySeq DEF CopiesInv
  <2>2. CASE ~arena
    <3>1. ASSUME NEW j \in DOMAIN copies
          PROVE  /\ InArena(arenas, copies[j].id, copies[j].at, copies[j].n)
                 /\ AwayFrom(ranges', copies[j].id, copies[j].at, copies[j].n)
      <4>1. /\ InArena(arenas, copies[j].id, copies[j].at, copies[j].n)
            /\ AwayFrom(ranges, copies[j].id, copies[j].at, copies[j].n)
        BY DEF CacheInv, CopiesInv
      <4>2. ~r.arena
        BY <2>2
      <4>3. AwayFrom(ranges', copies[j].id, copies[j].at, copies[j].n)
        BY <1>7, <4>1, <4>2 DEF AwayFrom
      <4> QED BY <4>1, <4>3
    <3> QED BY <3>1 DEF CopiesInv
  <2> QED BY <2>1, <2>2
<1>19. UseInv'
    BY DEF CacheInv, UseInv
<1>20. AnswerInv'
    BY <1>7, <1>13, SameAnswer DEF CacheInv
<1>21. ReadableAt(model, ranges', ptr, fetch.w)
  <2>1. r.map = fetch.w.map /\ r.off = fetch.w.off /\ r.n = fetch.w.n /\ r.ptr = ptr
        /\ r.lo = lo /\ r.hi = hi
    OBVIOUS
  <2>2. CASE ptr = RegPtr(fetch.w.map, fetch.w.off) /\ lo <= fetch.w.off /\ fetch.w.off + fetch.w.n <= hi
    <3>1. InRegion(fetch.w, r)
      BY <1>2, <2>1, <2>2 DEF InRegion, RegPtr
    <3> QED BY <1>7, <2>2, <3>1 DEF ReadableAt
  <2>3. CASE ptr[1] = "dev"
    <3>1. Inside(fetch.w, r)
      BY <1>2, <2>1 DEF Inside
    <3>2. ptr = Beyond(ptr, fetch.w.off - r.off)
      BY <1>2, <2>1, <2>3 DEF Beyond, Pointers
    <3> QED BY <1>7, <2>1, <2>3, <3>1, <3>2 DEF ReadableAt
  <2> QED BY <2>1, <2>2, <2>3 DEF GoodRange
<1>22. FetchInv'
    BY <1>9, <1>21 DEF CacheInv, FetchInv
<1> QED
    BY <1>10, <1>11, <1>12, <1>15, <1>16, <1>17, <1>18, <1>19, <1>20, <1>22, NotUploading
    DEF CacheInv

(* Ranges of an arena or of a registration own no memory. *)
LEMMA KeepOwners ==
    ASSUME OwnersInv, UNCHANGED <<memory, arenas, f16, model>>, ranges \in Seq(Ranges),
           NEW r \in Ranges, ranges' = Append(ranges, r), r.arena \/ r.ptr[1] # "dev"
    PROVE  OwnersInv'
<1>1. PICK m \in Nat : m = Len(ranges) + 1
    BY LenProperties
<1>2. /\ DOMAIN ranges' = DOMAIN ranges \cup {m}
      /\ \A i \in DOMAIN ranges : ranges'[i] = ranges[i]
      /\ ranges'[m] = r
    BY <1>1, Appended
<1>3. ASSUME NEW x PROVE x \in RangeIds' <=> x \in RangeIds
  <2>1. x \in RangeIds' <=> \E i \in DOMAIN ranges' :
                 ranges'[i].ptr[1] = "dev" /\ ~ranges'[i].arena /\ x = ranges'[i].ptr[2]
    BY IdsAreNext
  <2>2. x \in RangeIds <=> \E i \in DOMAIN ranges :
                 ranges[i].ptr[1] = "dev" /\ ~ranges[i].arena /\ x = ranges[i].ptr[2]
    BY IdsAre
  <2> QED BY <1>2, <2>1, <2>2
<1>4. RangeIds' = RangeIds
    BY <1>3
<1>5. OwnedIds' = OwnedIds /\ ArenaIds' = ArenaIds /\ F16Ids' = F16Ids
    BY DEF OwnedIds, ArenaIds, F16Ids
<1> QED
    BY <1>4, <1>5 DEF OwnersInv

LEMMA UploadEndStep ==
    ASSUME CacheInv, UploadEnd
    PROVE  CacheInv'
<1>1. /\ fetch.step = "upload" /\ fetch.copied = fetch.w.n /\ copies = <<>>
      /\ Keep(fetch.w, DevPtr(fetch.id, fetch.at), TRUE, 0, 0)
      /\ UNCHANGED <<env, phase, hasDraft, model, arenas, memory, todo, answer, f16, f16ByOffset,
                     f16Off, buffers, copies, inUse>>
    BY DEF UploadEnd, f16Vars, streamVars
<1>2. /\ fetch # NoFetch /\ fetch.w \in Weights /\ fetch.id \in Nat /\ fetch.at \in Nat
    BY <1>1, FetchIs DEF CacheInv
<1>3. fetch.w.map \in Maps /\ fetch.w.off \in Nat /\ fetch.w.n \in Nat
    BY <1>2 DEF Weights
<1>4. PICK ptr \in Pointers : ptr = DevPtr(fetch.id, fetch.at)
    BY <1>2 DEF DevPtr, Pointers
<1>5. PICK r \in Ranges : r = [map |-> fetch.w.map, off |-> fetch.w.off, n |-> fetch.w.n,
                               ptr |-> ptr, arena |-> TRUE, lo |-> 0, hi |-> 0]
    BY <1>3 DEF Ranges
<1>6. GoodRange(memory, arenas, r)
  <2>1. ASSUME NEW k \in 0 .. fetch.w.n - 1 PROVE Arrived(fetch, memory, k)
    <3>1. ~OnItsWay(fetch, buffers, copies, k)
      BY <1>1, EmptySeq DEF OnItsWay
    <3> QED BY <1>1, <3>1 DEF CacheInv, UploadInv
  <2>2. ptr[1] = "dev" /\ ptr[2] = fetch.id /\ ptr[3] = fetch.at
    BY <1>4 DEF DevPtr
  <2>3. Content(memory, r.ptr, r)
    BY <1>5, <2>1, <2>2 DEF Content, Arrived
  <2>4. InArena(arenas, r.ptr[2], r.ptr[3], r.n)
    BY <1>1, <1>5, <2>2 DEF CacheInv, UploadInv
  <2> QED BY <1>5, <2>2, <2>3, <2>4 DEF GoodRange
<1>7. OwnersInv'
  <2>1. ranges' = Append(ranges, r)
    BY <1>1, <1>4, <1>5 DEF Keep
  <2>2. OwnersInv /\ ranges \in Seq(Ranges)
    BY DEF CacheInv, CacheTypeOK
  <2> QED BY <1>1, <1>5, <2>1, <2>2, KeepOwners
<1>8. DOMAIN memory \subseteq Nat /\ IsFiniteSet(DOMAIN memory)
    BY DEF CacheInv, CacheTypeOK
<1> QED
    BY <1>1, <1>2, <1>4, <1>5, <1>6, <1>7, <1>8, KeepStep

LEMMA RegisterRangeStep ==
    ASSUME CacheInv, RegisterRange
    PROVE  CacheInv'
<1>1. PICK lo, hi : lo = DownTo(fetch.w.off, 2) /\ hi = UpTo(fetch.w.off + fetch.w.n, 2)
    OBVIOUS
<1>2. /\ fetch.step = "map" /\ Keep(fetch.w, RegPtr(fetch.w.map, fetch.w.off), FALSE, lo, hi)
      /\ UNCHANGED <<env, phase, hasDraft, model, arenas, memory, todo, answer, f16, f16ByOffset,
                     f16Off, buffers, copies, inUse>>
    BY <1>1 DEF RegisterRange, f16Vars, streamVars
<1>3. /\ fetch # NoFetch /\ fetch.w \in Weights
    BY <1>2, FetchIs DEF CacheInv
<1>4. fetch.w.map \in Maps /\ fetch.w.off \in Nat /\ fetch.w.n \in Nat
    BY <1>3 DEF Weights
<1>5. lo \in Nat /\ hi \in Nat /\ lo <= fetch.w.off /\ fetch.w.off + fetch.w.n <= hi
  <2>1. fetch.w.off + fetch.w.n \in Nat /\ 2 \in Nat \ {0}
    BY <1>4
  <2>2. DownTo(fetch.w.off, 2) \in Nat /\ DownTo(fetch.w.off, 2) <= fetch.w.off
    BY <1>4, <2>1, AlignedIs, Zenon
  <2>3. /\ UpTo(fetch.w.off + fetch.w.n, 2) \in Nat
        /\ fetch.w.off + fetch.w.n <= UpTo(fetch.w.off + fetch.w.n, 2)
    BY <2>1, AlignedIs, Zenon
  <2> QED BY <1>1, <2>2, <2>3
<1>6. PICK ptr \in Pointers : ptr = RegPtr(fetch.w.map, fetch.w.off)
    BY <1>4 DEF RegPtr, Pointers
<1>7. PICK r \in Ranges : r = [map |-> fetch.w.map, off |-> fetch.w.off, n |-> fetch.w.n,
                               ptr |-> ptr, arena |-> FALSE, lo |-> lo, hi |-> hi]
    BY <1>4, <1>5 DEF Ranges
<1>8. GoodRange(memory, arenas, r)
    BY <1>5, <1>6, <1>7 DEF GoodRange
<1>9. OwnersInv'
  <2>1. ranges' = Append(ranges, r)
    BY <1>2, <1>6, <1>7 DEF Keep
  <2>2. OwnersInv /\ ranges \in Seq(Ranges)
    BY DEF CacheInv, CacheTypeOK
  <2>3. r.ptr[1] # "dev"
    BY <1>6, <1>7 DEF RegPtr
  <2> QED BY <1>2, <2>1, <2>2, <2>3, KeepOwners
<1>10. DOMAIN memory \subseteq Nat /\ IsFiniteSet(DOMAIN memory)
    BY DEF CacheInv, CacheTypeOK
<1> QED
    BY <1>2, <1>3, <1>5, <1>6, <1>7, <1>8, <1>9, <1>10, KeepStep

LEMMA CopyRangeStep ==
    ASSUME CacheInv, CopyRange
    PROVE  CacheInv'
<1>1. /\ fetch.step = "copy" /\ Keep(fetch.w, DevPtr(Fresh, 0), FALSE, 0, 0)
      /\ memory' = [Allocated(fetch.w.n) EXCEPT ![Fresh] =
                       HostUnits(fetch.w.map, fetch.w.off, fetch.w.n)]
      /\ UNCHANGED <<env, phase, hasDraft, model, arenas, todo, answer, f16, f16ByOffset,
                     f16Off, buffers, copies, inUse>>
    BY DEF CopyRange, f16Vars, streamVars
<1>2. /\ fetch # NoFetch /\ fetch.w \in Weights
    BY <1>1, FetchIs DEF CacheInv
<1>3. fetch.w.map \in Maps /\ fetch.w.off \in Nat /\ fetch.w.n \in Nat
    BY <1>2 DEF Weights
<1>4. PICK new \in Nat : new = Fresh /\ new \notin DOMAIN memory
    BY FreshIs DEF CacheInv
<1>5. /\ DOMAIN memory' = DOMAIN memory \cup {new}
      /\ \A id \in DOMAIN memory : memory'[id] = memory[id]
      /\ memory'[new] = HostUnits(fetch.w.map, fetch.w.off, fetch.w.n)
  <2>1. PICK mem : mem = Allocated(fetch.w.n)
    OBVIOUS
  <2>2. /\ DOMAIN mem = DOMAIN memory \cup {new}
        /\ \A id \in DOMAIN memory : mem[id] = memory[id]
    BY <1>3, <1>4, <2>1, AllocatedIs DEF CacheInv
  <2>3. memory' = [mem EXCEPT ![new] = HostUnits(fetch.w.map, fetch.w.off, fetch.w.n)]
    BY <1>1, <1>4, <2>1
  <2> QED BY <1>4, <2>2, <2>3
<1>6. PICK ptr \in Pointers : ptr = DevPtr(new, 0)
    BY <1>4 DEF DevPtr, Pointers
<1>7. PICK r \in Ranges : r = [map |-> fetch.w.map, off |-> fetch.w.off, n |-> fetch.w.n,
                               ptr |-> ptr, arena |-> FALSE, lo |-> 0, hi |-> 0]
    BY <1>3 DEF Ranges
<1>8. ptr[1] = "dev" /\ ptr[2] = new /\ ptr[3] = 0
    BY <1>6 DEF DevPtr
<1>9. GoodRange(memory', arenas, r)
  <2>1. ASSUME NEW k \in 0 .. r.n - 1 PROVE memory'[new][0 + k] = <<r.map, r.off + k>>
    BY <1>3, <1>5, <1>7 DEF HostUnits
  <2> QED BY <1>7, <1>8, <2>1 DEF GoodRange, Content
<1>10. OwnersInv'
  <2>1. ranges' = Append(ranges, r)
    BY <1>1, <1>4, <1>6, <1>7 DEF Keep
  <2>2. ranges \in Seq(Ranges) /\ OwnersInv
    BY DEF CacheInv, CacheTypeOK
  <2>3. PICK m \in Nat : m = Len(ranges) + 1
    BY <2>2, LenProperties
  <2>4. /\ DOMAIN ranges' = DOMAIN ranges \cup {m}
        /\ \A i \in DOMAIN ranges : ranges'[i] = ranges[i]
        /\ ranges'[m] = r
    BY <2>1, <2>2, <2>3, Appended
  <2>5. ASSUME NEW x PROVE x \in RangeIds' <=> x \in RangeIds \cup {new}
    <3>1. x \in RangeIds' <=> \E i \in DOMAIN ranges' :
                 ranges'[i].ptr[1] = "dev" /\ ~ranges'[i].arena /\ x = ranges'[i].ptr[2]
      BY IdsAreNext
    <3>2. x \in RangeIds <=> \E i \in DOMAIN ranges :
                 ranges[i].ptr[1] = "dev" /\ ~ranges[i].arena /\ x = ranges[i].ptr[2]
      BY IdsAre
    <3>3. r.ptr[1] = "dev" /\ ~r.arena /\ r.ptr[2] = new
      BY <1>7, <1>8
    <3> QED BY <2>4, <3>1, <3>2, <3>3
  <2>6. RangeIds' = RangeIds \cup {new}
    BY <2>5
  <2>7. OwnedIds' = OwnedIds /\ ArenaIds' = ArenaIds /\ F16Ids' = F16Ids
    BY <1>1 DEF OwnedIds, ArenaIds, F16Ids
  <2>8. new \notin OwnedIds \cup ArenaIds \cup RangeIds \cup F16Ids
    BY <1>4, <2>2 DEF OwnersInv
  <2>9. /\ DOMAIN memory' = OwnedIds \cup ArenaIds \cup (RangeIds \cup {new}) \cup F16Ids
        /\ F16Ids \cap (OwnedIds \cup ArenaIds \cup (RangeIds \cup {new})) = {}
        /\ ArenaIds \cap (OwnedIds \cup (RangeIds \cup {new})) = {}
    BY <1>5, <2>2, <2>8 DEF OwnersInv
  <2>10. \A i, j \in DOMAIN arenas' : arenas'[i].id = arenas'[j].id => i = j
    BY <1>1, <2>2 DEF OwnersInv
  <2> QED BY <2>6, <2>7, <2>9, <2>10 DEF OwnersInv
<1>11. DOMAIN memory' \subseteq Nat /\ IsFiniteSet(DOMAIN memory')
  <2>1. DOMAIN memory \subseteq Nat /\ IsFiniteSet(DOMAIN memory)
    BY DEF CacheInv, CacheTypeOK
  <2> QED BY <1>5, <2>1, FS_AddElement
<1>12. Keep(fetch.w, ptr, FALSE, 0, 0)
    BY <1>1, <1>4, <1>6
<1> QED
    BY <1>1, <1>2, <1>5, <1>6, <1>7, <1>9, <1>10, <1>11, <1>12, KeepStep

-----------------------------------------------------------------------------
(* Expansions to f16, made and freed. *)

LEMMA ExpandStep ==
    ASSUME CacheInv, Expand
    PROVE  CacheInv'
<1>1. /\ fetch.step = "have" /\ fetch.kind = "f16"
      /\ memory' = [Allocated(fetch.w.n) EXCEPT ![Fresh] =
                       [i \in 0..(fetch.w.n - 1) |-> <<"f16", Unit(fetch.ptr, i)>>]]
      /\ f16' = Append(f16, [map |-> fetch.w.map, off |-> fetch.w.off, n |-> fetch.w.n, id |-> Fresh])
      /\ f16ByOffset' = [o \in DOMAIN f16ByOffset \cup {fetch.w.off} |->
                            IF o = fetch.w.off THEN Len(f16) + 1 ELSE f16ByOffset[o]]
      /\ inUse' = inUse \cup {Fresh} \cup IdsOf(fetch.ptr)
      /\ UNCHANGED <<env, phase, hasDraft, model, f16Off, buffers, copies, todo, fetch, answer,
                     ranges, byOffset, arenas>>
    BY DEF Expand, cacheVars
<1>2. /\ fetch # NoFetch /\ fetch.w \in Weights
    BY <1>1, FetchIs DEF CacheInv
<1>3. fetch.w.map \in Maps /\ fetch.w.off \in Nat /\ fetch.w.n \in Nat
    BY <1>2 DEF Weights
<1>4. ReadableAt(model, ranges, fetch.ptr, fetch.w)
    BY <1>1, <1>2 DEF CacheInv, FetchInv
<1>5. /\ \A k \in 0 .. fetch.w.n - 1 : Unit(fetch.ptr, k) = <<fetch.w.map, fetch.w.off + k>>
      /\ IdsOf(fetch.ptr) \subseteq (DOMAIN memory) \ F16Ids
    BY <1>2, <1>4, HeldReads DEF CacheInv
<1>6. PICK new \in Nat : new = Fresh /\ new \notin DOMAIN memory
    BY FreshIs DEF CacheInv
<1>7. PICK units : units = [i \in 0..(fetch.w.n - 1) |-> <<"f16", Unit(fetch.ptr, i)>>]
    OBVIOUS
<1>8. /\ DOMAIN memory' = DOMAIN memory \cup {new}
      /\ \A id \in DOMAIN memory : memory'[id] = memory[id]
      /\ memory'[new] = units
  <2>1. PICK mem : mem = Allocated(fetch.w.n)
    OBVIOUS
  <2>2. /\ DOMAIN mem = DOMAIN memory \cup {new}
        /\ \A id \in DOMAIN memory : mem[id] = memory[id]
    BY <1>3, <1>6, <2>1, AllocatedIs DEF CacheInv
  <2>3. memory' = [mem EXCEPT ![new] = units]
    BY <1>1, <1>6, <1>7, <2>1
  <2> QED BY <1>6, <2>2, <2>3
<1>9. PICK e \in Expansions :
          e = [map |-> fetch.w.map, off |-> fetch.w.off, n |-> fetch.w.n, id |-> new]
    BY <1>3 DEF Expansions
<1>10. f16 \in Seq(Expansions)
    BY DEF CacheInv, CacheTypeOK
<1>11. PICK m \in Nat : m = Len(f16) + 1
    BY <1>10, LenProperties
<1>12. /\ f16' \in Seq(Expansions) /\ DOMAIN f16' = DOMAIN f16 \cup {m} /\ m \notin DOMAIN f16
       /\ \A i \in DOMAIN f16 : f16'[i] = f16[i]
       /\ f16'[m] = e
    BY <1>1, <1>6, <1>9, <1>10, <1>11, Appended
<1>13. CacheTypeOK'
  <2>1. CacheTypeOK
    BY DEF CacheInv
  <2>2. ASSUME NEW o \in DOMAIN f16ByOffset'
        PROVE  f16ByOffset'[o] \in DOMAIN f16' /\ f16'[f16ByOffset'[o]].off = o
    <3>1. CASE o = fetch.w.off
      BY <1>1, <1>9, <1>11, <1>12, <3>1
    <3>2. CASE o # fetch.w.off
      <4>1. /\ f16ByOffset[o] \in DOMAIN f16 /\ f16[f16ByOffset[o]].off = o
            /\ f16ByOffset'[o] = f16ByOffset[o]
        BY <1>1, <2>1, <3>2 DEF CacheTypeOK
      <4> QED BY <1>12, <4>1
    <3> QED BY <3>1, <3>2
  <2>3. DOMAIN memory' \subseteq Nat /\ IsFiniteSet(DOMAIN memory')
    <3>1. DOMAIN memory \subseteq Nat /\ IsFiniteSet(DOMAIN memory)
      BY <2>1 DEF CacheTypeOK
    <3> QED BY <1>8, <3>1, FS_AddElement
  <2> QED BY <1>1, <1>12, <2>1, <2>2, <2>3 DEF CacheTypeOK
<1>14. PhaseInv'
  <2>1. PhaseInv
    BY DEF CacheInv
  <2>2. phase \in {"preload", "running"}
    BY <1>2, <2>1 DEF PhaseInv
  <2> QED BY <1>1, <2>1, <2>2 DEF PhaseInv, Mapping
<1>15. OwnersInv'
  <2>1. OwnersInv
    BY DEF CacheInv
  <2>2. ASSUME NEW x PROVE x \in F16Ids' <=> x \in F16Ids \cup {new}
    <3>1. x \in F16Ids' <=> \E i \in DOMAIN f16' : x = f16'[i].id
      BY IdsAreNext
    <3>2. x \in F16Ids <=> \E i \in DOMAIN f16 : x = f16[i].id
      BY IdsAre
    <3> QED BY <1>9, <1>12, <3>1, <3>2
  <2>3. F16Ids' = F16Ids \cup {new}
    BY <2>2
  <2>4. OwnedIds' = OwnedIds /\ ArenaIds' = ArenaIds /\ RangeIds' = RangeIds
    BY <1>1 DEF OwnedIds, ArenaIds, RangeIds
  <2>5. new \notin OwnedIds \cup ArenaIds \cup RangeIds \cup F16Ids
    BY <1>6, <2>1 DEF OwnersInv
  <2>6. /\ DOMAIN memory' = OwnedIds \cup ArenaIds \cup RangeIds \cup (F16Ids \cup {new})
        /\ (F16Ids \cup {new}) \cap (OwnedIds \cup ArenaIds \cup RangeIds) = {}
    BY <1>8, <2>1, <2>5 DEF OwnersInv
  <2> QED BY <1>1, <2>1, <2>3, <2>4, <2>6 DEF OwnersInv
<1>16. SameModel
    BY <1>1 DEF SameModel
<1>17. Grows(arenas, arenas') /\ \A i \in DOMAIN arenas' : arenas'[i] \in Arenas
    BY <1>1, SameGrows DEF CacheInv
<1>18. /\ OwnedInv' /\ ArenasInv' /\ CopiesInv'
       /\ \A i \in DOMAIN ranges : GoodRange(memory', arenas', ranges[i])
       /\ \A i \in DOMAIN f16 : GoodExpansion(memory', f16[i])
    BY <1>1, <1>8, <1>16, <1>17, HeapStays, F16Stays
<1>19. RangesInv'
    BY <1>1, <1>18 DEF RangesInv
<1>20. F16Inv'
  <2>1. GoodExpansion(memory', e)
    BY <1>3, <1>5, <1>7, <1>8, <1>9 DEF GoodExpansion
  <2> QED BY <1>12, <1>18, <2>1 DEF F16Inv
<1>21. UseInv'
    BY <1>1, <1>5, <1>6, <1>8 DEF CacheInv, UseInv
<1>22. UploadInv' /\ FetchInv'
    BY <1>1 DEF CacheInv, UploadInv, FetchInv
<1>23. AnswerInv'
    BY <1>1, <1>12 DEF CacheInv, AnswerInv, Expanded
<1> QED
    BY <1>13, <1>14, <1>15, <1>18, <1>19, <1>20, <1>21, <1>22, <1>23 DEF CacheInv

LEMMA DisableF16Step ==
    ASSUME CacheInv, DisableF16
    PROVE  CacheInv'
<1>1. /\ fetch.step = "have" /\ fetch.kind = "f16" /\ (f16 # <<>> => DeviceIdle)
      /\ memory' = Without(F16Ids) /\ f16' = <<>> /\ f16ByOffset' = <<>>
      /\ answer' = [given |-> TRUE, w |-> fetch.w, form |-> "raw", ptr |-> fetch.ptr]
      /\ inUse' = inUse \cup IdsOf(fetch.ptr) /\ fetch' = NoFetch
      /\ UNCHANGED <<env, phase, hasDraft, model, buffers, copies, todo, ranges, byOffset, arenas>>
    BY DEF DisableF16, Launch, cacheVars
<1>2. /\ fetch # NoFetch /\ fetch.w \in Weights /\ fetch.ptr \in Pointers
    BY <1>1, FetchIs DEF CacheInv
<1>3. fetch.w \in Tensors /\ ReadableAt(model, ranges, fetch.ptr, fetch.w)
    BY <1>1, <1>2 DEF CacheInv, FetchInv
<1>4. IdsOf(fetch.ptr) \subseteq (DOMAIN memory) \ F16Ids
    BY <1>2, <1>3, HeldReads DEF CacheInv
<1>5. /\ DOMAIN memory' = (DOMAIN memory) \ F16Ids
      /\ \A id \in (DOMAIN memory) \ F16Ids : memory'[id] = memory[id]
    BY <1>1 DEF Without
<1>6. inUse \cap F16Ids = {}
  <2>1. CASE f16 = <<>>
    <3>1. F16Ids = {}
      BY <2>1, IdsAre, EmptySeq
    <3> QED BY <3>1
  <2>2. CASE f16 # <<>>
    BY <1>1, <2>2 DEF DeviceIdle
  <2> QED BY <2>1, <2>2
<1>7. DOMAIN f16' = {} /\ f16' \in Seq(Expansions) /\ DOMAIN f16ByOffset' = {}
    BY <1>1, EmptySeq
<1>8. F16Ids' = {}
    BY <1>7, IdsAreNext
<1>9. answer' \in Answers
    BY <1>1, <1>2, <1>3 DEF Answers
<1>10. CacheTypeOK'
  <2>1. CacheTypeOK
    BY DEF CacheInv
  <2>2. DOMAIN memory' \subseteq Nat /\ IsFiniteSet(DOMAIN memory')
    BY <1>5, <2>1, FS_Subset DEF CacheTypeOK
  <2>3. fetch' \in Fetches
    BY <1>1 DEF Fetches
  <2>4. \A o \in DOMAIN f16ByOffset' :
            f16ByOffset'[o] \in DOMAIN f16' /\ f16'[f16ByOffset'[o]].off = o
    BY <1>7
  <2> QED BY <1>1, <1>7, <1>9, <2>1, <2>2, <2>3, <2>4 DEF CacheTypeOK
<1>11. PhaseInv'
  <2>1. PhaseInv
    BY DEF CacheInv
  <2>2. phase \in {"preload", "running"}
    BY <1>2, <2>1 DEF PhaseInv
  <2> QED BY <1>1, <2>1, <2>2 DEF PhaseInv, Mapping
<1>12. OwnersInv'
  <2>1. OwnersInv
    BY DEF CacheInv
  <2>2. OwnedIds' = OwnedIds /\ ArenaIds' = ArenaIds /\ RangeIds' = RangeIds
    BY <1>1 DEF OwnedIds, ArenaIds, RangeIds
  <2> QED BY <1>1, <1>5, <1>8, <2>1, <2>2 DEF OwnersInv
<1>13. SameModel
    BY <1>1 DEF SameModel
<1>14. Grows(arenas, arenas') /\ \A i \in DOMAIN arenas' : arenas'[i] \in Arenas
    BY <1>1, SameGrows DEF CacheInv
<1>15. /\ OwnedInv' /\ ArenasInv' /\ CopiesInv'
       /\ \A i \in DOMAIN ranges : GoodRange(memory', arenas', ranges[i])
    BY <1>1, <1>5, <1>13, <1>14, HeapStays
<1>16. RangesInv' /\ F16Inv'
    BY <1>1, <1>7, <1>15 DEF RangesInv, F16Inv
<1>17. UseInv'
    BY <1>1, <1>4, <1>5, <1>6 DEF CacheInv, UseInv
<1>18. FetchInv' /\ fetch'.step # "upload"
    BY <1>1 DEF FetchInv, NoFetch
<1>19. AnswerInv'
    BY <1>1, <1>3 DEF AnswerInv
<1> QED
    BY <1>10, <1>11, <1>12, <1>15, <1>16, <1>17, <1>18, <1>19, NotUploading DEF CacheInv

-----------------------------------------------------------------------------
(* The maps, and the end. *)

(* No caches, nothing queued, nothing wanted. *)
Bare ==
    /\ env \in Switches /\ hasDraft \in BOOLEAN
    /\ phase \in Mapping \cup {"preload", "running", "failed"} /\ model \in Models
    /\ todo \in [left : SUBSET {w \in Tensors : w.map = "main"}, off : Nat, end : Nat]
    /\ DOMAIN buffers = 0 .. Buffers - 1 /\ DOMAIN memory = OwnedIds /\ OwnedInv /\ PhaseInv
    /\ ranges = <<>> /\ byOffset = <<>> /\ arenas = <<>> /\ f16 = <<>> /\ f16ByOffset = <<>>
    /\ copies = <<>> /\ inUse = {} /\ fetch = NoFetch /\ answer = NoAnswer

LEMMA BareIs == Bare => CacheInv
<1> SUFFICES ASSUME Bare PROVE CacheInv
    OBVIOUS
<1>1. /\ ranges \in Seq(Ranges) /\ arenas \in Seq(Arenas) /\ f16 \in Seq(Expansions)
      /\ copies \in Seq(Copies) /\ DOMAIN byOffset = {} /\ DOMAIN f16ByOffset = {}
      /\ DOMAIN ranges = {} /\ DOMAIN arenas = {} /\ DOMAIN f16 = {} /\ DOMAIN copies = {}
    BY EmptySeq DEF Bare
<1>2. OwnedIds \subseteq Nat /\ IsFiniteSet(OwnedIds)
  <2>1. CASE model.base[1] = "dev"
    <3>1. model.base[2] \in Nat
      BY <2>1 DEF Bare, Models
    <3> QED BY <2>1, <3>1, FS_Singleton DEF OwnedIds
  <2>2. CASE model.base[1] # "dev"
    BY <2>2, FS_EmptySet DEF OwnedIds
  <2> QED BY <2>1, <2>2
<1>3. CacheTypeOK
  <2>1. fetch \in Fetches /\ answer \in Answers
    BY DEF Bare, Fetches, Answers
  <2> QED BY <1>1, <1>2, <2>1 DEF Bare, CacheTypeOK
<1>4. OwnersInv
  <2>1. ArenaIds = {} /\ RangeIds = {} /\ F16Ids = {}
    BY <1>1, IdsAre
  <2> QED BY <1>1, <2>1 DEF Bare, OwnersInv
<1>5. UseInv
    BY DEF Bare, UseInv
<1>6. ArenasInv /\ RangesInv /\ F16Inv /\ CopiesInv
    BY <1>1 DEF ArenasInv, RangesInv, F16Inv, CopiesInv
<1>7. UploadInv /\ FetchInv /\ AnswerInv
    BY DEF Bare, NoFetch, NoAnswer, UploadInv, FetchInv, AnswerInv
<1> QED
    BY <1>3, <1>4, <1>5, <1>6, <1>7 DEF Bare, CacheInv

LEMMA SetMapStep ==
    ASSUME CacheInv, NEW map \in Maps, NEW after \in {"map_mtp", "preload", "running"},
           phase \in {"map_main", "map_mtp"}, phase = "map_main" => map = "main",
           after = "map_mtp" => hasDraft, SetMap(map, after),
           todo' \in [left : SUBSET {w \in Tensors : w.map = "main"}, off : Nat, end : Nat]
    PROVE  CacheInv'
<1>1. /\ ranges = <<>> /\ arenas = <<>> /\ f16 = <<>> /\ copies = <<>> /\ inUse = {}
      /\ fetch = NoFetch /\ answer = NoAnswer /\ model.fd
      /\ phase = "map_main" => model.fdMap = NoMap
      /\ phase = "map_mtp" => model.fdMap = "main"
      /\ hasDraft => "mtp" \in Maps
    BY DEF CacheInv, PhaseInv, Mapping
<1> DEFINE kept == Without(RangeIds \cup ArenaIds \cup F16Ids \cup OwnedIds)
           new == CHOOSE id \in 1..(Cardinality(DOMAIN kept) + 1) : id \notin DOMAIN kept
<1>2. PICK o \in MapOutcomes :
          /\ memory' = IF o.copied \/ o.chunked
                       THEN [id \in DOMAIN kept \cup {new} |->
                               IF id = new THEN HostUnits(map, 0, MapSize[map]) ELSE kept[id]]
                       ELSE kept
          /\ model' = [model EXCEPT
                 !.host = map, !.size = MapSize[map],
                 !.base = IF o.copied \/ o.chunked THEN <<"dev", new>>
                          ELSE IF o.registered THEN <<"reg">> ELSE <<"host">>,
                 !.hmm = o.prefetched, !.mapping = TRUE, !.full = FALSE,
                 !.fdMap = IF model.fd /\ model.fdMap = NoMap THEN map ELSE @]
    BY DEF SetMap
<1>3. DOMAIN kept = {}
    BY DEF Without, CacheInv, OwnersInv
<1>4. Cardinality(DOMAIN kept) = 0
    BY <1>3, FS_EmptySet
<1>6. new \in Nat
  <2>1. \E id \in 1..(Cardinality(DOMAIN kept) + 1) : id \notin DOMAIN kept
    BY <1>3, <1>4
  <2> HIDE DEF kept
  <2>2. new \in 1..(Cardinality(DOMAIN kept) + 1)
    BY <2>1, Zenon
  <2> QED BY <1>4, <2>2
<1> HIDE DEF kept, new
<1>7. PICK whole \in BOOLEAN, registered \in BOOLEAN, prefetched \in BOOLEAN :
          /\ memory' = IF whole
                       THEN [id \in DOMAIN kept \cup {new} |->
                               IF id = new THEN HostUnits(map, 0, MapSize[map]) ELSE kept[id]]
                       ELSE kept
          /\ model' = [model EXCEPT
                 !.host = map, !.size = MapSize[map],
                 !.base = IF whole THEN <<"dev", new>>
                          ELSE IF registered THEN <<"reg">> ELSE <<"host">>,
                 !.hmm = prefetched, !.mapping = TRUE, !.full = FALSE,
                 !.fdMap = IF model.fd /\ model.fdMap = NoMap THEN map ELSE @]
  <2>1. o.copied \in BOOLEAN /\ o.chunked \in BOOLEAN /\ o.registered \in BOOLEAN
        /\ o.prefetched \in BOOLEAN
    BY DEF MapOutcomes
  <2> QED BY <1>2, <2>1
<1>8. /\ ranges' = <<>> /\ byOffset' = <<>> /\ arenas' = <<>>
      /\ f16' = <<>> /\ f16ByOffset' = <<>>
      /\ phase' = after /\ UNCHANGED <<env, hasDraft, fetch, answer, buffers, copies, inUse>>
    BY DEF SetMap, streamVars
<1>9. MapSize[map] \in Nat /\ model \in Models
    BY WeightAssumption DEF Maps, CacheInv, CacheTypeOK
<1>10. /\ model' \in Models /\ model'.host = map /\ model'.size = MapSize[map]
       /\ model'.fd
       /\ model'.fdMap = IF phase = "map_main" THEN map ELSE "main"
       /\ model'.base = IF whole THEN <<"dev", new>> ELSE IF registered THEN <<"reg">> ELSE <<"host">>
  <2>1. "main" # NoMap
    BY DEF NoMap
  <2>2. PICK base \in {<<"host">>, <<"reg">>} \cup ({"dev"} \X Nat) :
            base = IF whole THEN <<"dev", new>> ELSE IF registered THEN <<"reg">> ELSE <<"host">>
    BY <1>6
  <2>3. PICK fdMap \in Maps \cup {NoMap} :
            fdMap = IF model.fd /\ model.fdMap = NoMap THEN map ELSE model.fdMap
    BY <1>9 DEF Models
  <2>4. model' = [model EXCEPT !.host = map, !.size = MapSize[map], !.base = base,
                    !.hmm = prefetched, !.mapping = TRUE, !.full = FALSE, !.fdMap = fdMap]
    BY <1>7, <2>2, <2>3
  <2>5. /\ model' \in Models /\ model'.host = map /\ model'.size = MapSize[map]
        /\ model'.fd = model.fd /\ model'.fdMap = fdMap /\ model'.base = base
    BY <1>9, <2>4 DEF Models
  <2> QED BY <1>1, <2>1, <2>2, <2>3, <2>5
<1>11. DOMAIN memory' = OwnedIds' /\ OwnedInv'
  <2>1. CASE whole
    <3>1. DOMAIN memory' = {new} /\ memory'[new] = HostUnits(map, 0, MapSize[map])
      BY <1>3, <1>7, <2>1
    <3>2. model'.base = <<"dev", new>>
      BY <1>10, <2>1
    <3> QED BY <1>10, <3>1, <3>2 DEF OwnedIds, OwnedInv
  <2>2. CASE ~whole
    <3>1. model'.base[1] # "dev"
      BY <1>10, <2>2
    <3> QED BY <1>3, <1>7, <2>2, <3>1 DEF OwnedIds, OwnedInv
  <2> QED BY <2>1, <2>2
<1>12. PhaseInv'
    BY <1>1, <1>8, <1>10 DEF PhaseInv, Mapping
<1>13. env' \in Switches /\ hasDraft' \in BOOLEAN /\ DOMAIN buffers' = 0 .. Buffers - 1
    BY <1>8 DEF CacheInv, CacheTypeOK
<1>14. phase' \in Mapping \cup {"preload", "running", "failed"}
    BY <1>8 DEF Mapping
<1>15. Bare'
    BY <1>1, <1>8, <1>10, <1>11, <1>12, <1>13, <1>14 DEF Bare
<1>16. Bare' => CacheInv'
    BY BareIs, PTL
<1> QED
    BY <1>15, <1>16

LEMMA MapStep ==
    ASSUME CacheInv, MapMain \/ MapMtp
    PROVE  CacheInv'
<1>1. todo \in [left : SUBSET {w \in Tensors : w.map = "main"}, off : Nat, end : Nat]
    BY DEF CacheInv, CacheTypeOK
<1>2. CASE MapMain
  <2>1. PICK after \in {"map_mtp", "preload", "running"} :
            /\ phase = "map_main" /\ SetMap("main", after) /\ (after = "map_mtp" => hasDraft)
    BY <1>2 DEF MapMain
  <2>2. todo' \in [left : SUBSET {w \in Tensors : w.map = "main"}, off : Nat, end : Nat]
    BY <1>2 DEF MapMain, NoSpan
  <2>3. "main" \in Maps
    BY WeightAssumption DEF Maps
  <2> QED BY <2>1, <2>2, <2>3, SetMapStep
<1>3. CASE MapMtp
  <2>1. phase = "map_mtp" /\ SetMap("mtp", "running") /\ todo' = todo
    BY <1>3 DEF MapMtp
  <2>2. "mtp" \in Maps
    BY <2>1 DEF CacheInv, PhaseInv
  <2> QED BY <1>1, <2>1, <2>2, SetMapStep
<1> QED
    BY <1>2, <1>3

LEMMA CloseStep ==
    ASSUME CacheInv, CloseEngine
    PROVE  CacheInv'
<1>1. /\ fetch = NoFetch /\ inUse = {} /\ copies = <<>>
      /\ memory' = Without(RangeIds \cup ArenaIds \cup F16Ids \cup OwnedIds)
      /\ model' = [Closed EXCEPT !.fdMap = model.fdMap]
      /\ ranges' = <<>> /\ byOffset' = <<>> /\ arenas' = <<>> /\ f16' = <<>> /\ f16ByOffset' = <<>>
      /\ buffers' = EmptyBuffers /\ phase' = "closed" /\ todo' = NoSpan /\ answer' = NoAnswer
      /\ UNCHANGED <<env, hasDraft, copies, inUse, fetch>>
    BY DEF CloseEngine, DeviceIdle
<1>2. model.fdMap \in Maps \cup {NoMap}
    BY DEF CacheInv, CacheTypeOK, Models
<1>3. model' \in Models /\ model'.base = <<"host">> /\ model'.host = NoMap
    BY <1>1, <1>2 DEF Closed, Models
<1>4. DOMAIN memory' = {} /\ OwnedIds' = {} /\ OwnedInv'
    BY <1>1, <1>3 DEF Without, OwnedIds, OwnedInv, CacheInv, OwnersInv
<1>5. PhaseInv'
  <2>1. hasDraft => "mtp" \in Maps
    BY DEF CacheInv, PhaseInv
  <2> QED BY <1>1, <1>3, <1>4, <2>1 DEF PhaseInv, Mapping
<1>6. todo' \in [left : SUBSET {w \in Tensors : w.map = "main"}, off : Nat, end : Nat]
    BY <1>1 DEF NoSpan
<1>7. DOMAIN buffers' = 0 .. Buffers - 1 /\ phase' \in Mapping
    BY <1>1 DEF EmptyBuffers, Mapping
<1>8. env' \in Switches /\ hasDraft' \in BOOLEAN
    BY <1>1 DEF CacheInv, CacheTypeOK
<1>9. Bare'
    BY <1>1, <1>3, <1>4, <1>5, <1>6, <1>7, <1>8 DEF Bare
<1>10. Bare' => CacheInv'
    BY BareIs, PTL
<1> QED
    BY <1>9, <1>10

LEMMA StartIs == WInit => CacheInv
<1> SUFFICES ASSUME WInit PROVE CacheInv
    OBVIOUS
<1>1. model \in Models /\ model.base = <<"host">> /\ model.host = NoMap
    BY DEF WInit, Closed, Models
<1>2. DOMAIN memory = {} /\ OwnedIds = {} /\ OwnedInv
    BY <1>1, EmptySeq DEF WInit, OwnedIds, OwnedInv
<1>3. PhaseInv
    BY <1>1, <1>2 DEF WInit, PhaseInv, Mapping
<1>4. todo \in [left : SUBSET {w \in Tensors : w.map = "main"}, off : Nat, end : Nat]
    BY DEF WInit, NoSpan
<1>5. DOMAIN buffers = 0 .. Buffers - 1 /\ phase \in Mapping
    BY DEF WInit, EmptyBuffers, Mapping
<1>6. Bare
    BY <1>1, <1>2, <1>3, <1>4, <1>5 DEF WInit, Bare
<1> QED
    BY <1>6, BareIs

-----------------------------------------------------------------------------
(* The theorems. *)

LEMMA CacheStep == CacheInv /\ [WNext]_wvars => CacheInv'
<1> SUFFICES ASSUME CacheInv, [WNext]_wvars PROVE CacheInv'
    OBVIOUS
<1>1. CASE UNCHANGED wvars
  <2>1. UNCHANGED <<env, phase, hasDraft, model, memory, ranges, byOffset, arenas, f16,
                    f16ByOffset, f16Off, buffers, copies, inUse, todo, fetch, answer>>
    BY <1>1 DEF wvars
  <2>2. CacheTypeOK' /\ PhaseInv'
    BY <2>1 DEF CacheInv, CacheTypeOK, PhaseInv
  <2>3. SameModel
    BY <2>1 DEF SameModel
  <2>4. OwnersInv' /\ OwnedInv' /\ ArenasInv' /\ RangesInv' /\ F16Inv'
    BY <2>1, <2>3, SameHeap DEF CacheInv
  <2>5. CopiesInv' /\ AnswerInv'
    BY <2>1, <2>3, SameCopies, SameAnswer DEF CacheInv
  <2>6. UseInv' /\ UploadInv' /\ FetchInv'
    BY <2>1 DEF CacheInv, UseInv, UploadInv, FetchInv
  <2> QED BY <2>2, <2>4, <2>5, <2>6 DEF CacheInv
<1>2. CASE OpenEngine \/ MapMain \/ MapMtp \/ Preload \/ Preloaded \/ Want
    BY <1>2, OpenStep, MapStep, PreloadStep, PreloadedStep, WantStep
<1>3. CASE ArenaAlloc \/ UploadChunk \/ UploadFails \/ CopyDone \/ UploadEnd
    BY <1>3, ArenaAllocStep, UploadChunkStep, UploadFailsStep, CopyDoneStep, UploadEndStep
<1>4. CASE RegisterRange \/ RegisterFails \/ CopyRange \/ Nowhere
    BY <1>4, RegisterRangeStep, RegisterFailsStep, CopyRangeStep, NowhereStep
<1>5. CASE SpanDone \/ UseRaw \/ UseF16 \/ Expand \/ DisableF16 \/ KernelsDone \/ CloseEngine
    BY <1>5, NowhereStep, UseRawStep, UseF16Step, ExpandStep, DisableF16Step, KernelsDoneStep, CloseStep
<1> QED
    BY <1>1, <1>2, <1>3, <1>4, <1>5 DEF WNext

(* What a kernel reads through the pointer it is given for a weight is that *)
(* weight, from then on and until the engine closes (cuda_model_range_ptr,  *)
(* cuda_q8_f16_ptr).                                                        *)
THEOREM GivesTheWeightAlways == WSpec => []GivesTheWeight
<1>1. CacheInv => GivesTheWeight
  <2>1. SUFFICES ASSUME CacheInv, answer.given, NEW k \in 0..(answer.w.n - 1)
                 PROVE  Unit(answer.ptr, k) = Wanted(answer, k)
    BY DEF GivesTheWeight
  <2>2. /\ answer.w \in Tensors /\ answer.form \in {"raw", "f16"}
    <3>1. answer \in Answers /\ answer # NoAnswer
      BY <2>1 DEF CacheInv, CacheTypeOK, NoAnswer
    <3> QED BY <3>1 DEF Answers
  <2>3. answer.w \in Weights
    BY <2>2, WeightAssumption DEF Weights, Maps
  <2>4. CASE answer.form = "raw"
    <3>1. ReadableAt(model, ranges, answer.ptr, answer.w)
      BY <2>1, <2>4 DEF CacheInv, AnswerInv
    <3>2. Unit(answer.ptr, k) = <<answer.w.map, answer.w.off + k>>
      BY <2>1, <2>3, <3>1, HeldReads DEF CacheInv
    <3> QED BY <2>4, <3>2 DEF Wanted
  <2>5. CASE answer.form = "f16"
    <3>1. PICK i \in DOMAIN f16 : /\ answer.ptr = DevPtr(f16[i].id, 0) /\ f16[i].map = answer.w.map
                                  /\ f16[i].off = answer.w.off /\ f16[i].n = answer.w.n
      BY <2>1, <2>5 DEF CacheInv, AnswerInv, Expanded
    <3>2. GoodExpansion(memory, f16[i]) /\ f16[i].id \in DOMAIN memory
      BY <2>1, F16IdIs DEF CacheInv, F16Inv
    <3>3. memory[f16[i].id][k] = <<"f16", <<answer.w.map, answer.w.off + k>>>>
      BY <2>1, <3>1, <3>2 DEF GoodExpansion
    <3>4. answer.ptr[1] = "dev" /\ answer.ptr[2] = f16[i].id /\ answer.ptr[3] + k = k
      BY <2>1, <2>3, <3>1 DEF DevPtr, Weights
    <3>5. Unit(answer.ptr, k) = memory[f16[i].id][k]
      BY <3>2, <3>4 DEF Unit
    <3> QED BY <2>5, <3>3, <3>5 DEF Wanted
  <2> QED BY <2>2, <2>4, <2>5
<1> QED
    BY <1>1, StartIs, CacheStep, PTL DEF WSpec

(* No allocation a launched kernel or a queued copy uses is freed under it, *)
(* and a closed engine holds none (cuda_q8_f16_cache_disable_after_failure, *)
(* cuda_model_range_release_all, ds4_gpu_cleanup).                          *)
THEOREM MemoryLivesAlways == WSpec => []MemoryLives
<1>1. CacheInv => MemoryLives
  <2>1. SUFFICES ASSUME CacheInv PROVE MemoryLives
    OBVIOUS
  <2>2. ASSUME NEW c \in Range(copies) PROVE c.id \in DOMAIN memory
    <3>1. PICK j \in DOMAIN copies : c = copies[j]
      BY DEF Range
    <3>2. InArena(arenas, c.id, c.at, c.n)
      BY <2>1, <3>1 DEF CacheInv, CopiesInv
    <3>3. c.id \in ArenaIds
      BY <3>2, IdsAre DEF InArena
    <3> QED BY <2>1, <3>3 DEF CacheInv, OwnersInv
  <2> QED BY <2>1, <2>2 DEF MemoryLives, CacheInv, UseInv, PhaseInv
<1> QED
    BY <1>1, StartIs, CacheStep, PTL DEF WSpec

-----------------------------------------------------------------------------
(* The routed experts. *)

DSpec == DInit /\ [][DNext]_dvars

-----------------------------------------------------------------------------
(* Pairs, their tokens and slots. *)

Routed == /\ batch \in Batches
          /\ chosen \in [TokenIds -> [1..Used -> ExpertIds]]

LEMMA Constants ==
    /\ {Experts, Used, Lanes, Tile, BigBatch} \subseteq Nat \ {0}
    /\ Used <= Experts /\ ExpertIds = 0 .. Experts - 1
BY DispatchAssumption DEF ExpertIds

LEMMA PairsAre ==
    ASSUME batch \in Batches
    PROVE  /\ Len(batch.tokens) \in Nat
           /\ Len(batch.tokens) * Used \in Nat
           /\ IsFiniteSet(Pairs) /\ Cardinality(Pairs) = Len(batch.tokens) * Used
           /\ Pairs \subseteq Nat /\ TokenIds \subseteq Pairs
           /\ \A p \in Pairs : PairToken(p) \in TokenIds /\ SlotOf(p) \in 0 .. Used - 1
<1>1. Used \in Nat \ {0} /\ batch.tokens \in Seq(Int)
    BY Constants, DispatchAssumption DEF Routed
<1>2. PICK n \in Nat : n = Len(batch.tokens)
    BY <1>1, LenProperties
<1>a. n * Used \in Nat
    BY <1>1, <1>2
<1>3. PICK m \in Nat : m = n * Used
    BY <1>1, <1>2
<1>4. n <= m
    BY <1>1, <1>2, <1>3, SMT
<1>5. Pairs = 0 .. (m - 1) /\ TokenIds = 0 .. (n - 1)
    BY <1>2, <1>3 DEF Pairs, TokenIds
<1>6. IsFiniteSet(0 .. (m - 1)) /\ Cardinality(0 .. (m - 1)) = IF 0 > m - 1 THEN 0 ELSE (m - 1) - 0 + 1
  <2>1. 0 \in Int /\ m - 1 \in Int
      BY <1>3
  <2> QED BY <2>1, FS_Interval
<1>7. Cardinality(Pairs) = m
    BY <1>3, <1>5, <1>6
<1>8. ASSUME NEW p \in 0 .. (m - 1) PROVE p \div Used \in 0 .. (n - 1) /\ p % Used \in 0 .. Used - 1
  <2>0. p \in Nat /\ Used \in Nat \ {0}
    BY <1>1, <1>3
  <2>1. PICK q \in Nat, s \in 0 .. Used - 1 : q = p \div Used /\ s = p % Used /\ p = q * Used + s /\ q * Used \in Nat
    BY <2>0, DivMod, Zenon
  <2>2. CASE n <= q
    <3>1. n * Used <= q * Used
        BY <1>1, <2>1, <2>2, TimesMonotone
    <3> QED BY <1>3, <2>1, <3>1
  <2> QED BY <1>2, <2>1, <2>2
<1> QED
    BY <1>2, <1>3, <1>4, <1>5, <1>6, <1>7, <1>8 DEF PairToken, SlotOf

LEMMA PairOf ==
    ASSUME batch \in Batches, NEW t \in TokenIds, NEW s \in 0 .. Used - 1
    PROVE  /\ t * Used + s \in Pairs
           /\ PairToken(t * Used + s) = t /\ SlotOf(t * Used + s) = s
<1>1. Used \in Nat \ {0} /\ batch.tokens \in Seq(Int)
    BY Constants, DispatchAssumption DEF Routed
<1>2. PICK n \in Nat : n = Len(batch.tokens)
    BY <1>1, LenProperties
<1>3. t \in Nat /\ t + 1 <= n /\ t + 1 \in Nat
    BY <1>2 DEF TokenIds
<1>4. (t + 1) * Used <= n * Used
    BY <1>1, <1>2, <1>3, TimesMonotone
<1>a. t * Used \in Nat /\ n * Used \in Nat
    BY <1>1, <1>2, <1>3
<1>5. PICK a \in Nat, b \in Nat : a = t * Used /\ b = n * Used
    BY <1>a
<1>6. (t + 1) * Used = a + Used
    BY <1>1, <1>3, <1>5
<1>7. a + s \in 0 .. (b - 1)
    BY <1>1, <1>4, <1>5, <1>6
<1>b. a + s \in Nat /\ a + s = t * Used + s
    BY <1>1, <1>5
<1>8. (a + s) \div Used = t /\ (a + s) % Used = s
    BY <1>1, <1>3, <1>b, DivModIs
<1> QED
    BY <1>2, <1>5, <1>7, <1>8 DEF Pairs, PairToken, SlotOf

LEMMA PairIs ==
    ASSUME batch \in Batches, NEW p \in Pairs
    PROVE  p = PairToken(p) * Used + SlotOf(p)
<1>1. p \in Nat /\ Used \in Nat \ {0}
    BY Constants, PairsAre
<1> QED
    BY <1>1, DivMod DEF PairToken, SlotOf

LEMMA ExpertsAre ==
    ASSUME Routed
    PROVE  \A p \in Pairs : ExpertOf(p) \in ExpertIds
<1> TAKE p \in Pairs
<1>0. PairToken(p) \in TokenIds /\ SlotOf(p) \in 0 .. Used - 1
    BY PairsAre DEF Routed
<1>1. PairToken(p) \in TokenIds /\ SlotOf(p) + 1 \in 1 .. Used
    BY <1>0, Constants
<1> QED
    BY <1>1 DEF Routed, ExpertOf

-----------------------------------------------------------------------------
(* How many pairs an expert and those before it have. *)

LEMMA Counted ==
    ASSUME Routed
    PROVE  /\ \A e \in Int : CountOf(e) \in Nat /\ OffsetOf(e) \in Nat
           /\ \A e \in Int : OffsetOf(e + 1) = OffsetOf(e) + CountOf(e)
           /\ OffsetOf(0) = 0 /\ OffsetOf(Experts) = Cardinality(Pairs)
<1>1. IsFiniteSet(Pairs) /\ Experts \in Nat
    BY PairsAre, Constants DEF Routed
<1>a. \A p \in Pairs : ExpertOf(p) \in Int /\ 0 <= ExpertOf(p) /\ ExpertOf(p) < Experts
  <2>1. \A p \in Pairs : ExpertOf(p) \in 0 .. Experts - 1
      BY ExpertsAre, Constants
  <2> QED BY <1>1, <2>1
<1>2. ASSUME NEW e \in Int
      PROVE  /\ CountOf(e) \in Nat /\ OffsetOf(e) \in Nat
             /\ OffsetOf(e + 1) = OffsetOf(e) + CountOf(e)
  <2> DEFINE A == {p \in Pairs : ExpertOf(p) = e}
             B == {p \in Pairs : ExpertOf(p) < e}
             C == {p \in Pairs : ExpertOf(p) < e + 1}
  <2>1. IsFiniteSet(A) /\ IsFiniteSet(B)
      BY <1>1, FS_Subset
  <2>2. A \cap B = {}
      BY <1>a
  <2>3. C = A \cup B
      BY <1>a
  <2>4. Cardinality(A) \in Nat /\ Cardinality(B) \in Nat /\ Cardinality(A \cap B) = 0
      BY <2>1, <2>2, FS_CardinalityType, FS_EmptySet
  <2>5. Cardinality(A \cup B) = Cardinality(A) + Cardinality(B) - Cardinality(A \cap B)
      BY <2>1, FS_Union
  <2>6. Cardinality(C) = Cardinality(B) + Cardinality(A)
    <3> HIDE DEF A, B, C
    <3> QED BY <2>3, <2>4, <2>5
  <2> QED BY <2>4, <2>6 DEF CountOf, OffsetOf
<1>3. {p \in Pairs : ExpertOf(p) < 0} = {}
    BY <1>a
<1>4. {p \in Pairs : ExpertOf(p) < Experts} = Pairs
    BY <1>1, <1>a
<1>5. OffsetOf(0) = 0 /\ OffsetOf(Experts) = Cardinality(Pairs)
    BY <1>3, <1>4, FS_EmptySet DEF OffsetOf
<1> QED
    BY <1>2, <1>5

LEMMA OffsetsGrow ==
    ASSUME Routed, NEW d \in 0 .. Experts, NEW e \in 0 .. Experts, d <= e
    PROVE  OffsetOf(d) <= OffsetOf(e)
<1> DEFINE T == {k \in 0 .. Experts : d + k <= Experts => OffsetOf(d) <= OffsetOf(d + k)}
<1>1. Experts \in Nat
    BY Constants
<1>2. \A k \in Int : OffsetOf(k) \in Nat /\ CountOf(k) \in Nat /\ OffsetOf(k + 1) = OffsetOf(k) + CountOf(k)
    BY Counted
<1>3. 0 \in T
    BY <1>1, <1>2
<1>4. ASSUME NEW k \in 0 .. Experts - 1, k \in T PROVE k + 1 \in T
  <2>1. d + (k + 1) = (d + k) + 1 /\ d + k \in Int
      BY <1>1
  <2>2. OffsetOf(d + (k + 1)) = OffsetOf(d + k) + CountOf(d + k)
      BY <1>2, <2>1
  <2>3. CASE ~ (d + (k + 1) <= Experts)
      BY <1>1, <2>3
  <2>4. CASE d + (k + 1) <= Experts
      BY <1>1, <1>2, <1>4, <2>1, <2>2, <2>4
  <2> QED BY <2>3, <2>4
<1> HIDE DEF T
<1>5. \A k \in 0 .. Experts : k \in T
    BY <1>1, <1>3, <1>4, InductUpTo, Zenon
<1>6. e - d \in 0 .. Experts /\ d + (e - d) = e
    BY <1>1
<1> QED
    BY <1>5, <1>6 DEF T

(* Every place among the sorted pairs belongs to one expert. *)
LEMMA PlaceOfOne ==
    ASSUME Routed, NEW i \in Pairs
    PROVE  \E e \in ExpertIds : OffsetOf(e) <= i /\ i < OffsetOf(e) + CountOf(e)
<1> DEFINE E == {e \in 0 .. Experts - 1 : OffsetOf(e) <= i}
<1>1. Experts \in Nat \ {0} /\ i \in Nat /\ i < Cardinality(Pairs) /\ Cardinality(Pairs) \in Nat
    BY PairsAre, DispatchAssumption DEF Routed, Pairs
<1>2. 0 \in E
    BY <1>1, Counted
<1>3. PICK e \in E : \A d \in E : d <= e
  <2>1. E \subseteq 0 .. Experts - 1 /\ E # {} /\ Experts - 1 \in Nat
      BY <1>1, <1>2
  <2> HIDE DEF E
  <2> QED BY <2>1, GreatestNat, Zenon
<1>4. CASE e + 1 < Experts
  <2>1. e + 1 \notin E
      BY <1>3
  <2>2. ~ (OffsetOf(e + 1) <= i)
      BY <1>1, <1>4, <2>1
  <2> QED BY <1>1, <2>2, Counted DEF ExpertIds
<1>5. CASE e + 1 = Experts
  <2>1. OffsetOf(e + 1) = Cardinality(Pairs)
      BY <1>5, Counted
  <2> QED BY <1>1, <2>1, Counted DEF ExpertIds
<1> QED
    BY <1>1, <1>4, <1>5

LEMMA PlacesApart ==
    ASSUME Routed, NEW i \in Pairs, NEW d \in ExpertIds, NEW e \in ExpertIds,
           OffsetOf(d) <= i, i < OffsetOf(d) + CountOf(d),
           OffsetOf(e) <= i, i < OffsetOf(e) + CountOf(e)
    PROVE  d = e
<1>1. Experts \in Nat /\ i \in Nat /\ d \in 0 .. Experts /\ e \in 0 .. Experts
      /\ d + 1 \in 0 .. Experts /\ e + 1 \in 0 .. Experts
  <2>1. i \in Nat
      BY PairsAre DEF Routed
  <2> QED BY <2>1, Constants
<1>2. /\ OffsetOf(d) \in Nat /\ OffsetOf(e) \in Nat
      /\ OffsetOf(d + 1) = OffsetOf(d) + CountOf(d) /\ OffsetOf(e + 1) = OffsetOf(e) + CountOf(e)
      /\ CountOf(d) \in Nat /\ CountOf(e) \in Nat
    BY <1>1, Counted
<1>3. ~ (d + 1 <= e)
    BY <1>1, <1>2, OffsetsGrow
<1>4. ~ (e + 1 <= d)
    BY <1>1, <1>2, OffsetsGrow
<1> QED
    BY <1>1, <1>3, <1>4

LEMMA PlacesArePairs ==
    ASSUME Routed, NEW e \in ExpertIds
    PROVE  OffsetOf(e) .. (OffsetOf(e) + CountOf(e) - 1) \subseteq Pairs
<1>1. Experts \in Nat /\ e \in 0 .. Experts /\ e + 1 \in 0 .. Experts /\ Experts \in 0 .. Experts
      /\ e + 1 <= Experts
    BY DispatchAssumption DEF ExpertIds
<1>2. OffsetOf(e + 1) <= OffsetOf(Experts)
    BY <1>1, OffsetsGrow
<1>3. OffsetOf(e) + CountOf(e) <= Cardinality(Pairs)
    BY <1>1, <1>2, Counted
<1>4. Pairs = 0 .. (Cardinality(Pairs) - 1) /\ Cardinality(Pairs) \in Nat
    BY PairsAre DEF Pairs, Routed
<1>5. OffsetOf(e) \in Nat /\ CountOf(e) \in Nat
    BY <1>1, Counted
<1> QED
    BY <1>3, <1>4, <1>5

-----------------------------------------------------------------------------
(* Jobs and what they add. *)

(* The same values on the other side of a bijection are added as often. *)
LEMMA AddedAlike ==
    ASSUME NEW v, NEW w, NEW h \in Bijection(DOMAIN v, DOMAIN w),
           IsFiniteSet(DOMAIN v), \A x \in DOMAIN v : v[x] = w[h[x]]
    PROVE  AddedBy(v) = AddedBy(w)
<1>1. /\ h \in [DOMAIN v -> DOMAIN w]
      /\ \A x, y \in DOMAIN v : h[x] = h[y] => x = y
      /\ \A z \in DOMAIN w : \E x \in DOMAIN v : h[x] = z
    BY DEF Bijection, Injection, Surjection, IsInjective
<1>2. Range(v) = Range(w)
    BY <1>1 DEF Range
<1>3. ASSUME NEW a
      PROVE  Cardinality({x \in DOMAIN v : v[x] = a}) = Cardinality({z \in DOMAIN w : w[z] = a})
  <2> DEFINE A == {x \in DOMAIN v : v[x] = a}
             B == {z \in DOMAIN w : w[z] = a}
             g == [x \in A |-> h[x]]
  <2>1. g \in [A -> B]
      BY <1>1
  <2>2. \A x, y \in A : g[x] = g[y] => x = y
      BY <1>1
  <2>3. \A z \in B : \E x \in A : g[x] = z
      BY <1>1
  <2>4. IsFiniteSet(A)
      BY FS_Subset
  <2> HIDE DEF A, B, g
  <2>5. g \in Bijection(A, B)
      BY <2>1, <2>2, <2>3 DEF Bijection, Injection, Surjection, IsInjective
  <2>6. ExistsBijection(A, B)
      BY <2>5 DEF ExistsBijection
  <2>7. Cardinality(A) = Cardinality(B)
      BY <2>4, <2>6, FS_Bijection
  <2> QED BY <2>7 DEF A, B
<1> QED
    BY <1>2, <1>3 DEF AddedBy

(* Every pair is in the hands of one job, which reads its expert's rows. *)
OneEach(jobs) ==
    /\ \A job \in jobs : job.pair \in Pairs /\ job.expert = ExpertOf(job.pair)
    /\ \A p \in Pairs : \E job \in jobs : job.pair = p
    /\ \A i, j \in jobs : i.pair = j.pair => i = j

LEMMA WrittenIs ==
    ASSUME NEW jobs, OneEach(jobs), NEW buffer, NEW value, NEW job \in jobs
    PROVE  job.pair \in Pairs /\ Written(buffer, jobs, value)[job.pair] = value[job]
<1> DEFINE own == {other \in jobs : other.pair = job.pair}
<1>1. job.pair \in Pairs /\ own = {job}
    BY DEF OneEach
<1>2. Written(buffer, jobs, value)[job.pair] = IF own = {} THEN buffer[job.pair] ELSE value[CHOOSE other \in own : TRUE]
    BY <1>1 DEF Written
<1>3. (CHOOSE other \in own : TRUE) = job
    BY <1>1
<1> QED
    BY <1>1, <1>2, <1>3

Mid(p) == <<"mid", ExpertOf(p), <<"x", PairToken(p)>>, WeightOf(p)>>
Sum(t) == AddedBy([j \in 1..Used |->
              <<chosen[t][j], <<"mid", chosen[t][j], <<"x", t>>, weight[t][j]>>>>])

LEMMA JobsAdd ==
    ASSUME batch \in Batches, NEW jobs, OneEach(jobs), NEW t \in TokenIds,
           \A p \in Pairs : gate[p] = Mid(p)
    PROVE  AddedBy(Projected(JobsOf(t, jobs))) = Sum(t)
<1> DEFINE own == JobsOf(t, jobs)
           v == Projected(own)
           w == [j \in 1..Used |-> <<chosen[t][j], <<"mid", chosen[t][j], <<"x", t>>, weight[t][j]>>>>]
           h == [job \in own |-> SlotOf(job.pair) + 1]
<1>1. DOMAIN v = own /\ DOMAIN w = 1 .. Used /\ Used \in Nat \ {0}
    BY Constants DEF Projected
<1>2. \A job \in own : job \in jobs /\ job.pair \in Pairs /\ PairToken(job.pair) = t
                       /\ job.expert = ExpertOf(job.pair)
    BY DEF JobsOf, OneEach
<1>3. \A job \in own : SlotOf(job.pair) \in 0 .. Used - 1 /\ job.pair = t * Used + SlotOf(job.pair)
    BY <1>2, PairsAre, PairIs
<1>4. h \in [own -> 1 .. Used]
    BY <1>1, <1>3
<1>5. ASSUME NEW i \in own, NEW j \in own, h[i] = h[j] PROVE i = j
  <2>1. SlotOf(i.pair) = SlotOf(j.pair)
      BY <1>1, <1>3, <1>5
  <2>2. i.pair = j.pair
      BY <1>3, <2>1
  <2> QED BY <1>2, <2>2 DEF OneEach
<1>6. ASSUME NEW k \in 1 .. Used PROVE \E job \in own : h[job] = k
  <2>1. k - 1 \in 0 .. Used - 1
      BY <1>1
  <2>2. t * Used + (k - 1) \in Pairs /\ PairToken(t * Used + (k - 1)) = t /\ SlotOf(t * Used + (k - 1)) = k - 1
      BY <2>1, PairOf
  <2>3. PICK job \in jobs : job.pair = t * Used + (k - 1)
      BY <2>2 DEF OneEach
  <2>4. job \in own /\ h[job] = (k - 1) + 1
      BY <2>2, <2>3 DEF JobsOf
  <2> QED BY <2>4
<1>7. \A job \in own : v[job] = w[h[job]]
  <2> TAKE job \in own
  <2>1. v[job] = <<ExpertOf(job.pair), Mid(job.pair)>>
      BY <1>2 DEF Projected
  <2>2. h[job] \in 1 .. Used
      BY <1>4
  <2>3. ExpertOf(job.pair) = chosen[t][h[job]] /\ WeightOf(job.pair) = weight[t][h[job]]
      BY <1>2 DEF ExpertOf, WeightOf
  <2> QED BY <1>2, <2>1, <2>2, <2>3 DEF Mid
<1>8. IsFiniteSet(own)
  <2>1. h \in Injection(own, 1 .. Used)
      BY <1>4, <1>5 DEF Injection, IsInjective
  <2>2. IsFiniteSet(1 .. Used)
      BY <1>1, FS_Interval
  <2> QED BY <2>1, <2>2, FS_Injection
<1>9. h \in Bijection(DOMAIN v, DOMAIN w)
  <2>1. h \in Bijection(own, 1 .. Used)
      BY <1>4, <1>5, <1>6 DEF Bijection, Injection, Surjection, IsInjective
  <2> QED BY <1>1, <2>1
<1> HIDE DEF v, w, h
<1>10. AddedBy(v) = AddedBy(w)
    BY <1>1, <1>7, <1>8, <1>9, AddedAlike
<1> QED
    BY <1>10 DEF v, w, Sum

LEMMA EachPair ==
    ASSUME batch \in Batches
    PROVE  OneEach(PairJobs)
<1>1. \A job \in PairJobs : \E p \in Pairs : job = Job(p, p, ExpertOf(p))
    BY DEF PairJobs
<1>2. \A p \in Pairs : Job(p, p, ExpertOf(p)) \in PairJobs
    BY DEF PairJobs
<1>3. \A p : Job(p, p, ExpertOf(p)).pair = p /\ Job(p, p, ExpertOf(p)).expert = ExpertOf(p)
    BY DEF Job
<1>4. \A job \in PairJobs : job.pair \in Pairs /\ job.expert = ExpertOf(job.pair)
    BY <1>1, <1>3
<1>5. \A p \in Pairs : \E job \in PairJobs : job.pair = p
    BY <1>2, <1>3
<1>6. \A i, j \in PairJobs : i.pair = j.pair => i = j
    BY <1>1, <1>3
<1> QED
    BY <1>4, <1>5, <1>6 DEF OneEach

-----------------------------------------------------------------------------
(* The sorted pairs: every expert has its own, one behind the other. *)

SortedBy(s) ==
    /\ \A e \in ExpertIds, i \in Pairs :
          OffsetOf(e) <= i /\ i < OffsetOf(e) + CountOf(e) => s[i] \in Pairs /\ ExpertOf(s[i]) = e
    /\ \A i, j \in Pairs : s[i] = s[j] => i = j

Sorted == SortedBy(sorted)

LEMMA SortedIs ==
    ASSUME Routed, Sorted
    PROVE  /\ \A i \in Pairs : sorted[i] \in Pairs
           /\ \A p \in Pairs : \E i \in Pairs : sorted[i] = p
<1>1. \A i \in Pairs : sorted[i] \in Pairs
    BY PlaceOfOne DEF Sorted, SortedBy
<1> DEFINE f == [i \in Pairs |-> sorted[i]]
<1>2. f \in Injection(Pairs, Pairs)
    BY <1>1 DEF Sorted, SortedBy, Injection, IsInjective
<1>3. IsFiniteSet(Pairs)
    BY PairsAre DEF Routed
<1>4. f \in Surjection(Pairs, Pairs)
  <2> HIDE DEF f
  <2> QED BY <1>2, <1>3, FS_Injection
<1>5. \A p \in Pairs : \E i \in Pairs : f[i] = p
  <2> HIDE DEF f
  <2> QED BY <1>4 DEF Surjection
<1> QED
    BY <1>1, <1>5

LEMMA EachSorted ==
    ASSUME Routed, Sorted
    PROVE  OneEach(SortedJobs)
<1> DEFINE J(i) == Job(i, sorted[i], ExpertOf(sorted[i]))
<1>1. \A job \in SortedJobs : \E i \in Pairs : job = J(i)
    BY DEF SortedJobs
<1>2. \A i \in Pairs : J(i) \in SortedJobs
    BY DEF SortedJobs
<1>3. \A i : J(i).pair = sorted[i] /\ J(i).expert = ExpertOf(sorted[i])
    BY DEF Job
<1> HIDE DEF J
<1>4. /\ \A i \in Pairs : sorted[i] \in Pairs
      /\ \A p \in Pairs : \E i \in Pairs : sorted[i] = p
      /\ \A i, j \in Pairs : sorted[i] = sorted[j] => i = j
    BY SortedIs DEF Sorted, SortedBy
<1>5. \A job \in SortedJobs : job.pair \in Pairs /\ job.expert = ExpertOf(job.pair)
    BY <1>1, <1>3, <1>4
<1>6. \A p \in Pairs : \E job \in SortedJobs : job.pair = p
    BY <1>2, <1>3, <1>4
<1>7. \A i, j \in SortedJobs : i.pair = j.pair => i = j
    BY <1>1, <1>3, <1>4
<1> QED
    BY <1>5, <1>6, <1>7 DEF OneEach

(* Tiles of m pairs cut each expert's pairs. *)
CountsAre == \A e \in ExpertIds : lists.counts[e] = CountOf(e)
OffsetsAre == \A e \in ExpertIds : lists.offsets[e] = OffsetOf(e)

LEMMA TilesAre ==
    ASSUME Routed, CountsAre, NEW m \in Nat \ {0}
    PROVE  /\ \A tile \in TileList(lists.counts, m) :
                 \E e \in ExpertIds, k \in Nat : tile = <<e, k * m>> /\ k * m \in Nat /\ k * m < CountOf(e)
           /\ \A e \in ExpertIds, k \in Nat :
                 k * m < CountOf(e) => <<e, k * m>> \in TileList(lists.counts, m)
<1>1. ASSUME NEW e \in ExpertIds, NEW k \in Nat
      PROVE  /\ k * m \in Nat
             /\ k \in 0..((lists.counts[e] + m - 1) \div m - 1) <=> k * m < CountOf(e)
  <2>0. e \in Int /\ lists.counts[e] = CountOf(e)
      BY Constants DEF CountsAre
  <2>1. PICK c \in Nat : c = CountOf(e) /\ lists.counts[e] = c
      BY <2>0, Counted
  <2>2. c + m - 1 \in Nat /\ k * m \in Nat
      OBVIOUS
  <2>3. PICK q \in Nat, r \in 0 .. m - 1 : q = (c + m - 1) \div m /\ c + m - 1 = q * m + r /\ q * m \in Nat
      BY <2>2, DivMod, Zenon
  <2>4. CASE k + 1 <= q
    <3>1. (k + 1) * m <= q * m /\ (k + 1) * m = k * m + m
        BY <2>3, <2>4, TimesMonotone
    <3>2. k * m < c
        BY <2>2, <2>3, <3>1
    <3> QED BY <2>1, <2>2, <2>3, <2>4, <3>2
  <2>5. CASE q <= k
    <3>1. q * m <= k * m
        BY <2>3, <2>5, TimesMonotone
    <3>2. ~ (k * m < c)
        BY <2>2, <2>3, <3>1
    <3> QED BY <2>1, <2>2, <2>3, <2>5, <3>2
  <2> QED BY <2>3, <2>4, <2>5
<1>2. ASSUME NEW tile \in TileList(lists.counts, m)
      PROVE  \E e \in ExpertIds, k \in Nat : tile = <<e, k * m>> /\ k * m \in Nat /\ k * m < CountOf(e)
  <2>1. PICK e \in ExpertIds : \E k \in 0..((lists.counts[e] + m - 1) \div m - 1) : tile = <<e, k * m>>
      BY DEF TileList
  <2>2. PICK k \in 0..((lists.counts[e] + m - 1) \div m - 1) : tile = <<e, k * m>>
      BY <2>1
  <2>3. k \in Nat
      OBVIOUS
  <2> QED BY <1>1, <2>2, <2>3
<1>3. ASSUME NEW e \in ExpertIds, NEW k \in Nat, k * m < CountOf(e)
      PROVE  <<e, k * m>> \in TileList(lists.counts, m)
  <2>1. k \in 0..((lists.counts[e] + m - 1) \div m - 1)
      BY <1>1, <1>3
  <2> QED BY <2>1 DEF TileList
<1> QED
    BY <1>2, <1>3

(* Jobs of tiles that take m pairs each, from every m-th. *)
LEMMA EachTile ==
    ASSUME Routed, Sorted, CountsAre, OffsetsAre, NEW m \in Nat \ {0}, NEW tiles,
           \A tile \in tiles :
               \E e \in ExpertIds, k \in Nat : tile = <<e, k * m>> /\ k * m \in Nat /\ k * m < CountOf(e),
           \A e \in ExpertIds, k \in Nat : k * m < CountOf(e) => <<e, k * m>> \in tiles
    PROVE  OneEach(TileJobs(tiles, m))
<1> DEFINE J(e, s, k) == Job(<<<<e, s>>, k>>, sorted[OffsetOf(e) + s + k], e)
<1>0. \A e \in ExpertIds : /\ CountOf(e) \in Nat /\ OffsetOf(e) \in Nat
                           /\ lists.counts[e] = CountOf(e) /\ lists.offsets[e] = OffsetOf(e)
    BY Counted, Constants DEF CountsAre, OffsetsAre
<1>1. ASSUME NEW job \in TileJobs(tiles, m)
      PROVE  \E e \in ExpertIds, n \in Nat, k \in 0 .. m - 1 :
                 job = J(e, n * m, k) /\ n * m \in Nat /\ n * m + k < CountOf(e)
  <2>1. PICK tile \in tiles, k \in 0 .. m - 1 :
            /\ job = Job(<<tile, k>>, sorted[lists.offsets[tile[1]] + tile[2] + k], tile[1])
            /\ tile[2] + k < lists.counts[tile[1]]
      BY DEF TileJobs
  <2>2. PICK e \in ExpertIds, n \in Nat : tile = <<e, n * m>> /\ n * m \in Nat
      OBVIOUS
  <2>3. tile[1] = e /\ tile[2] = n * m
      BY <2>2
  <2>4. job = J(e, n * m, k) /\ n * m + k < CountOf(e)
      BY <1>0, <2>1, <2>2, <2>3
  <2> HIDE DEF J
  <2> QED BY <2>2, <2>4
<1>2. ASSUME NEW e \in ExpertIds, NEW n \in Nat, NEW k \in 0 .. m - 1,
             n * m \in Nat, n * m + k < CountOf(e)
      PROVE  J(e, n * m, k) \in TileJobs(tiles, m)
  <2>1. n * m < CountOf(e)
      BY <1>0, <1>2
  <2>2. <<e, n * m>> \in tiles
      BY <2>1
  <2> DEFINE tile == <<e, n * m>>
  <2>3. /\ tile[1] = e /\ tile[2] = n * m /\ tile \in tiles
        /\ k \in {i \in 0..(m - 1) : tile[2] + i < lists.counts[tile[1]]}
      BY <1>0, <1>2, <2>2
  <2>4. J(e, n * m, k) = Job(<<tile, k>>, sorted[lists.offsets[tile[1]] + tile[2] + k], tile[1])
      BY <1>0
  <2> HIDE DEF tile, J
  <2> QED BY <2>3, <2>4 DEF TileJobs
<1>3. \A e, s, k : J(e, s, k).pair = sorted[OffsetOf(e) + s + k] /\ J(e, s, k).expert = e
    BY DEF Job
<1> HIDE DEF J
<1>4. ASSUME NEW e \in ExpertIds, NEW s \in Nat, NEW k \in Nat, s + k < CountOf(e)
      PROVE  /\ OffsetOf(e) + s + k \in Pairs
             /\ OffsetOf(e) <= OffsetOf(e) + s + k /\ OffsetOf(e) + s + k < OffsetOf(e) + CountOf(e)
             /\ sorted[OffsetOf(e) + s + k] \in Pairs
             /\ ExpertOf(sorted[OffsetOf(e) + s + k]) = e
  <2>1. PICK o \in Nat, c \in Nat : o = OffsetOf(e) /\ c = CountOf(e)
      BY <1>0
  <2>2. o + s + k \in o .. (o + c - 1)
      BY <1>4, <2>1
  <2>3. o + s + k \in Pairs
      BY <2>1, <2>2, PlacesArePairs
  <2>4. o <= o + s + k /\ o + s + k < o + c
      BY <1>4, <2>1
  <2> QED BY <2>1, <2>3, <2>4 DEF Sorted, SortedBy
<1>5. ASSUME NEW job \in TileJobs(tiles, m)
      PROVE  job.pair \in Pairs /\ job.expert = ExpertOf(job.pair)
  <2>1. PICK e \in ExpertIds, n \in Nat, k \in 0 .. m - 1 :
            job = J(e, n * m, k) /\ n * m \in Nat /\ n * m + k < CountOf(e)
      BY <1>1
  <2>2. k \in Nat
      OBVIOUS
  <2> QED BY <1>3, <1>4, <2>1, <2>2
<1>6. ASSUME NEW p \in Pairs
      PROVE  \E job \in TileJobs(tiles, m) : job.pair = p
  <2>1. PICK i \in Pairs : sorted[i] = p
      BY SortedIs
  <2>2. PICK e \in ExpertIds : OffsetOf(e) <= i /\ i < OffsetOf(e) + CountOf(e)
      BY PlaceOfOne
  <2>3. i \in Nat /\ OffsetOf(e) \in Nat /\ CountOf(e) \in Nat
      BY <1>0, PairsAre DEF Routed
  <2>4. PICK d \in Nat : d = i - OffsetOf(e)
      BY <2>2, <2>3
  <2>5. PICK n \in Nat, k \in 0 .. m - 1 : d = n * m + k /\ n * m \in Nat
      BY DivMod, Zenon
  <2>6. n * m + k < CountOf(e) /\ OffsetOf(e) + n * m + k = i
      BY <2>2, <2>3, <2>4, <2>5
  <2>7. J(e, n * m, k) \in TileJobs(tiles, m)
      BY <1>2, <2>5, <2>6
  <2>8. J(e, n * m, k).pair = p
      BY <1>3, <2>1, <2>6
  <2> QED BY <2>7, <2>8
<1>7. ASSUME NEW x \in TileJobs(tiles, m), NEW y \in TileJobs(tiles, m), x.pair = y.pair
      PROVE  x = y
  <2>1. PICK d \in ExpertIds, n \in Nat, k \in 0 .. m - 1 :
            x = J(d, n * m, k) /\ n * m \in Nat /\ n * m + k < CountOf(d)
      BY <1>1
  <2>2. PICK e \in ExpertIds, o \in Nat, l \in 0 .. m - 1 :
            y = J(e, o * m, l) /\ o * m \in Nat /\ o * m + l < CountOf(e)
      BY <1>1
  <2>3. k \in Nat /\ l \in Nat
      OBVIOUS
  <2>4. /\ OffsetOf(d) + n * m + k \in Pairs /\ OffsetOf(e) + o * m + l \in Pairs
        /\ ExpertOf(x.pair) = d /\ ExpertOf(y.pair) = e
        /\ x.pair = sorted[OffsetOf(d) + n * m + k] /\ y.pair = sorted[OffsetOf(e) + o * m + l]
      BY <1>3, <1>4, <2>1, <2>2, <2>3
  <2>5. d = e /\ OffsetOf(d) + n * m + k = OffsetOf(d) + o * m + l
      BY <1>7, <2>4 DEF Sorted, SortedBy
  <2>6. n * m + k = o * m + l
      BY <1>0, <2>1, <2>2, <2>3, <2>5
  <2>7. n = o /\ k = l
    <3>1. PICK a \in Nat : a = n * m + k
        BY <2>1, <2>3
    <3>2. a \div m = n /\ a % m = k
        BY <2>3, <3>1, DivModIs
    <3>3. a \div m = o /\ a % m = l
        BY <2>3, <2>6, <3>1, DivModIs
    <3> QED BY <3>2, <3>3
  <2> QED BY <2>1, <2>2, <2>5, <2>7
<1> QED
    BY <1>5, <1>6, <1>7 DEF OneEach

(* Every other tile of half the size starts where a whole one does. *)
LEMMA EvenTilesAre ==
    ASSUME Routed, CountsAre, NEW n \in {Tile, 2 * Tile}
    PROVE  LET even == EvenTiles(TileList(lists.counts, n))
               m == 2 * Tile
           IN  /\ \A tile \in even :
                     \E e \in ExpertIds, k \in Nat : tile = <<e, k * m>> /\ k * m \in Nat /\ k * m < CountOf(e)
               /\ \A e \in ExpertIds, k \in Nat : k * m < CountOf(e) => <<e, k * m>> \in even
<1>1. PICK h \in Nat \ {0} : h = Tile
    BY Constants
<1>2. PICK m \in Nat \ {0} : m = 2 * Tile /\ m = 2 * h
    BY <1>1
<1> DEFINE all == TileList(lists.counts, n)
           even == EvenTiles(all)
<1>3. n \in Nat \ {0}
    BY <1>1, <1>2
<1>4. /\ \A tile \in all : \E e \in ExpertIds, k \in Nat : tile = <<e, k * n>> /\ k * n \in Nat /\ k * n < CountOf(e)
      /\ \A e \in ExpertIds, k \in Nat : k * n < CountOf(e) => <<e, k * n>> \in all
    BY <1>3, TilesAre
<1>a. \A k \in Nat : k * h \in Nat /\ (k * h) \div h = k
  <2> TAKE k \in Nat
  <2>1. PICK a \in Nat : a = k * h
      BY <1>1
  <2>2. a = k * h + 0
      BY <2>1
  <2>3. a \div h = k
      BY <1>1, <2>2, DivModIs
  <2> QED BY <2>1, <2>3
<1>b. \A k \in Nat : k * m = (2 * k) * h /\ 2 * k \in Nat /\ (2 * k) % 2 = 0 /\ k * m \in Nat
    BY <1>2
<1> HIDE DEF all
<1>5. ASSUME NEW tile \in even
      PROVE  \E e \in ExpertIds, k \in Nat : tile = <<e, k * m>> /\ k * m \in Nat /\ k * m < CountOf(e)
  <2>1. tile \in all /\ (tile[2] \div h) % 2 = 0
      BY <1>1 DEF EvenTiles
  <2>2. PICK e \in ExpertIds, k \in Nat : tile = <<e, k * n>> /\ k * n \in Nat /\ k * n < CountOf(e)
      BY <1>4, <2>1
  <2>3. CASE n = m
      BY <2>2, <2>3
  <2>4. CASE n = h
    <3>1. tile[2] = k * h
        BY <2>2, <2>4
    <3>2. k % 2 = 0
        BY <1>a, <2>1, <3>1
    <3>3. PICK j \in Nat : k = 2 * j
        BY <3>2
    <3>4. k * n = j * m
        BY <1>b, <2>4, <3>3
    <3> QED BY <2>2, <3>4
  <2> QED BY <1>1, <1>2, <2>3, <2>4
<1>6. ASSUME NEW e \in ExpertIds, NEW k \in Nat, k * m < CountOf(e)
      PROVE  <<e, k * m>> \in even
  <2>1. <<e, k * m>> \in all
    <3>1. CASE n = m
        BY <1>4, <1>6, <3>1
    <3>2. CASE n = h
      <4>1. (2 * k) * n = k * m /\ 2 * k \in Nat
          BY <1>b, <3>2
      <4>2. (2 * k) * n < CountOf(e)
          BY <1>6, <4>1
      <4>3. <<e, (2 * k) * n>> \in all
          BY <1>4, <4>1, <4>2
      <4> QED BY <4>1, <4>3
    <3> QED BY <1>1, <1>2, <3>1, <3>2
  <2>2. (k * m) \div h = 2 * k
      BY <1>a, <1>b
  <2>3. ((k * m) \div h) % 2 = 0
      BY <1>b, <2>2
  <2> QED BY <1>1, <2>1, <2>3 DEF EvenTiles
<1> QED
    BY <1>2, <1>5, <1>6 DEF all

Tiled ==
    /\ CountsAre /\ OffsetsAre
    /\ lists.tiles = TileList(lists.counts, TileM)
    /\ Tile16 => lists.tiles16 = TileList(lists.counts, 2 * Tile)

LEMMA EachGate ==
    ASSUME Routed, Many => Sorted, Tiles => Tiled
    PROVE  OneEach(GateJobs)
<1>1. CASE Tiles
  <2>1. Tile \in Nat \ {0} /\ Tile % 2 = 0
      BY Constants, DispatchAssumption
  <2>2. TileM \in Nat \ {0}
    <3>1. Tile \div 2 \in Nat \ {0}
        BY <2>1
    <3> QED BY <2>1, <3>1 DEF TileM
  <2>3. OneEach(TileJobs(lists.tiles, TileM))
      BY <1>1, <2>2, TilesAre, EachTile DEF Tiled, Tiles
  <2> QED BY <1>1, <2>3 DEF GateJobs
<1>2. CASE ~ Tiles
    BY <1>2, EachSorted, EachPair DEF GateJobs, Routed
<1> QED
    BY <1>1, <1>2

LEMMA EachDown ==
    ASSUME Routed, Many => Sorted, Tiles => Tiled
    PROVE  OneEach(DownJobs)
<1>1. CASE Tiles
  <2>1. Tile \in Nat \ {0} /\ Tile % 2 = 0 /\ 2 * Tile \in Nat \ {0}
      BY Constants, DispatchAssumption
  <2>2. TileM \in Nat \ {0}
    <3>1. Tile \div 2 \in Nat \ {0}
        BY <2>1
    <3> QED BY <2>1, <3>1 DEF TileM
  <2>0. Sorted /\ CountsAre /\ OffsetsAre
      BY <1>1 DEF Tiled, Tiles
  <2>3. CASE Row2048
    <3>1. TileM = Tile
        BY <2>3 DEF Row2048
    <3>2. PICK n \in {Tile, 2 * Tile} : DownTiles = TileList(lists.counts, n)
        BY <1>1, <3>1 DEF Tiled, DownTiles
    <3>3. OneEach(TileJobs(EvenTiles(DownTiles), 2 * Tile))
        BY <2>0, <2>1, <3>2, EvenTilesAre, EachTile
    <3> QED BY <1>1, <2>3, <3>3 DEF DownJobs
  <2>4. CASE ~ Row2048
    <3>1. PICK n \in {TileM, 2 * Tile} : /\ DownTiles = TileList(lists.counts, n)
                                         /\ n = IF Tile16 THEN 2 * Tile ELSE TileM
        BY <1>1 DEF Tiled, DownTiles
    <3>2. n \in Nat \ {0}
        BY <2>1, <2>2
    <3>3. OneEach(TileJobs(DownTiles, n))
        BY <2>0, <3>1, <3>2, TilesAre, EachTile
    <3> QED BY <1>1, <2>4, <3>1, <3>3 DEF DownJobs
  <2> QED BY <2>3, <2>4
<1>2. CASE ~ Tiles
    BY <1>2, EachSorted, EachPair DEF DownJobs, Routed
<1> QED
    BY <1>1, <1>2

-----------------------------------------------------------------------------
(* The CPU's counting sort: a pair goes behind those of lower experts and
   the earlier ones of its own.                                            *)

Earlier(p) == {q \in Pairs : q < p /\ ExpertOf(q) = ExpertOf(p)}
Place(p) == OffsetOf(ExpertOf(p)) + Cardinality(Earlier(p))

LEMMA GroupPlace ==
    ASSUME Routed, NEW p \in Pairs
    PROVE  /\ Place(p) \in Pairs /\ OffsetOf(ExpertOf(p)) <= Place(p)
           /\ Place(p) < OffsetOf(ExpertOf(p)) + CountOf(ExpertOf(p))
<1> DEFINE own == {q \in Pairs : ExpertOf(q) = ExpertOf(p)}
<1>1. IsFiniteSet(own) /\ p \in own /\ IsFiniteSet(Pairs) /\ Pairs \subseteq Nat
    BY PairsAre, FS_Subset DEF Routed
<1>2. Earlier(p) \subseteq own /\ p \notin Earlier(p)
    BY <1>1 DEF Earlier
<1>3. /\ Cardinality(Earlier(p)) <= Cardinality(own)
      /\ Cardinality(Earlier(p)) # Cardinality(own)
      /\ Cardinality(Earlier(p)) \in Nat /\ Cardinality(own) \in Nat
  <2>1. Earlier(p) \in SUBSET own /\ Earlier(p) # own
      BY <1>1, <1>2
  <2> HIDE DEF own
  <2> QED BY <1>1, <2>1, FS_Subset, FS_CardinalityType
<1>4. ExpertOf(p) \in ExpertIds /\ Cardinality(own) = CountOf(ExpertOf(p))
    BY ExpertsAre DEF CountOf
<1> HIDE DEF own
<1>5. PICK o \in Nat, k \in Nat, c \in Nat :
          /\ o = OffsetOf(ExpertOf(p)) /\ k = Cardinality(Earlier(p)) /\ c = CountOf(ExpertOf(p)) /\ k < c
  <2>1. ExpertOf(p) \in Int
      BY <1>4, Constants
  <2>2. OffsetOf(ExpertOf(p)) \in Nat
      BY <2>1, Counted
  <2> QED BY <1>3, <1>4, <2>2
<1>6. o + k \in o .. (o + c - 1)
    BY <1>5
<1>7. o + k \in Pairs
    BY <1>4, <1>5, <1>6, PlacesArePairs
<1> QED
    BY <1>5, <1>7 DEF Place

LEMMA PlacesDiffer ==
    ASSUME Routed, NEW p \in Pairs, NEW q \in Pairs, Place(p) = Place(q)
    PROVE  p = q
<1>1. ExpertOf(p) = ExpertOf(q)
    BY GroupPlace, PlacesApart, ExpertsAre
<1>2. IsFiniteSet(Pairs) /\ Pairs \subseteq Nat
    BY PairsAre DEF Routed
<1>3. ASSUME NEW x \in Pairs, NEW y \in Pairs, x < y, ExpertOf(x) = ExpertOf(y)
      PROVE  Place(x) # Place(y)
  <2>0. ASSUME NEW z \in Earlier(x) PROVE z \in Earlier(y)
    <3>1. z \in Pairs /\ z < x /\ ExpertOf(z) = ExpertOf(x)
        BY DEF Earlier
    <3>2. z \in Nat /\ x \in Nat /\ y \in Nat
        BY <1>2, <3>1
    <3>3. z < y
        BY <1>3, <3>1, <3>2
    <3> QED BY <1>3, <3>1, <3>3 DEF Earlier
  <2>a. x \in Nat
      BY <1>2
  <2>b. x \in Earlier(y)
      BY <1>3 DEF Earlier
  <2>c. x \notin Earlier(x)
      BY <2>a DEF Earlier
  <2>1. Earlier(x) \in SUBSET Earlier(y) /\ x \in Earlier(y) /\ x \notin Earlier(x)
      BY <2>0, <2>b, <2>c
  <2>2. IsFiniteSet(Earlier(y)) /\ Earlier(x) # Earlier(y)
      BY <1>2, <2>1, FS_Subset DEF Earlier
  <2>3. /\ Cardinality(Earlier(x)) # Cardinality(Earlier(y))
        /\ Cardinality(Earlier(x)) \in Nat /\ Cardinality(Earlier(y)) \in Nat
    <3>1. IsFiniteSet(Earlier(x)) /\ Cardinality(Earlier(x)) # Cardinality(Earlier(y))
        BY <2>1, <2>2, FS_Subset
    <3> QED BY <2>2, <3>1, FS_CardinalityType
  <2>4. OffsetOf(ExpertOf(x)) \in Nat
      BY ExpertsAre, Constants, Counted
  <2> QED BY <1>3, <2>3, <2>4 DEF Place
<1>4. ~ (p < q) /\ ~ (q < p)
    BY <1>1, <1>3
<1> QED
    BY <1>2, <1>4

LEMMA PlacesFull ==
    ASSUME Routed, NEW i \in Pairs
    PROVE  \E p \in Pairs : i = Place(p)
<1> DEFINE f == [p \in Pairs |-> Place(p)]
<1>1. f \in Injection(Pairs, Pairs)
    BY GroupPlace, PlacesDiffer DEF Injection, IsInjective
<1>2. IsFiniteSet(Pairs)
    BY PairsAre DEF Routed
<1>3. f \in Surjection(Pairs, Pairs)
  <2> HIDE DEF f
  <2> QED BY <1>1, <1>2, FS_Injection
<1>4. \E p \in Pairs : f[p] = i
  <2> HIDE DEF f
  <2> QED BY <1>3 DEF Surjection
<1> QED
    BY <1>4

LEMMA Grouped ==
    ASSUME Routed,
           NEW s, s = [i \in Pairs |->
               CHOOSE p \in Pairs :
                   i = OffsetOf(ExpertOf(p)) + Cardinality({q \in Pairs : q < p /\ ExpertOf(q) = ExpertOf(p)})]
    PROVE  SortedBy(s)
<1>1. \A i \in Pairs : s[i] = CHOOSE p \in Pairs : i = Place(p)
    BY DEF Place, Earlier
<1>2. \A i \in Pairs : s[i] \in Pairs /\ i = Place(s[i])
    BY <1>1, PlacesFull
<1>3. ASSUME NEW e \in ExpertIds, NEW i \in Pairs, OffsetOf(e) <= i, i < OffsetOf(e) + CountOf(e)
      PROVE  ExpertOf(s[i]) = e
  <2>1. s[i] \in Pairs /\ i = Place(s[i])
      BY <1>2
  <2>2. ExpertOf(s[i]) \in ExpertIds
      BY <2>1, ExpertsAre
  <2>3. OffsetOf(ExpertOf(s[i])) <= i /\ i < OffsetOf(ExpertOf(s[i])) + CountOf(ExpertOf(s[i]))
      BY <2>1, GroupPlace
  <2> QED BY <1>3, <2>2, <2>3, PlacesApart
<1>4. \A i, j \in Pairs : s[i] = s[j] => i = j
    BY <1>2
<1> QED
    BY <1>2, <1>3, <1>4 DEF SortedBy

LEMMA EachCpu ==
    ASSUME Routed, Sorted, \A e \in 0 .. Experts : lists.counts[e] = OffsetOf(e)
    PROVE  OneEach(CpuJobs)
<1> DEFINE J(e, i) == Job(i, sorted[i], e)
<1>0. \A e \in ExpertIds : /\ OffsetOf(e) \in Nat /\ CountOf(e) \in Nat
                           /\ lists.counts[e] = OffsetOf(e)
                           /\ lists.counts[e + 1] = OffsetOf(e) + CountOf(e)
  <2> TAKE e \in ExpertIds
  <2>1. e \in 0 .. Experts /\ e + 1 \in 0 .. Experts /\ e \in Int
      BY Constants
  <2> QED BY <2>1, Counted
<1>1. ASSUME NEW job \in CpuJobs
      PROVE  \E e \in ExpertIds, i \in Pairs :
                 job = J(e, i) /\ OffsetOf(e) <= i /\ i < OffsetOf(e) + CountOf(e)
  <2>1. PICK e \in ExpertIds : \E i \in lists.counts[e]..(lists.counts[e + 1] - 1) : job = J(e, i)
      BY DEF CpuJobs
  <2>2. PICK i \in OffsetOf(e)..(OffsetOf(e) + CountOf(e) - 1) : job = J(e, i)
      BY <1>0, <2>1
  <2>3. i \in Pairs
      BY <2>2, PlacesArePairs
  <2>4. OffsetOf(e) <= i /\ i < OffsetOf(e) + CountOf(e)
      BY <1>0
  <2> HIDE DEF J
  <2> QED BY <2>2, <2>3, <2>4
<1>2. ASSUME NEW e \in ExpertIds, NEW i \in Pairs, OffsetOf(e) <= i, i < OffsetOf(e) + CountOf(e)
      PROVE  J(e, i) \in CpuJobs
  <2>1. i \in Nat
      BY PairsAre DEF Routed
  <2>2. i \in lists.counts[e]..(lists.counts[e + 1] - 1)
      BY <1>0, <1>2, <2>1
  <2> QED BY <2>2 DEF CpuJobs
<1>3. \A e, i : J(e, i).pair = sorted[i] /\ J(e, i).expert = e
    BY DEF Job
<1> HIDE DEF J
<1>4. ASSUME NEW job \in CpuJobs
      PROVE  job.pair \in Pairs /\ job.expert = ExpertOf(job.pair)
    BY <1>1, <1>3 DEF Sorted, SortedBy
<1>5. ASSUME NEW p \in Pairs
      PROVE  \E job \in CpuJobs : job.pair = p
  <2>1. PICK i \in Pairs : sorted[i] = p
      BY SortedIs
  <2>2. PICK e \in ExpertIds : OffsetOf(e) <= i /\ i < OffsetOf(e) + CountOf(e)
      BY PlaceOfOne
  <2> QED BY <1>2, <1>3, <2>1, <2>2
<1>6. ASSUME NEW x \in CpuJobs, NEW y \in CpuJobs, x.pair = y.pair
      PROVE  x = y
  <2>1. PICK d \in ExpertIds, i \in Pairs : x = J(d, i) /\ OffsetOf(d) <= i /\ i < OffsetOf(d) + CountOf(d)
      BY <1>1
  <2>2. PICK e \in ExpertIds, j \in Pairs : y = J(e, j) /\ OffsetOf(e) <= j /\ j < OffsetOf(e) + CountOf(e)
      BY <1>1
  <2>3. i = j
      BY <1>3, <1>6, <2>1, <2>2 DEF Sorted, SortedBy
  <2>4. d = e
      BY <2>1, <2>2, <2>3, PlacesApart
  <2> QED BY <2>1, <2>2, <2>3, <2>4
<1> QED
    BY <1>4, <1>5, <1>6 DEF OneEach

-----------------------------------------------------------------------------
(* The scatter: an expert's cursor has passed those of its pairs whose
   threads ran.                                                            *)

LEMMA PrefixIs ==
    ASSUME Routed, NEW counts, \A e \in ExpertIds : counts[e] = CountOf(e)
    PROVE  /\ PrefixSums(counts) = [e \in 0..Experts |-> PrefixSums(counts)[e]]
           /\ \A e \in 0..Experts : PrefixSums(counts)[e] = OffsetOf(e)
<1> DEFINE IsSum(f) == f = [e \in 0..Experts |-> IF e = 0 THEN 0 ELSE f[e - 1] + counts[e - 1]]
           sum == PrefixSums(counts)
           g == [e \in 0..Experts |-> OffsetOf(e)]
<1>1. Experts \in Nat
    BY Constants
<1>2. ASSUME NEW e \in 0..Experts, e # 0
      PROVE  e - 1 \in 0..Experts /\ e - 1 \in 0 .. Experts - 1 /\ OffsetOf(e) = OffsetOf(e - 1) + counts[e - 1]
  <2>1. e - 1 \in 0..Experts /\ e - 1 \in ExpertIds /\ e - 1 \in Int /\ (e - 1) + 1 = e
      BY <1>1, <1>2, Constants
  <2> QED BY <2>1, Counted, Constants
<1>3. OffsetOf(0) = 0
    BY Counted
<1>4. IsSum(g)
  <2>1. \A e \in 0..Experts : g[e] = IF e = 0 THEN 0 ELSE g[e - 1] + counts[e - 1]
      BY <1>2, <1>3
  <2> QED BY <2>1
<1>5. \E f : IsSum(f)
  <2> HIDE DEF IsSum, g
  <2> QED BY <1>4
<1>6. sum = CHOOSE f : IsSum(f)
    BY DEF PrefixSums
<1>7. IsSum(sum)
  <2> HIDE DEF IsSum, sum
  <2> QED BY <1>5, <1>6
<1> HIDE DEF sum
<1> DEFINE T == {e \in 0..Experts : sum[e] = OffsetOf(e)}
<1>8. 0 \in T
    BY <1>1, <1>3, <1>7
<1>9. ASSUME NEW n \in 0..Experts - 1, n \in T PROVE n + 1 \in T
  <2>1. n + 1 \in 0..Experts /\ n + 1 # 0 /\ (n + 1) - 1 = n
      BY <1>1
  <2>2. sum[n + 1] = sum[n] + counts[n]
      BY <1>7, <2>1
  <2>3. OffsetOf(n + 1) = OffsetOf(n) + counts[n]
      BY <1>2, <2>1
  <2> QED BY <1>9, <2>1, <2>2, <2>3
<1> HIDE DEF T
<1>10. \A e \in 0..Experts : e \in T
    BY <1>1, <1>8, <1>9, InductUpTo, Zenon
<1>11. sum = [e \in 0..Experts |-> sum[e]]
    BY <1>7
<1> QED
    BY <1>10, <1>11 DEF T, sum

Ran(left, e) == Cardinality({p \in Pairs \ left : ExpertOf(p) = e})

Scattered(left, cursors, s) ==
    /\ left \subseteq Pairs
    /\ cursors = [e \in 0..Experts |-> cursors[e]] /\ s = [i \in Pairs |-> s[i]]
    /\ \A e \in ExpertIds : cursors[e] = OffsetOf(e) + Ran(left, e)
    /\ \A e \in ExpertIds, i \in Pairs :
          OffsetOf(e) <= i /\ i < cursors[e] => s[i] \in Pairs \ left /\ ExpertOf(s[i]) = e
    /\ \A e \in ExpertIds, i, j \in Pairs :
          /\ OffsetOf(e) <= i /\ i < cursors[e] /\ OffsetOf(e) <= j /\ j < cursors[e] /\ s[i] = s[j]
          => i = j

LEMMA RanIs ==
    ASSUME Routed, NEW left, left \subseteq Pairs
    PROVE  /\ \A e \in ExpertIds : Ran(left, e) \in Nat /\ Ran(left, e) <= CountOf(e)
           /\ \A p \in left, e \in ExpertIds :
                 /\ Ran(left \ {p}, e) = IF e = ExpertOf(p) THEN Ran(left, e) + 1 ELSE Ran(left, e)
                 /\ e = ExpertOf(p) => Ran(left, e) < CountOf(e)
<1>1. IsFiniteSet(Pairs)
    BY PairsAre DEF Routed
<1>2. ASSUME NEW rest \in SUBSET Pairs, NEW e \in ExpertIds
      PROVE  Ran(rest, e) \in Nat /\ Ran(rest, e) <= CountOf(e) /\ CountOf(e) \in Nat
                /\ IsFiniteSet({p \in Pairs \ rest : ExpertOf(p) = e})
  <2> DEFINE A == {p \in Pairs \ rest : ExpertOf(p) = e}
             B == {p \in Pairs : ExpertOf(p) = e}
  <2>1. IsFiniteSet(B) /\ A \in SUBSET B
      BY <1>1, FS_Subset
  <2>2. IsFiniteSet(A) /\ Cardinality(A) <= Cardinality(B) /\ Cardinality(A) \in Nat /\ Cardinality(B) \in Nat
    <3> HIDE DEF A, B
    <3> QED BY <2>1, FS_Subset, FS_CardinalityType
  <2> QED BY <2>2 DEF Ran, CountOf
<1>3. ASSUME NEW p \in left, NEW e \in ExpertIds
      PROVE  /\ Ran(left \ {p}, e) = IF e = ExpertOf(p) THEN Ran(left, e) + 1 ELSE Ran(left, e)
             /\ e = ExpertOf(p) => Ran(left, e) < CountOf(e)
  <2> DEFINE A == {x \in Pairs \ left : ExpertOf(x) = e}
             B == {x \in Pairs \ (left \ {p}) : ExpertOf(x) = e}
  <2>1. IsFiniteSet(A) /\ p \notin A
      BY <1>2
  <2>2. CASE e = ExpertOf(p)
    <3>1. B = A \cup {p}
        BY <2>2
    <3>2. Cardinality(B) = Cardinality(A) + 1
      <4> HIDE DEF A, B
      <4> QED BY <2>1, <3>1, FS_AddElement
    <3>3. Ran(left \ {p}, e) = Ran(left, e) + 1
        BY <3>2 DEF Ran
    <3>4. left \ {p} \in SUBSET Pairs
        OBVIOUS
    <3>5. Ran(left \ {p}, e) <= CountOf(e) /\ CountOf(e) \in Nat
        BY <1>2, <3>4
    <3>6. Ran(left, e) \in Nat
        BY <1>2
    <3> QED BY <2>2, <3>3, <3>5, <3>6
  <2>3. CASE e # ExpertOf(p)
    <3>1. B = A
        BY <2>3
    <3> QED BY <2>3, <3>1 DEF Ran
  <2> QED BY <2>2, <2>3
<1> QED
    BY <1>2, <1>3

LEMMA NoneRan ==
    ASSUME Routed, NEW cursors, NEW s, s = [i \in Pairs |-> s[i]],
           cursors = [e \in 0..Experts |-> cursors[e]], \A e \in ExpertIds : cursors[e] = OffsetOf(e)
    PROVE  Scattered(Pairs, cursors, s)
<1>1. \A e \in ExpertIds : Ran(Pairs, e) = 0
  <2> TAKE e \in ExpertIds
  <2>1. {p \in Pairs \ Pairs : ExpertOf(p) = e} = {}
      OBVIOUS
  <2> QED BY <2>1, FS_EmptySet DEF Ran
<1>2. \A e \in ExpertIds : OffsetOf(e) \in Nat
    BY Counted, Constants
<1>3. \A i \in Pairs : i \in Nat
    BY PairsAre DEF Routed
<1>a. \A e \in ExpertIds : cursors[e] = OffsetOf(e)
    OBVIOUS
<1>4. \A e \in ExpertIds, i \in Pairs : ~ (OffsetOf(e) <= i /\ i < cursors[e])
  <2> TAKE e \in ExpertIds, i \in Pairs
  <2>1. cursors[e] = OffsetOf(e) /\ OffsetOf(e) \in Nat /\ i \in Nat
      BY <1>2, <1>3, <1>a
  <2> QED BY <2>1
<1>5. \A e \in ExpertIds : cursors[e] = OffsetOf(e) + Ran(Pairs, e)
  <2> TAKE e \in ExpertIds
  <2>1. cursors[e] = OffsetOf(e) /\ OffsetOf(e) \in Nat /\ Ran(Pairs, e) = 0
      BY <1>1, <1>2, <1>a
  <2> QED BY <2>1
<1> QED
    BY <1>4, <1>5 DEF Scattered

LEMMA AllRan ==
    ASSUME Routed, NEW cursors, NEW s, Scattered({}, cursors, s)
    PROVE  SortedBy(s)
<1>1. \A e \in ExpertIds : Ran({}, e) = CountOf(e)
    BY DEF Ran, CountOf
<1>2. \A e \in ExpertIds : cursors[e] = OffsetOf(e) + CountOf(e)
    BY <1>1 DEF Scattered
<1>3. \A e \in ExpertIds, i \in Pairs :
          OffsetOf(e) <= i /\ i < OffsetOf(e) + CountOf(e) => s[i] \in Pairs /\ ExpertOf(s[i]) = e
    BY <1>2 DEF Scattered
<1>4. ASSUME NEW i \in Pairs, NEW j \in Pairs, s[i] = s[j] PROVE i = j
  <2>1. PICK d \in ExpertIds : OffsetOf(d) <= i /\ i < OffsetOf(d) + CountOf(d)
      BY PlaceOfOne
  <2>2. PICK e \in ExpertIds : OffsetOf(e) <= j /\ j < OffsetOf(e) + CountOf(e)
      BY PlaceOfOne
  <2>3. d = e
      BY <1>3, <1>4, <2>1, <2>2
  <2> QED BY <1>2, <1>4, <2>1, <2>2, <2>3 DEF Scattered
<1> QED
    BY <1>3, <1>4 DEF SortedBy

LEMMA OneMoreRan ==
    ASSUME Routed, NEW left, NEW cursors, NEW s, Scattered(left, cursors, s), NEW p \in left
    PROVE  Scattered(left \ {p}, [cursors EXCEPT ![ExpertOf(p)] = @ + 1], [s EXCEPT ![cursors[ExpertOf(p)]] = p])
<1> DEFINE e == ExpertOf(p)
           c == cursors[e]
           C == [cursors EXCEPT ![e] = @ + 1]
           S == [s EXCEPT ![c] = p]
           L == left \ {p}
<1>0. left \subseteq Pairs /\ p \in Pairs /\ e \in ExpertIds
    BY ExpertsAre DEF Scattered
<1>1. \A d \in ExpertIds : /\ OffsetOf(d) \in Nat /\ CountOf(d) \in Nat
                           /\ cursors[d] \in Nat /\ OffsetOf(d) <= cursors[d]
                           /\ cursors[d] <= OffsetOf(d) + CountOf(d)
                           /\ d \in 0..Experts
  <2> TAKE d \in ExpertIds
  <2>1. d \in Int /\ d \in 0..Experts
      BY Constants
  <2>2. OffsetOf(d) \in Nat /\ CountOf(d) \in Nat
      BY <2>1, Counted
  <2>3. Ran(left, d) \in Nat /\ Ran(left, d) <= CountOf(d)
      BY <1>0, RanIs
  <2>4. cursors[d] = OffsetOf(d) + Ran(left, d)
      BY DEF Scattered
  <2> QED BY <2>1, <2>2, <2>3, <2>4
<1>2. c < OffsetOf(e) + CountOf(e)
  <2>1. Ran(left, e) < CountOf(e) /\ Ran(left, e) \in Nat
      BY <1>0, RanIs
  <2>2. c = OffsetOf(e) + Ran(left, e)
      BY <1>0 DEF Scattered
  <2> QED BY <1>0, <1>1, <2>1, <2>2
<1>3. c \in Pairs
  <2>1. c \in OffsetOf(e) .. (OffsetOf(e) + CountOf(e) - 1)
      BY <1>0, <1>1, <1>2
  <2> QED BY <1>0, <2>1, PlacesArePairs
<1>4. /\ C = [d \in 0..Experts |-> C[d]] /\ C[e] = c + 1 /\ \A d \in ExpertIds : d # e => C[d] = cursors[d]
      /\ S = [i \in Pairs |-> S[i]] /\ S[c] = p /\ \A i \in Pairs : i # c => S[i] = s[i]
    BY <1>0, <1>1, <1>3 DEF Scattered
<1> HIDE DEF C, S, c, e
<1>5. \A d \in ExpertIds : C[d] = OffsetOf(d) + Ran(L, d)
  <2> TAKE d \in ExpertIds
  <2>1. cursors[d] = OffsetOf(d) + Ran(left, d)
      BY DEF Scattered
  <2>2. Ran(L, d) = (IF d = e THEN Ran(left, d) + 1 ELSE Ran(left, d)) /\ Ran(left, d) \in Nat
      BY <1>0, RanIs DEF e
  <2> QED BY <1>1, <1>4, <2>1, <2>2 DEF c
<1>a. \A i \in Pairs : i \in Nat
    BY PairsAre DEF Routed
<1>6. ASSUME NEW d \in ExpertIds, NEW i \in Pairs, OffsetOf(d) <= i, i < C[d]
      PROVE  \/ i = c /\ d = e
             \/ i # c /\ i < cursors[d]
  <2>1. CASE i = c
    <3>1. CASE d = e
        BY <2>1, <3>1
    <3>2. CASE d # e
      <4>1. c < cursors[d]
          BY <1>4, <1>6, <2>1, <3>2
      <4>2. OffsetOf(d) <= c /\ c < OffsetOf(d) + CountOf(d)
          BY <1>1, <1>6, <2>1, <1>3, <1>a, <4>1
      <4>3. OffsetOf(e) <= c
          BY <1>0, <1>1 DEF c
      <4> QED BY <1>0, <1>2, <1>3, <3>2, <4>2, <4>3, PlacesApart
    <3> QED BY <3>1, <3>2
  <2>2. CASE i # c
    <3>1. CASE d = e
        BY <1>0, <1>1, <1>3, <1>4, <1>6, <1>a, <2>2, <3>1 DEF c
    <3>2. CASE d # e
        BY <1>4, <1>6, <2>2, <3>2
    <3> QED BY <3>1, <3>2
  <2> QED BY <2>1, <2>2
<1>7. ASSUME NEW d \in ExpertIds, NEW i \in Pairs, OffsetOf(d) <= i, i < C[d]
      PROVE  S[i] \in Pairs \ L /\ ExpertOf(S[i]) = d /\ (i # c => S[i] # p)
  <2>1. CASE i = c /\ d = e
      BY <1>0, <1>4, <2>1 DEF e
  <2>2. CASE i # c /\ i < cursors[d]
      BY <1>4, <1>7, <2>2 DEF Scattered
  <2> QED BY <1>6, <1>7, <2>1, <2>2
<1>8. ASSUME NEW d \in ExpertIds, NEW i \in Pairs, NEW j \in Pairs,
             OffsetOf(d) <= i, i < C[d], OffsetOf(d) <= j, j < C[d], S[i] = S[j]
      PROVE  i = j
  <2>1. CASE i = c \/ j = c
      BY <1>4, <1>7, <1>8, <2>1
  <2>2. CASE i # c /\ j # c
    <3>1. i < cursors[d] /\ j < cursors[d] /\ s[i] = s[j]
        BY <1>4, <1>6, <1>8, <2>2
    <3> QED BY <1>8, <3>1 DEF Scattered
  <2> QED BY <2>1, <2>2
<1>9. L \subseteq Pairs
    BY <1>0
<1>10. Scattered(L, C, S)
  <2> HIDE DEF L
  <2> QED BY <1>4, <1>5, <1>7, <1>8, <1>9 DEF Scattered
<1> QED
    BY <1>10 DEF C, S, c, e

-----------------------------------------------------------------------------
(* The invariant. *)

Kernels == {"gate_up", "quantize_mid", "zero", "down"}

StageInv ==
    /\ stage \in {"route", "done"} \cup
          (IF CpuMachine THEN {"group", "cpu_mid", "cpu_down"}
           ELSE {"quantize", "count", "prefix", "scatter", "tiles", "sum"} \cup Kernels)
    /\ stage \in {"count", "prefix", "scatter", "tiles"} => Many
    /\ stage = "tiles" => Tiles
    /\ stage = "zero" => Atomic

RouteInv ==
    /\ batch \in Batches
    /\ stage # "route" => Routed /\ (batch.hash \/ \A t \in TokenIds : TakesBest(t))

\* What the kernels of the stage read is in place.
ListsInv ==
    /\ lists = [counts |-> lists.counts, offsets |-> lists.offsets, cursors |-> lists.cursors,
                tiles |-> lists.tiles, tiles16 |-> lists.tiles16]
    /\ sorted = [i \in Pairs |-> sorted[i]]
    /\ stage \in {"prefix", "scatter", "tiles"} => CountsAre
    /\ stage \in {"scatter", "tiles"} => OffsetsAre
    /\ stage = "scatter" => Scattered(toScatter, lists.cursors, sorted)
    /\ stage \in {"tiles", "cpu_mid", "cpu_down"} => Sorted
    /\ stage \in Kernels => (Many => CountsAre /\ OffsetsAre /\ Sorted) /\ (Tiles => Tiled)
    /\ stage \in {"cpu_mid", "cpu_down"} => \A e \in 0 .. Experts : lists.counts[e] = OffsetOf(e)

ValuesInv ==
    /\ stage \in {"count", "prefix", "scatter", "tiles", "gate_up"} =>
          \A t \in TokenIds : down[t] = <<"x", t>>
    /\ stage = "quantize_mid" => \A p \in Pairs : mid[p] = Mid(p)
    /\ stage \in {"zero", "down", "cpu_down"} => \A p \in Pairs : gate[p] = Mid(p)
    /\ stage = "down" /\ Atomic => \A t \in TokenIds : out[t] = EmptyBag
    /\ stage = "sum" => \A p \in Pairs : down[p] = <<ExpertOf(p), Mid(p)>>
    /\ stage = "done" => \A t \in TokenIds : out[t] = Sum(t)

DispatchInv == StageInv /\ RouteInv /\ ListsInv /\ ValuesInv

\* What the routing decided does not change any more.
Fixed == UNCHANGED <<batch, machine, chosen, weight>>

LEMMA Kept ==
    ASSUME Fixed
    PROVE  /\ TokenIds' = TokenIds /\ Pairs' = Pairs
           /\ Routed' <=> Routed
           /\ (batch.hash \/ \A t \in TokenIds : TakesBest(t))' <=> (batch.hash \/ \A t \in TokenIds : TakesBest(t))
           /\ \A p : Mid(p)' = Mid(p) /\ ExpertOf(p)' = ExpertOf(p)
           /\ \A t : Sum(t)' = Sum(t)
           /\ \A e : CountOf(e)' = CountOf(e) /\ OffsetOf(e)' = OffsetOf(e)
           /\ (Many' <=> Many) /\ (Tiles' <=> Tiles) /\ (Atomic' <=> Atomic) /\ (Tile16' <=> Tile16)
           /\ CpuMachine' = CpuMachine /\ TileM' = TileM
<1>1. batch' = batch /\ machine' = machine /\ chosen' = chosen /\ weight' = weight
    BY DEF Fixed
<1>2. TokenIds' = TokenIds /\ Pairs' = Pairs
    BY <1>1 DEF TokenIds, Pairs
<1>3. Routed' <=> Routed
    BY <1>1, <1>2 DEF Routed
<1>4. (batch.hash \/ \A t \in TokenIds : TakesBest(t))' <=> (batch.hash \/ \A t \in TokenIds : TakesBest(t))
    BY <1>1, <1>2 DEF TakesBest, Rank, ScoreOf
<1>5. \A p : ExpertOf(p)' = ExpertOf(p) /\ PairToken(p)' = PairToken(p) /\ WeightOf(p)' = WeightOf(p)
    BY <1>1 DEF ExpertOf, PairToken, SlotOf, WeightOf
<1>6. \A p : Mid(p)' = Mid(p)
    BY <1>5 DEF Mid
<1>7. \A t : Sum(t)' = Sum(t)
    BY <1>1 DEF Sum
<1>8. \A e : CountOf(e)' = CountOf(e) /\ OffsetOf(e)' = OffsetOf(e)
    BY <1>2, <1>5 DEF CountOf, OffsetOf
<1>9. /\ (Many' <=> Many) /\ (Tiles' <=> Tiles) /\ (Atomic' <=> Atomic) /\ (Tile16' <=> Tile16)
      /\ CpuMachine' = CpuMachine /\ TileM' = TileM
    BY <1>1 DEF Many, Wide, Tiles, TileM, Forced, Atomic, Tile16, CpuMachine
<1> QED
    BY <1>2, <1>3, <1>4, <1>5, <1>6, <1>7, <1>8, <1>9

LEMMA SortedKept ==
    ASSUME Fixed, NEW s
    PROVE  /\ (sorted' = s /\ SortedBy(s)) => Sorted'
           /\ UNCHANGED lists => (CountsAre' <=> CountsAre) /\ (OffsetsAre' <=> OffsetsAre) /\ (Tiled' <=> Tiled)
<1>1. sorted' = s /\ SortedBy(s) => Sorted'
    BY Kept DEF Sorted, SortedBy
<1>2. UNCHANGED lists => (CountsAre' <=> CountsAre) /\ (OffsetsAre' <=> OffsetsAre)
    BY Kept DEF CountsAre, OffsetsAre
<1>3. UNCHANGED lists => (lists.counts)' = lists.counts /\ \A m : TileList(lists.counts, m)' = TileList(lists.counts, m)
    BY DEF TileList
<1>4. UNCHANGED lists => (Tiled' <=> Tiled)
    BY <1>2, <1>3, Kept DEF Tiled
<1> QED
    BY <1>1, <1>2, <1>4

LEMMA RouteKept ==
    ASSUME RouteInv, Fixed, stage # "route"
    PROVE  Routed /\ RouteInv'
BY Kept DEF RouteInv, Fixed

LEMMA QuantizeKeeps ==
    ASSUME DispatchInv, Quantize
    PROVE  DispatchInv'
<1>1. /\ Fixed /\ stage = "quantize" /\ stage' = (IF Many THEN "count" ELSE "gate_up")
      /\ UNCHANGED <<lists, sorted>> /\ ~ CpuMachine
      /\ down' = [p \in Pairs |-> IF p \in TokenIds THEN <<"x", p>> ELSE down[p]]
    BY DEF DispatchInv, StageInv, Quantize, Fixed
<1>2. StageInv'
    BY <1>1, Kept DEF StageInv, Kernels
<1>3. RouteInv' /\ Routed
    BY <1>1, RouteKept DEF DispatchInv
<1>4. ListsInv'
    BY <1>1, Kept DEF ListsInv, DispatchInv, Kernels, Tiles
<1>5. \A t \in TokenIds : down'[t] = <<"x", t>>
    BY <1>1, <1>3, PairsAre DEF Routed
<1>6. ValuesInv'
    BY <1>1, <1>5, Kept DEF ValuesInv
<1> QED
    BY <1>2, <1>3, <1>4, <1>6 DEF DispatchInv

LEMMA CountKeeps ==
    ASSUME DispatchInv, Count
    PROVE  DispatchInv'
<1>1. /\ Fixed /\ stage = "count" /\ stage' = "prefix" /\ UNCHANGED <<sorted, down>> /\ ~ CpuMachine /\ Many
      /\ lists' = [lists EXCEPT !.counts = [e \in ExpertIds |-> CountOf(e)]]
    BY DEF DispatchInv, StageInv, Count, Fixed, Kernels
<1>2. StageInv'
    BY <1>1, Kept DEF StageInv
<1>3. RouteInv' /\ Routed
    BY <1>1, RouteKept DEF DispatchInv
<1>4. /\ lists'.counts = [e \in ExpertIds |-> CountOf(e)]
      /\ lists' = [counts |-> lists'.counts, offsets |-> lists'.offsets, cursors |-> lists'.cursors,
                   tiles |-> lists'.tiles, tiles16 |-> lists'.tiles16]
    BY <1>1 DEF DispatchInv, ListsInv
<1>5. CountsAre'
    BY <1>1, <1>4, Kept DEF CountsAre
<1>6. ListsInv'
    BY <1>1, <1>4, <1>5, Kept DEF ListsInv, DispatchInv, Kernels
<1>7. ValuesInv'
    BY <1>1, Kept DEF DispatchInv, ValuesInv
<1> QED
    BY <1>2, <1>3, <1>6, <1>7 DEF DispatchInv

LEMMA PrefixKeeps ==
    ASSUME DispatchInv, Prefix
    PROVE  DispatchInv'
<1> DEFINE sums == PrefixSums(lists.counts)
<1>1. /\ Fixed /\ stage = "prefix" /\ stage' = "scatter" /\ UNCHANGED <<sorted, down>> /\ ~ CpuMachine /\ Many
      /\ lists' = [lists EXCEPT !.offsets = sums, !.cursors = sums]
      /\ toScatter' = Pairs /\ CountsAre
    BY DEF DispatchInv, StageInv, ListsInv, Prefix, Fixed, Kernels
<1>2. StageInv'
    BY <1>1, Kept DEF StageInv
<1>3. RouteInv' /\ Routed
    BY <1>1, RouteKept DEF DispatchInv
<1>4. sums = [e \in 0..Experts |-> sums[e]] /\ \A e \in 0..Experts : sums[e] = OffsetOf(e)
    BY <1>1, <1>3, PrefixIs DEF CountsAre
<1> HIDE DEF sums
<1>5. /\ lists'.counts = lists.counts /\ lists'.offsets = sums /\ lists'.cursors = sums
      /\ lists' = [counts |-> lists'.counts, offsets |-> lists'.offsets, cursors |-> lists'.cursors,
                   tiles |-> lists'.tiles, tiles16 |-> lists'.tiles16]
    BY <1>1 DEF DispatchInv, ListsInv
<1>6. CountsAre'
    BY <1>1, <1>5, Kept DEF CountsAre
<1>7. \A e \in ExpertIds : sums[e] = OffsetOf(e)
    BY <1>4, Constants
<1>8. OffsetsAre'
    BY <1>1, <1>5, <1>7, Kept DEF OffsetsAre
<1>9. Scattered(Pairs, sums, sorted)
    BY <1>3, <1>4, <1>7, NoneRan DEF DispatchInv, ListsInv
<1>10. Scattered(toScatter, lists.cursors, sorted)'
    BY <1>1, <1>5, <1>9, Kept DEF Scattered, Ran
<1>11. ListsInv'
    BY <1>1, <1>5, <1>6, <1>8, <1>10, Kept DEF ListsInv, DispatchInv, Kernels
<1>12. ValuesInv'
    BY <1>1, Kept DEF DispatchInv, ValuesInv
<1> QED
    BY <1>2, <1>3, <1>11, <1>12 DEF DispatchInv

LEMMA ScatterKeeps ==
    ASSUME DispatchInv, Scatter
    PROVE  DispatchInv'
<1>1. PICK pair \in toScatter :
          /\ sorted' = [sorted EXCEPT ![lists.cursors[ExpertOf(pair)]] = pair]
          /\ lists' = [lists EXCEPT !.cursors[ExpertOf(pair)] = @ + 1]
          /\ toScatter' = toScatter \ {pair}
    BY DEF Scatter
<1>2. /\ Fixed /\ stage = "scatter" /\ UNCHANGED down /\ ~ CpuMachine /\ Many
      /\ stage' = (IF toScatter' # {} THEN "scatter" ELSE IF Tiles THEN "tiles" ELSE "gate_up")
      /\ CountsAre /\ OffsetsAre /\ Scattered(toScatter, lists.cursors, sorted)
    BY DEF DispatchInv, StageInv, ListsInv, Scatter, Fixed, Kernels
<1>3. StageInv'
    BY <1>2, Kept DEF StageInv, Kernels
<1>4. RouteInv' /\ Routed
    BY <1>2, RouteKept DEF DispatchInv
<1>5. /\ lists'.counts = lists.counts /\ lists'.offsets = lists.offsets
      /\ lists'.cursors = [lists.cursors EXCEPT ![ExpertOf(pair)] = @ + 1]
      /\ lists' = [counts |-> lists'.counts, offsets |-> lists'.offsets, cursors |-> lists'.cursors,
                   tiles |-> lists'.tiles, tiles16 |-> lists'.tiles16]
    BY <1>1 DEF DispatchInv, ListsInv
<1>6. CountsAre' /\ OffsetsAre'
    BY <1>2, <1>5, Kept DEF CountsAre, OffsetsAre
<1>7. PICK left, cursors, s : /\ left = toScatter' /\ cursors = lists'.cursors /\ s = sorted'
                              /\ Scattered(left, cursors, s)
  <2>1. Scattered(toScatter \ {pair}, [lists.cursors EXCEPT ![ExpertOf(pair)] = @ + 1],
                  [sorted EXCEPT ![lists.cursors[ExpertOf(pair)]] = pair])
      BY <1>2, <1>4, OneMoreRan
  <2> QED BY <1>1, <1>5, <2>1
<1>8. Scattered(toScatter, lists.cursors, sorted)'
  <2>1. /\ Pairs' = Pairs /\ \A p : ExpertOf(p)' = ExpertOf(p)
        /\ \A e : OffsetOf(e)' = OffsetOf(e)
      BY <1>2, Kept
  <2>2. \A e : Ran(toScatter, e)' = Ran(left, e)
      BY <1>7, <2>1 DEF Ran
  <2>3. (lists.cursors)' = cursors /\ toScatter' = left /\ sorted' = s
      BY <1>7
  <2> QED BY <1>7, <2>1, <2>2, <2>3, Zenon DEF Scattered
<1>9. toScatter' = {} => Sorted'
    BY <1>2, <1>4, <1>7, AllRan, SortedKept
<1>10. sorted' = [i \in Pairs' |-> sorted'[i]]
    BY <1>8 DEF Scattered
<1>11. ListsInv'
    BY <1>2, <1>5, <1>6, <1>8, <1>9, <1>10, Kept DEF ListsInv, Kernels, Tiles
<1>12. ValuesInv'
    BY <1>2, Kept DEF DispatchInv, ValuesInv
<1> QED
    BY <1>3, <1>4, <1>11, <1>12 DEF DispatchInv

LEMMA BuildTilesKeeps ==
    ASSUME DispatchInv, BuildTiles
    PROVE  DispatchInv'
<1>1. /\ Fixed /\ stage = "tiles" /\ stage' = "gate_up" /\ UNCHANGED <<sorted, down>> /\ ~ CpuMachine /\ Many /\ Tiles
      /\ lists' = [lists EXCEPT !.tiles = TileList(lists.counts, TileM),
                                !.tiles16 = IF Tile16 THEN TileList(lists.counts, 2 * Tile) ELSE {}]
      /\ CountsAre /\ OffsetsAre /\ Sorted
    BY DEF DispatchInv, StageInv, ListsInv, BuildTiles, Fixed, Kernels
<1>2. StageInv'
    BY <1>1, Kept DEF StageInv, Kernels
<1>3. RouteInv' /\ Routed
    BY <1>1, RouteKept DEF DispatchInv
<1>4. /\ lists'.counts = lists.counts /\ lists'.offsets = lists.offsets
      /\ lists'.tiles = TileList(lists.counts, TileM)
      /\ Tile16 => lists'.tiles16 = TileList(lists.counts, 2 * Tile)
      /\ lists' = [counts |-> lists'.counts, offsets |-> lists'.offsets, cursors |-> lists'.cursors,
                   tiles |-> lists'.tiles, tiles16 |-> lists'.tiles16]
    BY <1>1 DEF DispatchInv, ListsInv
<1>5. CountsAre' /\ OffsetsAre'
    BY <1>1, <1>4, Kept DEF CountsAre, OffsetsAre
<1>6. Sorted'
    BY <1>1, SortedKept DEF Sorted
<1>7. Tiled'
  <2>1. \A m : TileList(lists.counts, m)' = TileList(lists.counts, m)
      BY <1>4 DEF TileList
  <2> QED BY <1>1, <1>4, <1>5, <2>1, Kept DEF Tiled
<1>8. ListsInv'
    BY <1>1, <1>4, <1>5, <1>6, <1>7, Kept DEF ListsInv, DispatchInv, Kernels
<1>9. ValuesInv'
    BY <1>1, Kept DEF DispatchInv, ValuesInv
<1> QED
    BY <1>2, <1>3, <1>8, <1>9 DEF DispatchInv

LEMMA EmptyAdds ==
    ASSUME NEW v, IsFiniteSet(DOMAIN v)
    PROVE  EmptyBag (+) AddedBy(v) = AddedBy(v)
<1> DEFINE b == AddedBy(v)
<1>1. b = [a \in Range(v) |-> b[a]]
    BY DEF AddedBy
<1>2. \A a \in Range(v) : b[a] \in Nat
  <2> TAKE a \in Range(v)
  <2>1. IsFiniteSet({x \in DOMAIN v : v[x] = a})
      BY FS_Subset
  <2>2. b[a] = Cardinality({x \in DOMAIN v : v[x] = a})
      BY DEF AddedBy
  <2> QED BY <2>1, <2>2, FS_CardinalityType
<1> HIDE DEF b
<1>3. DOMAIN b = Range(v)
    BY <1>1
<1>4. EmptyBag (+) b = [a \in Range(v) |-> 0 + b[a]]
    BY <1>3 DEF (+), EmptyBag, SetToBag
<1> QED
    BY <1>1, <1>2, <1>4 DEF b

LEMMA SumAdds ==
    \A t : EmptyBag (+) Sum(t) = Sum(t)
<1> TAKE t
<1> DEFINE w == [j \in 1..Used |-> <<chosen[t][j], <<"mid", chosen[t][j], <<"x", t>>, weight[t][j]>>>>]
<1>1. IsFiniteSet(DOMAIN w)
  <2>1. 1 \in Int /\ Used \in Int
      BY Constants
  <2>2. IsFiniteSet(1 .. Used)
      BY <2>1, FS_Interval
  <2> QED BY <2>2
<1> HIDE DEF w
<1>2. EmptyBag (+) AddedBy(w) = AddedBy(w)
    BY <1>1, EmptyAdds
<1> QED
    BY <1>2 DEF w, Sum

LEMMA GateUpKeeps ==
    ASSUME DispatchInv, GateUp
    PROVE  DispatchInv'
<1> DEFINE value == [job \in GateJobs |->
                        <<"mid", job.expert, down[PairToken(job.pair)], WeightOf(job.pair)>>]
<1>1. /\ Fixed /\ stage = "gate_up" /\ stage' = "quantize_mid" /\ UNCHANGED <<lists, sorted>> /\ ~ CpuMachine
      /\ mid' = Written(mid, GateJobs, value)
      /\ (Many => CountsAre /\ OffsetsAre /\ Sorted) /\ (Tiles => Tiled)
      /\ \A t \in TokenIds : down[t] = <<"x", t>>
    BY DEF DispatchInv, StageInv, ListsInv, ValuesInv, GateUp, Fixed, Kernels
<1>2. StageInv'
    BY <1>1, Kept DEF StageInv, Kernels
<1>3. RouteInv' /\ Routed
    BY <1>1, RouteKept DEF DispatchInv
<1>4. OneEach(GateJobs)
    BY <1>1, <1>3, EachGate
<1>5. ASSUME NEW p \in Pairs PROVE mid'[p] = Mid(p)
  <2>1. PICK job \in GateJobs : job.pair = p /\ job.expert = ExpertOf(p)
      BY <1>4 DEF OneEach
  <2>2. Written(mid, GateJobs, value)[job.pair] = value[job]
    <3> HIDE DEF value
    <3> QED BY <1>4, WrittenIs
  <2>3. mid'[p] = value[job]
      BY <1>1, <2>1, <2>2
  <2>4. down[PairToken(p)] = <<"x", PairToken(p)>>
      BY <1>1, <1>3, PairsAre DEF Routed
  <2> QED BY <2>1, <2>3, <2>4 DEF Mid
<1>6. ListsInv'
    BY <1>1, Kept, SortedKept DEF ListsInv, DispatchInv, Kernels, Sorted
<1>7. ValuesInv'
    BY <1>1, <1>5, Kept DEF ValuesInv
<1> QED
    BY <1>2, <1>3, <1>6, <1>7 DEF DispatchInv

LEMMA QuantizeMidKeeps ==
    ASSUME DispatchInv, QuantizeMid
    PROVE  DispatchInv'
<1>1. /\ Fixed /\ stage = "quantize_mid" /\ stage' = (IF Atomic THEN "zero" ELSE "down")
      /\ UNCHANGED <<lists, sorted>> /\ ~ CpuMachine /\ gate' = mid
      /\ (Many => CountsAre /\ OffsetsAre /\ Sorted) /\ (Tiles => Tiled)
      /\ \A p \in Pairs : mid[p] = Mid(p)
    BY DEF DispatchInv, StageInv, ListsInv, ValuesInv, QuantizeMid, Fixed, Kernels
<1>2. StageInv'
    BY <1>1, Kept DEF StageInv, Kernels
<1>3. RouteInv'
    BY <1>1, RouteKept DEF DispatchInv
<1>4. ListsInv'
    BY <1>1, Kept, SortedKept DEF ListsInv, DispatchInv, Kernels, Sorted
<1>5. ValuesInv'
    BY <1>1, Kept DEF ValuesInv
<1> QED
    BY <1>2, <1>3, <1>4, <1>5 DEF DispatchInv

LEMMA ZeroKeeps ==
    ASSUME DispatchInv, Zero
    PROVE  DispatchInv'
<1>1. /\ Fixed /\ stage = "zero" /\ stage' = "down"
      /\ UNCHANGED <<lists, sorted, gate>> /\ ~ CpuMachine
      /\ out' = [t \in TokenIds |-> EmptyBag]
      /\ (Many => CountsAre /\ OffsetsAre /\ Sorted) /\ (Tiles => Tiled)
      /\ \A p \in Pairs : gate[p] = Mid(p)
    BY DEF DispatchInv, StageInv, ListsInv, ValuesInv, Zero, Fixed, Kernels
<1>2. StageInv'
    BY <1>1, Kept DEF StageInv, Kernels
<1>3. RouteInv'
    BY <1>1, RouteKept DEF DispatchInv
<1>4. ListsInv'
    BY <1>1, Kept, SortedKept DEF ListsInv, DispatchInv, Kernels, Sorted
<1>5. EmptyBag' = EmptyBag
    OBVIOUS
<1>6. ValuesInv'
    BY <1>1, <1>5, Kept DEF ValuesInv
<1> QED
    BY <1>2, <1>3, <1>4, <1>6 DEF DispatchInv

LEMMA DownProjectKeeps ==
    ASSUME DispatchInv, DownProject
    PROVE  DispatchInv'
<1>1. /\ Fixed /\ stage = "down" /\ stage' = (IF Direct \/ Atomic THEN "done" ELSE "sum")
      /\ UNCHANGED <<lists, sorted>> /\ ~ CpuMachine
      /\ (Many => CountsAre /\ OffsetsAre /\ Sorted) /\ (Tiles => Tiled)
      /\ \A p \in Pairs : gate[p] = Mid(p)
      /\ Atomic => \A t \in TokenIds : out[t] = EmptyBag
    BY DEF DispatchInv, StageInv, ListsInv, ValuesInv, DownProject, Fixed, Kernels
<1>2. StageInv'
    BY <1>1, Kept DEF StageInv, Kernels
<1>3. RouteInv' /\ Routed /\ batch \in Batches
    BY <1>1, RouteKept DEF DispatchInv, Routed
<1>4. ListsInv'
    BY <1>1, Kept, SortedKept DEF ListsInv, DispatchInv, Kernels, Sorted
<1>5. OneEach(DownJobs) /\ OneEach(PairJobs)
    BY <1>1, <1>3, EachDown, EachPair
<1>6. CASE Direct
  <2>1. out' = [t \in TokenIds |-> AddedBy(Projected(PairJobs))]
      BY <1>1, <1>6 DEF DownProject
  <2>2. ASSUME NEW t \in TokenIds PROVE JobsOf(t, PairJobs) = PairJobs
    <3>1. ASSUME NEW a \in TokenIds, NEW b \in TokenIds PROVE a = b
      <4>1. PICK n \in Nat : n = Len(batch.tokens)
          BY <1>3, PairsAre
      <4>2. ~ (n > 1)
          BY <1>6, <4>1 DEF Direct, Many
      <4> QED BY <4>1, <4>2 DEF TokenIds
    <3>2. \A job \in PairJobs : PairToken(job.pair) \in TokenIds
        BY <1>3, <1>5, PairsAre DEF OneEach
    <3>3. \A job \in PairJobs : PairToken(job.pair) = t
        BY <3>1, <3>2
    <3> QED BY <3>3 DEF JobsOf
  <2>3. \A t \in TokenIds : out'[t] = Sum(t)
      BY <1>1, <1>3, <1>5, <2>1, <2>2, JobsAdd
  <2> QED BY <1>1, <1>2, <1>3, <1>4, <1>6, <2>3, Kept DEF DispatchInv, ValuesInv
<1>7. CASE ~ Direct /\ Atomic
  <2>1. out' = [t \in TokenIds |-> out[t] (+) AddedBy(Projected(JobsOf(t, DownJobs)))]
      BY <1>1, <1>7 DEF DownProject
  <2>2. \A t \in TokenIds : out[t] = EmptyBag /\ AddedBy(Projected(JobsOf(t, DownJobs))) = Sum(t)
      BY <1>1, <1>3, <1>5, <1>7, JobsAdd
  <2>3. \A t \in TokenIds : out'[t] = Sum(t)
      BY <2>1, <2>2, SumAdds
  <2> QED BY <1>1, <1>2, <1>3, <1>4, <1>7, <2>3, Kept DEF DispatchInv, ValuesInv
<1>8. CASE ~ Direct /\ ~ Atomic
  <2>1. down' = Written(down, DownJobs, Projected(DownJobs))
      BY <1>1, <1>8 DEF DownProject
  <2>2. ASSUME NEW p \in Pairs PROVE down'[p] = <<ExpertOf(p), Mid(p)>>
    <3>1. PICK job \in DownJobs : job.pair = p /\ job.expert = ExpertOf(p)
        BY <1>5 DEF OneEach
    <3>2. Written(down, DownJobs, Projected(DownJobs))[job.pair] = Projected(DownJobs)[job]
        BY <1>5, WrittenIs
    <3>3. Projected(DownJobs)[job] = <<ExpertOf(p), Mid(p)>>
        BY <1>1, <3>1 DEF Projected
    <3> QED BY <2>1, <3>1, <3>2, <3>3
  <2> QED BY <1>1, <1>2, <1>3, <1>4, <1>8, <2>2, Kept DEF DispatchInv, ValuesInv
<1> QED
    BY <1>6, <1>7, <1>8

LEMMA SumSlotsKeeps ==
    ASSUME DispatchInv, SumSlots
    PROVE  DispatchInv'
<1>1. /\ Fixed /\ stage = "sum" /\ stage' = "done"
      /\ UNCHANGED <<lists, sorted>> /\ ~ CpuMachine
      /\ out' = [t \in TokenIds |-> AddedBy([j \in 0..(Used - 1) |-> down[t * Used + j]])]
      /\ \A p \in Pairs : down[p] = <<ExpertOf(p), Mid(p)>>
    BY DEF DispatchInv, StageInv, ListsInv, ValuesInv, SumSlots, Fixed, Kernels
<1>2. StageInv'
    BY <1>1, Kept DEF StageInv, Kernels
<1>3. RouteInv' /\ batch \in Batches
    BY <1>1, RouteKept DEF DispatchInv, Routed
<1>4. ListsInv'
    BY <1>1, Kept, SortedKept DEF ListsInv, DispatchInv, Kernels, Sorted
<1>5. ASSUME NEW t \in TokenIds PROVE out'[t] = Sum(t)
  <2> DEFINE v == [j \in 0..(Used - 1) |-> down[t * Used + j]]
             w == [j \in 1..Used |-> <<chosen[t][j], <<"mid", chosen[t][j], <<"x", t>>, weight[t][j]>>>>]
             h == [j \in 0..(Used - 1) |-> j + 1]
  <2>1. Used \in Nat \ {0} /\ DOMAIN v = 0..(Used - 1) /\ DOMAIN w = 1..Used
      BY Constants
  <2>2. h \in Bijection(0..(Used - 1), 1..Used)
    <3>1. h \in [0..(Used - 1) -> 1..Used]
        BY <2>1
    <3>2. \A i, j \in 0..(Used - 1) : h[i] = h[j] => i = j
        BY <2>1
    <3>3. \A k \in 1..Used : k - 1 \in 0..(Used - 1) /\ h[k - 1] = k
        BY <2>1
    <3> HIDE DEF h
    <3>4. \A k \in 1..Used : \E j \in 0..(Used - 1) : h[j] = k
        BY <3>3
    <3> QED BY <3>1, <3>2, <3>4 DEF Bijection, Injection, Surjection, IsInjective
  <2>3. IsFiniteSet(0..(Used - 1))
    <3>1. 0 \in Int /\ Used - 1 \in Int
        BY <2>1
    <3> QED BY <3>1, FS_Interval
  <2>4. \A j \in 0..(Used - 1) : v[j] = w[h[j]]
    <3> TAKE j \in 0..(Used - 1)
    <3>1. t * Used + j \in Pairs /\ PairToken(t * Used + j) = t /\ SlotOf(t * Used + j) = j
        BY <1>3, PairOf
    <3>2. v[j] = <<ExpertOf(t * Used + j), Mid(t * Used + j)>>
        BY <1>1, <3>1
    <3>3. ExpertOf(t * Used + j) = chosen[t][j + 1] /\ WeightOf(t * Used + j) = weight[t][j + 1]
        BY <3>1 DEF ExpertOf, WeightOf
    <3>4. h[j] = j + 1 /\ j + 1 \in 1..Used
        BY <2>1
    <3> QED BY <3>1, <3>2, <3>3, <3>4 DEF Mid
  <2> HIDE DEF v, w, h
  <2>5. AddedBy(v) = AddedBy(w)
      BY <2>1, <2>2, <2>3, <2>4, AddedAlike
  <2> QED BY <1>1, <2>5 DEF v, w, Sum
<1>6. ValuesInv'
    BY <1>1, <1>5, Kept DEF ValuesInv
<1> QED
    BY <1>2, <1>3, <1>4, <1>6 DEF DispatchInv

LEMMA GroupKeeps ==
    ASSUME DispatchInv, Group
    PROVE  DispatchInv'
<1> DEFINE s == [i \in Pairs |->
               CHOOSE p \in Pairs :
                   i = OffsetOf(ExpertOf(p)) + Cardinality({q \in Pairs : q < p /\ ExpertOf(q) = ExpertOf(p)})]
<1>1. /\ Fixed /\ stage = "group" /\ stage' = "cpu_mid" /\ CpuMachine /\ sorted' = s
      /\ lists' = [lists EXCEPT !.counts = [e \in 0..Experts |-> OffsetOf(e)]]
    BY DEF DispatchInv, StageInv, Group, Fixed, Kernels
<1>2. StageInv'
    BY <1>1, Kept DEF StageInv, Kernels
<1>3. RouteInv' /\ Routed
    BY <1>1, RouteKept DEF DispatchInv
<1>4. /\ lists'.counts = [e \in 0..Experts |-> OffsetOf(e)]
      /\ lists' = [counts |-> lists'.counts, offsets |-> lists'.offsets, cursors |-> lists'.cursors,
                   tiles |-> lists'.tiles, tiles16 |-> lists'.tiles16]
    BY <1>1 DEF DispatchInv, ListsInv
<1>5. s = [i \in Pairs |-> s[i]]
    OBVIOUS
<1>6. SortedBy(s)
    BY <1>3, Grouped
<1> HIDE DEF s
<1>7. Sorted'
    BY <1>1, <1>6, SortedKept
<1>8. ListsInv'
    BY <1>1, <1>4, <1>5, <1>7, Kept DEF ListsInv, Kernels
<1>9. ValuesInv'
    BY <1>1, Kept DEF ValuesInv
<1> QED
    BY <1>2, <1>3, <1>8, <1>9 DEF DispatchInv

LEMMA CpuMidKeeps ==
    ASSUME DispatchInv, CpuMid
    PROVE  DispatchInv'
<1> DEFINE value == [job \in CpuJobs |->
                  <<"mid", job.expert, <<"x", PairToken(job.pair)>>, WeightOf(job.pair)>>]
<1>1. /\ Fixed /\ stage = "cpu_mid" /\ stage' = "cpu_down" /\ CpuMachine /\ UNCHANGED <<lists, sorted>>
      /\ gate' = Written(mid, CpuJobs, value)
      /\ Sorted /\ \A e \in 0 .. Experts : lists.counts[e] = OffsetOf(e)
    BY DEF DispatchInv, StageInv, ListsInv, CpuMid, Fixed, Kernels
<1>2. StageInv'
    BY <1>1, Kept DEF StageInv, Kernels
<1>3. RouteInv' /\ Routed
    BY <1>1, RouteKept DEF DispatchInv
<1>4. OneEach(CpuJobs)
    BY <1>1, <1>3, EachCpu
<1>5. ASSUME NEW p \in Pairs PROVE gate'[p] = Mid(p)
  <2>1. PICK job \in CpuJobs : job.pair = p /\ job.expert = ExpertOf(p)
      BY <1>4 DEF OneEach
  <2>2. Written(mid, CpuJobs, value)[job.pair] = value[job]
    <3> HIDE DEF value
    <3> QED BY <1>4, WrittenIs
  <2>3. gate'[p] = value[job]
      BY <1>1, <2>1, <2>2
  <2> QED BY <2>1, <2>3 DEF Mid
<1>6. ListsInv'
    BY <1>1, Kept, SortedKept DEF ListsInv, DispatchInv, Kernels, Sorted
<1>7. ValuesInv'
    BY <1>1, <1>5, Kept DEF ValuesInv
<1> QED
    BY <1>2, <1>3, <1>6, <1>7 DEF DispatchInv

LEMMA CpuDownKeeps ==
    ASSUME DispatchInv, CpuDown
    PROVE  DispatchInv'
<1>1. /\ Fixed /\ stage = "cpu_down" /\ stage' = "done" /\ CpuMachine /\ UNCHANGED <<lists, sorted>>
      /\ out' = [t \in TokenIds |-> AddedBy(Projected(JobsOf(t, CpuJobs)))]
      /\ Sorted /\ \A e \in 0 .. Experts : lists.counts[e] = OffsetOf(e)
      /\ \A p \in Pairs : gate[p] = Mid(p)
    BY DEF DispatchInv, StageInv, ListsInv, ValuesInv, CpuDown, Fixed, Kernels
<1>2. StageInv'
    BY <1>1, Kept DEF StageInv, Kernels
<1>3. RouteInv' /\ Routed /\ batch \in Batches
    BY <1>1, RouteKept DEF DispatchInv, Routed
<1>4. OneEach(CpuJobs)
    BY <1>1, <1>3, EachCpu
<1>5. \A t \in TokenIds : out'[t] = Sum(t)
    BY <1>1, <1>3, <1>4, JobsAdd
<1>6. ListsInv'
    BY <1>1, Kept, SortedKept DEF ListsInv, DispatchInv, Kernels, Sorted
<1>7. ValuesInv'
    BY <1>1, <1>5, Kept DEF ValuesInv
<1> QED
    BY <1>2, <1>3, <1>6, <1>7 DEF DispatchInv

-----------------------------------------------------------------------------
(* Routing: who goes before whom. *)

Above(score, e, f) == score[e] > score[f] \/ (score[e] = score[f] /\ e < f)

LEMMA AboveOrders ==
    ASSUME NEW score \in [ExpertIds -> Int],
           NEW e \in ExpertIds, NEW f \in ExpertIds, NEW g \in ExpertIds
    PROVE  /\ Above(score, e, f) /\ Above(score, f, g) => Above(score, e, g)
           /\ e # f => Above(score, e, f) \/ Above(score, f, e)
           /\ ~ Above(score, e, e) /\ ~ (Above(score, e, f) /\ Above(score, f, e))
<1>1. e \in Int /\ f \in Int /\ g \in Int /\ score[e] \in Int /\ score[f] \in Int /\ score[g] \in Int
    BY Constants
<1> QED
    BY <1>1 DEF Above

(* The experts of a list in order: each goes before all that are not listed
   earlier.                                                                *)
Top(score, list) ==
    /\ list \in [1..Used -> ExpertIds]
    /\ \A i, j \in 1..Used : i < j => list[i] # list[j]
    /\ \A j \in 1..Used, f \in ExpertIds :
          (\A i \in 1..Used : i < j => list[i] # f) => f = list[j] \/ Above(score, list[j], f)

LEMMA TopRanks ==
    ASSUME NEW score \in [ExpertIds -> Int], NEW list, Top(score, list), NEW j \in 1..Used
    PROVE  Rank(score, list[j]) = j - 1
<1> DEFINE B == {f \in ExpertIds : score[f] > score[list[j]] \/ (score[f] = score[list[j]] /\ f < list[j])}
           h == [i \in 1..(j - 1) |-> list[i]]
<1>1. Used \in Nat \ {0} /\ \A i \in 1..(j - 1) : i \in 1..Used /\ i < j
    BY Constants
<1>2. \A i \in 1..Used : list[i] \in ExpertIds
    BY DEF Top
<1>3. \A f \in ExpertIds : f \in B <=> Above(score, f, list[j])
    BY DEF Above
<1> HIDE DEF B
<1>4. ASSUME NEW i \in 1..(j - 1) PROVE h[i] \in B
  <2>1. \A k \in 1..Used : k < i => list[k] # list[j]
      BY <1>1 DEF Top
  <2>2. list[i] # list[j]
      BY <1>1 DEF Top
  <2>3. Above(score, list[i], list[j])
      BY <1>1, <1>2, <2>1, <2>2 DEF Top
  <2> QED BY <1>1, <1>2, <1>3, <2>3
<1>5. ASSUME NEW f \in B PROVE \E i \in 1..(j - 1) : h[i] = f
  <2>1. f \in ExpertIds
      BY DEF B
  <2>2. f # list[j] /\ ~ Above(score, list[j], f)
      BY <1>2, <1>3, <2>1, AboveOrders
  <2>3. PICK i \in 1..Used : i < j /\ list[i] = f
      BY <2>1, <2>2 DEF Top
  <2>4. i \in 1..(j - 1)
      BY <1>1, <2>3
  <2> QED BY <2>3, <2>4
<1>6. \A i, k \in 1..(j - 1) : h[i] = h[k] => i = k
  <2> SUFFICES ASSUME NEW i \in 1..(j - 1), NEW k \in 1..(j - 1), h[i] = h[k] PROVE i = k
      OBVIOUS
  <2>1. list[i] = list[k] /\ i \in 1..Used /\ k \in 1..Used
      BY <1>1
  <2>2. ~ (i < k) /\ ~ (k < i)
      BY <2>1 DEF Top
  <2> QED BY <1>1, <2>1, <2>2
<1>7. h \in Bijection(1..(j - 1), B)
  <2>1. h \in [1..(j - 1) -> B]
      BY <1>4
  <2> HIDE DEF h
  <2> QED BY <1>5, <1>6, <2>1 DEF Bijection, Injection, Surjection, IsInjective
<1>8. IsFiniteSet(1..(j - 1)) /\ Cardinality(1..(j - 1)) = j - 1
  <2>1. 1 \in Int /\ j - 1 \in Int /\ j \in Nat \ {0}
      BY <1>1
  <2>2. /\ IsFiniteSet(1..(j - 1))
        /\ Cardinality(1..(j - 1)) = IF 1 > j - 1 THEN 0 ELSE (j - 1) - 1 + 1
      BY <2>1, FS_Interval
  <2> QED BY <2>1, <2>2
<1>9. Cardinality(B) = j - 1
  <2>1. ExistsBijection(1..(j - 1), B)
      BY <1>7 DEF ExistsBijection
  <2>2. Cardinality(B) = Cardinality(1..(j - 1))
      BY <1>8, <2>1, FS_Bijection
  <2> QED BY <1>8, <2>2
<1> QED
    BY <1>9 DEF Rank, B

-----------------------------------------------------------------------------
(* Insertion keeps the best of those it has seen. *)

Lists == [1..Used -> -1..(Experts - 1)]

Best(score, n, list) ==
    /\ list \in Lists
    /\ \A j \in 1..Used : IF j <= n THEN list[j] \in 0..(n - 1) ELSE list[j] = -1
    /\ \A i, j \in 1..Used : i < j /\ j <= n => Above(score, list[i], list[j])
    /\ \A f \in 0..(n - 1) : \/ \E j \in 1..Used : j <= n /\ list[j] = f
                             \/ Used <= n /\ Above(score, list[Used], f)

LEMMA MinIs ==
    ASSUME NEW S, S \subseteq Nat, S # {}
    PROVE  Min(S) \in S /\ \A n \in S : Min(S) <= n
<1>1. \E m \in S : \A n \in S : m <= n
    BY LeastNat
<1> QED
    BY <1>1 DEF Min

LEMMA InsertedIn ==
    ASSUME NEW score, NEW n \in 0..(Experts - 1), NEW list \in Lists
    PROVE  InsertedExpert(score, n, list) \in Lists
<1> DEFINE place == {j \in 1..Used : list[j] = -1 \/ score[n] > score[list[j]]}
<1>1. Used \in Nat \ {0} /\ Experts \in Nat \ {0}
    BY Constants
<1>2. CASE place = {}
    BY <1>2 DEF InsertedExpert
<1>3. CASE place # {}
  <2>1. PICK k \in 1..Used : k = Min(place)
    <3>1. place \subseteq Nat
        OBVIOUS
    <3>2. place \subseteq 1..Used
        OBVIOUS
    <3> HIDE DEF place
    <3> QED BY <1>3, <3>1, <3>2, MinIs
  <2>2. InsertedExpert(score, n, list) =
            [j \in 1..Used |-> IF j < k THEN list[j] ELSE IF j = k THEN n ELSE list[j - 1]]
      BY <1>3, <2>1 DEF InsertedExpert
  <2>3. ASSUME NEW j \in 1..Used
        PROVE (IF j < k THEN list[j] ELSE IF j = k THEN n ELSE list[j - 1]) \in -1..(Experts - 1)
    <3>1. n \in -1..(Experts - 1) /\ \A i \in 1..Used : list[i] \in -1..(Experts - 1)
        BY <1>1 DEF Lists
    <3>2. ~ (j < k) /\ j # k => j - 1 \in 1..Used
        BY <1>1
    <3> QED BY <3>1, <3>2
  <2> QED BY <2>2, <2>3 DEF Lists
<1> QED
    BY <1>2, <1>3

LEMMA InsertedIs ==
    ASSUME NEW score \in [ExpertIds -> Int], NEW n \in 0..(Experts - 1), NEW list, Best(score, n, list)
    PROVE  Best(score, n + 1, InsertedExpert(score, n, list))
<1> DEFINE place == {j \in 1..Used : list[j] = -1 \/ score[n] > score[list[j]]}
           L == InsertedExpert(score, n, list)
<1>1. Used \in Nat \ {0} /\ Experts \in Nat \ {0} /\ n \in Nat /\ n \in ExpertIds
      /\ \A f \in 0..n : f \in ExpertIds
    BY Constants
<1>2. L \in Lists
    BY InsertedIn DEF Best
<1>3. \A j \in 1..Used : /\ j <= n => list[j] \in 0..(n - 1) /\ list[j] \in ExpertIds /\ list[j] # n /\ list[j] # -1
                                      /\ list[j] < n
                         /\ ~ (j <= n) => list[j] = -1
    BY <1>1 DEF Best
<1>4. ASSUME NEW j \in 1..Used, j \notin place
      PROVE  j <= n /\ Above(score, list[j], n)
  <2>1. j <= n /\ list[j] \in ExpertIds /\ list[j] < n /\ ~ (score[n] > score[list[j]])
      BY <1>3, <1>4
  <2>2. score[n] \in Int /\ score[list[j]] \in Int
      BY <1>1, <2>1
  <2> QED BY <2>1, <2>2 DEF Above
<1>5. CASE place = {}
  <2>1. L = list
      BY <1>5 DEF InsertedExpert
  <2>2. Used \in 1..Used /\ Used <= n /\ Above(score, list[Used], n)
      BY <1>1, <1>4, <1>5
  <2>3. \A j \in 1..Used : j <= n /\ j <= n + 1
      BY <1>1, <2>2
  <2>4. \A f \in 0..((n + 1) - 1) : f = n \/ f \in 0..(n - 1)
      BY <1>1
  <2>5. \A j \in 1..Used : IF j <= n + 1 THEN list[j] \in 0..((n + 1) - 1) ELSE list[j] = -1
      BY <1>1, <1>3, <2>3
  <2>6. \A i, j \in 1..Used : i < j /\ j <= n + 1 => Above(score, list[i], list[j])
      BY <2>3 DEF Best
  <2>7. ASSUME NEW f \in 0..((n + 1) - 1)
        PROVE  \/ \E j \in 1..Used : j <= n + 1 /\ list[j] = f
               \/ Used <= n + 1 /\ Above(score, list[Used], f)
      BY <1>1, <2>2, <2>3, <2>4 DEF Best
  <2> QED BY <1>2, <2>1, <2>5, <2>6, <2>7 DEF Best
<1>6. CASE place # {}
  <2>1. PICK k \in 1..Used : k = Min(place) /\ k \in place /\ \A j \in place : k <= j
    <3>1. place \subseteq Nat /\ place \subseteq 1..Used
        OBVIOUS
    <3> HIDE DEF place
    <3> QED BY <1>6, <3>1, MinIs
  <2>2. L = [j \in 1..Used |-> IF j < k THEN list[j] ELSE IF j = k THEN n ELSE list[j - 1]]
      BY <1>6, <2>1 DEF InsertedExpert
  <2>3. k <= n => Above(score, n, list[k])
      BY <1>3, <2>1 DEF Above
  <2>4. \A j \in 1..Used : j < k => j <= n /\ Above(score, list[j], n)
    <3> TAKE j \in 1..Used
    <3>1. j < k => j \notin place
        BY <1>1, <2>1
    <3> QED BY <1>4, <3>1
  <2>5. k <= n + 1
    <3>1. CASE k = 1
        BY <1>1, <3>1
    <3>2. CASE k # 1
      <4>1. k - 1 \in 1..Used /\ k - 1 < k
          BY <1>1, <3>2
      <4>2. k - 1 <= n
          BY <2>4, <4>1
      <4> QED BY <1>1, <4>2
    <3> QED BY <3>1, <3>2
  <2> HIDE DEF place, L
  <2>6. \A j \in 1..Used : /\ j < k => L[j] = list[j]
                           /\ j = k => L[j] = n
                           /\ k < j => L[j] = list[j - 1] /\ j - 1 \in 1..Used /\ k <= j - 1
      BY <1>1, <2>2
  <2>7. \A j \in 1..Used : IF j <= n + 1 THEN L[j] \in 0..((n + 1) - 1) ELSE L[j] = -1
    <3> TAKE j \in 1..Used
    <3>1. CASE j < k
        BY <1>1, <1>3, <2>4, <2>5, <2>6, <3>1
    <3>2. CASE j = k
        BY <1>1, <2>5, <2>6, <3>2
    <3>3. CASE k < j
      <4>1. L[j] = list[j - 1] /\ j - 1 \in 1..Used
          BY <2>6, <3>3
      <4>2. j <= n + 1 <=> j - 1 <= n
          BY <1>1
      <4> QED BY <1>1, <1>3, <4>1, <4>2
    <3> QED BY <1>1, <3>1, <3>2, <3>3
  <2>8. ASSUME NEW i \in 1..Used, NEW j \in 1..Used, i < j, j <= n PROVE Above(score, list[i], list[j])
      BY <2>8 DEF Best
  <2>9. ASSUME NEW i \in 1..Used, NEW j \in 1..Used, i < j, j <= n + 1
        PROVE  Above(score, L[i], L[j])
    <3>1. CASE j < k
      <4>1. i < k /\ j <= n
          BY <1>1, <2>4, <2>9, <3>1
      <4> QED BY <2>6, <2>8, <2>9, <3>1, <4>1
    <3>2. CASE j = k
        BY <1>1, <2>4, <2>6, <2>9, <3>2
    <3>3. CASE k < j
      <4>1. L[j] = list[j - 1] /\ j - 1 \in 1..Used /\ j - 1 <= n /\ k <= j - 1
          BY <1>1, <2>6, <2>9, <3>3
      <4>2. CASE i < k
        <5>1. i < j - 1
            BY <1>1, <4>1, <4>2
        <5> QED BY <2>6, <2>8, <4>1, <4>2, <5>1
      <4>3. CASE i = k
        <5>1. k <= n
            BY <1>1, <4>1
        <5>2. Above(score, n, list[k])
            BY <2>3, <5>1
        <5>3. CASE k = j - 1
            BY <2>6, <4>1, <4>3, <5>2, <5>3
        <5>4. CASE k < j - 1
          <6>1. Above(score, list[k], list[j - 1])
              BY <2>8, <4>1, <5>4
          <6>2. list[k] \in ExpertIds /\ list[j - 1] \in ExpertIds
              BY <1>3, <4>1, <5>1
          <6>3. Above(score, n, list[j - 1])
              BY <1>1, <5>2, <6>1, <6>2, AboveOrders
          <6> QED BY <2>6, <4>1, <4>3, <6>3
        <5> QED BY <1>1, <4>1, <5>3, <5>4
      <4>4. CASE k < i
        <5>1. L[i] = list[i - 1] /\ i - 1 \in 1..Used /\ i - 1 < j - 1
            BY <1>1, <2>6, <2>9, <4>4
        <5> QED BY <2>8, <4>1, <5>1
      <4> QED BY <1>1, <4>2, <4>3, <4>4
    <3> QED BY <1>1, <3>1, <3>2, <3>3
  <2>10. ASSUME Used <= n PROVE Above(score, L[Used], list[Used])
    <3>1. Used \in 1..Used /\ (k = Used \/ k < Used)
        BY <1>1
    <3>2. CASE k = Used
        BY <2>3, <2>6, <2>10, <3>1, <3>2
    <3>3. CASE k < Used
      <4>1. L[Used] = list[Used - 1] /\ Used - 1 \in 1..Used /\ Used - 1 < Used
          BY <1>1, <2>6, <3>1, <3>3
      <4> QED BY <2>8, <2>10, <3>1, <4>1
    <3> QED BY <3>1, <3>2, <3>3
  <2>11. ASSUME NEW f \in 0..((n + 1) - 1)
         PROVE  \/ \E j \in 1..Used : j <= n + 1 /\ L[j] = f
                \/ Used <= n + 1 /\ Above(score, L[Used], f)
    <3>1. CASE f = n
        BY <2>5, <2>6, <3>1
    <3>2. CASE f # n
      <4>1. f \in 0..(n - 1) /\ f \in ExpertIds
          BY <1>1, <3>2
      <4>2. CASE \E j \in 1..Used : j <= n /\ list[j] = f
        <5>1. PICK j \in 1..Used : j <= n /\ list[j] = f
            BY <4>2
        <5>2. CASE j < k
          <6>1. L[j] = f /\ j <= n + 1
              BY <1>1, <2>6, <5>1, <5>2
          <6> QED BY <6>1
        <5>3. CASE ~ (j < k) /\ j + 1 \in 1..Used
          <6>1. k < j + 1 /\ (j + 1) - 1 = j /\ j + 1 <= n + 1
              BY <1>1, <5>1, <5>3
          <6>2. L[j + 1] = f
              BY <2>6, <5>1, <5>3, <6>1
          <6> QED BY <5>3, <6>1, <6>2
        <5>4. CASE j + 1 \notin 1..Used
          <6>1. j = Used /\ Used <= n /\ Used <= n + 1
              BY <1>1, <5>1, <5>4
          <6> QED BY <2>10, <5>1, <6>1
        <5> QED BY <5>2, <5>3, <5>4
      <4>3. CASE Used <= n /\ Above(score, list[Used], f)
        <5>1. Used \in 1..Used /\ Used <= n + 1
            BY <1>1, <4>3
        <5>2. L[Used] \in ExpertIds /\ list[Used] \in ExpertIds
            BY <1>1, <1>3, <2>7, <4>3, <5>1
        <5>3. Above(score, L[Used], f)
            BY <2>10, <4>1, <4>3, <5>2, AboveOrders
        <5> QED BY <5>1, <5>3
      <4> QED BY <4>1, <4>2, <4>3 DEF Best
    <3> QED BY <3>1, <3>2
  <2>12. Best(score, n + 1, L)
      BY <1>2, <2>7, <2>9, <2>11 DEF Best
  <2> QED BY <2>12 DEF L
<1> QED
    BY <1>5, <1>6

LEMMA InsertionIs ==
    ASSUME NEW score \in [ExpertIds -> Int]
    PROVE  Top(score, Insertion(score))
<1> DEFINE base == [j \in 1..Used |-> -1]
           IsList(f) == f = [n \in 0..Experts |-> IF n = 0 THEN base ELSE InsertedExpert(score, n - 1, f[n - 1])]
           F == [x \in (1 .. Experts) \X Lists |-> InsertedExpert(score, x[1] - 1, x[2])]
           list == CHOOSE f : IsList(f)
<1>1. Experts \in Nat \ {0} /\ Used \in Nat \ {0} /\ Used <= Experts
    BY Constants
<1>2. base \in Lists
    BY <1>1 DEF Lists
<1>3. F \in [(1 .. Experts) \X Lists -> Lists]
  <2>1. ASSUME NEW x \in (1 .. Experts) \X Lists PROVE InsertedExpert(score, x[1] - 1, x[2]) \in Lists
    <3>1. x[1] - 1 \in 0..(Experts - 1) /\ x[2] \in Lists
        BY <1>1
    <3> QED BY <3>1, InsertedIn
  <2> QED BY <2>1
<1>4. \A n \in 1 .. Experts, l \in Lists : F[<<n, l>>] = InsertedExpert(score, n - 1, l)
    OBVIOUS
<1> HIDE DEF F, base
<1>5. PICK g \in [0 .. Experts -> Lists] : Iterates(g, Experts, base, F)
    BY <1>1, <1>2, <1>3, Iterate, Zenon
<1>6. IsList(g)
  <2>1. \A n \in 0..Experts : g[n] = IF n = 0 THEN base ELSE InsertedExpert(score, n - 1, g[n - 1])
    <3> TAKE n \in 0..Experts
    <3>1. n # 0 => n \in 1..Experts /\ n - 1 \in 0..Experts
        BY <1>1
    <3> QED BY <1>4, <1>5, <3>1 DEF Iterates
  <2> QED BY <2>1
<1>7. IsList(list)
  <2> HIDE DEF IsList
  <2> QED BY <1>6
<1>8. Insertion(score) = list[Experts]
    BY DEF Insertion, base
<1> HIDE DEF list
<1> DEFINE T == {n \in 0..Experts : Best(score, n, list[n])}
<1>9. 0 \in T
  <2>1. list[0] = base
      BY <1>1, <1>7
  <2>2. Best(score, 0, base)
      BY <1>1, <1>2 DEF Best, base
  <2> QED BY <1>1, <2>1, <2>2
<1>10. ASSUME NEW n \in 0..Experts - 1, n \in T PROVE n + 1 \in T
  <2>1. n + 1 \in 0..Experts /\ n + 1 # 0 /\ (n + 1) - 1 = n /\ n \in 0..(Experts - 1)
      BY <1>1
  <2>2. list[n + 1] = InsertedExpert(score, n, list[n])
      BY <1>7, <2>1
  <2>3. Best(score, n + 1, list[n + 1])
      BY <1>10, <2>1, <2>2, InsertedIs
  <2> QED BY <2>1, <2>3
<1> HIDE DEF T
<1>11. \A n \in 0..Experts : n \in T
    BY <1>1, <1>9, <1>10, InductUpTo, Zenon
<1> DEFINE L == Insertion(score)
<1>12. Best(score, Experts, L)
  <2>1. Experts \in 0..Experts
      BY <1>1
  <2> QED BY <1>8, <1>11, <2>1 DEF T
<1> HIDE DEF L
<1>13. \A j \in 1..Used : j <= Experts /\ L[j] \in ExpertIds
    BY <1>1, <1>12, Constants DEF Best
<1>14. \A i, j \in 1..Used : i < j => Above(score, L[i], L[j])
    BY <1>12, <1>13 DEF Best
<1>15. \A i, j \in 1..Used : i < j => L[i] # L[j]
    BY <1>13, <1>14, AboveOrders
<1>16. ASSUME NEW j \in 1..Used, NEW f \in ExpertIds, \A i \in 1..Used : i < j => L[i] # f
       PROVE  f = L[j] \/ Above(score, L[j], f)
  <2>1. CASE \E i \in 1..Used : L[i] = f
    <3>1. PICK i \in 1..Used : L[i] = f
        BY <2>1
    <3>2. i = j \/ j < i
        BY <1>16, <3>1
    <3> QED BY <1>14, <3>1, <3>2
  <2>2. CASE Above(score, L[Used], f)
    <3>1. Used \in 1..Used /\ (j = Used \/ j < Used)
        BY <1>1
    <3>2. j = Used \/ Above(score, L[j], L[Used])
        BY <1>14, <3>1
    <3> QED BY <1>13, <2>2, <3>1, <3>2, AboveOrders
  <2>3. f \in 0..(Experts - 1)
      BY Constants
  <2> QED BY <1>12, <2>1, <2>2, <2>3 DEF Best
<1>17. L \in [1..Used -> ExpertIds]
    BY <1>12, <1>13 DEF Best, Lists
<1> QED
    BY <1>15, <1>16, <1>17 DEF Top, L

-----------------------------------------------------------------------------
(* A warp finds the best of the scores that are left. *)

Scores == [ExpertIds -> Nat \cup {-1}]

BestOf(p, S) == p \in S /\ \A q \in S : q = p \/ RouterScoreBetter(p, q)

LEMMA BetterOf ==
    ASSUME NEW S, NEW R, S \subseteq Int \X Int, R \subseteq Int \X Int,
           NEW p, NEW q, BestOf(p, S), BestOf(q, R)
    PROVE  BestOf(Better(p, q), S \cup R)
<1>1. p \in Int \X Int /\ q \in Int \X Int /\ p \in S /\ q \in R
    BY DEF BestOf
<1>2. CASE RouterScoreBetter(p, q)
  <2>1. ASSUME NEW z \in R PROVE z = p \/ RouterScoreBetter(p, z)
    <3>1. z = q \/ RouterScoreBetter(q, z)
        BY DEF BestOf
    <3>2. z \in Int \X Int
        OBVIOUS
    <3> QED BY <1>1, <1>2, <3>1, <3>2 DEF RouterScoreBetter
  <2> QED BY <1>1, <1>2, <2>1 DEF BestOf, Better
<1>3. CASE ~ RouterScoreBetter(p, q)
  <2>0. p = q \/ RouterScoreBetter(q, p)
    <3>1. PICK a \in Int, b \in Int, c \in Int, d \in Int : p = <<a, b>> /\ q = <<c, d>>
        BY <1>1
    <3>2. ~ (a > c \/ (a = c /\ b < d))
        BY <1>3, <3>1 DEF RouterScoreBetter
    <3>3. (a = c /\ b = d) \/ c > a \/ (c = a /\ d < b)
        BY <3>2
    <3> QED BY <3>1, <3>3 DEF RouterScoreBetter
  <2>1. ASSUME NEW z \in S PROVE z = q \/ RouterScoreBetter(q, z)
    <3>1. z = p \/ RouterScoreBetter(p, z)
        BY DEF BestOf
    <3>2. z \in Int \X Int
        OBVIOUS
    <3> QED BY <1>1, <2>0, <3>1, <3>2 DEF RouterScoreBetter
  <2> QED BY <1>1, <1>3, <2>1 DEF BestOf, Better
<1> QED
    BY <1>2, <1>3

Mark(score, e) == <<score[e], e>>
Marks(score) == {Nobody} \cup {Mark(score, e) : e \in ExpertIds}
LaneMarks(score, lane, m) == {Nobody} \cup {Mark(score, e) : e \in {f \in ExpertIds : f % m = lane % m}}

LEMMA MarksAre ==
    ASSUME NEW score \in Scores
    PROVE  /\ Marks(score) \subseteq Int \X Int
           /\ \A lane, m : LaneMarks(score, lane, m) \subseteq Marks(score)
           /\ \A a, b \in Marks(score) : Better(a, b) \in Marks(score)
<1>1. Nobody \in Int \X Int
    BY Constants DEF Nobody
<1>2. \A e \in ExpertIds : Mark(score, e) \in Int \X Int
    BY Constants DEF Mark, Scores
<1> QED
    BY <1>1, <1>2 DEF Marks, LaneMarks, Better

LEMMA LaneBestIs ==
    ASSUME NEW score \in Scores, NEW lane \in 0..(Lanes - 1)
    PROVE  BestOf(LaneBest(score, lane), LaneMarks(score, lane, Lanes))
<1> DEFINE K == Experts \div Lanes
           E(n) == lane + (n - 1) * Lanes
           IsBest(f) == f = [n \in 0..K |-> IF n = 0 THEN Nobody ELSE Better(Mark(score, E(n)), f[n - 1])]
           best == CHOOSE f : IsBest(f)
           F == [x \in (1 .. K) \X Marks(score) |-> Better(Mark(score, E(x[1])), x[2])]
           Seen(n) == {Nobody} \cup {Mark(score, E(k)) : k \in 1..n}
<1>1. Lanes \in Nat \ {0} /\ Experts \in Nat \ {0} /\ Experts % Lanes = 0
    BY Constants, DispatchAssumption
<1>2. K \in Nat /\ Experts = K * Lanes
    BY <1>1, DivMod
<1>3. LaneBest(score, lane) = best[K]
    BY DEF LaneBest, Mark
<1> HIDE DEF K
<1>4. ASSUME NEW n \in 1..K PROVE E(n) \in ExpertIds
  <2>1. n - 1 \in Nat /\ n \in Nat /\ n * Lanes <= K * Lanes
      BY <1>1, <1>2, TimesMonotone
  <2>2. n * Lanes = (n - 1) * Lanes + Lanes /\ (n - 1) * Lanes \in Nat
      BY <1>1, <2>1
  <2>3. PICK a \in Nat : a = (n - 1) * Lanes
      BY <2>2
  <2>4. a + Lanes <= Experts
      BY <1>2, <2>1, <2>2, <2>3
  <2>5. lane + a \in 0 .. (Experts - 1)
      BY <1>1, <2>4
  <2> QED BY <2>3, <2>5, Constants
<1> HIDE DEF E
<1>5. \A n \in 1..K : Mark(score, E(n)) \in Marks(score)
    BY <1>4 DEF Marks
<1>6. F \in [(1 .. K) \X Marks(score) -> Marks(score)]
    BY <1>5, MarksAre
<1>7. \A n \in 1..K, b \in Marks(score) : F[<<n, b>>] = Better(Mark(score, E(n)), b)
    OBVIOUS
<1>8. Nobody \in Marks(score)
    BY DEF Marks
<1> HIDE DEF F
<1>9. PICK f \in [0..K -> Marks(score)] : Iterates(f, K, Nobody, F)
    BY <1>2, <1>6, <1>8, Iterate, Zenon
<1>10. IsBest(f)
  <2>1. \A n \in 0..K : f[n] = IF n = 0 THEN Nobody ELSE Better(Mark(score, E(n)), f[n - 1])
    <3> TAKE n \in 0..K
    <3>1. n # 0 => n \in 1..K /\ n - 1 \in 0..K
        BY <1>2
    <3> QED BY <1>7, <1>9, <3>1 DEF Iterates
  <2> QED BY <2>1
<1>11. IsBest(best)
  <2> HIDE DEF IsBest
  <2> QED BY <1>10
<1> HIDE DEF best
<1>12. \A n \in 0..K : Seen(n) \subseteq Int \X Int
  <2> TAKE n \in 0..K
  <2>1. \A k \in 1..n : k \in 1..K
      BY <1>2
  <2>2. Seen(n) \subseteq Marks(score)
      BY <1>5, <1>8, <2>1
  <2> QED BY <2>2, MarksAre
<1> DEFINE T == {n \in 0..K : BestOf(best[n], Seen(n))}
<1>13. 0 \in T
  <2>1. best[0] = Nobody
      BY <1>2, <1>11
  <2>2. Seen(0) = {Nobody}
      OBVIOUS
  <2> QED BY <1>2, <2>1, <2>2 DEF BestOf
<1>14. ASSUME NEW n \in 0..K - 1, n \in T PROVE n + 1 \in T
  <2>1. n + 1 \in 0..K /\ n + 1 \in 1..K /\ n + 1 # 0 /\ (n + 1) - 1 = n /\ n \in 0..K /\ n \in Nat
      BY <1>2
  <2>2. best[n + 1] = Better(Mark(score, E(n + 1)), best[n])
      BY <1>11, <2>1
  <2>3. Seen(n + 1) = {Mark(score, E(n + 1))} \cup Seen(n)
    <3>1. 1..(n + 1) = (1..n) \cup {n + 1}
        BY <2>1
    <3> QED BY <3>1
  <2>4. BestOf(Mark(score, E(n + 1)), {Mark(score, E(n + 1))})
      BY DEF BestOf
  <2>5. {Mark(score, E(n + 1))} \subseteq Int \X Int
      BY <1>5, <2>1, MarksAre
  <2> HIDE DEF Seen
  <2>6. BestOf(best[n], Seen(n)) /\ Seen(n) \subseteq Int \X Int
      BY <1>12, <1>14, <2>1
  <2>7. BestOf(best[n + 1], Seen(n + 1))
      BY <2>2, <2>3, <2>4, <2>5, <2>6, BetterOf
  <2> QED BY <2>1, <2>7
<1> HIDE DEF T
<1>15. \A n \in 0..K : n \in T
    BY <1>2, <1>13, <1>14, InductUpTo, Zenon
<1>16. BestOf(best[K], Seen(K))
  <2>1. K \in 0..K
      BY <1>2
  <2> HIDE DEF Seen
  <2> QED BY <1>15, <2>1 DEF T
<1>17. Seen(K) = LaneMarks(score, lane, Lanes)
  <2>0. lane \in Nat /\ lane % Lanes = lane
    <3>1. lane = 0 * Lanes + lane /\ lane \in Nat /\ 0 \in Nat
        BY <1>1
    <3> QED BY <1>1, <3>1, DivModIs
  <2>1. ASSUME NEW k \in 1..K PROVE E(k) % Lanes = lane
    <3>1. k - 1 \in Nat
        BY <1>2
    <3>2. PICK q \in Nat : q = k - 1
        BY <3>1
    <3>3. PICK a \in Nat : a = q * Lanes
        BY <1>1
    <3>4. lane + a \in Nat /\ lane + a = q * Lanes + lane
        BY <2>0, <3>3
    <3>5. (lane + a) % Lanes = lane
        BY <1>1, <3>4, DivModIs
    <3> QED BY <3>2, <3>3, <3>5 DEF E
  <2>2. ASSUME NEW e \in ExpertIds, e % Lanes = lane PROVE \E k \in 1..K : e = E(k)
    <3>1. e \in Nat /\ e < Experts
        BY Constants
    <3>2. PICK q \in Nat : q = e \div Lanes /\ e = q * Lanes + lane /\ q * Lanes \in Nat
        BY <1>1, <2>2, <3>1, DivMod
    <3>3. ~ (K <= q)
      <4>1. SUFFICES ASSUME K <= q PROVE FALSE
          OBVIOUS
      <4>2. K * Lanes <= q * Lanes
          BY <1>1, <1>2, <4>1, TimesMonotone
      <4> QED BY <1>2, <2>0, <3>1, <3>2, <4>2
    <3>4. q + 1 \in 1..K /\ (q + 1) - 1 = q
        BY <1>2, <3>3
    <3>5. e = lane + q * Lanes
        BY <2>0, <3>2
    <3>6. E(q + 1) = e
        BY <3>4, <3>5 DEF E
    <3> QED BY <3>4, <3>6
  <2> QED BY <1>4, <2>0, <2>1, <2>2 DEF LaneMarks
<1> QED
    BY <1>3, <1>16, <1>17

(* A remainder by twice a number is the one by the number, or that much more. *)
LEMMA HalfMod ==
    ASSUME NEW x \in Nat, NEW m \in Nat \ {0}
    PROVE  /\ x % m \in 0..(m - 1) /\ (x \div m) % 2 \in {0, 1}
           /\ (x \div m) % 2 = 0 => x % (2 * m) = x % m
           /\ (x \div m) % 2 = 1 => x % (2 * m) = (x % m) + m
<1>1. PICK q \in Nat : q = x \div m
    BY DivMod
<1>2. PICK r \in 0..(m - 1) : r = x % m
    BY DivMod
<1>3. x = q * m + r /\ q * m \in Nat
    BY <1>1, <1>2, DivMod
<1>4. PICK c \in {0, 1} : c = q % 2
    BY DivMod
<1>5. PICK k \in Nat : q = k * 2 + c
    BY <1>4, DivMod
<1>6. PICK w \in Nat : w = k * (2 * m)
    OBVIOUS
<1>7. q * m = w + c * m
    BY <1>5, <1>6
<1>8. x = k * (2 * m) + (c * m + r)
    BY <1>3, <1>6, <1>7
<1>9. CASE c = 0
  <2>1. x = k * (2 * m) + r
      BY <1>8, <1>9
  <2>2. 2 * m \in Nat \ {0} /\ r \in 0..(2 * m - 1)
      OBVIOUS
  <2>3. x % (2 * m) = r
      BY <2>1, <2>2, DivModIs
  <2> QED BY <1>1, <1>2, <1>4, <1>9, <2>3
<1>10. CASE c = 1
  <2>1. x = k * (2 * m) + (r + m)
      BY <1>6, <1>8, <1>10
  <2>2. 2 * m \in Nat \ {0} /\ r + m \in 0..(2 * m - 1)
      OBVIOUS
  <2>3. x % (2 * m) = r + m
      BY <2>1, <2>2, DivModIs
  <2> QED BY <1>1, <1>2, <1>4, <1>10, <2>3
<1> QED
    BY <1>9, <1>10

(* Lanes half as far apart, a lane and its partner see together what is seen
   at half the distance.                                                    *)
LEMMA PartnerIs ==
    ASSUME NEW m \in Nat \ {0}, NEW d \in Nat \ {0}, Lanes = d * (2 * m), NEW lane \in 0..(Lanes - 1)
    PROVE  /\ Partner(lane, m) \in 0..(Lanes - 1)
           /\ \A e \in Nat : e % m = lane % m <=> \/ e % (2 * m) = Partner(lane, m) % (2 * m)
                                                  \/ e % (2 * m) = lane % (2 * m)
<1> DEFINE p == Partner(lane, m)
<1>1. Lanes \in Nat /\ lane \in Nat /\ lane < Lanes
    BY Constants
<1>2. PICK q \in Nat : q = lane \div m
    BY <1>1, DivMod
<1>3. PICK r \in 0..(m - 1) : r = lane % m
    BY <1>1, DivMod
<1>4. lane = q * m + r /\ q * m \in Nat
    BY <1>1, <1>2, <1>3, DivMod
<1>5. p \in 0..(Lanes - 1) /\ p % m = r /\ (p \div m) % 2 # q % 2
  <2>1. CASE q % 2 = 0
    <3>1. p = lane + m
        BY <1>2, <2>1 DEF Partner
    <3>2. lane % (2 * m) = r
        BY <1>1, <1>2, <1>3, <2>1, HalfMod
    <3>3. 2 * m \in Nat \ {0}
        OBVIOUS
    <3>4. PICK k \in Nat : k = lane \div (2 * m) /\ lane = k * (2 * m) + r
        BY <1>1, <3>2, <3>3, DivMod
    <3>5. k < d
      <4>1. SUFFICES ASSUME d <= k PROVE FALSE
          OBVIOUS
      <4>2. d * (2 * m) <= k * (2 * m)
          BY <3>3, <4>1, TimesMonotone
      <4>3. PICK w \in Nat : w = k * (2 * m)
          BY <3>3
      <4> QED BY <1>1, <3>4, <4>2, <4>3
    <3>6. (k + 1) * (2 * m) <= d * (2 * m)
        BY <3>3, <3>5, TimesMonotone
    <3>7. (k + 1) * (2 * m) = k * (2 * m) + 2 * m
        OBVIOUS
    <3>8. p \in 0..(Lanes - 1)
      <4>1. PICK w \in Nat : w = k * (2 * m)
          BY <3>3
      <4> QED BY <1>1, <3>1, <3>4, <3>6, <3>7, <4>1
    <3>9. p = (q + 1) * m + r /\ p \in Nat /\ q + 1 \in Nat
        BY <1>1, <1>4, <3>1
    <3>10. p \div m = q + 1 /\ p % m = r
        BY <3>9, DivModIs
    <3>11. (q + 1) % 2 # q % 2
        OBVIOUS
    <3> QED BY <3>8, <3>10, <3>11
  <2>2. CASE q % 2 # 0
    <3>1. p = lane - m
        BY <1>2, <2>2 DEF Partner
    <3>2. q # 0
        BY <2>2
    <3>3. PICK c \in Nat : q = c + 1
      <4>1. q - 1 \in Nat /\ q = (q - 1) + 1
          BY <3>2
      <4> QED BY <4>1
    <3>4. q * m = c * m + m /\ c * m \in Nat
        BY <3>3
    <3>5. p = c * m + r /\ p \in Nat
        BY <1>4, <3>1, <3>4
    <3>6. p \div m = c /\ p % m = r
        BY <3>5, DivModIs
    <3>7. p \in 0..(Lanes - 1)
        BY <1>1, <3>1, <3>5
    <3>8. c % 2 # q % 2
        BY <3>3
    <3> QED BY <3>6, <3>7, <3>8
  <2> QED BY <2>1, <2>2
<1> HIDE DEF p
<1>6. p \in Nat
    BY <1>1, <1>5
<1>7. /\ q % 2 = 0 => lane % (2 * m) = r /\ p % (2 * m) = r + m
      /\ q % 2 # 0 => lane % (2 * m) = r + m /\ p % (2 * m) = r
  <2>1. q % 2 \in {0, 1} /\ (q % 2 = 0 => lane % (2 * m) = r) /\ (q % 2 = 1 => lane % (2 * m) = r + m)
      BY <1>1, <1>2, <1>3, HalfMod
  <2>2. PICK u \in {0, 1} : u = (p \div m) % 2
      BY <1>6, HalfMod
  <2>3. (u = 0 => p % (2 * m) = r) /\ (u = 1 => p % (2 * m) = r + m)
      BY <1>5, <1>6, <2>2, HalfMod
  <2>4. q % 2 = 0 <=> u = 1
      BY <1>5, <2>1, <2>2
  <2> QED BY <2>1, <2>2, <2>3, <2>4
<1>8. ASSUME NEW e \in Nat PROVE e % m = r <=> e % (2 * m) \in {r, r + m}
  <2>1. PICK s \in 0..(m - 1) : s = e % m
      BY DivMod
  <2>2. e % (2 * m) \in {s, s + m}
      BY <2>1, HalfMod
  <2>3. s = r => {s, s + m} = {r, r + m}
      OBVIOUS
  <2>4. s # r => s \notin {r, r + m} /\ s + m \notin {r, r + m}
      OBVIOUS
  <2> QED BY <2>1, <2>2, <2>3, <2>4
<1>9. \A e \in Nat : e % (2 * m) \in {r, r + m} <=> e % (2 * m) = p % (2 * m) \/ e % (2 * m) = lane % (2 * m)
    BY <1>7
<1>10. \A e \in Nat : e % m = lane % m <=> e % (2 * m) = p % (2 * m) \/ e % (2 * m) = lane % (2 * m)
    BY <1>3, <1>8, <1>9
<1> QED
    BY <1>5, <1>10 DEF p

LaneIds == 0..(Lanes - 1)
Distance(n) == IF n = 0 THEN Lanes ELSE Masks[n]

LEMMA DistanceIs ==
    /\ Len(Masks) \in Nat \ {0} /\ Distance(0) = Lanes /\ Distance(Len(Masks)) = 1
    /\ \A n \in 1..Len(Masks) : Distance(n) = Masks[n] /\ Distance(n - 1) = 2 * Masks[n]
    /\ \A n \in 0..Len(Masks) : Distance(n) \in Nat \ {0} /\ \E d \in Nat \ {0} : Lanes = d * Distance(n)
<1> DEFINE N == Len(Masks)
<1>1. N \in Nat \ {0} /\ \A n \in 1..N : Masks[n] \in Nat \ {0}
    BY DispatchAssumption
<1>2. Lanes \in Nat \ {0} /\ Lanes = 2 * Masks[1] /\ Masks[N] = 1
    BY Constants, DispatchAssumption
<1>3. \A n \in 2..N : Masks[n - 1] = 2 * Masks[n]
    BY DispatchAssumption
<1> HIDE DEF N
<1>4. ASSUME NEW n \in 1..N PROVE Distance(n) = Masks[n] /\ Distance(n - 1) = 2 * Masks[n]
  <2>1. n = 1 \/ (n \in 2..N /\ n - 1 # 0)
      BY <1>1
  <2>2. CASE n = 1
      BY <1>2, <2>2 DEF Distance
  <2>3. CASE n \in 2..N /\ n - 1 # 0
      BY <1>3, <2>3 DEF Distance
  <2> QED BY <2>1, <2>2, <2>3
<1>5. \A n \in 0..N : Distance(n) \in Nat \ {0}
    BY <1>1, <1>2 DEF Distance
<1> DEFINE T == {n \in 0..N : \E d \in Nat \ {0} : Lanes = d * Distance(n)}
<1>6. 0 \in T
  <2>1. Lanes = 1 * Distance(0)
      BY <1>2 DEF Distance
  <2> QED BY <1>1, <2>1
<1>7. ASSUME NEW n \in 0..N - 1, n \in T PROVE n + 1 \in T
  <2>1. n + 1 \in 0..N /\ n + 1 \in 1..N /\ (n + 1) - 1 = n
      BY <1>1
  <2>2. PICK d \in Nat \ {0} : Lanes = d * Distance(n)
      BY <1>7
  <2>3. PICK m \in Nat \ {0} : m = Distance(n + 1)
      BY <1>5, <2>1
  <2>4. Distance(n) = 2 * m
      BY <1>4, <2>1, <2>3
  <2>5. Lanes = (d * 2) * m /\ d * 2 \in Nat \ {0}
      BY <2>2, <2>4
  <2> QED BY <2>1, <2>3, <2>5
<1> HIDE DEF T
<1>8. \A n \in 0..N : n \in T
    BY <1>1, <1>6, <1>7, InductUpTo, Zenon
<1>9. Distance(N) = 1 /\ Distance(0) = Lanes
    BY <1>1, <1>2 DEF Distance
<1> QED
    BY <1>1, <1>4, <1>5, <1>8, <1>9 DEF T, N

LEMMA PairedLane ==
    ASSUME NEW n \in 1..Len(Masks), NEW lane \in LaneIds
    PROVE  /\ Partner(lane, Masks[n]) \in LaneIds
           /\ \A e \in Nat : e % Distance(n) = lane % Distance(n)
                             <=> \/ e % Distance(n - 1) = Partner(lane, Masks[n]) % Distance(n - 1)
                                 \/ e % Distance(n - 1) = lane % Distance(n - 1)
<1>1. n \in 0..Len(Masks) /\ n - 1 \in 0..Len(Masks)
    BY DistanceIs
<1>2. PICK m \in Nat \ {0} : m = Masks[n] /\ m = Distance(n) /\ Distance(n - 1) = 2 * m
    BY <1>1, DistanceIs
<1>3. PICK d \in Nat \ {0} : Lanes = d * (2 * m)
    BY <1>1, <1>2, DistanceIs
<1>4. lane \in 0..(Lanes - 1)
    BY DEF LaneIds
<1>5. /\ Partner(lane, m) \in 0..(Lanes - 1)
      /\ \A e \in Nat : e % m = lane % m <=> \/ e % (2 * m) = Partner(lane, m) % (2 * m)
                                             \/ e % (2 * m) = lane % (2 * m)
    BY <1>3, <1>4, PartnerIs
<1> QED
    BY <1>2, <1>5 DEF LaneIds

LEMMA ShuffledIs ==
    ASSUME NEW score \in Scores, NEW own \in [LaneIds -> Marks(score)],
           \A lane \in LaneIds : BestOf(own[lane], LaneMarks(score, lane, Lanes))
    PROVE  BestOf(Shuffled(own)[0], Marks(score))
<1> DEFINE N == Len(Masks)
           Turn(n, l) == [lane \in LaneIds |-> Better(l[Partner(lane, Masks[n])], l[lane])]
           IsBest(f) == f = [n \in 0..N |-> IF n = 0 THEN own ELSE Turn(n, f[n - 1])]
           best == CHOOSE f : IsBest(f)
           S == [LaneIds -> Marks(score)]
           F == [x \in (1 .. N) \X S |-> Turn(x[1], x[2])]
<1>1. N \in Nat \ {0}
    BY DistanceIs
<1>2. Shuffled(own) = best[N]
    BY DEF Shuffled, LaneIds
<1>3. ASSUME NEW n \in 1..N, NEW l \in S PROVE Turn(n, l) \in S
  <2>1. \A lane \in LaneIds : Partner(lane, Masks[n]) \in LaneIds
      BY PairedLane
  <2>2. \A lane \in LaneIds : Better(l[Partner(lane, Masks[n])], l[lane]) \in Marks(score)
      BY <2>1, MarksAre
  <2> QED BY <2>2
<1> HIDE DEF N, Turn
<1>4. F \in [(1 .. N) \X S -> S]
    BY <1>3
<1>5. \A n \in 1..N, l \in S : F[<<n, l>>] = Turn(n, l)
    OBVIOUS
<1> HIDE DEF F
<1>6. own \in S /\ N \in Nat
    BY <1>1
<1> HIDE DEF S
<1>7. PICK g \in [0..N -> S] : Iterates(g, N, own, F)
    BY <1>4, <1>6, Iterate, Zenon
<1>8. IsBest(g)
  <2>1. \A n \in 0..N : g[n] = IF n = 0 THEN own ELSE Turn(n, g[n - 1])
    <3> TAKE n \in 0..N
    <3>1. n # 0 => n \in 1..N /\ n - 1 \in 0..N
        BY <1>1
    <3> QED BY <1>5, <1>7, <3>1 DEF Iterates
  <2> QED BY <2>1
<1>9. IsBest(best)
  <2> HIDE DEF IsBest
  <2> QED BY <1>8
<1> HIDE DEF best
<1> DEFINE T == {n \in 0..N : \A lane \in LaneIds : BestOf(best[n][lane], LaneMarks(score, lane, Distance(n)))}
<1>10. 0 \in T
  <2>1. best[0] = own
      BY <1>1, <1>9
  <2> QED BY <1>1, <2>1, DistanceIs
<1>11. ASSUME NEW n \in 0..N - 1, n \in T PROVE n + 1 \in T
  <2>1. n + 1 \in 0..N /\ n + 1 \in 1..N /\ n + 1 # 0 /\ (n + 1) - 1 = n
      BY <1>1
  <2>2. best[n + 1] = Turn(n + 1, best[n])
      BY <1>9, <2>1
  <2>3. ASSUME NEW lane \in LaneIds
        PROVE  BestOf(best[n + 1][lane], LaneMarks(score, lane, Distance(n + 1)))
    <3>1. PICK p \in LaneIds : p = Partner(lane, Masks[n + 1])
        BY <2>1, PairedLane DEF N
    <3>2. best[n + 1][lane] = Better(best[n][p], best[n][lane])
        BY <2>2, <3>1 DEF Turn
    <3>3. BestOf(best[n][p], LaneMarks(score, p, Distance(n))) /\ BestOf(best[n][lane], LaneMarks(score, lane, Distance(n)))
        BY <1>11
    <3>4. LaneMarks(score, p, Distance(n)) \subseteq Int \X Int /\ LaneMarks(score, lane, Distance(n)) \subseteq Int \X Int
        BY MarksAre
    <3>5. BestOf(best[n + 1][lane], LaneMarks(score, p, Distance(n)) \cup LaneMarks(score, lane, Distance(n)))
        BY <3>2, <3>3, <3>4, BetterOf
    <3>6. \A e \in ExpertIds : e % Distance(n + 1) = lane % Distance(n + 1)
                               <=> e % Distance(n) = p % Distance(n) \/ e % Distance(n) = lane % Distance(n)
        BY <2>1, <3>1, PairedLane, Constants DEF N
    <3>7. LaneMarks(score, p, Distance(n)) \cup LaneMarks(score, lane, Distance(n)) = LaneMarks(score, lane, Distance(n + 1))
        BY <3>6 DEF LaneMarks
    <3> QED BY <3>5, <3>7
  <2> QED BY <2>1, <2>3
<1> HIDE DEF T
<1>12. \A n \in 0..N : n \in T
    BY <1>1, <1>10, <1>11, InductUpTo, Zenon
<1>13. N \in 0..N /\ 0 \in LaneIds
    BY <1>1, Constants DEF LaneIds
<1>14. BestOf(best[N][0], LaneMarks(score, 0, 1))
    BY <1>12, <1>13, DistanceIs DEF T, N
<1>15. LaneMarks(score, 0, 1) = Marks(score)
  <2>1. \A e \in ExpertIds : e % 1 = 0 % 1
      BY Constants
  <2> QED BY <2>1 DEF LaneMarks, Marks
<1> QED
    BY <1>2, <1>14, <1>15

LEMMA WarpBestIs ==
    ASSUME NEW score \in Scores
    PROVE  /\ WarpBest(score) \in ExpertIds
           /\ \A f \in ExpertIds : f = WarpBest(score) \/ Above(score, WarpBest(score), f)
<1> DEFINE own == [lane \in LaneIds |-> LaneBest(score, lane)]
           best == Shuffled(own)[0]
<1>1. \A lane \in LaneIds : BestOf(LaneBest(score, lane), LaneMarks(score, lane, Lanes))
    BY LaneBestIs DEF LaneIds
<1>2. \A lane \in LaneIds : LaneBest(score, lane) \in Marks(score)
    BY <1>1, MarksAre DEF BestOf
<1>3. own \in [LaneIds -> Marks(score)] /\ \A lane \in LaneIds : BestOf(own[lane], LaneMarks(score, lane, Lanes))
    BY <1>1, <1>2
<1>4. WarpBest(score) = best[2]
    BY DEF WarpBest, LaneIds
<1> HIDE DEF own
<1>5. BestOf(best, Marks(score))
    BY <1>3, ShuffledIs
<1> HIDE DEF best
<1>6. Experts \in Nat \ {0} /\ \A e \in ExpertIds : e \in Nat /\ e < Experts
    BY Constants
<1>7. best # Nobody
  <2>1. SUFFICES ASSUME best = Nobody PROVE FALSE
      OBVIOUS
  <2>2. 0 \in ExpertIds /\ score[0] \in Nat \cup {-1}
      BY <1>6, Constants DEF Scores
  <2>3. Mark(score, 0) \in Marks(score)
      BY <2>2 DEF Marks
  <2>4. Nobody = Mark(score, 0) \/ RouterScoreBetter(Nobody, Mark(score, 0))
      BY <1>5, <2>1, <2>3 DEF BestOf
  <2> QED BY <1>6, <2>2, <2>4 DEF Nobody, Mark, RouterScoreBetter
<1>8. PICK e \in ExpertIds : best = Mark(score, e)
    BY <1>5, <1>7 DEF BestOf, Marks
<1>9. ASSUME NEW f \in ExpertIds, f # e PROVE Above(score, e, f)
  <2>1. Mark(score, f) \in Marks(score)
      BY DEF Marks
  <2>2. Mark(score, f) # Mark(score, e)
      BY <1>9 DEF Mark
  <2>3. RouterScoreBetter(Mark(score, e), Mark(score, f))
      BY <1>5, <1>8, <2>1, <2>2 DEF BestOf
  <2> QED BY <2>3 DEF RouterScoreBetter, Mark, Above
<1>10. WarpBest(score) = e
    BY <1>4, <1>8 DEF Mark
<1> QED
    BY <1>9, <1>10

LEMMA SomeLeft ==
    ASSUME NEW n \in Nat, n < Experts, NEW list
    PROVE  \E g \in ExpertIds : \A i \in 1..n : list[i] # g
<1> DEFINE gone == {list[i] : i \in 1..n}
           h == [i \in 1..n |-> list[i]]
<1>1. SUFFICES ASSUME ExpertIds \subseteq gone PROVE FALSE
    OBVIOUS
<1>2. h \in Surjection(1..n, gone)
    BY DEF Surjection
<1>3. 1 \in Int /\ n \in Int /\ 0 \in Int /\ Experts \in Nat \ {0} /\ Experts - 1 \in Int
    BY Constants
<1>4. IsFiniteSet(1..n) /\ Cardinality(1..n) = IF 1 > n THEN 0 ELSE n - 1 + 1
    BY <1>3, FS_Interval
<1>5. Cardinality(1..n) = n
    BY <1>4
<1> HIDE DEF gone, h
<1>6. IsFiniteSet(gone) /\ Cardinality(gone) <= Cardinality(1..n)
    BY <1>2, <1>4, FS_Surjection
<1>7. IsFiniteSet(ExpertIds) /\ Cardinality(ExpertIds) <= Cardinality(gone)
    BY <1>1, <1>6, FS_Subset
<1>8. Cardinality(0..(Experts - 1)) = IF 0 > Experts - 1 THEN 0 ELSE (Experts - 1) - 0 + 1
    BY <1>3, FS_Interval
<1>9. Cardinality(ExpertIds) = Experts
    BY <1>3, <1>8, Constants
<1>10. Cardinality(gone) \in Nat
    BY <1>6, FS_CardinalityType
<1> QED
    BY <1>3, <1>5, <1>6, <1>7, <1>9, <1>10

LEMMA WarpTopIs ==
    ASSUME NEW score \in [ExpertIds -> Nat]
    PROVE  Top(score, WarpTop(score))
<1> DEFINE IsLeft(f) == f = [n \in 0..Used |-> IF n = 0 THEN score ELSE
                                LET before == f[n - 1] IN [before EXCEPT ![WarpBest(before)] = -1]]
           left == CHOOSE f : IsLeft(f)
           Less(l) == [l EXCEPT ![WarpBest(l)] = -1]
           F == [x \in (1 .. Used) \X Scores |-> Less(x[2])]
           list == WarpTop(score)
<1>1. Used \in Nat \ {0} /\ Experts \in Nat \ {0} /\ Used <= Experts
    BY Constants
<1>2. list = [n \in 1..Used |-> WarpBest(left[n - 1])]
    BY DEF WarpTop
<1>3. \A l \in Scores : Less(l) \in Scores
    BY DEF Scores
<1>4. F \in [(1 .. Used) \X Scores -> Scores] /\ \A n \in 1..Used, l \in Scores : F[<<n, l>>] = Less(l)
    BY <1>3
<1>5. score \in Scores
    BY DEF Scores
<1> HIDE DEF F
<1>6. PICK g \in [0..Used -> Scores] : Iterates(g, Used, score, F)
    BY <1>1, <1>4, <1>5, Iterate, Zenon
<1>7. IsLeft(g)
  <2>1. \A n \in 0..Used : g[n] = IF n = 0 THEN score ELSE Less(g[n - 1])
    <3> TAKE n \in 0..Used
    <3>1. n # 0 => n \in 1..Used /\ n - 1 \in 0..Used
        BY <1>1
    <3> QED BY <1>4, <1>6, <3>1 DEF Iterates
  <2> QED BY <2>1
<1>8. IsLeft(left)
  <2> HIDE DEF IsLeft
  <2> QED BY <1>7
<1> HIDE DEF left, list
<1> DEFINE Taken(n, e) == \E i \in 1..n : list[i] = e
           T == {n \in 0..Used : left[n] = [e \in ExpertIds |-> IF Taken(n, e) THEN -1 ELSE score[e]]}
<1>9. 0 \in T
  <2>1. left[0] = score
      BY <1>1, <1>8
  <2>2. \A e : ~ Taken(0, e)
      OBVIOUS
  <2> HIDE DEF Taken
  <2> QED BY <1>1, <2>1, <2>2
<1>10. ASSUME NEW n \in 0..Used - 1, n \in T PROVE n + 1 \in T
  <2>1. n + 1 \in 0..Used /\ n + 1 \in 1..Used /\ n + 1 # 0 /\ (n + 1) - 1 = n /\ n \in 0..Used
      BY <1>1
  <2>2. left[n + 1] = [left[n] EXCEPT ![list[n + 1]] = -1]
      BY <1>2, <1>8, <2>1
  <2>3. 1..(n + 1) = (1..n) \cup {n + 1}
      BY <2>1
  <2>4. \A e : Taken(n + 1, e) <=> Taken(n, e) \/ e = list[n + 1]
      BY <2>3
  <2> HIDE DEF Taken
  <2>5. left[n] = [e \in ExpertIds |-> IF Taken(n, e) THEN -1 ELSE score[e]]
      BY <1>10
  <2>6. left[n + 1] = [e \in ExpertIds |-> IF Taken(n + 1, e) THEN -1 ELSE score[e]]
      BY <2>2, <2>4, <2>5
  <2> QED BY <2>1, <2>6
<1> HIDE DEF T
<1>11. \A n \in 0..Used : n \in T
    BY <1>1, <1>9, <1>10, InductUpTo, Zenon
<1>12. ASSUME NEW j \in 1..Used
       PROVE  /\ list[j] \in ExpertIds
              /\ \A i \in 1..Used : i < j => list[i] # list[j]
              /\ \A f \in ExpertIds : (\A i \in 1..Used : i < j => list[i] # f) => f = list[j] \/ Above(score, list[j], f)
  <2>1. j - 1 \in 0..Used /\ j - 1 \in Nat /\ j - 1 < Experts
      BY <1>1
  <2>2. \A i \in 1..Used : i < j <=> i \in 1..(j - 1)
      BY <1>1
  <2> DEFINE l == left[j - 1]
  <2>3. l = [e \in ExpertIds |-> IF Taken(j - 1, e) THEN -1 ELSE score[e]]
      BY <1>11, <2>1 DEF T
  <2>4. list[j] = WarpBest(l)
      BY <1>2
  <2> HIDE DEF l
  <2>5. l \in Scores
    <3> HIDE DEF Taken
    <3> QED BY <2>3 DEF Scores
  <2>6. list[j] \in ExpertIds /\ \A f \in ExpertIds : f = list[j] \/ Above(l, list[j], f)
      BY <2>4, <2>5, WarpBestIs
  <2>7. PICK e \in ExpertIds : ~ Taken(j - 1, e)
      BY <2>1, SomeLeft
  <2>8. ~ Taken(j - 1, list[j])
    <3> HIDE DEF Taken
    <3>1. SUFFICES ASSUME Taken(j - 1, list[j]) PROVE FALSE
        OBVIOUS
    <3>2. l[list[j]] = -1 /\ l[e] = score[e] /\ e # list[j] /\ score[e] \in Nat
        BY <2>3, <2>6, <2>7, <3>1
    <3>3. l[list[j]] > l[e] \/ l[list[j]] = l[e]
        BY <2>6, <3>2 DEF Above
    <3> QED BY <3>2, <3>3
  <2>9. \A f \in ExpertIds : ~ Taken(j - 1, f) => f = list[j] \/ Above(score, list[j], f)
    <3> HIDE DEF Taken
    <3> QED BY <2>3, <2>6, <2>8 DEF Above
  <2>10. \A i \in 1..(j - 1) : i \in 1..Used /\ i < j
      BY <1>1
  <2>11. \A f : (\A i \in 1..Used : i < j => list[i] # f) <=> ~ Taken(j - 1, f)
      BY <2>2, <2>10
  <2> HIDE DEF Taken
  <2> QED BY <2>6, <2>8, <2>9, <2>11
<1>13. list \in [1..Used -> ExpertIds]
    BY <1>2, <1>12
<1> QED
    BY <1>12, <1>13 DEF Top, list

-----------------------------------------------------------------------------
(* Every token gets its experts, and the theorem. *)

LEMMA ChosenIs ==
    ASSUME batch \in Batches, NEW t \in TokenIds
    PROVE  /\ Chosen(t) \in [1..Used -> ExpertIds]
           /\ batch.hash \/ \A j \in 1..Used : Rank(ScoreOf(t), Chosen(t)[j]) = j - 1
<1> DEFINE score == ScoreOf(t)
<1>1. score \in [ExpertIds -> Nat] /\ score \in [ExpertIds -> Int]
  <2>1. Len(batch.tokens) \in Nat
      BY PairsAre
  <2>2. t + 1 \in 1..Len(batch.tokens)
      BY <2>1 DEF TokenIds
  <2>3. PICK n \in 1..Len(batch.tokens) : n = t + 1
      BY <2>2
  <2>4. \A e \in ExpertIds : batch.probs[n][e] + batch.bias[e] \in Nat
      BY DispatchAssumption
  <2> QED BY <2>3, <2>4 DEF ScoreOf
<1> HIDE DEF score
<1>2. CASE batch.hash
  <2>1. HashRow(t) \in [1..Used -> ExpertIds]
      BY DispatchAssumption DEF HashRow
  <2> QED BY <1>2, <2>1 DEF Chosen
<1>3. CASE ~ batch.hash
  <2>1. Chosen(t) \in {WarpTop(score), Insertion(score)}
      BY <1>3 DEF Chosen, score
  <2>2. Top(score, Chosen(t))
      BY <1>1, <2>1, WarpTopIs, InsertionIs
  <2>3. Chosen(t) \in [1..Used -> ExpertIds]
      BY <2>2 DEF Top
  <2>4. \A j \in 1..Used : Rank(score, Chosen(t)[j]) = j - 1
      BY <1>1, <2>2, TopRanks
  <2> QED BY <2>3, <2>4 DEF score
<1> QED
    BY <1>2, <1>3

LEMMA RouteKeeps ==
    ASSUME DispatchInv, Route
    PROVE  DispatchInv'
<1>1. /\ batch \in Batches /\ UNCHANGED <<batch, machine, lists, sorted>>
      /\ chosen' = [t \in TokenIds |-> Chosen(t)]
      /\ stage' = IF CpuMachine THEN "group" ELSE "quantize"
    BY DEF Route, DispatchInv, RouteInv
<1>2. Pairs' = Pairs /\ TokenIds' = TokenIds /\ (CpuMachine' <=> CpuMachine) /\ \A t : ScoreOf(t)' = ScoreOf(t)
    BY <1>1 DEF Pairs, TokenIds, CpuMachine, ScoreOf
<1>3. StageInv'
    BY <1>1, <1>2 DEF StageInv, Kernels
<1>4. Routed'
    BY <1>1, <1>2, ChosenIs DEF Routed
<1>5. batch.hash \/ \A t \in TokenIds : TakesBest(t)'
    BY <1>1, <1>2, ChosenIs DEF TakesBest
<1>6. RouteInv'
    BY <1>1, <1>2, <1>4, <1>5 DEF RouteInv
<1>7. stage' \notin {"prefix", "scatter", "tiles", "cpu_mid", "cpu_down"} /\ stage' \notin Kernels
    BY <1>1 DEF Kernels
<1>8. ListsInv'
    BY <1>1, <1>2, <1>7 DEF ListsInv, DispatchInv
<1>9. stage' \notin {"count", "prefix", "scatter", "tiles", "gate_up", "quantize_mid", "zero", "down", "cpu_down",
                     "sum", "done"}
    BY <1>1
<1>10. ValuesInv'
    BY <1>9 DEF ValuesInv
<1> QED
    BY <1>3, <1>6, <1>8, <1>10 DEF DispatchInv

LEMMA DispatchStarts == DInit => DispatchInv
<1> SUFFICES ASSUME DInit PROVE DispatchInv
    OBVIOUS
<1>1. StageInv
    BY DEF DInit, StageInv, Kernels
<1>2. RouteInv
    BY DEF DInit, RouteInv
<1>3. stage = "route" /\ sorted = [p \in Pairs |-> 0] /\ lists = NoLists
    BY DEF DInit
<1>4. ListsInv
  <2>1. sorted = [i \in Pairs |-> sorted[i]]
      BY <1>3
  <2>2. lists = [counts |-> lists.counts, offsets |-> lists.offsets, cursors |-> lists.cursors,
                 tiles |-> lists.tiles, tiles16 |-> lists.tiles16]
      BY <1>3 DEF NoLists
  <2> QED BY <1>3, <2>1, <2>2 DEF ListsInv, Kernels
<1>5. ValuesInv
    BY <1>3 DEF ValuesInv
<1> QED
    BY <1>1, <1>2, <1>4, <1>5 DEF DispatchInv

LEMMA DispatchStays == DispatchInv /\ UNCHANGED dvars => DispatchInv'
<1> SUFFICES ASSUME DispatchInv, UNCHANGED dvars PROVE DispatchInv'
    OBVIOUS
<1>1. Fixed /\ UNCHANGED <<stage, lists, toScatter, sorted, gate, mid, down, out>>
    BY DEF dvars, Fixed
<1>2. StageInv'
    BY <1>1, Kept DEF StageInv, DispatchInv, Kernels
<1>3. RouteInv'
    BY <1>1, Kept DEF RouteInv, DispatchInv, Fixed
<1>4. ListsInv'
  <2>1. Sorted => Sorted'
      BY <1>1, SortedKept DEF Sorted
  <2>2. (CountsAre' <=> CountsAre) /\ (OffsetsAre' <=> OffsetsAre) /\ (Tiled' <=> Tiled)
      BY <1>1, SortedKept
  <2>3. Scattered(toScatter, lists.cursors, sorted) => Scattered(toScatter, lists.cursors, sorted)'
    <3>1. \A e : Ran(toScatter, e)' = Ran(toScatter, e)
        BY <1>1, Kept DEF Ran
    <3>2. lists' = lists /\ toScatter' = toScatter /\ sorted' = sorted /\ Pairs' = Pairs
        BY <1>1, Kept
    <3>3. \A e : OffsetOf(e)' = OffsetOf(e)
        BY <1>1, Kept
    <3>4. chosen' = chosen
        BY <1>1 DEF Fixed
    <3> QED BY <3>1, <3>2, <3>3, <3>4 DEF Scattered, ExpertOf, PairToken, SlotOf
  <2>4. lists' = lists /\ stage' = stage /\ sorted' = sorted /\ Pairs' = Pairs
      BY <1>1, Kept
  <2>5. (Many' <=> Many) /\ (Tiles' <=> Tiles) /\ \A e : OffsetOf(e)' = OffsetOf(e)
      BY <1>1, Kept
  <2> QED BY <2>1, <2>2, <2>3, <2>4, <2>5 DEF ListsInv, DispatchInv
<1>5. ValuesInv'
    BY <1>1, Kept DEF ValuesInv, DispatchInv
<1> QED
    BY <1>2, <1>3, <1>4, <1>5 DEF DispatchInv

(* The routed experts: whichever kernels run and in whatever order the
   scatter places the pairs, a layer that is done has given every token the
   sum of its own experts over its own input, each with the weight of its
   slot and each once; and these score best, lower ids first among equals
   (topk_desc, routed_moe_launch, layer_routed_moe_batch).                 *)
THEOREM EveryPairOnceAlways == DSpec => []EveryPairOnce
<1>1. DispatchInv /\ [DNext]_dvars => DispatchInv'
  <2> SUFFICES ASSUME DispatchInv, [DNext]_dvars PROVE DispatchInv'
      OBVIOUS
  <2>1. CASE Route
      BY <2>1, RouteKeeps
  <2>2. CASE Quantize
      BY <2>2, QuantizeKeeps
  <2>3. CASE Count
      BY <2>3, CountKeeps
  <2>4. CASE Prefix
      BY <2>4, PrefixKeeps
  <2>5. CASE Scatter
      BY <2>5, ScatterKeeps
  <2>6. CASE BuildTiles
      BY <2>6, BuildTilesKeeps
  <2>7. CASE GateUp
      BY <2>7, GateUpKeeps
  <2>8. CASE QuantizeMid
      BY <2>8, QuantizeMidKeeps
  <2>9. CASE Zero
      BY <2>9, ZeroKeeps
  <2>10. CASE DownProject
      BY <2>10, DownProjectKeeps
  <2>11. CASE SumSlots
      BY <2>11, SumSlotsKeeps
  <2>12. CASE Group
      BY <2>12, GroupKeeps
  <2>13. CASE CpuMid
      BY <2>13, CpuMidKeeps
  <2>14. CASE CpuDown
      BY <2>14, CpuDownKeeps
  <2>15. CASE UNCHANGED dvars
      BY <2>15, DispatchStays
  <2> QED
      BY <2>1, <2>2, <2>3, <2>4, <2>5, <2>6, <2>7, <2>8, <2>9, <2>10, <2>11, <2>12, <2>13, <2>14, <2>15 DEF DNext
<1>2. DispatchInv => EveryPairOnce
  <2> SUFFICES ASSUME DispatchInv PROVE EveryPairOnce
      OBVIOUS
  <2>1. stage = "done" => \A t \in TokenIds : (batch.hash \/ TakesBest(t)) /\ out[t] = Sum(t)
      BY DEF DispatchInv, RouteInv, ValuesInv
  <2> QED BY <2>1 DEF EveryPairOnce, Sum
<1> QED
    BY <1>1, <1>2, DispatchStarts, PTL DEF DSpec


=============================================================================
