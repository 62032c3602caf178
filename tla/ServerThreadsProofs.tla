------------------------ MODULE ServerThreadsProofs ------------------------
(***************************************************************************)
(* Proofs about ServerThreads for any set of connections: types, the FIFO  *)
(* of the intrusive list, that no thread follows a pointer to a job its    *)
(* client has freed, that s->clients counts the client threads, that the   *)
(* server is closed only after its last use, and that the threads          *)
(* implement the safety part of RequestLifecycle.                          *)
(***************************************************************************)
EXTENDS ServerThreads, FiniteSetTheorems, SequenceTheorems, TLAPS

\* The number of jobs the worker has finished.
Finished == IF Serving THEN taken - 1 ELSE taken

Blocked  == {"check", "asleep", "woken"}
After    == {"closing", "leaving", "gone"}
Stopping == {"join", "joinOnly", "await", "asleep", "persist", "close", "exited"}

\* Client and worker agree on who may touch a job.
ClientInv ==
  \A c \in Conns :
    /\ c \in live <=> pc[c] \in {"parsed", "refused"} \cup Blocked
    /\ c \in open <=> pc[c] \notin {"away", "leaving", "gone"}
    /\ jmu[c] = "client" <=> pc[c] \in {"parsed", "refused", "check"}
    /\ jmu[c] = "worker" <=> workerPc = "unlocking" /\ held = c
    /\ pc[c] = "asleep" => ~done[c]
    /\ pc[c] = "woken" => done[c]
    /\ pc[c] \in Blocked \/ done[c] \/ next[c] # NoJob
         => \E i \in 1..Len(admitted) : admitted[i] = c

\* An entered job keeps its client blocked until the worker has finished it.
AdmittedInv ==
  /\ \A i \in 1..Len(admitted) :
       /\ pc[admitted[i]] \in Blocked \cup After
       /\ done[admitted[i]] <=> i <= Finished
       /\ pc[admitted[i]] \in After => done[admitted[i]]
  /\ \A i, j \in 1..Len(admitted) : admitted[i] = admitted[j] => i = j

WorkerInv ==
  /\ WorkerHolds => taken >= 1 /\ held = admitted[taken]
  /\ workerPc = "unlocking" => pc[held] = "woken"
  /\ workerPc = "exited" => stopping /\ head = NoJob

\* How far main is tells which threads can still be there.
MainInv ==
  /\ stopping <=> mainPc \in Stopping
  /\ mainPc \in {"listen", "joinOnly"} => \A c \in Conns : pc[c] = "away"
  /\ \A c \in Conns : pc[c] = "spawning" <=> mainPc = "spawn" /\ arrival = c
  /\ mainPc = "spawn" => arrival \in Conns
  /\ mainPc \in {"await", "asleep", "persist", "close", "exited"}
       => workerPc = "exited"
  /\ mainPc \in {"persist", "close", "exited"} =>
       \A c \in Conns : pc[c] \in {"away", "gone"}
  /\ resources = "closed" => mainPc = "exited"

CountInv == IsFiniteSet(Counted) /\ clients = Cardinality(Counted)

IInv ==
  /\ TypeOK /\ ListIsFifo /\ ClientInv /\ AdmittedInv /\ WorkerInv /\ MainInv
  /\ CountInv

-----------------------------------------------------------------------------
\* s->clients stays the number of client threads that are not gone: the threads
\* that a step starts or ends are counted in the same step.
LEMMA CountStep == IInv /\ Next => CountInv'
<1> SUFFICES ASSUME IInv, Next PROVE CountInv'
  OBVIOUS
<1>1. IsFiniteSet(Counted) /\ clients = Cardinality(Counted)
  BY DEF IInv, CountInv
<1>2. CASE Counted' = Counted /\ clients' = clients
  BY <1>1, <1>2 DEF CountInv
<1>3. ASSUME NEW c, c \notin Counted, Counted' = Counted \cup {c},
             clients' = clients + 1
      PROVE  CountInv'
  BY <1>1, <1>3, FS_AddElement DEF CountInv
<1>4. ASSUME NEW c, c \in Counted, Counted' = Counted \ {c},
             clients' = clients - 1
      PROVE  CountInv'
  BY <1>1, <1>4, FS_RemoveElement DEF CountInv
<1>5. clients \in Nat
  BY <1>1, FS_CardinalityType
<1>6. Counted # {} => clients > 0
  BY <1>1, <1>5, FS_EmptySet
<1>7. CASE MainStep
  <2>1. CASE \E c \in Conns : AcceptConn(c)
    <3>1. PICK c \in Conns : AcceptConn(c)
      BY <2>1
    <3>2. CASE stopRequested
      <4>1. Counted' = Counted /\ clients' = clients
        BY <3>1, <3>2 DEF AcceptConn, Counted, IInv, TypeOK
      <4> QED BY <4>1, <1>2
    <3>3. CASE ~stopRequested
      <4>1. c \notin Counted /\ Counted' = Counted \cup {c} /\ clients' = clients + 1
        BY <3>1, <3>3 DEF AcceptConn, Counted, IInv, TypeOK
      <4> QED BY <4>1, <1>3
    <3> QED BY <3>2, <3>3
  <2>2. CASE SpawnFails
    <3>1. arrival \in Counted /\ Counted' = Counted \ {arrival} /\ clients' = clients - 1
      BY <2>2 DEF SpawnFails, Counted, IInv, TypeOK, MainInv
    <3> QED BY <3>1, <1>4
  <2>3. CASE SpawnClient
    <3>1. Counted' = Counted /\ clients' = clients
      BY <2>3 DEF SpawnClient, Counted, IInv, TypeOK, MainInv
    <3> QED BY <3>1, <1>2
  <2>4. CASE \/ ListenFails \/ Listen \/ TestStop \/ AcceptFails \/ BeginStopping
             \/ JoinWorker \/ AwaitClients \/ PersistSession \/ CloseResources
    <3>1. Counted' = Counted /\ clients' = clients
      BY <2>4 DEF ListenFails, Listen, TestStop, AcceptFails, BeginStopping,
        JoinWorker, AwaitClients, PersistSession, CloseResources, Counted
    <3> QED BY <3>1, <1>2
  <2> QED BY <1>7, <2>1, <2>2, <2>3, <2>4 DEF MainStep
<1>8. CASE \E c \in Conns : ClientStep(c)
  <2>1. PICK c \in Conns : ClientStep(c)
    BY <1>8
  <2>2. CASE ClientDone(c)
    <3>1. c \in Counted /\ Counted' = Counted \ {c}
      BY <2>2 DEF ClientDone, Counted, IInv, TypeOK
    <3>2. clients' = clients - 1
      BY <2>2, <3>1, <1>6 DEF ClientDone
    <3> QED BY <3>1, <3>2, <1>4
  <2>3. CASE ~ClientDone(c)
    <3>1. Counted' = Counted /\ clients' = clients
      BY <2>1, <2>3 DEF ClientStep, ReplyDirectly, ParseRequest, Enqueue,
        ReplyRefused, SleepOnJob, WakeOnJob, LeaveJob, FreeJob, CloseConn,
        Counted, IInv, TypeOK
    <3> QED BY <3>1, <1>2
  <2> QED BY <2>2, <2>3
<1>9. CASE WorkerStep
  <2>1. Counted' = Counted /\ clients' = clients
    BY <1>9 DEF WorkerStep, Dequeue, SleepOrQuit, ClearNext, Generate, MarkDone,
      UnlockJob, Counted, IInv, TypeOK
  <2> QED BY <2>1, <1>2
<1>10. CASE StopSignal \/ KillSignal \/ Ended
  <2>1. Counted' = Counted /\ clients' = clients
    BY <1>10 DEF StopSignal, KillSignal, Ended, vars, Counted
  <2> QED BY <2>1, <1>2
<1> QED BY <1>7, <1>8, <1>9, <1>10 DEF Next

\* The invariant holds when the worker has just been started.
LEMMA InitInv == Init => IInv
<1> SUFFICES ASSUME Init PROVE IInv
  OBVIOUS
<1>1. Counted = {}
  BY DEF Init, Counted
<1>2. CountInv
  BY <1>1, FS_EmptySet DEF CountInv, Init
<1>3. admitted \in Seq(Conns) /\ Len(admitted) = 0 /\ taken = 0
  BY EmptySeq DEF Init
<1>4. TypeOK
  <2>1. /\ stopRequested \in BOOLEAN /\ killed \in BOOLEAN
        /\ listening \in BOOLEAN /\ stopping \in BOOLEAN
    BY Zenon DEF Init
  <2>2. /\ done \in [Conns -> BOOLEAN]
        /\ jmu \in [Conns -> {"none", "client", "worker"}]
        /\ next \in [Conns -> Conns \cup {NoJob}]
        /\ pc \in [Conns -> ClientPcs]
    BY DEF Init, ClientPcs
  <2> QED BY <1>3, <2>1, <2>2 DEF Init, TypeOK, WorkerPcs, MainPcs
<1>5. ListIsFifo /\ AdmittedInv
  BY <1>3 DEF Init, ListIsFifo, AdmittedInv
<1>6. ClientInv /\ WorkerInv /\ MainInv
  BY <1>3, ConnsAssumption DEF Init, ClientInv, WorkerInv, MainInv, WorkerHolds,
    Blocked, Stopping
<1> QED BY <1>2, <1>4, <1>5, <1>6 DEF IInv

\* enqueue keeps the list a FIFO and the job it links is new to the list.
LEMMA EnqueueStep ==
  ASSUME IInv, NEW c \in Conns, Enqueue(c), CountInv'
  PROVE  IInv'
<1> USE ConnsAssumption DEF IInv, TypeOK, ListIsFifo, ClientInv, AdmittedInv,
  WorkerInv, MainInv, WorkerHolds, Serving, Finished, Blocked, After, Stopping,
  queueVars, jobVars, mainVars, signalVars, ClientPcs, WorkerPcs, MainPcs
<1>1. clients' \in Nat
  BY FS_CardinalityType DEF CountInv
<1>2. CASE stopping
  BY <1>1, <1>2 DEF Enqueue
<1>3. CASE ~stopping
  <2> DEFINE n == Len(admitted)
  <2>1. /\ Link(c) /\ pc[c] = "parsed" /\ pc' = [pc EXCEPT ![c] = "check"]
        /\ workerPc' = WakeWorker
        /\ UNCHANGED <<signalVars, stopping, clients, jobVars, open, answered,
                       held, mainVars>>
    BY <1>3 DEF Enqueue
  <2>2. /\ admitted' \in Seq(Conns) /\ Len(admitted') = n + 1
        /\ \A i \in 1..n : admitted'[i] = admitted[i]
        /\ admitted'[n + 1] = c
    BY <2>1, AppendProperties DEF Link
  <2>3. /\ \A i \in 1..n : admitted[i] # c
        /\ ~done[c] /\ next[c] = NoJob
    BY <2>1
  <2>4. n \in Nat /\ taken' = taken /\ taken \in 0..n
    BY <2>1 DEF Link
  <2>5. tail # NoJob <=> taken < n
    BY <2>4, ElementOfSeq
  <2> HIDE DEF n
  <2>6. TypeOK'
    <3>1. /\ stopRequested' \in BOOLEAN /\ killed' \in BOOLEAN
          /\ listening' \in BOOLEAN /\ stopping' \in BOOLEAN
      BY <2>1
    <3>2. taken' \in 0..Len(admitted')
      BY <2>2, <2>4
    <3>3. head' \in Conns \cup {NoJob} /\ tail' \in Conns \cup {NoJob}
      BY <2>1 DEF Link
    <3>4. next' \in [Conns -> Conns \cup {NoJob}]
      <4>1. CASE tail = NoJob
        BY <2>1, <4>1 DEF Link
      <4>2. CASE tail # NoJob
        BY <2>1, <4>2 DEF Link
      <4> QED BY <4>1, <4>2
    <3>5. pc' \in [Conns -> ClientPcs] /\ workerPc' \in WorkerPcs
      BY <2>1 DEF WakeWorker
    <3> QED BY <2>1, <2>2, <3>1, <3>2, <3>3, <3>4, <3>5, <1>1
  <2>7. ListIsFifo'
    <3>1. CASE taken < n
      <4>1. tail = admitted[n] /\ head = admitted[taken + 1] /\ n \in 1..n
        BY <2>4, <3>1 DEF n
      <4>2. \A i \in (taken + 1)..n : i # n => admitted[i] # tail
        BY <2>4, <4>1 DEF n
      <4>3. head' = head /\ tail' = c /\ next' = [next EXCEPT ![tail] = c]
        BY <2>1, <2>5, <3>1 DEF Link
      <4>4. \A i \in (taken + 1)..(n + 1) :
              next'[admitted'[i]] = IF i < n + 1 THEN admitted'[i + 1] ELSE NoJob
        <5> SUFFICES ASSUME NEW i \in (taken + 1)..(n + 1)
            PROVE next'[admitted'[i]] = IF i < n + 1 THEN admitted'[i + 1] ELSE NoJob
          OBVIOUS
        <5>1. CASE i < n
          BY <2>2, <2>4, <4>2, <4>3, <5>1, ElementOfSeq DEF n
        <5>2. CASE i = n
          BY <2>2, <2>4, <4>1, <4>3, <5>2, ElementOfSeq DEF n
        <5>3. CASE i = n + 1
          BY <2>2, <2>3, <2>4, <4>1, <4>3, <5>3, ElementOfSeq DEF n
        <5> QED BY <2>4, <5>1, <5>2, <5>3
      <4> QED BY <2>2, <2>4, <3>1, <4>1, <4>3, <4>4
    <3>2. CASE taken = n
      BY <2>1, <2>2, <2>3, <2>4, <2>5, <3>2, SMTT(30) DEF Link, n
    <3> QED BY <3>1, <3>2, <2>4
  <2>8. ClientInv'
    BY <2>1, <2>2, <2>3, <2>4, <2>5, SMTT(30) DEF Link, WakeWorker, n
  <2>9. AdmittedInv'
    BY <2>1, <2>2, <2>3, <2>4, <2>5, SMTT(30) DEF Link, WakeWorker, n
  <2>10. WorkerInv'
    BY <2>1, <2>2, <2>3, <2>4, <2>5, <1>3, SMTT(30) DEF Link, WakeWorker, n
  <2>11. MainInv'
    BY <2>1, <1>3, SMTT(30) DEF Link, WakeWorker
  <2> QED BY <2>6, <2>7, <2>8, <2>9, <2>10, <2>11, <1>1
<1> QED BY <1>2, <1>3

\* Every step of the server keeps the inductive invariant.
LEMMA StepInv == IInv /\ [Next]_vars => IInv'
<1> SUFFICES ASSUME IInv, [Next]_vars PROVE IInv'
  OBVIOUS
<1> USE ConnsAssumption DEF IInv, TypeOK, ListIsFifo, ClientInv, AdmittedInv,
  WorkerInv, MainInv, WorkerHolds, Serving, Finished, Blocked, After, Stopping,
  queueVars, jobVars, mainVars, signalVars, ClientPcs, WorkerPcs, MainPcs
<1>0. CASE UNCHANGED vars
  BY <1>0 DEF vars, CountInv, Counted
<1> SUFFICES ASSUME Next PROVE IInv'
  BY <1>0
<1>1. CountInv' /\ clients' \in Nat
  BY CountStep, FS_CardinalityType DEF CountInv
<1>2. CASE StopSignal
  <2>1. /\ stopRequested' \in BOOLEAN /\ killed' \in BOOLEAN
        /\ listening' \in BOOLEAN /\ stopping' \in BOOLEAN
    BY <1>2, Zenon DEF StopSignal
  <2> QED BY <1>1, <1>2, <2>1 DEF StopSignal
<1>3. CASE KillSignal
  BY <1>1, <1>3 DEF KillSignal
<1>4. CASE MainStep
  <2>1. CASE ListenFails
    BY <2>1, <1>1 DEF ListenFails, WakeWorker
  <2>2. CASE Listen
    BY <2>2, <1>1 DEF Listen
  <2>3. CASE TestStop
    BY <2>3, <1>1 DEF TestStop
  <2>4. CASE AcceptFails
    BY <2>4, <1>1 DEF AcceptFails
  <2>5. CASE SpawnClient
    BY <2>5, <1>1 DEF SpawnClient
  <2>6. CASE SpawnFails
    BY <2>6, <1>1 DEF SpawnFails
  <2>7. CASE JoinWorker
    BY <2>7, <1>1 DEF JoinWorker
  <2>8. CASE PersistSession
    BY <2>8, <1>1 DEF PersistSession
  <2>9. CASE CloseResources
    BY <2>9, <1>1 DEF CloseResources
  <2>10. CASE BeginStopping
    <3>1. /\ stopRequested' \in BOOLEAN /\ killed' \in BOOLEAN
          /\ listening' \in BOOLEAN /\ stopping' \in BOOLEAN
      BY <2>10, Zenon DEF BeginStopping
    <3> QED BY <1>1, <2>10, <3>1 DEF BeginStopping, WakeWorker
  <2>11. CASE AwaitClients
    <3>1. clients = 0 => Counted = {}
      BY FS_EmptySet DEF CountInv
    <3>2. clients = 0 => \A c \in Conns : pc[c] \in {"away", "gone"}
      BY <3>1 DEF Counted
    <3>3. mainPc' = "persist" => clients = 0
      BY <2>11, FS_CardinalityType DEF AwaitClients, CountInv
    <3> QED BY <1>1, <2>11, <3>2, <3>3 DEF AwaitClients
  <2>12. CASE \E c \in Conns : AcceptConn(c)
    <3>1. PICK c \in Conns : AcceptConn(c)
      BY <2>12
    <3>2. CASE stopRequested
      BY <1>1, <3>1, <3>2 DEF AcceptConn
    <3>3. CASE ~stopRequested
      BY <1>1, <3>1, <3>3 DEF AcceptConn
    <3> QED BY <3>2, <3>3
  <2> QED BY <1>4, <2>1, <2>2, <2>3, <2>4, <2>5, <2>6, <2>7, <2>8, <2>9, <2>10,
    <2>11, <2>12 DEF MainStep
<1>5. CASE \E c \in Conns : ClientStep(c)
  <2> PICK c \in Conns : ClientStep(c)
    BY <1>5
  <2>1. CASE ReplyDirectly(c)
    BY <2>1, <1>1 DEF ReplyDirectly, Respond
  <2>2. CASE ParseRequest(c)
    BY <2>2, <1>1 DEF ParseRequest
  <2>3. CASE ReplyRefused(c)
    BY <2>3, <1>1 DEF ReplyRefused, Respond, FreeJob
  <2>4. CASE SleepOnJob(c)
    BY <2>4, <1>1 DEF SleepOnJob
  <2>5. CASE WakeOnJob(c)
    BY <2>5, <1>1 DEF WakeOnJob
  <2>6. CASE LeaveJob(c)
    BY <2>6, <1>1 DEF LeaveJob, FreeJob
  <2>7. CASE CloseConn(c)
    BY <2>7, <1>1 DEF CloseConn
  <2>8. CASE ClientDone(c)
    BY <2>8, <1>1 DEF ClientDone, WakeMain
  <2>9. CASE Enqueue(c)
    BY <1>1, <2>9, EnqueueStep
  <2> QED BY <2>1, <2>2, <2>3, <2>4, <2>5, <2>6, <2>7, <2>8, <2>9 DEF ClientStep
<1>6. CASE WorkerStep
  <2>1. CASE Dequeue
    BY <2>1, <1>1 DEF Dequeue, TailAfterUnlink
  <2>2. CASE SleepOrQuit
    BY <2>2, <1>1 DEF SleepOrQuit
  <2>3. CASE ClearNext
    BY <2>3, <1>1 DEF ClearNext
  <2>4. CASE Generate
    BY <2>4, <1>1 DEF Generate, Respond
  <2>5. CASE MarkDone
    BY <2>5, <1>1 DEF MarkDone
  <2>6. CASE UnlockJob
    BY <2>6, <1>1 DEF UnlockJob
  <2> QED BY <1>6, <2>1, <2>2, <2>3, <2>4, <2>5, <2>6 DEF WorkerStep
<1>7. CASE Ended
  BY <1>0, <1>7 DEF Ended
<1> QED BY <1>2, <1>3, <1>4, <1>5, <1>6, <1>7 DEF Next

\* The inductive invariant holds in every reachable state.
THEOREM Invariance == Spec => []IInv
<1> QED BY InitInv, StepInv, PTL DEF Spec

-----------------------------------------------------------------------------
\* Every variable of the server threads keeps its type.
THEOREM TypeCorrect == Spec => []TypeOK
<1>1. IInv => TypeOK
  BY DEF IInv
<1> QED BY <1>1, Invariance, PTL

\* For any number of clients the list is the FIFO of the jobs not yet dequeued.
THEOREM QueueIsFifo == Spec => []ListIsFifo
<1>1. IInv => ListIsFifo
  BY DEF IInv
<1> QED BY <1>1, Invariance, PTL

\* No job reachable from the list or the worker has been freed by its client.
THEOREM NoDanglingJob == Spec => []JobStorageSafe
<1>1. IInv => JobStorageSafe
  <2> SUFFICES ASSUME IInv PROVE JobStorageSafe
    OBVIOUS
  <2> USE DEF IInv, TypeOK, ClientInv, AdmittedInv, WorkerInv, WorkerHolds,
    Serving, Finished, Blocked, After
  <2>1. ASSUME NEW i \in (taken + 1)..Len(admitted)
        PROVE  admitted[i] \in live \cap open
    <3>1. i \in 1..Len(admitted) /\ admitted[i] \in Conns /\ ~(i <= Finished)
      BY ElementOfSeq
    <3>2. pc[admitted[i]] \in Blocked
      BY <3>1
    <3> QED BY <3>1, <3>2
  <2>2. ASSUME WorkerHolds PROVE held \in live \cap open
    <3>1. taken \in 1..Len(admitted) /\ held = admitted[taken] /\ held \in Conns
      BY <2>2, ElementOfSeq
    <3>2. pc[held] \in Blocked
      BY <2>2, <3>1
    <3> QED BY <3>1, <3>2
  <2> QED BY <2>1, <2>2 DEF JobStorageSafe
<1> QED BY <1>1, Invariance, PTL

\* The worker never writes to a socket that its client thread may be using.
THEOREM SocketHasOneWriter == Spec => []OneWriterPerSocket
<1>1. IInv => OneWriterPerSocket
  <2> SUFFICES ASSUME IInv, workerPc = "serving"
               PROVE  pc[held] \in {"check", "asleep"} /\ ~done[held]
    BY DEF OneWriterPerSocket
  <2> USE DEF IInv, TypeOK, ClientInv, AdmittedInv, WorkerInv, WorkerHolds,
    Serving, Finished, Blocked, After
  <2>1. taken \in 1..Len(admitted) /\ held = admitted[taken] /\ held \in Conns
    BY ElementOfSeq
  <2>2. ~done[held] /\ pc[held] \in Blocked
    BY <2>1
  <2> QED BY <2>1, <2>2
<1> QED BY <1>1, Invariance, PTL

\* s->clients is exact, so the shutdown waits for every client thread.
THEOREM ClientCountExact == Spec => []ClientsCounted
<1>1. IInv => ClientsCounted
  BY DEF IInv, CountInv, ClientsCounted
<1> QED BY <1>1, Invariance, PTL

\* Nothing is freed at shutdown that a thread may still use.
THEOREM SafeShutdown == Spec => []ClosedAfterLastUse
<1>1. IInv => ClosedAfterLastUse
  <2> SUFFICES ASSUME IInv, resources = "closed"
               PROVE  /\ Counted = {} /\ workerPc = "exited"
                      /\ taken = Len(admitted) /\ live = {} /\ open = {}
    BY DEF ClosedAfterLastUse
  <2> USE DEF IInv, TypeOK, ClientInv, ListIsFifo, WorkerInv, MainInv, Blocked
  <2>1. workerPc = "exited" /\ head = NoJob
    OBVIOUS
  <2>2. \A c \in Conns : pc[c] \in {"away", "gone"}
    OBVIOUS
  <2>3. taken = Len(admitted)
    BY <2>1, ElementOfSeq, ConnsAssumption
  <2> QED BY <2>1, <2>2, <2>3 DEF Counted
<1> QED BY <1>1, Invariance, PTL
-----------------------------------------------------------------------------
\* Under the refinement mapping, each step of the threads is a step of
\* RequestLifecycle or leaves its variables alone.
LEMMA LifecycleStep ==
  IInv /\ IInv' /\ [Next]_vars => [Lifecycle!Next]_(Lifecycle!vars)
<1> SUFFICES ASSUME IInv, IInv', [Next]_vars
             PROVE  [Lifecycle!Next]_(Lifecycle!vars)
  OBVIOUS
<1> USE ConnsAssumption DEF IInv, TypeOK, ListIsFifo, ClientInv, AdmittedInv,
  WorkerInv, MainInv, WorkerHolds, Serving, Finished, Blocked, After, Stopping,
  queueVars, jobVars, mainVars, signalVars, Lifecycle!vars
<1>1. CASE UNCHANGED vars \/ Ended
  <2>1. UNCHANGED <<admitted, workerPc, held, taken, live, killed, resources>>
    BY <1>1 DEF vars, Ended
  <2> QED BY <2>1
<1> SUFFICES ASSUME Next, ~Ended PROVE [Lifecycle!Next]_(Lifecycle!vars)
  BY <1>1
<1>2. Running /\ ~killed /\ resources = "open"
  BY DEF Next, Running
<1>3. CASE StopSignal
  BY <1>3 DEF StopSignal
<1>4. CASE KillSignal
  BY <1>2, <1>4 DEF KillSignal, Lifecycle!Next, Lifecycle!Kill
<1>5. CASE MainStep
  <2>1. CASE CloseResources
    <3>1. taken = Len(admitted) /\ live = {} /\ workerPc = "exited"
      BY <2>1, ElementOfSeq DEF CloseResources
    <3> QED BY <1>2, <2>1, <3>1
      DEF CloseResources, Lifecycle!Next, Lifecycle!Close, Lifecycle!Entered
  <2>2. CASE ~CloseResources
    <3>1. UNCHANGED <<queueVars, jobVars, held, resources, killed>>
      BY <1>5, <2>2 DEF MainStep, ListenFails, Listen, TestStop, AcceptFails,
        AcceptConn, SpawnClient, SpawnFails, BeginStopping, JoinWorker,
        AwaitClients, PersistSession
    <3>2. Serving' = Serving
      BY <1>5, <2>2 DEF MainStep, ListenFails, Listen, TestStop, AcceptFails,
        AcceptConn, SpawnClient, SpawnFails, BeginStopping, JoinWorker,
        AwaitClients, PersistSession, WakeWorker
    <3> QED BY <3>1, <3>2
  <2> QED BY <2>1, <2>2
<1>6. CASE \E c \in Conns : ClientStep(c)
  <2> PICK c \in Conns : ClientStep(c)
    BY <1>6
  <2>1. CASE Enqueue(c)
    <3>1. CASE stopping
      BY <2>1, <3>1 DEF Enqueue
    <3>2. CASE ~stopping
      <4>1. /\ admitted' = Append(admitted, c) /\ Len(admitted') = Len(admitted) + 1
            /\ \A i \in 1..Len(admitted) : admitted'[i] = admitted[i]
            /\ admitted'[Len(admitted) + 1] = c
        <5>1. admitted' = Append(admitted, c) /\ admitted \in Seq(Conns)
          BY <2>1, <3>2 DEF Enqueue, Link
        <5> QED BY <5>1, AppendProperties
      <4>2. \A i \in 1..Len(admitted) : admitted[i] # c
        BY <2>1 DEF Enqueue
      <4>3. /\ UNCHANGED <<taken, live, held, killed, resources>>
            /\ Serving' = Serving
        BY <2>1, <3>2 DEF Enqueue, Link, WakeWorker
      <4>4. c \in live
        BY <2>1 DEF Enqueue
      <4>5. UNCHANGED {d \in Conns \ live : \E i \in 1..Len(admitted) : admitted[i] = d}
        BY <4>1, <4>3, <4>4
      <4>6. c \notin Lifecycle!Entered
        BY <4>2 DEF Lifecycle!Entered
      <4>7. Lifecycle!Enter(c)
        <5>1. UNCHANGED <<IF Serving THEN held ELSE NoJob,
                          IF Serving THEN taken - 1 ELSE taken,
                          IF killed THEN "killed" ELSE resources>>
          BY <4>3
        <5> QED BY <1>2, <4>1, <4>5, <4>6, <5>1, Zenon DEF Lifecycle!Enter
      <4> QED BY <4>7 DEF Lifecycle!Next
    <3> QED BY <3>1, <3>2
  <2>2. CASE LeaveJob(c)
    <3>1. PICK i \in 1..Len(admitted) : admitted[i] = c
      BY <2>2 DEF LeaveJob
    <3>2. i \in 1..Finished /\ c \in live
      BY <2>2, <3>1 DEF LeaveJob
    <3>3. /\ UNCHANGED <<queueVars, held, killed, resources, workerPc>>
          /\ live' = live \ {c}
      BY <2>2 DEF LeaveJob, FreeJob
    <3> QED BY <1>2, <3>1, <3>2, <3>3 DEF Lifecycle!Next, Lifecycle!Release
  <2>3. CASE ReplyRefused(c) \/ ParseRequest(c)
    <3>1. \A i \in 1..Len(admitted) : admitted[i] # c
      BY <2>3 DEF ReplyRefused, ParseRequest
    <3>2. /\ UNCHANGED <<queueVars, held, killed, resources, workerPc>>
          /\ live' = live \ {c} \/ live' = live \cup {c}
      BY <2>3 DEF ReplyRefused, ParseRequest, FreeJob
    <3> QED BY <3>1, <3>2
  <2>4. CASE \/ ReplyDirectly(c) \/ SleepOnJob(c) \/ WakeOnJob(c) \/ CloseConn(c)
             \/ ClientDone(c)
    <3>1. UNCHANGED <<queueVars, live, held, killed, resources, workerPc>>
      BY <2>4 DEF ReplyDirectly, SleepOnJob, WakeOnJob, CloseConn, ClientDone
    <3> QED BY <3>1
  <2> QED BY <2>1, <2>2, <2>3, <2>4 DEF ClientStep
<1>7. CASE WorkerStep
  <2>1. CASE Dequeue
    <3>1. taken < Len(admitted) /\ ~Serving /\ held' = admitted[taken + 1]
      BY <2>1, ElementOfSeq DEF Dequeue
    <3>2. /\ Serving' /\ taken' = taken + 1
          /\ UNCHANGED <<admitted, live, killed, resources>>
      BY <2>1 DEF Dequeue
    <3> QED BY <1>2, <3>1, <3>2 DEF Lifecycle!Next, Lifecycle!Begin
  <2>2. CASE MarkDone
    <3>1. Serving /\ ~Serving' /\ held # NoJob
      BY <2>2, ElementOfSeq DEF MarkDone
    <3>2. UNCHANGED <<taken, admitted, live, killed, resources>>
      BY <2>2 DEF MarkDone
    <3> QED BY <1>2, <3>1, <3>2 DEF Lifecycle!Next, Lifecycle!Finish
  <2>3. CASE SleepOrQuit \/ ClearNext \/ Generate \/ UnlockJob
    <3>1. UNCHANGED <<admitted, taken, live, killed, resources>>
      BY <2>3 DEF SleepOrQuit, ClearNext, Generate, UnlockJob
    <3>2. Serving' = Serving /\ (Serving => held' = held)
      BY <2>3 DEF SleepOrQuit, ClearNext, Generate, UnlockJob
    <3> QED BY <3>1, <3>2
  <2> QED BY <1>7, <2>1, <2>2, <2>3 DEF WorkerStep
<1> QED BY <1>3, <1>4, <1>5, <1>6, <1>7 DEF Next

\* The threads implement the request lifecycle: served once, in order, released
\* only when served, closed only when all are (its fairness is model-checked).
THEOREM ImplementsLifecycle == Spec => Lifecycle!SafeSpec
<1>1. Init => Lifecycle!Init
  BY ConnsAssumption DEF Init, Lifecycle!Init, Serving
<1> QED BY <1>1, LifecycleStep, Invariance, PTL DEF Spec, Lifecycle!SafeSpec
=============================================================================
