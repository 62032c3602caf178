--------------------------- MODULE ServerThreads ---------------------------
(***************************************************************************)
(* The threads of ds4-server: the accept loop (main), one detached thread  *)
(* per connection (client_main), the single inference worker (worker_main) *)
(* and the stop signal.  Jobs live on the stack of their client thread and *)
(* are linked into an intrusive list, so a job that is still reachable     *)
(* when its client returns is a dangling pointer.                          *)
(*                                                                         *)
(* Every critical section of s->mu is one action; j->mu is held across     *)
(* several actions and is modelled as a lock.  A condition wait is a sleep *)
(* that only a signal ends; the loop around it tests the condition again.  *)
(***************************************************************************)
EXTENDS Integers, Sequences, FiniteSets

CONSTANTS Conns,       \* the connections that may arrive during one run
          Unreachable, \* those whose peer never takes a response
          NoJob        \* the NULL job pointer

ASSUME ConnsAssumption == NoJob \notin Conns /\ Unreachable \subseteq Conns

VARIABLES
  stopRequested,   \* g_stop_requested
  killed,          \* a second signal ended the process in the handler
  listening,       \* the listening socket is open
  stopping,        \* s->stopping
  clients,         \* s->clients
  head, tail, next,\* the job list: s->head, s->tail, j->next
  live,            \* the jobs whose storage (client stack) is valid
  done,            \* j->done
  jmu,             \* the holder of j->mu
  open,            \* the connections whose descriptor is open
  answered,        \* the connections a complete response was written to
  pc,              \* where each client thread is
  workerPc, held,  \* where the worker is, and the job it holds
  mainPc, arrival, \* where main is, and the connection it is spawning
  resources,       \* whether engine, session, mutexes... are usable
  admitted, taken  \* history: the jobs linked so far, in order, and how many
                   \* of them the worker has unlinked

queueVars  == <<head, tail, next, admitted, taken>>
jobVars    == <<live, done, jmu>>
mainVars   == <<mainPc, arrival, listening, resources>>
signalVars == <<stopRequested, killed>>
vars == <<signalVars, stopping, clients, queueVars, jobVars, open, answered,
          pc, workerPc, held, mainVars>>

ClientPcs == {"away", "spawning", "reading", "parsed", "refused", "check",
              "asleep", "woken", "closing", "leaving", "gone"}
WorkerPcs == {"idle", "asleep", "taken", "serving", "finishing", "unlocking",
              "exited"}
MainPcs   == {"listen", "test", "accept", "spawn", "drain", "join", "joinOnly",
              "await", "asleep", "persist", "close", "exited"}

\* A condition variable wakes a sleeper by sending it back to its test.
\* (Definitions marked "fault" are slips a change of the code could make; they
\* are no part of the specification, and each breaks one of the properties.)
WorkerNotWoken == workerPc   \* fault: enqueue without pthread_cond_signal
WakeWorker == IF workerPc = "asleep" THEN "idle" ELSE workerPc
MainNotWoken == mainPc       \* fault: client_done without the broadcast
WakeMain == IF mainPc = "asleep" THEN "await" ELSE mainPc

\* send_all gives up on a stalled peer, and on everyone once a stop is requested.
Respond(c) ==
  answered' = IF stopRequested \/ c \in Unreachable THEN answered
                                                    ELSE answered \cup {c}

-----------------------------------------------------------------------------
(* The signal handler *)

StopSignal ==
  /\ ~stopRequested
  /\ stopRequested' = TRUE
  /\ listening' = FALSE
  /\ UNCHANGED <<killed, stopping, clients, queueVars, jobVars, open, answered,
                 pc, workerPc, held, mainPc, arrival, resources>>

\* The second signal calls _exit: nothing runs any more.
KillSignal ==
  /\ stopRequested
  /\ killed' = TRUE
  /\ UNCHANGED <<stopRequested, stopping, clients, queueVars, jobVars, open,
                 answered, pc, workerPc, held, mainVars>>

-----------------------------------------------------------------------------
(* Main: accept loop and shutdown *)

ListenFails ==
  /\ mainPc = "listen"
  /\ stopping' = TRUE
  /\ workerPc' = WakeWorker
  /\ mainPc' = "joinOnly"
  /\ UNCHANGED <<signalVars, clients, queueVars, jobVars, open, answered, pc,
                 held, arrival, listening, resources>>

\* A signal before g_listen_fd is set leaves the new listener open.
Listen ==
  /\ mainPc = "listen"
  /\ listening' = TRUE
  /\ mainPc' = "test"
  /\ UNCHANGED <<signalVars, stopping, clients, queueVars, jobVars, open,
                 answered, pc, workerPc, held, arrival, resources>>

TestStop ==
  /\ mainPc = "test"
  /\ mainPc' = IF stopRequested THEN "drain" ELSE "accept"
  /\ UNCHANGED <<signalVars, stopping, clients, queueVars, jobVars, open,
                 answered, pc, workerPc, held, arrival, listening, resources>>

\* accept fails: the listener is gone, or a transient error.
AcceptFails ==
  /\ mainPc = "accept"
  /\ mainPc' = IF stopRequested THEN "drain" ELSE "test"
  /\ UNCHANGED <<signalVars, stopping, clients, queueVars, jobVars, open,
                 answered, pc, workerPc, held, arrival, listening, resources>>

\* fault: the connection is not counted before its thread starts
AcceptUncounted(c) ==
  /\ mainPc = "accept" /\ pc[c] = "away" /\ ~stopRequested
  /\ pc' = [pc EXCEPT ![c] = "spawning"]
  /\ open' = open \cup {c} /\ arrival' = c /\ mainPc' = "spawn"
  /\ UNCHANGED <<clients, signalVars, stopping, queueVars, jobVars, answered,
                 workerPc, held, listening, resources>>

AcceptConn(c) ==
  /\ mainPc = "accept"
  /\ pc[c] = "away"
  /\ IF stopRequested
     THEN /\ pc' = [pc EXCEPT ![c] = "gone"]
          /\ mainPc' = "drain"
          /\ UNCHANGED <<clients, open, arrival>>
     ELSE /\ pc' = [pc EXCEPT ![c] = "spawning"]
          /\ open' = open \cup {c}
          /\ clients' = clients + 1
          /\ arrival' = c
          /\ mainPc' = "spawn"
  /\ UNCHANGED <<signalVars, stopping, queueVars, jobVars, answered, workerPc,
                 held, listening, resources>>

SpawnClient ==
  /\ mainPc = "spawn"
  /\ pc' = [pc EXCEPT ![arrival] = "reading"]
  /\ mainPc' = "test"
  /\ UNCHANGED <<signalVars, stopping, clients, queueVars, jobVars, open,
                 answered, workerPc, held, arrival, listening, resources>>

\* fault: the failed thread stays counted
SpawnFailsCounted ==
  /\ mainPc = "spawn"
  /\ open' = open \ {arrival} /\ pc' = [pc EXCEPT ![arrival] = "gone"]
  /\ mainPc' = "test"
  /\ UNCHANGED <<clients, signalVars, stopping, queueVars, jobVars, answered,
                 workerPc, held, arrival, listening, resources>>

SpawnFails ==
  /\ mainPc = "spawn"
  /\ clients' = clients - 1
  /\ open' = open \ {arrival}
  /\ pc' = [pc EXCEPT ![arrival] = "gone"]
  /\ mainPc' = "test"
  /\ UNCHANGED <<signalVars, stopping, queueVars, jobVars, answered, workerPc,
                 held, arrival, listening, resources>>

BeginStopping ==
  /\ mainPc = "drain"
  /\ listening' = FALSE
  /\ stopping' = TRUE
  /\ workerPc' = WakeWorker
  /\ mainPc' = "join"
  /\ UNCHANGED <<signalVars, clients, queueVars, jobVars, open, answered, pc,
                 held, arrival, resources>>

JoinWorker ==
  /\ mainPc \in {"join", "joinOnly"}
  /\ workerPc = "exited"
  /\ mainPc' = IF mainPc = "join" THEN "await" ELSE "close"
  /\ UNCHANGED <<signalVars, stopping, clients, queueVars, jobVars, open,
                 answered, pc, workerPc, held, arrival, listening, resources>>

\* fault: the server closes once the worker is joined
ClientsNotAwaited ==
  /\ mainPc = "await" /\ mainPc' = "persist"
  /\ UNCHANGED <<signalVars, stopping, clients, queueVars, jobVars, open,
                 answered, pc, workerPc, held, arrival, listening, resources>>

AwaitClients ==
  /\ mainPc = "await"
  /\ mainPc' = IF clients > 0 THEN "asleep" ELSE "persist"
  /\ UNCHANGED <<signalVars, stopping, clients, queueVars, jobVars, open,
                 answered, pc, workerPc, held, arrival, listening, resources>>

\* The live checkpoint is written if it is long enough: DiskCache models it.
PersistSession ==
  /\ mainPc = "persist"
  /\ mainPc' = "close"
  /\ UNCHANGED <<signalVars, stopping, clients, queueVars, jobVars, open,
                 answered, pc, workerPc, held, arrival, listening, resources>>

CloseResources ==
  /\ mainPc = "close"
  /\ resources' = "closed"
  /\ mainPc' = "exited"
  /\ UNCHANGED <<signalVars, stopping, clients, queueVars, jobVars, open,
                 answered, pc, workerPc, held, arrival, listening>>

-----------------------------------------------------------------------------
(* Client threads *)

\* A request that is answered without a job: models, bad requests, 404.
ReplyDirectly(c) ==
  /\ pc[c] = "reading"
  /\ Respond(c)
  /\ pc' = [pc EXCEPT ![c] = "closing"]
  /\ UNCHANGED <<signalVars, stopping, clients, queueVars, jobVars, open,
                 workerPc, held, mainVars>>

\* A generation request: its job is set up, and j->mu locked, before enqueue.
ParseRequest(c) ==
  /\ pc[c] = "reading"
  /\ live' = live \cup {c}
  /\ jmu' = [jmu EXCEPT ![c] = "client"]
  /\ pc' = [pc EXCEPT ![c] = "parsed"]
  /\ UNCHANGED <<signalVars, stopping, clients, queueVars, done, open,
                 answered, workerPc, held, mainVars>>

\* fault: the job is linked at the head
LinkFirst(c) ==
  /\ head' = c
  /\ next' = [next EXCEPT ![c] = head]
  /\ tail' = IF tail = NoJob THEN c ELSE tail
  /\ admitted' = Append(admitted, c)
  /\ UNCHANGED taken

Link(c) ==
  /\ IF tail # NoJob
     THEN next' = [next EXCEPT ![tail] = c] /\ UNCHANGED head
     ELSE head' = c /\ UNCHANGED next
  /\ tail' = c
  /\ admitted' = Append(admitted, c)
  /\ UNCHANGED taken

Enqueue(c) ==
  /\ pc[c] = "parsed"
  /\ IF stopping
     THEN /\ pc' = [pc EXCEPT ![c] = "refused"]
          /\ UNCHANGED <<queueVars, workerPc>>
     ELSE /\ Link(c)
          /\ workerPc' = WakeWorker
          /\ pc' = [pc EXCEPT ![c] = "check"]
  /\ UNCHANGED <<signalVars, stopping, clients, jobVars, open, answered, held,
                 mainVars>>

FreeJob(c) ==
  /\ live' = live \ {c}
  /\ jmu' = [jmu EXCEPT ![c] = "none"]
  /\ pc' = [pc EXCEPT ![c] = "closing"]

ReplyRefused(c) ==
  /\ pc[c] = "refused"
  /\ Respond(c)
  /\ FreeJob(c)
  /\ UNCHANGED <<signalVars, stopping, clients, queueVars, done, open,
                 workerPc, held, mainVars>>

\* The client holds j->mu here; the wait releases it.
SleepOnJob(c) ==
  /\ pc[c] = "check"
  /\ ~done[c]
  /\ jmu' = [jmu EXCEPT ![c] = "none"]
  /\ pc' = [pc EXCEPT ![c] = "asleep"]
  /\ UNCHANGED <<signalVars, stopping, clients, queueVars, live, done, open,
                 answered, workerPc, held, mainVars>>

WakeOnJob(c) ==
  /\ pc[c] = "woken"
  /\ jmu[c] = "none"
  /\ jmu' = [jmu EXCEPT ![c] = "client"]
  /\ pc' = [pc EXCEPT ![c] = "check"]
  /\ UNCHANGED <<signalVars, stopping, clients, queueVars, live, done, open,
                 answered, workerPc, held, mainVars>>

\* fault: the client does not wait for j->done
LeaveUnfinishedJob(c) ==
  /\ pc[c] = "check" /\ FreeJob(c)
  /\ UNCHANGED <<signalVars, stopping, clients, queueVars, done, open,
                 answered, workerPc, held, mainVars>>

LeaveJob(c) ==
  /\ pc[c] = "check"
  /\ done[c]
  /\ FreeJob(c)
  /\ UNCHANGED <<signalVars, stopping, clients, queueVars, done, open,
                 answered, workerPc, held, mainVars>>

CloseConn(c) ==
  /\ pc[c] = "closing"
  /\ open' = open \ {c}
  /\ pc' = [pc EXCEPT ![c] = "leaving"]
  /\ UNCHANGED <<signalVars, stopping, clients, queueVars, jobVars, answered,
                 workerPc, held, mainVars>>

ClientDone(c) ==
  /\ pc[c] = "leaving"
  /\ clients' = IF clients > 0 THEN clients - 1 ELSE clients
  /\ mainPc' = WakeMain
  /\ pc' = [pc EXCEPT ![c] = "gone"]
  /\ UNCHANGED <<signalVars, stopping, queueVars, jobVars, open, answered,
                 workerPc, held, arrival, listening, resources>>

-----------------------------------------------------------------------------
(* The worker *)

TailKept == tail   \* fault: the last job stays s->tail when it is unlinked
TailAfterUnlink == IF next[head] = NoJob THEN NoJob ELSE tail

Dequeue ==
  /\ workerPc = "idle"
  /\ head # NoJob
  /\ held' = head
  /\ head' = next[head]
  /\ tail' = TailAfterUnlink
  /\ taken' = taken + 1
  /\ workerPc' = "taken"
  /\ UNCHANGED <<signalVars, stopping, clients, next, admitted, jobVars, open,
                 answered, pc, mainVars>>

SleepOrQuit ==
  /\ workerPc = "idle"
  /\ head = NoJob
  /\ workerPc' = IF stopping THEN "exited" ELSE "asleep"
  /\ UNCHANGED <<signalVars, stopping, clients, queueVars, jobVars, open,
                 answered, pc, held, mainVars>>

\* j->next = NULL happens after s->mu is released.
ClearNext ==
  /\ workerPc = "taken"
  /\ next' = [next EXCEPT ![held] = NoJob]
  /\ workerPc' = "serving"
  /\ UNCHANGED <<signalVars, stopping, clients, head, tail, admitted, taken,
                 jobVars, open, answered, pc, held, mainVars>>

\* generate_job, which writes the response to the job's descriptor.
Generate ==
  /\ workerPc = "serving"
  /\ Respond(held)
  /\ workerPc' = "finishing"
  /\ UNCHANGED <<signalVars, stopping, clients, queueVars, jobVars, open, pc,
                 held, mainVars>>

MarkDone ==
  /\ workerPc = "finishing"
  /\ jmu[held] = "none"
  /\ jmu' = [jmu EXCEPT ![held] = "worker"]
  /\ done' = [done EXCEPT ![held] = TRUE]
  /\ pc' = IF pc[held] = "asleep" THEN [pc EXCEPT ![held] = "woken"] ELSE pc
  /\ workerPc' = "unlocking"
  /\ UNCHANGED <<signalVars, stopping, clients, queueVars, live, open,
                 answered, held, mainVars>>

UnlockJob ==
  /\ workerPc = "unlocking"
  /\ jmu' = [jmu EXCEPT ![held] = "none"]
  /\ held' = NoJob
  /\ workerPc' = "idle"
  /\ UNCHANGED <<signalVars, stopping, clients, queueVars, live, done, open,
                 answered, pc, mainVars>>

-----------------------------------------------------------------------------
Init ==
  /\ stopRequested = FALSE /\ killed = FALSE
  /\ listening = FALSE /\ stopping = FALSE
  /\ clients = 0
  /\ head = NoJob /\ tail = NoJob /\ next = [c \in Conns |-> NoJob]
  /\ live = {} /\ done = [c \in Conns |-> FALSE]
  /\ jmu = [c \in Conns |-> "none"]
  /\ open = {} /\ answered = {}
  /\ pc = [c \in Conns |-> "away"]
  /\ workerPc = "idle" /\ held = NoJob
  /\ mainPc = "listen" /\ arrival = NoJob
  /\ resources = "open"
  /\ admitted = <<>> /\ taken = 0

MainStep ==
  \/ ListenFails \/ Listen \/ TestStop \/ AcceptFails
  \/ \E c \in Conns : AcceptConn(c)
  \/ SpawnClient \/ SpawnFails
  \/ BeginStopping \/ JoinWorker \/ AwaitClients \/ PersistSession
  \/ CloseResources

ClientStep(c) ==
  \/ ReplyDirectly(c) \/ ParseRequest(c) \/ Enqueue(c) \/ ReplyRefused(c)
  \/ SleepOnJob(c) \/ WakeOnJob(c) \/ LeaveJob(c)
  \/ CloseConn(c) \/ ClientDone(c)

WorkerStep ==
  Dequeue \/ SleepOrQuit \/ ClearNext \/ Generate \/ MarkDone \/ UnlockJob

Running == ~killed /\ mainPc # "exited"

Ended == ~Running /\ UNCHANGED vars

Next ==
  \/ /\ Running
     /\ \/ StopSignal \/ KillSignal
        \/ MainStep
        \/ \E c \in Conns : ClientStep(c)
        \/ WorkerStep
  \/ Ended

Spec == Init /\ [][Next]_vars

\* Every thread is scheduled.  The steps that wait for the outside world end:
\* receives and sends have timeouts, and generation is bounded by the context.
Fairness ==
  /\ WF_vars(Running /\ MainStep)
  /\ WF_vars(Running /\ WorkerStep)
  /\ \A c \in Conns : WF_vars(Running /\ ClientStep(c))

FairSpec == Spec /\ Fairness

-----------------------------------------------------------------------------
(* Properties *)

\* Every variable keeps its type.
TypeOK ==
  /\ stopRequested \in BOOLEAN /\ killed \in BOOLEAN
  /\ listening \in BOOLEAN /\ stopping \in BOOLEAN
  /\ clients \in Nat
  /\ head \in Conns \cup {NoJob} /\ tail \in Conns \cup {NoJob}
  /\ held \in Conns \cup {NoJob} /\ arrival \in Conns \cup {NoJob}
  /\ next \in [Conns -> Conns \cup {NoJob}]
  /\ live \subseteq Conns /\ open \subseteq Conns /\ answered \subseteq Conns
  /\ done \in [Conns -> BOOLEAN]
  /\ jmu \in [Conns -> {"none", "client", "worker"}]
  /\ pc \in [Conns -> ClientPcs]
  /\ workerPc \in WorkerPcs /\ mainPc \in MainPcs
  /\ resources \in {"open", "closed"}
  /\ admitted \in Seq(Conns) /\ taken \in 0..Len(admitted)

\* The list reached from s->head is the FIFO of the jobs enqueued and not yet
\* dequeued: enqueue and dequeue never lose, repeat or reorder a job.
ListIsFifo ==
  LET n == Len(admitted) IN
  /\ head = IF taken < n THEN admitted[taken + 1] ELSE NoJob
  /\ tail = IF taken < n THEN admitted[n] ELSE NoJob
  /\ \A i \in (taken + 1)..n :
       next[admitted[i]] = IF i < n THEN admitted[i + 1] ELSE NoJob

WorkerHolds == workerPc \in {"taken", "serving", "finishing", "unlocking"}

\* "Jobs are stack-owned by the client thread": a job that the list or the
\* worker can still reach has not been freed by its client, nor its socket
\* closed, so neither thread follows a pointer into a stack that is gone.
JobStorageSafe ==
  /\ \A i \in (taken + 1)..Len(admitted) : admitted[i] \in live \cap open
  /\ WorkerHolds => held \in live \cap open

\* The worker writes a response only while the client thread of that socket is
\* blocked on the job, so the two never write to one socket at the same time.
OneWriterPerSocket ==
  workerPc = "serving" => pc[held] \in {"check", "asleep"} /\ ~done[held]

Counted == {c \in Conns : pc[c] \notin {"away", "gone"}}

\* s->clients counts the client threads that may still use the server, also
\* across a pthread_create that fails; client_done never finds it at zero.
ClientsCounted == clients = Cardinality(Counted)

\* server_close_resources frees engine, session, tool memory and mutexes: by
\* then no thread that could use them is left, and no admitted job is unserved.
ClosedAfterLastUse ==
  resources = "closed" =>
    /\ Counted = {} /\ workerPc = "exited"
    /\ taken = Len(admitted) /\ live = {} /\ open = {}

\* A client whose job was enqueued, or refused, is always let go: no wakeup of
\* the worker or of the client is lost, also across a stop request.
EveryRequestEnds ==
  \A c \in Conns : pc[c] = "parsed" ~> (pc[c] = "gone" \/ killed)

\* A stop request ends the process: join, drain and close cannot hang.
ShutdownCompletes == stopRequested ~> (mainPc = "exited" \/ killed)

\* The condition waits of client_main, worker_main and main together: what one
\* thread waits for, another one signals (7490, 7497, 7524, 7676).
NoLostWakeup == EveryRequestEnds /\ ShutdownCompletes

\* What the queue promises its clients, in the terms of RequestLifecycle.
Serving == workerPc \in {"taken", "serving", "finishing"}

Lifecycle == INSTANCE RequestLifecycle WITH
  Requests  <- Conns,
  NoRequest <- NoJob,
  line      <- admitted,
  current   <- IF Serving THEN held ELSE NoJob,
  served    <- IF Serving THEN taken - 1 ELSE taken,
  released  <- {c \in Conns \ live : \E i \in 1..Len(admitted) : admitted[i] = c},
  status    <- IF killed THEN "killed" ELSE resources

\* Jobs are served exactly once, in the order they entered, and released after
\* that; the server closes when all are; each entered job is served in the end.
LifecycleSpec == Lifecycle!Spec
=============================================================================
