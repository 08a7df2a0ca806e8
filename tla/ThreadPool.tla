------------------------------ MODULE ThreadPool ------------------------------
(***************************************************************************)
(* utils::ThreadPool (include/utils/ThreadPool.hpp), which runs the rank   *)
(* schedulers of a bound or weave phase in parallel.                       *)
(*                                                                         *)
(* A critical section of queueMutex is one step. condition.wait releases   *)
(* the mutex as it starts to sleep, so a worker sleeps from the step in    *)
(* which it found its predicate false. notify_one and notify_all are       *)
(* called after the mutex is released and are steps of their own.          *)
(***************************************************************************)
EXTENDS Integers, Sequences, FiniteSets

CONSTANTS Workers, \* the pool's threads
          Clients, \* threads that call enqueue
          Tasks,   \* what is enqueued, each once
          Needs,   \* Needs[t]: the tasks t waits for, once it runs, to be running too
          NoTask

ASSUME WorkersAssumption == IsFiniteSet(Workers) /\ Workers # {}
ASSUME ClientsAssumption == IsFiniteSet(Clients)
ASSUME NeedsAssumption == Needs \in [Tasks -> SUBSET Tasks]
ASSUME NoTaskAssumption == NoTask \notin Tasks

VARIABLES
    taskQueue, \* the queue
    pool,      \* the object: alive, stopping (stop set), joining (all notified), destroyed
    worker,    \* worker[w]: locking (about to check its predicate), sleeping, running, exited
    holding,   \* holding[w]: the task w runs
    client,    \* client[c]: outside enqueue, or notifying (pushed, before notify_one)
    future     \* future[t]: none, pending, ready, or refused (enqueue threw)

poolVars == <<taskQueue, pool, worker, holding, client, future>>

In(state) == {w \in Workers : worker[w] = state}
stop == pool # "alive"

Init ==
    /\ taskQueue = <<>>
    /\ pool = "alive"
    /\ worker = [w \in Workers |-> "locking"]
    /\ holding = [w \in Workers |-> NoTask]
    /\ client = [c \in Clients |-> "outside"]
    /\ future = [t \in Tasks |-> "none"]

------------------------------------------------------------------------------
(* enqueue *)

\* The critical section: the task goes to the end of the queue.
Push(c, t) ==
    /\ client[c] = "outside" /\ future[t] = "none" /\ ~stop
    /\ taskQueue' = Append(taskQueue, t)
    /\ future' = [future EXCEPT ![t] = "pending"]
    /\ client' = [client EXCEPT ![c] = "notifying"]
    /\ UNCHANGED <<pool, worker, holding>>

\* On a stopped pool the call throws.
Refuse(c, t) ==
    /\ client[c] = "outside" /\ future[t] = "none"
    /\ stop /\ pool # "destroyed"
    /\ future' = [future EXCEPT ![t] = "refused"]
    /\ UNCHANGED <<taskQueue, pool, worker, holding, client>>

\* Mutant of NotifyOne: nobody is notified.
NotifyNobody(c) ==
    /\ client[c] = "notifying"
    /\ client' = [client EXCEPT ![c] = "outside"]
    /\ UNCHANGED <<taskQueue, pool, worker, holding, future>>

\* notify_one wakes one of the sleeping workers, if there is one.
NotifyOne(c) ==
    /\ client[c] = "notifying"
    /\ client' = [client EXCEPT ![c] = "outside"]
    /\ IF In("sleeping") = {} THEN UNCHANGED worker
       ELSE \E w \in In("sleeping") : worker' = [worker EXCEPT ![w] = "locking"]
    /\ UNCHANGED <<taskQueue, pool, holding, future>>

------------------------------------------------------------------------------
(* A worker's loop *)

\* Mutant of Sleep: the worker waits without a predicate.
SleepUnconditionally(w) ==
    /\ worker[w] = "locking"
    /\ worker' = [worker EXCEPT ![w] = "sleeping"]
    /\ UNCHANGED <<taskQueue, pool, holding, client, future>>

\* The predicate stop || !taskQueue.empty() is false.
Sleep(w) ==
    /\ worker[w] = "locking"
    /\ ~stop /\ taskQueue = <<>>
    /\ worker' = [worker EXCEPT ![w] = "sleeping"]
    /\ UNCHANGED <<taskQueue, pool, holding, client, future>>

\* Mutant of Dequeue: the task is not popped.
DequeueWithoutPop(w) ==
    /\ worker[w] = "locking"
    /\ taskQueue # <<>>
    /\ holding' = [holding EXCEPT ![w] = Head(taskQueue)]
    /\ worker' = [worker EXCEPT ![w] = "running"]
    /\ UNCHANGED <<taskQueue, pool, client, future>>

\* Mutant of Exit: a stopped pool is left at once.
ExitOnStop(w) ==
    /\ worker[w] = "locking"
    /\ stop
    /\ worker' = [worker EXCEPT ![w] = "exited"]
    /\ UNCHANGED <<taskQueue, pool, holding, client, future>>

\* The oldest task is taken, also from a pool that has been stopped.
Dequeue(w) ==
    /\ worker[w] = "locking"
    /\ taskQueue # <<>>
    /\ holding' = [holding EXCEPT ![w] = Head(taskQueue)]
    /\ taskQueue' = Tail(taskQueue)
    /\ worker' = [worker EXCEPT ![w] = "running"]
    /\ UNCHANGED <<pool, client, future>>

Exit(w) ==
    /\ worker[w] = "locking"
    /\ stop /\ taskQueue = <<>>
    /\ worker' = [worker EXCEPT ![w] = "exited"]
    /\ UNCHANGED <<taskQueue, pool, holding, client, future>>

\* The tasks that run or have run.
Started == {t \in Tasks : future[t] = "ready" \/ \E w \in Workers : holding[w] = t}

\* Mutant of Finish: the task is not destroyed at the end of the iteration.
FinishKeepingTask(w) ==
    /\ worker[w] = "running"
    /\ Needs[holding[w]] \subseteq Started
    /\ future' = [future EXCEPT ![holding[w]] = "ready"]
    /\ worker' = [worker EXCEPT ![w] = "locking"]
    /\ UNCHANGED <<taskQueue, pool, holding, client>>

\* task() returns, which makes its future ready: a std::packaged_task keeps what its
\* function throws for the future, so that it returns for the thread all the same.
Finish(w) ==
    /\ worker[w] = "running"
    /\ Needs[holding[w]] \subseteq Started
    /\ future' = [future EXCEPT ![holding[w]] = "ready"]
    /\ holding' = [holding EXCEPT ![w] = NoTask]
    /\ worker' = [worker EXCEPT ![w] = "locking"]
    /\ UNCHANGED <<taskQueue, pool, client>>

\* condition.wait may return without a notification and checks again.
SpuriousWakeup(w) ==
    /\ worker[w] = "sleeping"
    /\ worker' = [worker EXCEPT ![w] = "locking"]
    /\ UNCHANGED <<taskQueue, pool, holding, client, future>>

------------------------------------------------------------------------------
(* The destructor. Its caller has no enqueue under way. *)

Stop ==
    /\ pool = "alive"
    /\ \A c \in Clients : client[c] = "outside"
    /\ pool' = "stopping"
    /\ UNCHANGED <<taskQueue, worker, holding, client, future>>

\* Mutant of NotifyAll: notify_one.
NotifyJustOne ==
    /\ pool = "stopping"
    /\ pool' = "joining"
    /\ IF In("sleeping") = {} THEN UNCHANGED worker
       ELSE \E w \in In("sleeping") : worker' = [worker EXCEPT ![w] = "locking"]
    /\ UNCHANGED <<taskQueue, holding, client, future>>

NotifyAll ==
    /\ pool = "stopping"
    /\ pool' = "joining"
    /\ worker' = [w \in Workers |-> IF worker[w] = "sleeping" THEN "locking" ELSE worker[w]]
    /\ UNCHANGED <<taskQueue, holding, client, future>>

\* Every thread has been joined.
Join ==
    /\ pool = "joining"
    /\ In("exited") = Workers
    /\ pool' = "destroyed"
    /\ UNCHANGED <<taskQueue, worker, holding, client, future>>

------------------------------------------------------------------------------
WorkerStep(w) == Sleep(w) \/ Dequeue(w) \/ Exit(w) \/ Finish(w)
Destructor == NotifyAll \/ Join

Next ==
    \/ \E c \in Clients, t \in Tasks : Push(c, t) \/ Refuse(c, t)
    \/ \E c \in Clients : NotifyOne(c)
    \/ \E w \in Workers : WorkerStep(w) \/ SpuriousWakeup(w)
    \/ Stop
    \/ Destructor

Spec == Init /\ [][Next]_poolVars

\* Threads are scheduled and tasks that can return do. Nobody has to enqueue or
\* to destroy the pool, and spurious wake-ups are not to be counted on.
Fairness == /\ \A c \in Clients : WF_poolVars(NotifyOne(c))
            /\ \A w \in Workers : WF_poolVars(WorkerStep(w))
            /\ WF_poolVars(Destructor)

FairSpec == Spec /\ Fairness

------------------------------------------------------------------------------
(* Safety *)

\* Every variable keeps its shape, and a worker holds a task exactly while it runs.
TypeOK ==
    /\ taskQueue \in Seq(Tasks)
    /\ pool \in {"alive", "stopping", "joining", "destroyed"}
    /\ worker \in [Workers -> {"locking", "sleeping", "running", "exited"}]
    /\ holding \in [Workers -> Tasks \union {NoTask}]
    /\ client \in [Clients -> {"outside", "notifying"}]
    /\ future \in [Tasks -> {"none", "pending", "ready", "refused"}]
    /\ \A w \in Workers : worker[w] = "running" <=> holding[w] # NoTask

\* A pending task is in one place, one position of the queue or one worker, and
\* a task that is not pending is nowhere: none is lost, none runs twice.
Queued(t) == \E i \in 1 .. Len(taskQueue) : taskQueue[i] = t
Held(t) == \E w \in Workers : holding[w] = t

EachTaskInOnePlace ==
    /\ \A t \in Tasks : future[t] = "pending" <=> Queued(t) \/ Held(t)
    /\ \A t \in Tasks : ~(Queued(t) /\ Held(t))
    /\ \A i, j \in 1 .. Len(taskQueue) : taskQueue[i] = taskQueue[j] => i = j
    /\ \A v, w \in Workers : holding[v] # NoTask /\ holding[v] = holding[w] => v = w

\* No wake-up is lost: while a worker sleeps, every queued task has a worker on
\* its way to the queue or a notification about to be sent for it. Rank tasks
\* wait for one another, so one worker too few awake is not just slower.
NoLostWakeup ==
    In("sleeping") # {} =>
        Len(taskQueue) <= Cardinality(In("locking"))
                          + Cardinality({c \in Clients : client[c] = "notifying"})

\* When the destructor has returned nothing that was accepted is left undone,
\* and a worker leaves only for good: once one has, the queue stays empty.
NothingAbandoned ==
    /\ In("exited") # {} => stop /\ taskQueue = <<>>
    /\ pool = "destroyed" => \A t \in Tasks : future[t] # "pending"

------------------------------------------------------------------------------
(* Liveness, under FairSpec *)

\* What t waits for has been accepted as well.
Served(t) == \A u \in Needs[t] : future[u] \in {"pending", "ready"}

\* A task that was accepted gets run, whether the pool is destroyed or not, and
\* its future becomes ready unless it waits for a task nobody has enqueued: tasks
\* that wait for one another, as the ranks of a phase do through the emulated
\* program, all return when the pool has a thread for each, none of which sleeps
\* through the phase.
EveryFutureReady == \A t \in Tasks : future[t] = "pending" /\ Served(t) ~> future[t] = "ready"

\* The destructor returns, when no task it has to wait for waits in vain.
DestructorReturns ==
    pool = "stopping" /\ (\A t \in Tasks : future[t] = "pending" => Served(t))
        ~> pool = "destroyed"

=============================================================================
