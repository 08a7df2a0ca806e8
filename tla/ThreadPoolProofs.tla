--------------------------- MODULE ThreadPoolProofs ---------------------------
(***************************************************************************)
(* What ThreadPool's run checks on a small instance, for every finite set  *)
(* of workers and clients, every set of tasks and whatever they wait for.  *)
(***************************************************************************)
EXTENDS ThreadPool, SequenceTheorems, FiniteSetTheorems, TLAPS

------------------------------------------------------------------------------
(* Type correctness *)

\* In the beginning nothing is queued or held, and every worker is about to look.
LEMMA TypeInit == Init => TypeOK
BY NoTaskAssumption DEF Init, TypeOK

\* Every step keeps the shapes. That a worker holds a task exactly while it runs is
\* why NoTask may not be a task.
LEMMA TypeStep == TypeOK /\ [Next]_poolVars => TypeOK'
<1> SUFFICES ASSUME TypeOK, [Next]_poolVars PROVE TypeOK'
  OBVIOUS
<1> USE NoTaskAssumption DEF TypeOK
<1>1. CASE UNCHANGED poolVars
  BY <1>1 DEF poolVars
<1>2. ASSUME NEW c \in Clients, NEW t \in Tasks, Push(c, t) PROVE TypeOK'
  BY <1>2 DEF Push
<1>3. ASSUME NEW c \in Clients, NEW t \in Tasks, Refuse(c, t) PROVE TypeOK'
  BY <1>3 DEF Refuse
<1>4. ASSUME NEW c \in Clients, NotifyOne(c) PROVE TypeOK'
  BY <1>4 DEF NotifyOne, In
<1>5. ASSUME NEW w \in Workers, Sleep(w) \/ Exit(w) \/ SpuriousWakeup(w) PROVE TypeOK'
  BY <1>5 DEF Sleep, Exit, SpuriousWakeup
<1>6. ASSUME NEW w \in Workers, Dequeue(w) PROVE TypeOK'
  <2>1. Head(taskQueue) \in Tasks /\ Tail(taskQueue) \in Seq(Tasks)
    BY <1>6, HeadTailProperties DEF Dequeue
  <2> QED
    BY <1>6, <2>1 DEF Dequeue
<1>7. ASSUME NEW w \in Workers, Finish(w) PROVE TypeOK'
  BY <1>7 DEF Finish
<1>8. CASE Stop \/ NotifyAll \/ Join
  BY <1>8 DEF Stop, NotifyAll, Join
<1> QED
  BY <1>1, <1>2, <1>3, <1>4, <1>5, <1>6, <1>7, <1>8 DEF Next, WorkerStep, Destructor

\* Every variable keeps its shape, for every pool.
THEOREM TypeCorrect == Spec => []TypeOK
<1> QED
  BY TypeInit, TypeStep, PTL DEF Spec

------------------------------------------------------------------------------
(* Each task is in one place *)

\* Where tasks are depends on these three variables alone.
placeVars == <<taskQueue, holding, future>>

\* A step that neither moves a task nor changes a future keeps every task's place.
LEMMA PlaceFrame ==
    ASSUME EachTaskInOnePlace, UNCHANGED placeVars
    PROVE  EachTaskInOnePlace'
BY DEF EachTaskInOnePlace, Queued, Held, placeVars

\* A task that is pushed was nowhere, and is now at the end of the queue.
LEMMA PushPlace ==
    ASSUME TypeOK, EachTaskInOnePlace, NEW c \in Clients, NEW t \in Tasks, Push(c, t)
    PROVE  EachTaskInOnePlace'
<1>1. /\ taskQueue' = Append(taskQueue, t) /\ future[t] = "none"
      /\ future' = [future EXCEPT ![t] = "pending"] /\ holding' = holding
      /\ taskQueue \in Seq(Tasks)
  BY DEF Push, TypeOK
<1>2. ~Queued(t) /\ ~Held(t)
  BY <1>1 DEF EachTaskInOnePlace
<1>3. /\ Len(taskQueue') = Len(taskQueue) + 1 /\ Len(taskQueue) \in Nat
      /\ \A i \in 1 .. Len(taskQueue) : taskQueue'[i] = taskQueue[i]
      /\ taskQueue'[Len(taskQueue) + 1] = t
  BY <1>1
<1>4. \A u \in Tasks : /\ Queued(u)' <=> Queued(u) \/ u = t
                       /\ Held(u)' <=> Held(u)
  BY <1>1, <1>3 DEF Queued, Held
<1>5. \A u \in Tasks : (future'[u] = "pending" <=> future[u] = "pending" \/ u = t)
  BY <1>1 DEF TypeOK
<1>6. \A i, j \in 1 .. Len(taskQueue') : taskQueue'[i] = taskQueue'[j] => i = j
  BY <1>2, <1>3 DEF EachTaskInOnePlace, Queued
<1> QED
  BY <1>1, <1>2, <1>4, <1>5, <1>6 DEF EachTaskInOnePlace

\* The oldest task leaves the queue, in which it was once, for the worker.
LEMMA DequeuePlace ==
    ASSUME TypeOK, EachTaskInOnePlace, NEW w \in Workers, Dequeue(w)
    PROVE  EachTaskInOnePlace'
<1> DEFINE oldest == taskQueue[1]
<1>1. /\ taskQueue' = Tail(taskQueue) /\ taskQueue \in Seq(Tasks) /\ taskQueue # <<>>
      /\ holding' = [holding EXCEPT ![w] = oldest] /\ future' = future
      /\ holding[w] = NoTask /\ holding \in [Workers -> Tasks \union {NoTask}]
  BY DEF Dequeue, TypeOK
<1>2. /\ Len(taskQueue) \in Nat /\ Len(taskQueue) >= 1 /\ oldest \in Tasks
      /\ Len(taskQueue') = Len(taskQueue) - 1
      /\ \A i \in 1 .. Len(taskQueue') : taskQueue'[i] = taskQueue[i + 1]
  BY <1>1
<1>3. Queued(oldest) /\ ~Held(oldest) /\ oldest # NoTask
  BY <1>2, NoTaskAssumption DEF EachTaskInOnePlace, Queued
<1>4. \A i, j \in 1 .. Len(taskQueue) : taskQueue[i] = taskQueue[j] => i = j
  BY DEF EachTaskInOnePlace
<1> HIDE DEF oldest
<1>5. \A u \in Tasks : Queued(u)' <=> Queued(u) /\ u # oldest
  <2> TAKE u \in Tasks
  <2>1. ASSUME Queued(u)' PROVE Queued(u) /\ u # oldest
    <3>1. PICK i \in 1 .. Len(taskQueue') : taskQueue'[i] = u
      BY <2>1 DEF Queued
    <3>2. i + 1 \in 1 .. Len(taskQueue) /\ taskQueue[i + 1] = u /\ i + 1 # 1
      BY <3>1, <1>2
    <3> QED
      BY <3>2, <1>2, <1>4 DEF Queued, oldest
  <2>2. ASSUME Queued(u), u # oldest PROVE Queued(u)'
    <3>1. PICK i \in 1 .. Len(taskQueue) : taskQueue[i] = u
      BY <2>2 DEF Queued
    <3>2. i - 1 \in 1 .. Len(taskQueue')
      BY <3>1, <2>2, <1>2 DEF oldest
    <3>3. taskQueue'[i - 1] = u
      BY <3>1, <3>2, <1>2
    <3> QED
      BY <3>2, <3>3 DEF Queued
  <2> QED
    BY <2>1, <2>2
<1>6. \A u \in Tasks : Held(u)' <=> Held(u) \/ u = oldest
  BY <1>1, NoTaskAssumption DEF Held
<1>7. \A i, j \in 1 .. Len(taskQueue') : taskQueue'[i] = taskQueue'[j] => i = j
  <2> SUFFICES ASSUME NEW i \in 1 .. Len(taskQueue'), NEW j \in 1 .. Len(taskQueue'),
                      taskQueue'[i] = taskQueue'[j]
               PROVE  i = j
    OBVIOUS
  <2>1. i + 1 \in 1 .. Len(taskQueue) /\ j + 1 \in 1 .. Len(taskQueue)
    BY <1>2
  <2>2. taskQueue[i + 1] = taskQueue[j + 1]
    BY <1>2
  <2>3. i + 1 = j + 1
    BY <2>1, <2>2, <1>4
  <2> QED
    BY <2>3, <1>2
<1>8. \A v, x \in Workers : holding'[v] # NoTask /\ holding'[v] = holding'[x] => v = x
  BY <1>1, <1>3 DEF EachTaskInOnePlace, Held
<1> QED
  BY <1>1, <1>3, <1>5, <1>6, <1>7, <1>8 DEF EachTaskInOnePlace

\* A task that has been run was held by this worker alone, and is nowhere now.
LEMMA FinishPlace ==
    ASSUME TypeOK, EachTaskInOnePlace, NEW w \in Workers, Finish(w)
    PROVE  EachTaskInOnePlace'
<1> DEFINE done == holding[w]
<1>1. /\ taskQueue' = taskQueue /\ future' = [future EXCEPT ![done] = "ready"]
      /\ holding' = [holding EXCEPT ![w] = NoTask] /\ done \in Tasks /\ done # NoTask
      /\ holding \in [Workers -> Tasks \union {NoTask}]
      /\ future \in [Tasks -> {"none", "pending", "ready", "refused"}]
  BY DEF Finish, TypeOK
<1>2. Held(done) /\ ~Queued(done)
  BY <1>1 DEF EachTaskInOnePlace, Held
<1>3. \A v \in Workers : holding[v] = done => v = w
  BY <1>1 DEF EachTaskInOnePlace
<1> HIDE DEF done
<1>4. \A u \in Tasks : /\ Queued(u)' <=> Queued(u)
                       /\ Held(u)' <=> Held(u) /\ u # done
  <2>1. \A u \in Tasks : Queued(u)' <=> Queued(u)
    BY <1>1 DEF Queued
  <2>2. \A u \in Tasks : Held(u)' <=> Held(u) /\ u # done
    BY <1>1, <1>3, NoTaskAssumption DEF Held, done
  <2> QED
    BY <2>1, <2>2
<1>5. \A u \in Tasks : (future'[u] = "pending" <=> future[u] = "pending" /\ u # done)
  BY <1>1
<1>6. \A v, x \in Workers : holding'[v] # NoTask /\ holding'[v] = holding'[x] => v = x
  BY <1>1 DEF EachTaskInOnePlace
<1>7. \A i, j \in 1 .. Len(taskQueue') : taskQueue'[i] = taskQueue'[j] => i = j
  BY <1>1 DEF EachTaskInOnePlace
<1> QED
  BY <1>2, <1>4, <1>5, <1>6, <1>7 DEF EachTaskInOnePlace

LEMMA PlaceStep ==
    TypeOK /\ EachTaskInOnePlace /\ [Next]_poolVars => EachTaskInOnePlace'
<1> SUFFICES ASSUME TypeOK, EachTaskInOnePlace, [Next]_poolVars PROVE EachTaskInOnePlace'
  OBVIOUS
<1>1. ASSUME UNCHANGED placeVars PROVE EachTaskInOnePlace'
  BY <1>1, PlaceFrame
<1>2. ASSUME NEW c \in Clients, NEW t \in Tasks, Refuse(c, t) PROVE EachTaskInOnePlace'
  BY <1>2 DEF Refuse, EachTaskInOnePlace, Queued, Held, TypeOK
<1>3. CASE \/ UNCHANGED poolVars \/ Stop \/ Destructor
           \/ \E c \in Clients : NotifyOne(c)
           \/ \E w \in Workers : Sleep(w) \/ Exit(w) \/ SpuriousWakeup(w)
  <2>1. UNCHANGED placeVars
    BY <1>3 DEF placeVars, poolVars, Stop, Destructor, NotifyAll, Join, NotifyOne,
                Sleep, Exit, SpuriousWakeup
  <2> QED
    BY <2>1, <1>1
<1> QED
  BY <1>2, <1>3, PushPlace, DequeuePlace, FinishPlace DEF Next, WorkerStep

\* A pending task is in one position of the queue or with one worker, and no other
\* task is anywhere: however many workers take tasks while clients add them, none
\* is lost and none runs twice.
THEOREM TasksInOnePlace == Spec => []EachTaskInOnePlace
<1>1. Init => EachTaskInOnePlace
  BY NoTaskAssumption DEF Init, EachTaskInOnePlace, Queued, Held
<1> QED
  BY <1>1, PlaceStep, TypeCorrect, PTL DEF Spec

------------------------------------------------------------------------------
(* No wake-up is lost *)

notifying == {c \in Clients : client[c] = "notifying"}

\* What NoLostWakeup counts are sizes of finite sets.
LEMMA Counts ==
    /\ IsFiniteSet(In("locking")) /\ Cardinality(In("locking")) \in Nat
    /\ IsFiniteSet(notifying) /\ Cardinality(notifying) \in Nat
<1>1. In("locking") \subseteq Workers /\ notifying \subseteq Clients
  BY DEF In, notifying
<1>2. IsFiniteSet(In("locking")) /\ IsFiniteSet(notifying)
  BY <1>1, WorkersAssumption, ClientsAssumption, FS_Subset
<1> QED
  BY <1>2, FS_CardinalityType

\* The same after a step, whatever it was.
LEMMA CountsNext ==
    /\ IsFiniteSet(In("locking")') /\ Cardinality(In("locking")') \in Nat
    /\ IsFiniteSet(notifying') /\ Cardinality(notifying') \in Nat
<1>1. In("locking")' \subseteq Workers /\ notifying' \subseteq Clients
  BY DEF In, notifying
<1>2. IsFiniteSet(In("locking")') /\ IsFiniteSet(notifying')
  BY <1>1, WorkersAssumption, ClientsAssumption, FS_Subset
<1> QED
  BY <1>2, FS_CardinalityType

\* A pushed task comes with a notification that is about to be sent.
LEMMA PushWakes ==
    ASSUME TypeOK, NoLostWakeup, NEW c \in Clients, NEW t \in Tasks, Push(c, t)
    PROVE  NoLostWakeup'
<1>1. /\ In("sleeping")' = In("sleeping") /\ In("locking")' = In("locking")
      /\ Len(taskQueue') = Len(taskQueue) + 1 /\ Len(taskQueue) \in Nat
  BY DEF Push, In, TypeOK
<1>2. notifying' = notifying \union {c} /\ c \notin notifying
  BY DEF Push, notifying, TypeOK
<1>3. Cardinality(notifying') = Cardinality(notifying) + 1
  BY <1>2, Counts, FS_AddElement
<1> QED
  BY <1>1, <1>3, Counts DEF NoLostWakeup, notifying

\* A notification that is sent has a worker for it, unless nobody sleeps.
LEMMA NotifyWakes ==
    ASSUME TypeOK, NoLostWakeup, NEW c \in Clients, NotifyOne(c)
    PROVE  NoLostWakeup'
<1>1. taskQueue' = taskQueue /\ Len(taskQueue) \in Nat
  BY DEF NotifyOne, TypeOK
<1>2. notifying' = notifying \ {c} /\ c \in notifying
  BY DEF NotifyOne, notifying, TypeOK
<1>3. Cardinality(notifying') = Cardinality(notifying) - 1
  BY <1>2, Counts, FS_RemoveElement
<1>4. CASE In("sleeping") = {}
  BY <1>4 DEF NotifyOne, In, NoLostWakeup
<1>5. CASE In("sleeping") # {}
  <2>1. PICK w \in In("sleeping") : worker' = [worker EXCEPT ![w] = "locking"]
    BY <1>5 DEF NotifyOne
  <2>2. In("locking")' = In("locking") \union {w} /\ w \notin In("locking")
    BY <2>1 DEF In, TypeOK
  <2>3. Cardinality(In("locking")') = Cardinality(In("locking")) + 1
    BY <2>2, Counts, FS_AddElement
  <2> QED
    BY <1>1, <1>3, <1>5, <2>3, Counts DEF NoLostWakeup, notifying
<1> QED
  BY <1>4, <1>5

\* A worker that takes a task leaves one fewer of both.
LEMMA DequeueWakes ==
    ASSUME TypeOK, NoLostWakeup, NEW w \in Workers, Dequeue(w)
    PROVE  NoLostWakeup'
<1>1. /\ In("sleeping")' = In("sleeping") /\ notifying' = notifying
      /\ Len(taskQueue') = Len(taskQueue) - 1 /\ Len(taskQueue) \in Nat
  BY DEF Dequeue, In, TypeOK, notifying
<1>2. In("locking")' = In("locking") \ {w} /\ w \in In("locking")
  BY DEF Dequeue, In, TypeOK
<1>3. Cardinality(In("locking")') = Cardinality(In("locking")) - 1
  BY <1>2, Counts, FS_RemoveElement
<1>4. In("sleeping") # {} => Len(taskQueue) <= Cardinality(In("locking")) + Cardinality(notifying)
  BY DEF NoLostWakeup, notifying
<1>5. In("sleeping")' # {} => Len(taskQueue') <= Cardinality(In("locking")') + Cardinality(notifying')
  BY <1>1, <1>3, <1>4, Counts
<1> QED
  BY <1>5 DEF NoLostWakeup, notifying

\* A worker that comes back to the queue is one more that is on its way to it.
LEMMA MoreLocking ==
    ASSUME TypeOK, NoLostWakeup, NEW w \in Workers,
           worker' = [worker EXCEPT ![w] = "locking"], UNCHANGED <<taskQueue, client>>
    PROVE  NoLostWakeup'
<1>1. In("locking") \subseteq In("locking")' /\ notifying' = notifying
      /\ In("sleeping")' \subseteq In("sleeping") /\ Len(taskQueue) \in Nat
  BY DEF In, TypeOK, notifying
<1>2. Cardinality(In("locking")) <= Cardinality(In("locking")')
  BY <1>1, CountsNext, FS_Subset
<1> QED
  BY <1>1, <1>2, Counts, CountsNext DEF NoLostWakeup, notifying

LEMMA WakeupStep == TypeOK /\ NoLostWakeup /\ [Next]_poolVars => NoLostWakeup'
<1> SUFFICES ASSUME TypeOK, NoLostWakeup, [Next]_poolVars PROVE NoLostWakeup'
  OBVIOUS
<1>1. CASE UNCHANGED poolVars \/ Stop \/ Join \/ \E c \in Clients, t \in Tasks : Refuse(c, t)
  <2>1. UNCHANGED <<taskQueue, worker, client>>
    BY <1>1 DEF poolVars, Stop, Join, Refuse
  <2> QED
    BY <2>1 DEF NoLostWakeup, In
\* A worker sleeps or leaves only when nothing is queued.
<1>2. ASSUME NEW w \in Workers, Sleep(w) \/ Exit(w) PROVE NoLostWakeup'
  <2>1. taskQueue' = <<>>
    BY <1>2 DEF Sleep, Exit
  <2>2. Len(taskQueue') = 0
    BY <2>1
  <2> QED
    BY <2>2, CountsNext DEF NoLostWakeup, notifying
<1>3. ASSUME NEW w \in Workers, Finish(w) \/ SpuriousWakeup(w) PROVE NoLostWakeup'
  BY <1>3, MoreLocking DEF Finish, SpuriousWakeup
<1>4. CASE NotifyAll
  BY <1>4 DEF NotifyAll, NoLostWakeup, In
<1> QED
  BY <1>1, <1>2, <1>3, <1>4, PushWakes, NotifyWakes, DequeueWakes
  DEF Next, WorkerStep, Destructor

\* However notifications, critical sections and spurious wake-ups interleave, no
\* worker sleeps while there are more tasks queued than workers on their way to the
\* queue and notifications about to be sent: no rank's task waits for a thread that
\* sleeps through it.
THEOREM NoWakeupIsLost == Spec => []NoLostWakeup
<1>1. Init => NoLostWakeup
  BY DEF Init, NoLostWakeup, In
<1> QED
  BY <1>1, WakeupStep, TypeCorrect, PTL DEF Spec

------------------------------------------------------------------------------
(* Nothing is abandoned *)

\* Workers that leave find the pool stopped and its queue empty, which stays so, and
\* the destructor returns after the last of them.
ExitInv ==
    /\ In("exited") # {} => stop /\ taskQueue = <<>>
    /\ pool = "destroyed" => In("exited") = Workers

LEMMA ExitStep == TypeOK /\ ExitInv /\ [Next]_poolVars => ExitInv'
<1> SUFFICES ASSUME TypeOK, ExitInv, [Next]_poolVars PROVE ExitInv'
  OBVIOUS
<1> USE DEF ExitInv, In, stop
<1>1. CASE UNCHANGED poolVars
  BY <1>1 DEF poolVars
<1>2. ASSUME NEW c \in Clients, NEW t \in Tasks, Push(c, t) \/ Refuse(c, t) PROVE ExitInv'
  BY <1>2 DEF Push, Refuse
<1>3. ASSUME NEW c \in Clients, NotifyOne(c) PROVE ExitInv'
  BY <1>3 DEF NotifyOne, TypeOK
<1>4. ASSUME NEW w \in Workers, Sleep(w) \/ Dequeue(w) \/ Exit(w) \/ SpuriousWakeup(w)
      PROVE ExitInv'
  BY <1>4 DEF Sleep, Dequeue, Exit, SpuriousWakeup, TypeOK
<1>5. ASSUME NEW w \in Workers, Finish(w) PROVE ExitInv'
  BY <1>5 DEF Finish, TypeOK
<1>6. CASE Stop \/ NotifyAll \/ Join
  BY <1>6 DEF Stop, NotifyAll, Join, TypeOK
<1> QED
  BY <1>1, <1>2, <1>3, <1>4, <1>5, <1>6 DEF Next, WorkerStep, Destructor

\* A pending task is queued or held; when all workers have left neither can be.
LEMMA Abandoned == TypeOK /\ EachTaskInOnePlace /\ ExitInv => NothingAbandoned
<1> SUFFICES ASSUME TypeOK, EachTaskInOnePlace, ExitInv, pool = "destroyed",
                    NEW t \in Tasks, future[t] = "pending"
             PROVE  FALSE
  BY DEF NothingAbandoned, ExitInv
<1>1. In("exited") = Workers /\ taskQueue = <<>>
  BY WorkersAssumption DEF ExitInv
<1>2. ~Queued(t)
  BY <1>1 DEF Queued
<1>3. PICK w \in Workers : holding[w] = t
  BY <1>2 DEF EachTaskInOnePlace, Held
<1>4. worker[w] = "running"
  BY <1>3, NoTaskAssumption DEF TypeOK
<1> QED
  BY <1>1, <1>4 DEF In

\* Whenever the pool is stopped, every task that was accepted has been run when the
\* destructor returns, and no worker leaves one behind.
THEOREM NothingIsAbandoned == Spec => []NothingAbandoned
<1>1. Init => ExitInv
  BY DEF Init, ExitInv, In
<1> QED
  BY <1>1, ExitStep, Abandoned, TypeCorrect, TasksInOnePlace, PTL DEF Spec

------------------------------------------------------------------------------
(* Nobody waits for everybody *)

\* What lets somebody take a step: a client is about to notify, the destructor to
\* notify all or to return, a worker is on its way to the queue, where it takes a task,
\* sleeps or leaves, or its task can return.
CanReturn(w) == worker[w] = "running" /\ Needs[holding[w]] \subseteq Started
CanMove == \/ \E c \in Clients : client[c] = "notifying"
           \/ pool = "stopping" \/ (pool = "joining" /\ In("exited") = Workers)
           \/ \E w \in Workers : worker[w] = "locking" \/ CanReturn(w)

\* The accepted tasks that have not returned, and that none of them waits for a task
\* that nobody has enqueued.
Backlog == Len(taskQueue) + Cardinality(In("running"))
AllServed == \A t \in Tasks : future[t] = "pending" => Served(t)

\* Where nobody is on the way to the queue nothing is queued: sleepers have been
\* notified of all there was, and workers that all run have a task each.
LEMMA QueueServed ==
    ASSUME TypeOK, NoLostWakeup, ExitInv, ~CanMove, Backlog <= Cardinality(Workers)
    PROVE  taskQueue = <<>>
<1>1. Len(taskQueue) \in Nat /\ taskQueue \in Seq(Tasks)
  BY LenProperties DEF TypeOK
<1>2. In("locking") = {} /\ notifying = {}
  BY DEF CanMove, In, notifying
<1>3. CASE In("sleeping") # {}
  <2>0. Cardinality(In("locking")) = 0 /\ Cardinality(notifying) = 0
    BY <1>2, FS_EmptySet
  <2>1. Len(taskQueue) <= 0
    BY <1>3, <2>0 DEF NoLostWakeup, notifying
  <2> QED
    BY <1>1, <2>1, EmptySeq
<1>4. CASE In("exited") # {}
  BY <1>4 DEF ExitInv
<1>5. CASE In("sleeping") = {} /\ In("exited") = {}
  <2>1. In("running") = Workers
    BY <1>2, <1>5 DEF In, TypeOK
  <2>2. Cardinality(Workers) \in Nat
    BY WorkersAssumption, FS_CardinalityType
  <2>3. Len(taskQueue) <= 0
    BY <1>1, <2>1, <2>2 DEF Backlog
  <2> QED
    BY <1>1, <2>3, EmptySeq
<1> QED
  BY <1>3, <1>4, <1>5

\* With no more accepted tasks than workers, none of which waits for a task that
\* nobody has enqueued, an accepted task never finds everybody waiting: whatever the
\* tasks wait for among themselves, some thread can take its next step.
PoolMoves == (\E t \in Tasks : future[t] = "pending") /\ AllServed /\ Backlog <= Cardinality(Workers)
             => CanMove

LEMMA Moves == TypeOK /\ EachTaskInOnePlace /\ NoLostWakeup /\ ExitInv => PoolMoves
<1> SUFFICES ASSUME TypeOK, EachTaskInOnePlace, NoLostWakeup, ExitInv,
                    NEW t \in Tasks, future[t] = "pending", AllServed,
                    Backlog <= Cardinality(Workers), ~CanMove
             PROVE  FALSE
  BY DEF PoolMoves
<1>1. taskQueue = <<>>
  BY QueueServed
<1>2. \A u \in Tasks : future[u] = "pending" => Held(u)
  BY <1>1, EmptySeq DEF EachTaskInOnePlace, Queued
<1>3. PICK w \in Workers : holding[w] = t
  BY <1>2 DEF Held
<1>4. worker[w] = "running"
  BY <1>3, NoTaskAssumption DEF TypeOK
<1>5. Needs[t] \subseteq Tasks /\ \A u \in Needs[t] : future[u] \in {"pending", "ready"}
  BY NeedsAssumption DEF AllServed, Served
<1>6. Needs[t] \subseteq Started
  BY <1>2, <1>5 DEF Started, Held
<1> QED
  BY <1>3, <1>4, <1>6 DEF CanMove, CanReturn

\* In every state the pool reaches somebody can move while a task is pending, for any
\* workers, clients and waiting among tasks that PoolMoves allows.
THEOREM NeverStuck == Spec => []PoolMoves
<1>1. Init => ExitInv
  BY DEF Init, ExitInv, In
<1> QED
  BY <1>1, ExitStep, Moves, TypeCorrect, TasksInOnePlace, NoWakeupIsLost, PTL DEF Spec

=============================================================================
