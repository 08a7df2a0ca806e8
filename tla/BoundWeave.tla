------------------------------ MODULE BoundWeave ------------------------------
(***************************************************************************)
(* AbstractSystem::handleBoundWeaveEvent and runPhaseEvent over the thread *)
(* pool: in every round the main thread enqueues the ranks of the bound    *)
(* phase, waits for their futures, does the same with the weave phase, and *)
(* stops or schedules the next round.                                      *)
(*                                                                         *)
(* A rank's scheduler is external: it simulates one interval per call, and *)
(* is finished when it has no events left; or an assertion in one of its   *)
(* handlers throws, which the main thread learns from the future.          *)
(***************************************************************************)
EXTENDS ThreadPool

CONSTANTS BoundRanks, \* m_bound_phase: its ranks in the order of the map
          WeaveRanks, \* m_weave_phase
          Main,       \* the main thread, the pool's only client
          MaxRounds   \* bound on the intervals a rank has events for

Elements(seq) == {seq[i] : i \in DOMAIN seq}
Bound == Elements(BoundRanks)
Weave == Elements(WeaveRanks)
Ranks == Bound \union Weave

\* A task is the run of one rank's scheduler in one round.
ASSUME RanksAssumption == /\ BoundRanks \in Seq(Bound) /\ WeaveRanks \in Seq(Weave)
                          /\ Ranks # {} /\ Bound \intersect Weave = {}
ASSUME TasksAssumption == MaxRounds \in Nat \ {0} /\ Tasks = Ranks \X (1 .. MaxRounds)
ASSUME MainAssumption == Clients = {Main}

VARIABLES
    main,     \* the main thread: enqueue, await, decide, stopped, failed (left by an exception)
    phase,    \* which phase runPhaseEvent runs: bound, weave
    position, \* its loops' position in the phase
    finished, \* finished[p]: runPhaseEvent's result for phase p so far
    round,    \* number of the round
    now,      \* now[r]: how many intervals r's scheduler has run
    work,     \* work[r]: how many intervals r has events for
    result,   \* result[r]: isFinished as of r's last run
    failed    \* the tasks that have ended by an exception

roundVars == <<main, phase, position, finished, round>>
rankVars == <<now, work, result, failed>>
systemVars == <<poolVars, roundVars, rankVars>>

RoundsInit ==
    /\ Init
    /\ main = "enqueue"
    /\ phase = "bound"
    /\ position = 1
    /\ finished = [p \in {"bound", "weave"} |-> TRUE]
    /\ round = 1
    /\ now = [r \in Ranks |-> 0]
    /\ work \in [Ranks -> 0 .. MaxRounds]
    /\ result = [r \in Ranks |-> FALSE]
    /\ failed = {}

------------------------------------------------------------------------------
(* runPhaseEvent, on the main thread *)

PhaseRanks == IF phase = "bound" THEN BoundRanks ELSE WeaveRanks
LoopOver == position > Len(PhaseRanks)
Task == <<PhaseRanks[position], round>>

EnqueueRank ==
    /\ main = "enqueue" /\ ~LoopOver
    /\ Push(Main, Task)
    /\ position' = position + 1
    /\ UNCHANGED <<main, phase, finished, round, rankVars>>

BeginAwait ==
    /\ main = "enqueue" /\ LoopOver
    /\ client[Main] = "outside"
    /\ main' = "await"
    /\ position' = 1
    /\ UNCHANGED <<poolVars, phase, finished, round, rankVars>>

\* Mutants of AwaitRank: get() does not wait; only the last rank's answer counts.
AwaitNothing ==
    /\ main = "await" /\ ~LoopOver
    /\ finished' = [finished EXCEPT ![phase] = @ /\ result[PhaseRanks[position]]]
    /\ position' = position + 1
    /\ UNCHANGED <<poolVars, main, phase, round, rankVars>>

AwaitForgetting ==
    /\ main = "await" /\ ~LoopOver
    /\ future[Task] = "ready"
    /\ IF Task \in failed
       THEN main' = "failed" /\ UNCHANGED <<finished, position>>
       ELSE /\ finished' = [finished EXCEPT ![phase] = result[PhaseRanks[position]]]
            /\ position' = position + 1
            /\ UNCHANGED main
    /\ UNCHANGED <<poolVars, phase, round, rankVars>>

\* f.get() waits for the task; a rank that is not finished clears the result. What the
\* task has thrown get() throws, and runPhaseEvent and the event handler are left,
\* whatever other ranks still do.
AwaitRank ==
    /\ main = "await" /\ ~LoopOver
    /\ future[Task] = "ready"
    /\ IF Task \in failed
       THEN main' = "failed" /\ UNCHANGED <<finished, position>>
       ELSE /\ finished' = [finished EXCEPT ![phase] = @ /\ result[PhaseRanks[position]]]
            /\ position' = position + 1
            /\ UNCHANGED main
    /\ UNCHANGED <<poolVars, phase, round, rankVars>>

\* The bound phase is followed by the weave phase, that by the decision.
EndPhase ==
    /\ main = "await" /\ LoopOver
    /\ position' = 1
    /\ IF phase = "bound" THEN phase' = "weave" /\ main' = "enqueue"
                          ELSE UNCHANGED phase /\ main' = "decide"
    /\ UNCHANGED <<poolVars, finished, round, rankVars>>

\* handleBoundWeaveEvent stops the main scheduler when both phases are finished
\* and schedules itself for the next interval otherwise.
Decide ==
    /\ main = "decide"
    /\ IF finished["bound"] /\ finished["weave"]
       THEN main' = "stopped" /\ UNCHANGED <<phase, finished, round>>
       ELSE /\ main' = "enqueue"
            /\ phase' = "bound"
            /\ finished' = [p \in {"bound", "weave"} |-> TRUE]
            /\ round' = round + 1
    /\ UNCHANGED <<poolVars, position, rankVars>>

------------------------------------------------------------------------------
(* A task, on a thread of the pool *)

\* run() simulates the interval and isFinished() answers for the rank.
RunInterval(w) ==
    LET r == holding[w][1]
    IN /\ Finish(w)
       /\ now' = [now EXCEPT ![r] = @ + 1]
       /\ result' = [result EXCEPT ![r] = now[r] + 1 >= work[r]]
       /\ UNCHANGED <<roundVars, work, failed>>

\* A handler throws in the middle of the interval, and the task with it.
RunThrows(w) ==
    /\ Finish(w)
    /\ failed' = failed \union {holding[w]}
    /\ UNCHANGED <<roundVars, now, work, result>>

MainStep == EnqueueRank \/ BeginAwait \/ AwaitRank \/ EndPhase \/ Decide
Notify == NotifyOne(Main) /\ UNCHANGED <<roundVars, rankVars>>
PoolStep(w) == (Sleep(w) \/ Dequeue(w)) /\ UNCHANGED <<roundVars, rankVars>>
Spurious(w) == SpuriousWakeup(w) /\ UNCHANGED <<roundVars, rankVars>>

RoundsNext ==
    \/ MainStep
    \/ Notify
    \/ \E w \in Workers : PoolStep(w) \/ RunInterval(w) \/ RunThrows(w) \/ Spurious(w)

RoundsSpec == RoundsInit /\ [][RoundsNext]_systemVars

\* The main thread and the pool's threads are scheduled, and a rank that can
\* simulate its interval does.
RoundsFairness ==
    /\ WF_systemVars(MainStep)
    /\ WF_systemVars(Notify)
    /\ \A w \in Workers : WF_systemVars(PoolStep(w) \/ RunInterval(w))

RoundsFairSpec == RoundsSpec /\ RoundsFairness

------------------------------------------------------------------------------
(* Properties *)

\* Every variable keeps its shape.
RoundsTypeOK ==
    /\ TypeOK
    /\ main \in {"enqueue", "await", "decide", "stopped", "failed"}
    /\ phase \in {"bound", "weave"}
    /\ position \in 1 .. Len(PhaseRanks) + 1
    /\ finished \in [{"bound", "weave"} -> BOOLEAN]
    /\ round \in 1 .. MaxRounds
    /\ now \in [Ranks -> 0 .. MaxRounds]
    /\ work \in [Ranks -> 0 .. MaxRounds]
    /\ result \in [Ranks -> BOOLEAN]
    /\ failed \subseteq Tasks

\* The scheduler of a rank is run by one thread of the pool at a time, and by
\* none while the main thread decides or has stopped: schedulers take no lock.
OneRunPerScheduler ==
    /\ \A r \in Ranks : \A m, n \in 1 .. MaxRounds :
          future[<<r, m>>] = "pending" /\ future[<<r, n>>] = "pending" => m = n
    /\ main \in {"decide", "stopped"} => \A t \in Tasks : future[t] # "pending"

Rounds == INSTANCE LockStep WITH
    now <- now, work <- work, stopped <- main = "stopped"

\* The rounds keep the ranks in step: no rank is more than an interval ahead of
\* another, the weave phase follows the bound phase, and the system stops at the
\* end of the first round after which every rank of both phases is finished; after a
\* round in which a rank has thrown there is no other.
ImplementsLockStep == Rounds!LockStepSpec

\* With a thread for every rank of a phase (m_max_threads = 0) the simulation
\* stops, even when the ranks of a phase all wait for each other; unless a rank throws,
\* for which others may then wait for ever.
SimulationStops == <>(main = "stopped" \/ failed # {})

=============================================================================
