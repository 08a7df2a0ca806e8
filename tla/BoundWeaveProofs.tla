--------------------------- MODULE BoundWeaveProofs ---------------------------
(***************************************************************************)
(* The rounds of handleBoundWeaveEvent over the thread pool implement      *)
(* lock-step phases, for any ranks, any number of threads and rounds, and  *)
(* whatever ranks wait for.                                                *)
(***************************************************************************)
EXTENDS BoundWeave, ThreadPoolProofs

RanksIn(p) == IF p = "bound" THEN BoundRanks ELSE WeaveRanks
PhaseNames == {"bound", "weave"}

\* How many ranks of phase p the main thread has waited for in this round.
Awaited(p) ==
    IF main \in {"decide", "stopped"} \/ (p = "bound" /\ phase = "weave") THEN Len(RanksIn(p))
    ELSE IF p = phase /\ main \in {"await", "failed"} THEN position - 1
    ELSE 0

\* Where the rounds are says what has become of each rank's runs: those of earlier
\* rounds are over and those of later rounds not enqueued, in this round those that
\* were waited for are over and have not thrown, and none of the weave phase is enqueued
\* during the other. A run that threw is over.
FutureInv ==
    /\ main \in {"decide", "stopped"} => phase = "weave" /\ position = 1
    /\ \A r \in Ranks, k \in 1 .. MaxRounds :
          /\ k < round => future[<<r, k>>] = "ready"
          /\ k > round => future[<<r, k>>] = "none"
    /\ \A p \in PhaseNames : \A i \in 1 .. Awaited(p) :
          future[<<RanksIn(p)[i], round>>] = "ready" /\ <<RanksIn(p)[i], round>> \notin failed
    /\ \A t \in failed : future[t] = "ready"
    /\ main = "failed" => failed # {}
    /\ \A r \in Weave : future[<<r, round>>] # "none" => phase = "weave"

\* A rank has run as many intervals as its runs that have answered, its last answer is
\* about these, finished is the conjunction of the answers that were waited for, and
\* a round after the first takes place because of a rank that has events for it.
RankInv ==
    /\ \A r \in Ranks : now[r] = IF future[<<r, round>>] = "ready" /\ <<r, round>> \notin failed
                               THEN round ELSE round - 1
    /\ \A r \in Ranks : now[r] > 0 => (result[r] <=> now[r] >= work[r])
    /\ \A p \in PhaseNames : finished[p] <=> \A i \in 1 .. Awaited(p) : result[RanksIn(p)[i]]
    /\ round = 1 \/ \E r \in Ranks : work[r] >= round

RoundInv == RoundsTypeOK /\ EachTaskInOnePlace /\ FutureInv /\ RankInv

------------------------------------------------------------------------------
(* Ranks, tasks and positions *)

\* A position of a phase has a rank of it.
LEMMA PositionRank ==
    ASSUME NEW p \in PhaseNames, NEW i \in 1 .. Len(RanksIn(p))
    PROVE  RanksIn(p)[i] \in (IF p = "bound" THEN Bound ELSE Weave) /\ RanksIn(p)[i] \in Ranks
BY RanksAssumption DEF RanksIn, PhaseNames, Ranks

\* A rank has a position in its phase.
LEMMA RankPosition ==
    ASSUME NEW r \in Ranks
    PROVE  \E p \in PhaseNames : \E i \in 1 .. Len(RanksIn(p)) : RanksIn(p)[i] = r
BY RanksAssumption DEF RanksIn, PhaseNames, Ranks, Bound, Weave, Elements

LEMMA PhaseLengths == \A p \in PhaseNames : Len(RanksIn(p)) \in Nat
BY RanksAssumption DEF RanksIn, PhaseNames

LEMMA PhaseRanksIn == RoundsTypeOK => PhaseRanks = RanksIn(phase) /\ phase \in PhaseNames
BY DEF RoundsTypeOK, PhaseRanks, RanksIn, PhaseNames

\* No more ranks have been waited for than there are.
LEMMA AwaitedBound ==
    ASSUME RoundsTypeOK, NEW p \in PhaseNames
    PROVE  Awaited(p) \in Nat /\ Awaited(p) <= Len(RanksIn(p))
BY PhaseLengths, PhaseRanksIn DEF Awaited, RoundsTypeOK

\* The task that the main thread is at is one of the pool's.
LEMMA TaskIsTask ==
    ASSUME RoundsTypeOK, ~LoopOver
    PROVE  /\ position \in 1 .. Len(RanksIn(phase)) /\ Task = <<RanksIn(phase)[position], round>>
           /\ Task \in Tasks /\ RanksIn(phase)[position] \in Ranks
<1>1. /\ phase \in PhaseNames /\ PhaseRanks = RanksIn(phase)
      /\ position \in 1 .. Len(PhaseRanks) + 1 /\ round \in 1 .. MaxRounds
  BY PhaseRanksIn DEF RoundsTypeOK
<1>2. position \in 1 .. Len(RanksIn(phase))
  BY <1>1, PhaseLengths DEF LoopOver
<1>3. RanksIn(phase)[position] \in Ranks
  BY <1>1, <1>2, PositionRank
<1> QED
  BY <1>1, <1>2, <1>3, TasksAssumption DEF Task

\* What the pool does in a round is a step of the pool.
LEMMA PoolNext == RoundsTypeOK /\ [RoundsNext]_systemVars => [Next]_poolVars
<1> SUFFICES ASSUME RoundsTypeOK, [RoundsNext]_systemVars PROVE [Next]_poolVars
  OBVIOUS
<1>1. CASE EnqueueRank
  BY <1>1, TaskIsTask, MainAssumption DEF EnqueueRank, Next
<1>2. CASE \/ UNCHANGED systemVars
           \/ BeginAwait \/ AwaitRank \/ EndPhase \/ Decide
  BY <1>2 DEF systemVars, BeginAwait, AwaitRank, EndPhase, Decide
<1>3. CASE Notify
  BY <1>3, MainAssumption DEF Notify, Next
<1>4. ASSUME NEW w \in Workers, PoolStep(w) \/ RunInterval(w) \/ RunThrows(w) \/ Spurious(w)
      PROVE  Next
  BY <1>4 DEF PoolStep, RunInterval, RunThrows, Spurious, Next, WorkerStep
<1> QED
  BY <1>1, <1>2, <1>3, <1>4 DEF RoundsNext, MainStep

LEMMA PoolKeeps ==
    RoundInv /\ [RoundsNext]_systemVars => TypeOK' /\ EachTaskInOnePlace'
BY PoolNext, TypeStep, PlaceStep DEF RoundInv, RoundsTypeOK

------------------------------------------------------------------------------
(* The invariant *)

LEMMA RoundStart == RoundsInit => RoundInv
<1> SUFFICES ASSUME RoundsInit PROVE RoundInv
  OBVIOUS
<1>1. TypeOK /\ EachTaskInOnePlace
  BY TypeInit, NoTaskAssumption DEF RoundsInit, Init, EachTaskInOnePlace, Queued, Held
<1>2. RoundsTypeOK
  BY <1>1, PhaseLengths, TasksAssumption DEF RoundsInit, RoundsTypeOK, PhaseRanks, RanksIn, PhaseNames
<1>3. \A t \in Tasks : future[t] = "none"
  BY DEF RoundsInit, Init
<1>4. \A p \in PhaseNames : Awaited(p) = 0
  BY DEF RoundsInit, Awaited
<1>5. \A r \in Ranks, k \in 1 .. MaxRounds : future[<<r, k>>] = "none"
  BY <1>3, TasksAssumption
<1>6. FutureInv
  BY <1>4, <1>5, TasksAssumption DEF FutureInv, RoundsInit, Ranks
<1>7. RankInv
  BY <1>4, <1>5, TasksAssumption DEF RankInv, RoundsInit, PhaseNames
<1> QED
  BY <1>1, <1>2, <1>6, <1>7 DEF RoundInv

LEMMA RoundEnqueue == RoundInv /\ EnqueueRank => RoundsTypeOK' /\ FutureInv' /\ RankInv'
<1> SUFFICES ASSUME RoundInv, EnqueueRank PROVE RoundsTypeOK' /\ FutureInv' /\ RankInv'
  OBVIOUS
<1> DEFINE r0 == RanksIn(phase)[position]
<1>1. RoundsTypeOK /\ FutureInv /\ RankInv /\ ~LoopOver
  BY DEF RoundInv, EnqueueRank
<1>2. /\ main = "enqueue" /\ position' = position + 1
      /\ UNCHANGED <<main, phase, finished, round, now, work, result, failed>>
  BY DEF EnqueueRank, rankVars
<1>3. /\ Task = <<r0, round>> /\ Task \in Tasks /\ r0 \in Ranks
      /\ position \in 1 .. Len(RanksIn(phase)) /\ phase \in PhaseNames
  BY <1>1, TaskIsTask, PhaseRanksIn
<1>4. future[Task] = "none" /\ future' = [future EXCEPT ![Task] = "pending"]
  BY DEF EnqueueRank, Push
<1>5. r0 \in Weave => phase = "weave"
  BY <1>3, PositionRank, RanksAssumption DEF PhaseNames
<1> HIDE DEF r0
<1>6. TypeOK'
  BY PoolKeeps DEF RoundsNext, MainStep
<1>7. RoundsTypeOK'
  BY <1>1, <1>2, <1>3, <1>6, PhaseLengths, PhaseRanksIn DEF RoundsTypeOK, PhaseRanks
<1>8. \A r \in Ranks, k \in 1 .. MaxRounds :
          future'[<<r, k>>] = IF <<r, k>> = <<r0, round>> THEN "pending" ELSE future[<<r, k>>]
  BY <1>1, <1>3, <1>4, TasksAssumption DEF RoundsTypeOK, TypeOK
<1>9. \A p \in PhaseNames : Awaited(p)' = Awaited(p)
  BY <1>2 DEF Awaited, RanksIn
<1>10. round \in 1 .. MaxRounds /\ Weave \subseteq Ranks
  BY <1>1 DEF RoundsTypeOK, Ranks
<1>11. \A p \in PhaseNames : \A i \in 1 .. Awaited(p) :
          RanksIn(p)[i] \in Ranks /\ RanksIn(p)[i] # r0
  BY <1>1, <1>3, <1>4, AwaitedBound, PositionRank, PhaseLengths DEF FutureInv
<1>12. FutureInv'
  BY <1>1, <1>2, <1>3, <1>4, <1>5, <1>8, <1>9, <1>10, <1>11 DEF FutureInv, RanksIn
<1>13. RankInv'
  BY <1>1, <1>2, <1>3, <1>4, <1>8, <1>9, <1>10 DEF RankInv, RanksIn
<1> QED
  BY <1>7, <1>12, <1>13

\* A rank that has thrown ends the main thread's rounds.
LEMMA RoundAwaitFailed ==
    ASSUME RoundInv, AwaitRank, Task \in failed
    PROVE  RoundsTypeOK' /\ FutureInv' /\ RankInv'
<1>1. RoundsTypeOK /\ FutureInv /\ RankInv
  BY DEF RoundInv
<1>2. /\ main = "await" /\ main' = "failed" /\ failed # {}
      /\ UNCHANGED <<position, phase, finished, round, now, work, result, failed, future>>
  BY DEF AwaitRank, rankVars, poolVars
<1>3. TypeOK'
  BY PoolKeeps DEF RoundsNext, MainStep
<1>4. \A p \in PhaseNames : Awaited(p)' = Awaited(p) /\ RanksIn(p)' = RanksIn(p)
  BY <1>2 DEF Awaited, RanksIn
<1>5. RoundsTypeOK'
  BY <1>1, <1>2, <1>3 DEF RoundsTypeOK, PhaseRanks
<1>6. FutureInv'
  BY <1>1, <1>2, <1>4 DEF FutureInv
<1>7. RankInv'
  BY <1>1, <1>2, <1>4 DEF RankInv
<1> QED
  BY <1>5, <1>6, <1>7

\* Waiting for any other rank adds its answer.
LEMMA RoundAwait ==
    ASSUME RoundInv, AwaitRank, Task \notin failed
    PROVE  RoundsTypeOK' /\ FutureInv' /\ RankInv'
<1> DEFINE r0 == RanksIn(phase)[position]
<1>1. RoundsTypeOK /\ FutureInv /\ RankInv /\ ~LoopOver
  BY DEF RoundInv, AwaitRank
<1>2. /\ main = "await" /\ position' = position + 1 /\ future[Task] = "ready"
      /\ UNCHANGED <<main, phase, round, now, work, result, failed, future>>
  BY DEF AwaitRank, rankVars, poolVars
<1>3. /\ Task = <<r0, round>> /\ Task \in Tasks /\ r0 \in Ranks
      /\ position \in 1 .. Len(RanksIn(phase)) /\ phase \in PhaseNames
  BY <1>1, TaskIsTask, PhaseRanksIn
<1>4. finished' = [finished EXCEPT ![phase] = finished[phase] /\ result[r0]]
  BY <1>1, PhaseRanksIn DEF AwaitRank
<1>5. /\ finished \in [PhaseNames -> BOOLEAN] /\ result[r0] \in BOOLEAN
      /\ Len(RanksIn(phase)) \in Nat
  BY <1>1, <1>3, PhaseLengths DEF RoundsTypeOK, PhaseNames
<1>6. /\ finished' \in [PhaseNames -> BOOLEAN]
      /\ finished'[phase] = (finished[phase] /\ result[r0])
      /\ \A p \in PhaseNames : p # phase => finished'[p] = finished[p]
  BY <1>3, <1>4, <1>5, Zenon
<1>7. TypeOK'
  BY PoolKeeps DEF RoundsNext, MainStep
<1>8. RoundsTypeOK'
  BY <1>1, <1>2, <1>3, <1>5, <1>6, <1>7, PhaseRanksIn DEF RoundsTypeOK, PhaseRanks, PhaseNames
<1>9. /\ Awaited(phase) = position - 1 /\ Awaited(phase)' = position
      /\ \A p \in PhaseNames : p # phase => Awaited(p)' = Awaited(p)
  BY <1>2, <1>3, <1>5 DEF Awaited, RanksIn, PhaseNames
<1>10. \A p \in PhaseNames : RanksIn(p)' = RanksIn(p)
  BY DEF RanksIn
<1>11. \A i \in 1 .. position : i = position \/ i \in 1 .. position - 1
  BY <1>3
<1>12. \A i \in 1 .. position : /\ future[<<RanksIn(phase)[i], round>>] = "ready"
                                /\ <<RanksIn(phase)[i], round>> \notin failed
  BY <1>1, <1>2, <1>3, <1>9, <1>11 DEF FutureInv
<1>13. FutureInv'
  BY <1>1, <1>2, <1>3, <1>9, <1>10, <1>12 DEF FutureInv
<1>14. finished'[phase] <=> \A i \in 1 .. position : result[RanksIn(phase)[i]]
  <2>1. finished[phase] <=> \A i \in 1 .. position - 1 : result[RanksIn(phase)[i]]
    BY <1>1, <1>3, <1>9 DEF RankInv
  <2>2. (1 .. position - 1) \subseteq 1 .. position /\ position \in 1 .. position
    BY <1>3
  <2> QED
    BY <1>6, <1>11, <2>1, <2>2, Zenon
<1>15. \A p \in PhaseNames : finished'[p] <=> \A i \in 1 .. Awaited(p)' : result[RanksIn(p)[i]]
  <2> SUFFICES ASSUME NEW p \in PhaseNames
               PROVE  finished'[p] <=> \A i \in 1 .. Awaited(p)' : result[RanksIn(p)[i]]
    OBVIOUS
  <2>1. CASE p = phase
    BY <1>2, <1>9, <1>14, <2>1
  <2>2. CASE p # phase
    <3>1. finished[p] <=> \A i \in 1 .. Awaited(p) : result[RanksIn(p)[i]]
      BY <1>1 DEF RankInv
    <3> QED
      BY <1>6, <1>9, <2>2, <3>1, Zenon
  <2> QED
    BY <2>1, <2>2
<1>16. RankInv'
  BY <1>1, <1>2, <1>10, <1>15 DEF RankInv
<1> QED
  BY <1>8, <1>13, <1>16

\* Steps of the main thread that move it on, with the same ranks waited for.
LEMMA RoundMove ==
    ASSUME RoundInv, BeginAwait \/ EndPhase
    PROVE  RoundsTypeOK' /\ FutureInv' /\ RankInv'
<1>1. RoundsTypeOK /\ FutureInv /\ RankInv /\ LoopOver
  BY DEF RoundInv, BeginAwait, EndPhase
<1>2. position' = 1 /\ UNCHANGED <<finished, round, now, work, result, failed, future>>
  BY DEF BeginAwait, EndPhase, rankVars, poolVars
<1>3. phase \in PhaseNames /\ position = Len(RanksIn(phase)) + 1 /\ Len(RanksIn(phase)) \in Nat
  BY <1>1, PhaseRanksIn, PhaseLengths DEF LoopOver, RoundsTypeOK
<1>4. \/ main = "enqueue" /\ main' = "await" /\ phase' = phase
      \/ main = "await" /\ phase = "bound" /\ phase' = "weave" /\ main' = "enqueue"
      \/ main = "await" /\ phase = "weave" /\ phase' = "weave" /\ main' = "decide"
  BY <1>3 DEF BeginAwait, EndPhase, PhaseNames
<1>5. \A p \in PhaseNames : Awaited(p)' = Awaited(p) /\ RanksIn(p)' = RanksIn(p)
  BY <1>2, <1>3, <1>4 DEF Awaited, RanksIn, PhaseNames
<1>6. TypeOK'
  BY PoolKeeps DEF RoundsNext, MainStep
<1>7. RoundsTypeOK'
  BY <1>1, <1>2, <1>3, <1>4, <1>6, PhaseLengths
     DEF RoundsTypeOK, PhaseRanks, RanksIn, PhaseNames
<1>8. FutureInv'
  BY <1>1, <1>2, <1>4, <1>5 DEF FutureInv
<1>9. RankInv'
  BY <1>1, <1>2, <1>5 DEF RankInv
<1> QED
  BY <1>7, <1>8, <1>9

\* When the main thread decides every rank has run in this round.
LEMMA AllReady ==
    ASSUME RoundInv, main \in {"decide", "stopped"}
    PROVE  \A r \in Ranks : /\ future[<<r, round>>] = "ready" /\ <<r, round>> \notin failed
                            /\ now[r] = round
<1>1. \A p \in PhaseNames : Awaited(p) = Len(RanksIn(p))
  BY DEF Awaited
<1> QED
  BY <1>1, RankPosition DEF RoundInv, FutureInv, RankInv

LEMMA RoundDecide == RoundInv /\ Decide => RoundsTypeOK' /\ FutureInv' /\ RankInv'
<1> SUFFICES ASSUME RoundInv, Decide PROVE RoundsTypeOK' /\ FutureInv' /\ RankInv'
  OBVIOUS
<1>1. RoundsTypeOK /\ FutureInv /\ RankInv /\ main = "decide"
  BY DEF RoundInv, Decide
<1>2. UNCHANGED <<position, now, work, result, failed, future>>
  BY DEF Decide, rankVars, poolVars
<1>3. phase = "weave" /\ position = 1
  BY <1>1 DEF FutureInv
<1>4. TypeOK'
  BY PoolKeeps DEF RoundsNext, MainStep
<1>5. \A r \in Ranks : future[<<r, round>>] = "ready" /\ now[r] = round
  BY <1>1, AllReady
<1>6. \A p \in PhaseNames : RanksIn(p)' = RanksIn(p) /\ Awaited(p) = Len(RanksIn(p))
  BY <1>1 DEF RanksIn, Awaited
<1>7. CASE finished["bound"] /\ finished["weave"]
  <2>1. main' = "stopped" /\ UNCHANGED <<phase, finished, round>>
    BY <1>7 DEF Decide
  <2>2. \A p \in PhaseNames : Awaited(p)' = Awaited(p)
    BY <1>1, <2>1 DEF Awaited, RanksIn
  <2>3. RoundsTypeOK'
    BY <1>1, <1>2, <1>4, <2>1 DEF RoundsTypeOK, PhaseRanks
  <2>4. FutureInv'
    BY <1>1, <1>2, <1>3, <1>6, <2>1, <2>2 DEF FutureInv
  <2>5. RankInv'
    BY <1>1, <1>2, <1>6, <2>1, <2>2 DEF RankInv
  <2> QED
    BY <2>3, <2>4, <2>5
<1>8. CASE ~(finished["bound"] /\ finished["weave"])
  <2>1. /\ main' = "enqueue" /\ phase' = "bound" /\ round' = round + 1
        /\ finished' = [p \in PhaseNames |-> TRUE]
    BY <1>8 DEF Decide, PhaseNames
  <2>2. PICK p \in PhaseNames : ~finished[p]
    BY <1>8 DEF PhaseNames
  <2>3. PICK n \in 1 .. Awaited(p) : ~result[RanksIn(p)[n]]
    BY <1>1, <2>2 DEF RankInv
  <2>4. PICK r \in Ranks : ~result[r]
    BY <1>6, <2>3, PositionRank
  <2>5. round \in 1 .. MaxRounds /\ work[r] \in 0 .. MaxRounds /\ MaxRounds \in Nat
    BY <1>1, TasksAssumption DEF RoundsTypeOK
  <2>6. work[r] >= round + 1
    <3>1. now[r] = round /\ (now[r] > 0 => (result[r] <=> now[r] >= work[r]))
      BY <1>1, <1>5 DEF RankInv
    <3> QED
      BY <2>4, <2>5, <3>1
  <2>7. round' \in 1 .. MaxRounds
    BY <2>1, <2>5, <2>6
  <2>8. \A q \in PhaseNames : Awaited(q)' = 0
    BY <2>1 DEF Awaited
  <2>9. RoundsTypeOK'
    BY <1>1, <1>2, <1>3, <1>4, <2>1, <2>7, PhaseLengths
       DEF RoundsTypeOK, PhaseRanks, RanksIn, PhaseNames
  <2>10. \A s \in Ranks : future[<<s, round'>>] = "none"
    BY <1>1, <2>1, <2>5, <2>7 DEF FutureInv
  <2>11. round' = round + 1 /\ round \in Nat
    BY <2>1, <2>5
  <2>12. FutureInv'
    <3>1. \A s \in Ranks, k \in 1 .. MaxRounds :
             /\ k < round' => future[<<s, k>>] = "ready"
             /\ k > round' => future[<<s, k>>] = "none"
      <4>1. \A s \in Ranks, k \in 1 .. MaxRounds :
               /\ k < round => future[<<s, k>>] = "ready"
               /\ k > round => future[<<s, k>>] = "none"
        BY <1>1 DEF FutureInv
      <4>2. \A s \in Ranks : future[<<s, round>>] = "ready"
        BY <1>5
      <4>3. \A k \in 1 .. MaxRounds : (k < round' => k < round \/ k = round) /\ (k > round' => k > round)
        BY <2>5, <2>11
      <4> QED
        BY <4>1, <4>2, <4>3, Zenon
    <3>2. \A t \in failed : future[t] = "ready"
      BY <1>1 DEF FutureInv
    <3>3. \A s \in Weave : future[<<s, round'>>] = "none"
      BY <2>10 DEF Ranks
    <3>4. \A q \in PhaseNames : \A i \in 1 .. Awaited(q)' : FALSE
      BY <2>8
    <3> QED
      BY <1>2, <2>1, <3>1, <3>2, <3>3, <3>4, Zenon DEF FutureInv
  <2>13. RankInv'
    <3>1. \A s \in Ranks : now[s] = round' - 1
      <4>1. \A s \in Ranks : now[s] = round
        BY <1>5
      <4> QED
        BY <2>11, <4>1
    <3>2. \A q \in PhaseNames : finished'[q] <=> \A j \in 1 .. Awaited(q)' : result[RanksIn(q)[j]]
      BY <2>1, <2>8
    <3> QED
      BY <1>1, <1>2, <1>6, <2>1, <2>6, <2>10, <3>1, <3>2 DEF RankInv
  <2> QED
    BY <2>9, <2>12, <2>13
<1> QED
  BY <1>7, <1>8

\* A thread runs its rank's scheduler only in the round the rank is at.
LEMMA RunsThisRound ==
    ASSUME RoundInv, NEW w \in Workers, Finish(w), NEW r, r = holding[w][1]
    PROVE  /\ r \in Ranks /\ holding[w] = <<r, round>> /\ future[<<r, round>>] = "pending"
           /\ <<r, round>> \notin failed
           /\ now[r] = round - 1
           /\ main \notin {"decide", "stopped"}
<1>1. holding[w] \in Tasks /\ future[holding[w]] = "pending"
  BY NoTaskAssumption
     DEF RoundInv, RoundsTypeOK, TypeOK, Finish, EachTaskInOnePlace, Held
<1>2. PICK k \in 1 .. MaxRounds : holding[w] = <<r, k>> /\ r \in Ranks
  BY <1>1, TasksAssumption
<1>3. k <= round /\ k >= round
  BY <1>1, <1>2, TasksAssumption DEF RoundInv, RoundsTypeOK, FutureInv
<1>4. k = round
  BY <1>2, <1>3, TasksAssumption DEF RoundInv, RoundsTypeOK
<1>5. holding[w] \notin failed
  BY <1>1 DEF RoundInv, FutureInv
<1> QED
  BY <1>1, <1>2, <1>4, <1>5, AllReady DEF RoundInv, RankInv

LEMMA RoundRun ==
    ASSUME RoundInv, NEW w \in Workers, RunInterval(w)
    PROVE  RoundsTypeOK' /\ FutureInv' /\ RankInv'
<1> DEFINE r0 == holding[w][1]
<1>1. RoundsTypeOK /\ FutureInv /\ RankInv
  BY DEF RoundInv
<1>2. UNCHANGED <<main, phase, position, finished, round, work, failed>>
  BY DEF RunInterval, roundVars
<1>3. /\ r0 \in Ranks /\ holding[w] = <<r0, round>> /\ future[<<r0, round>>] = "pending"
      /\ now[r0] = round - 1 /\ <<r0, round>> \notin failed
  BY RunsThisRound DEF RunInterval
<1>4. /\ future' = [future EXCEPT ![holding[w]] = "ready"]
      /\ now' = [now EXCEPT ![r0] = @ + 1]
      /\ result' = [result EXCEPT ![r0] = now[r0] + 1 >= work[r0]]
  BY DEF RunInterval, Finish
<1> HIDE DEF r0
<1>5. TypeOK'
  BY PoolKeeps DEF RoundsNext
<1>6. round \in 1 .. MaxRounds /\ MaxRounds \in Nat /\ work[r0] \in 0 .. MaxRounds
  BY <1>1, <1>3, TasksAssumption DEF RoundsTypeOK
<1>7. /\ now'[r0] = round
      /\ \A r \in Ranks : r # r0 => now'[r] = now[r]
  BY <1>1, <1>3, <1>4, <1>6 DEF RoundsTypeOK
<1>8. /\ result'[r0] <=> round >= work[r0]
      /\ \A r \in Ranks : r # r0 => result'[r] = result[r]
  <2>1. round - 1 + 1 = round
    BY <1>6
  <2> QED
    BY <1>1, <1>3, <1>4, <2>1, Zenon DEF RoundsTypeOK
<1>9. RoundsTypeOK'
  <2>1. now' \in [Ranks -> 0 .. MaxRounds]
    BY <1>1, <1>3, <1>4, <1>6 DEF RoundsTypeOK
  <2>2. result' \in [Ranks -> BOOLEAN]
    BY <1>1, <1>3, <1>4 DEF RoundsTypeOK
  <2> QED
    BY <1>1, <1>2, <1>5, <2>1, <2>2 DEF RoundsTypeOK, PhaseRanks
<1>10. \A r \in Ranks, k \in 1 .. MaxRounds :
          future'[<<r, k>>] = IF <<r, k>> = <<r0, round>> THEN "ready" ELSE future[<<r, k>>]
  BY <1>1, <1>3, <1>4, TasksAssumption DEF RoundsTypeOK, TypeOK
<1>11. \A p \in PhaseNames : Awaited(p)' = Awaited(p) /\ RanksIn(p)' = RanksIn(p)
  BY <1>2 DEF Awaited, RanksIn
<1>12. \A p \in PhaseNames : \A i \in 1 .. Awaited(p) :
          RanksIn(p)[i] \in Ranks /\ RanksIn(p)[i] # r0
  BY <1>1, <1>3, AwaitedBound, PositionRank, PhaseLengths DEF FutureInv
<1>r. \A t \in failed : future'[t] = "ready"
  <2>1. \A t \in failed : t \in Tasks /\ future[t] = "ready" /\ t # holding[w]
    BY <1>1, <1>3 DEF FutureInv, RoundsTypeOK
  <2>2. DOMAIN future = Tasks
    BY <1>1 DEF RoundsTypeOK, TypeOK
  <2> QED
    BY <1>4, <2>1, <2>2
<1>13. FutureInv'
  <2>1. \A r \in Ranks, k \in 1 .. MaxRounds :
           /\ k < round => future'[<<r, k>>] = "ready"
           /\ k > round => future'[<<r, k>>] = "none"
    <3>1. \A r \in Ranks, k \in 1 .. MaxRounds :
             /\ k < round => future[<<r, k>>] = "ready"
             /\ k > round => future[<<r, k>>] = "none"
      BY <1>1 DEF FutureInv
    <3>2. \A k \in 1 .. MaxRounds : k > round => k # round
      BY <1>6
    <3> QED
      BY <3>1, <3>2, <1>10, Zenon
  <2>2. \A p \in PhaseNames : \A i \in 1 .. Awaited(p) :
           future'[<<RanksIn(p)[i], round>>] = "ready" /\ <<RanksIn(p)[i], round>> \notin failed
    BY <1>1, <1>6, <1>10, <1>12 DEF FutureInv
  <2>3. \A r \in Weave : future'[<<r, round>>] # "none" => phase = "weave"
    BY <1>1, <1>3, <1>6, <1>10 DEF FutureInv, Ranks
  <2>4. /\ main \in {"decide", "stopped"} => phase = "weave" /\ position = 1
        /\ main = "failed" => failed # {}
    BY <1>1 DEF FutureInv
  <2> QED
    BY <1>2, <1>11, <1>r, <2>1, <2>2, <2>3, <2>4, Zenon DEF FutureInv
<1>14. \A r \in Ranks : now'[r] = IF future'[<<r, round>>] = "ready" /\ <<r, round>> \notin failed
                                 THEN round ELSE round - 1
  BY <1>1, <1>3, <1>6, <1>7, <1>10 DEF RankInv
<1>15. \A r \in Ranks : now'[r] > 0 => (result'[r] <=> now'[r] >= work[r])
  <2> SUFFICES ASSUME NEW r \in Ranks, now'[r] > 0
               PROVE  result'[r] <=> now'[r] >= work[r]
    OBVIOUS
  <2>1. CASE r = r0
    BY <1>7, <1>8, <2>1
  <2>2. CASE r # r0
    BY <1>1, <1>7, <1>8, <2>2 DEF RankInv
  <2> QED
    BY <2>1, <2>2
<1>16. \A p \in PhaseNames : finished[p] <=> \A i \in 1 .. Awaited(p) : result'[RanksIn(p)[i]]
  <2>1. \A p \in PhaseNames : finished[p] <=> \A i \in 1 .. Awaited(p) : result[RanksIn(p)[i]]
    BY <1>1 DEF RankInv
  <2>2. \A p \in PhaseNames : \A i \in 1 .. Awaited(p) :
           result'[RanksIn(p)[i]] = result[RanksIn(p)[i]]
    BY <1>8, <1>12
  <2> QED
    BY <2>1, <2>2, Zenon
<1>17. RankInv'
  BY <1>1, <1>2, <1>11, <1>14, <1>15, <1>16 DEF RankInv
<1> QED
  BY <1>9, <1>13, <1>17

\* A run that throws is over, and counts for nothing.
LEMMA RoundThrows ==
    ASSUME RoundInv, NEW w \in Workers, RunThrows(w)
    PROVE  RoundsTypeOK' /\ FutureInv' /\ RankInv'
<1> DEFINE r0 == holding[w][1]
<1>1. RoundsTypeOK /\ FutureInv /\ RankInv
  BY DEF RoundInv
<1>2. UNCHANGED <<main, phase, position, finished, round, now, work, result>>
  BY DEF RunThrows, roundVars
<1>3. /\ r0 \in Ranks /\ holding[w] = <<r0, round>> /\ future[<<r0, round>>] = "pending"
      /\ now[r0] = round - 1
  BY RunsThisRound DEF RunThrows
<1>4. /\ future' = [future EXCEPT ![<<r0, round>>] = "ready"]
      /\ failed' = failed \union {<<r0, round>>}
  BY <1>3 DEF RunThrows, Finish
<1> HIDE DEF r0
<1>5. TypeOK'
  BY PoolKeeps DEF RoundsNext
<1>6. round \in 1 .. MaxRounds /\ MaxRounds \in Nat
  BY <1>1, TasksAssumption DEF RoundsTypeOK
<1>7. RoundsTypeOK'
  <2>1. <<r0, round>> \in Tasks
    BY <1>3, <1>6, TasksAssumption
  <2> QED
    BY <1>1, <1>2, <1>4, <1>5, <2>1 DEF RoundsTypeOK, PhaseRanks
<1>8. \A r \in Ranks, k \in 1 .. MaxRounds :
          future'[<<r, k>>] = IF <<r, k>> = <<r0, round>> THEN "ready" ELSE future[<<r, k>>]
  BY <1>1, <1>3, <1>4, TasksAssumption DEF RoundsTypeOK, TypeOK
<1>9. \A p \in PhaseNames : Awaited(p)' = Awaited(p) /\ RanksIn(p)' = RanksIn(p)
  BY <1>2 DEF Awaited, RanksIn
<1>10. \A p \in PhaseNames : \A i \in 1 .. Awaited(p) :
          RanksIn(p)[i] \in Ranks /\ RanksIn(p)[i] # r0
  BY <1>1, <1>3, AwaitedBound, PositionRank, PhaseLengths DEF FutureInv
<1>11. \A t \in failed' : future'[t] = "ready"
  <2>1. \A t \in failed : t \in Tasks /\ future[t] = "ready"
    BY <1>1 DEF FutureInv, RoundsTypeOK
  <2>2. <<r0, round>> \in DOMAIN future /\ DOMAIN future = Tasks
    BY <1>1, <1>3, <1>6, TasksAssumption DEF RoundsTypeOK, TypeOK
  <2> QED
    BY <1>4, <2>1, <2>2
<1>12. FutureInv'
  <2>1. \A r \in Ranks, k \in 1 .. MaxRounds :
           /\ k < round => future'[<<r, k>>] = "ready"
           /\ k > round => future'[<<r, k>>] = "none"
    <3>1. \A r \in Ranks, k \in 1 .. MaxRounds :
             /\ k < round => future[<<r, k>>] = "ready"
             /\ k > round => future[<<r, k>>] = "none"
      BY <1>1 DEF FutureInv
    <3>2. \A k \in 1 .. MaxRounds : k > round => k # round
      BY <1>6
    <3> QED
      BY <3>1, <3>2, <1>8, Zenon
  <2>2. \A p \in PhaseNames : \A i \in 1 .. Awaited(p) :
           future'[<<RanksIn(p)[i], round>>] = "ready" /\ <<RanksIn(p)[i], round>> \notin failed'
    BY <1>1, <1>4, <1>6, <1>8, <1>10 DEF FutureInv
  <2>3. \A r \in Weave : future'[<<r, round>>] # "none" => phase = "weave"
    BY <1>1, <1>3, <1>6, <1>8 DEF FutureInv, Ranks
  <2>4. /\ main \in {"decide", "stopped"} => phase = "weave" /\ position = 1
        /\ failed' # {}
    BY <1>1, <1>4 DEF FutureInv
  <2> QED
    BY <1>2, <1>9, <1>11, <2>1, <2>2, <2>3, <2>4, Zenon DEF FutureInv
<1>13. RankInv'
  BY <1>1, <1>2, <1>3, <1>4, <1>6, <1>8, <1>9 DEF RankInv
<1> QED
  BY <1>7, <1>12, <1>13

\* What threads do besides leaves the rounds alone.
LEMMA RoundFrame ==
    ASSUME RoundInv, TypeOK', UNCHANGED <<roundVars, rankVars, future>>
    PROVE  RoundsTypeOK' /\ FutureInv' /\ RankInv'
<1>1. UNCHANGED <<main, phase, position, finished, round, now, work, result, failed, future>>
  BY DEF roundVars, rankVars
<1>2. \A p \in PhaseNames : Awaited(p)' = Awaited(p) /\ RanksIn(p)' = RanksIn(p)
  BY <1>1 DEF Awaited, RanksIn
<1> QED
  BY <1>1, <1>2 DEF RoundInv, RoundsTypeOK, PhaseRanks, FutureInv, RankInv

LEMMA RoundStep == RoundInv /\ [RoundsNext]_systemVars => RoundInv'
<1> SUFFICES ASSUME RoundInv, [RoundsNext]_systemVars PROVE RoundInv'
  OBVIOUS
<1>1. TypeOK' /\ EachTaskInOnePlace'
  BY PoolKeeps
<1>2. CASE MainStep
  BY <1>1, <1>2, RoundEnqueue, RoundAwait, RoundAwaitFailed, RoundMove, RoundDecide
     DEF MainStep, RoundInv
<1>3. ASSUME NEW w \in Workers, RunInterval(w)
      PROVE  RoundInv'
  BY <1>1, <1>3, RoundRun DEF RoundInv
<1>6. ASSUME NEW w \in Workers, RunThrows(w)
      PROVE  RoundInv'
  BY <1>1, <1>6, RoundThrows DEF RoundInv
<1>4. CASE Notify \/ \E w \in Workers : PoolStep(w) \/ Spurious(w)
  <2>1. UNCHANGED <<roundVars, rankVars, future>>
    BY <1>4 DEF Notify, NotifyOne, PoolStep, Sleep, Dequeue, Spurious, SpuriousWakeup
  <2> QED
    BY <1>1, <2>1, RoundFrame DEF RoundInv
<1>5. CASE UNCHANGED systemVars
  <2>1. UNCHANGED <<roundVars, rankVars, future>>
    BY <1>5 DEF systemVars, poolVars
  <2> QED
    BY <1>1, <2>1, RoundFrame DEF RoundInv
<1> QED
  BY <1>2, <1>3, <1>4, <1>5, <1>6 DEF RoundsNext

\* Every variable of the rounds keeps its shape: the main thread's loops stay within
\* the phase they run, and no round is started that no rank has events for.
THEOREM RoundsTypeCorrect == RoundsSpec => []RoundsTypeOK
<1>1. RoundInv => RoundsTypeOK
  BY DEF RoundInv
<1> QED
  BY <1>1, RoundStart, RoundStep, PTL DEF RoundsSpec

\* A rank's scheduler is run by one thread at a time, and by none while the main
\* thread decides or has stopped.
THEOREM OneRun == RoundsSpec => []OneRunPerScheduler
<1>1. ASSUME RoundInv PROVE OneRunPerScheduler
  <2>1. /\ round \in 1 .. MaxRounds
        /\ \A r \in Ranks, k \in 1 .. MaxRounds :
              /\ k < round => future[<<r, k>>] = "ready"
              /\ k > round => future[<<r, k>>] = "none"
    BY <1>1 DEF RoundInv, FutureInv, RoundsTypeOK
  <2>2. \A r \in Ranks, k \in 1 .. MaxRounds : future[<<r, k>>] = "pending" => k = round
    BY <2>1, TasksAssumption
  <2>3. main \in {"decide", "stopped"} =>
           \A r \in Ranks, k \in 1 .. MaxRounds : future[<<r, k>>] # "pending"
    BY <1>1, <2>2, AllReady
  <2> QED
    BY <2>2, <2>3, TasksAssumption DEF OneRunPerScheduler
<1> QED
  BY <1>1, RoundStart, RoundStep, PTL DEF RoundsSpec

------------------------------------------------------------------------------
(* The refinement *)

LEMMA LockStepStart == RoundsInit => Rounds!LockStepInit
<1> SUFFICES ASSUME RoundsInit PROVE Rounds!LockStepInit
  OBVIOUS
<1>1. main = "enqueue" /\ now = [r \in Ranks |-> 0]
  BY DEF RoundsInit
<1>2. work \in [Ranks -> Nat]
  BY TasksAssumption DEF RoundsInit
<1> QED
  BY <1>1, <1>2 DEF Rounds!LockStepInit, Ranks

\* The run of a scheduler advances its rank.
LEMMA RunAdvances ==
    ASSUME RoundInv, NEW w \in Workers, RunInterval(w)
    PROVE  Rounds!LockStepNext
<1> DEFINE r0 == holding[w][1]
<1>1. RoundsTypeOK /\ FutureInv /\ RankInv
  BY DEF RoundInv
<1>2. /\ r0 \in Ranks /\ future[<<r0, round>>] = "pending" /\ now[r0] = round - 1
      /\ main \notin {"decide", "stopped"}
  BY RunsThisRound DEF RunInterval
<1>3. now' = [now EXCEPT ![r0] = @ + 1] /\ work' = work /\ main' = main
  BY DEF RunInterval, roundVars
<1> HIDE DEF r0
<1>4. round \in Nat /\ \A r \in Ranks : now[r] \in Nat /\ work[r] \in Nat
  BY <1>1, TasksAssumption DEF RoundsTypeOK
<1>5. \A r \in Ranks : now[r] >= now[r0]
  <2>1. \A r \in Ranks : now[r] = round \/ now[r] = round - 1
    BY <1>1 DEF RankInv
  <2> QED
    BY <1>2, <1>4, <2>1
<1>6. now[r0] = 0 \/ \E r \in Ranks : work[r] > now[r0]
  <2>1. round = 1 \/ \E r \in Ranks : work[r] >= round
    BY <1>1 DEF RankInv
  <2> QED
    BY <1>2, <1>4, <2>1
<1>7. r0 \in Weave => \A r \in Bound : now[r] >= now[r0] + 1
  <2> SUFFICES ASSUME r0 \in Weave, NEW r \in Bound PROVE now[r] >= now[r0] + 1
    OBVIOUS
  <2>1. phase = "weave"
    BY <1>1, <1>2 DEF FutureInv
  <2>2. "bound" \in PhaseNames /\ Awaited("bound") = Len(RanksIn("bound")) /\ RanksIn("bound") = BoundRanks
    BY <2>1 DEF Awaited, PhaseNames, RanksIn
  <2>3. PICK i \in 1 .. Len(BoundRanks) : BoundRanks[i] = r
    BY RanksAssumption DEF Bound, Elements
  <2>4. future[<<r, round>>] = "ready" /\ <<r, round>> \notin failed
    BY <1>1, <2>2, <2>3 DEF FutureInv
  <2> QED
    BY <1>1, <1>2, <1>4, <2>4 DEF RankInv, Ranks
<1>8. Rounds!Advance(r0)
  <2>1. main # "stopped" /\ (main # "stopped") = (main' # "stopped")
    BY <1>2, <1>3
  <2> QED
    BY <1>3, <1>5, <1>6, <1>7, <2>1
       DEF Rounds!Advance, Rounds!Continues, Rounds!Reached, Ranks
<1> QED
  BY <1>2, <1>8 DEF Rounds!LockStepNext, Ranks

\* The main thread's decision to stop stops the simulation, for no rank has
\* anything left to do.
LEMMA DecisionStops ==
    ASSUME RoundInv, Decide, main' = "stopped"
    PROVE  Rounds!LockStepNext
<1>1. RoundsTypeOK /\ RankInv /\ main = "decide" /\ now' = now /\ work' = work
  BY DEF RoundInv, Decide, rankVars
<1>2. finished["bound"] /\ finished["weave"]
  BY DEF Decide
<1>3. round \in 1 .. MaxRounds /\ MaxRounds \in Nat /\ \A r \in Ranks : work[r] \in Nat
  BY <1>1, TasksAssumption DEF RoundsTypeOK
<1>4. \A r \in Ranks : now[r] = round
  BY <1>1, AllReady
<1>5. \A r \in Ranks : result[r]
  <2> SUFFICES ASSUME NEW r \in Ranks PROVE result[r]
    OBVIOUS
  <2>1. PICK p \in PhaseNames : \E i \in 1 .. Len(RanksIn(p)) : RanksIn(p)[i] = r
    BY RankPosition
  <2>2. finished[p] /\ Awaited(p) = Len(RanksIn(p))
    BY <1>1, <1>2 DEF PhaseNames, Awaited
  <2> QED
    BY <1>1, <2>1, <2>2 DEF RankInv
<1>6. \A r \in Ranks : now[r] >= work[r]
  <2> SUFFICES ASSUME NEW r \in Ranks PROVE now[r] >= work[r]
    OBVIOUS
  <2>1. now[r] > 0
    BY <1>3, <1>4
  <2> QED
    BY <1>1, <1>5, <2>1 DEF RankInv
<1>7. PICK r \in Ranks : TRUE
  BY RanksAssumption
<1>8. /\ now[r] > 0
      /\ ~(now[r] = 0 \/ \E s \in Ranks : work[s] > now[r])
      /\ \A s \in Ranks : now[s] >= now[r]
  BY <1>3, <1>4, <1>6
<1>9. Rounds!StopSimulation
  BY <1>1, <1>8
     DEF Rounds!StopSimulation, Rounds!Continues, Rounds!Reached, Ranks
<1> QED
  BY <1>9 DEF Rounds!LockStepNext

LEMMA LockStepStep ==
    RoundInv /\ [RoundsNext]_systemVars => [Rounds!LockStepNext]_(Rounds!lockStepVars)
<1> SUFFICES ASSUME RoundInv, [RoundsNext]_systemVars
             PROVE  [Rounds!LockStepNext]_(Rounds!lockStepVars)
  OBVIOUS
<1>1. ASSUME UNCHANGED <<now, work>>, main = "stopped" <=> main' = "stopped"
      PROVE  UNCHANGED Rounds!lockStepVars
  <2>1. (main = "stopped") = (main' = "stopped")
    BY <1>1
  <2> QED
    BY <1>1, <2>1 DEF Rounds!lockStepVars
<1>2. CASE EnqueueRank \/ BeginAwait \/ AwaitRank \/ EndPhase
  BY <1>1, <1>2 DEF EnqueueRank, BeginAwait, AwaitRank, EndPhase, rankVars
<1>3. CASE Decide
  <2>1. CASE main' = "stopped"
    BY <1>3, <2>1, DecisionStops
  <2>2. CASE main' # "stopped"
    BY <1>1, <1>3, <2>2 DEF Decide, rankVars
  <2> QED
    BY <2>1, <2>2
<1>4. ASSUME NEW w \in Workers, RunInterval(w)
      PROVE  Rounds!LockStepNext
  BY <1>4, RunAdvances
<1>5. CASE \/ Notify \/ UNCHANGED systemVars
           \/ \E w \in Workers : PoolStep(w) \/ RunThrows(w) \/ Spurious(w)
  <2>1. UNCHANGED <<now, work, main>>
    BY <1>5 DEF Notify, PoolStep, RunThrows, Spurious, systemVars, roundVars, rankVars
  <2> QED
    BY <1>1, <2>1
<1> QED
  BY <1>2, <1>3, <1>4, <1>5 DEF RoundsNext, MainStep

\* The rounds of the event handler over the pool implement lock-step phases: no rank
\* is more than an interval ahead of another, weave follows bound, and the simulation
\* stops at the end of the first round that leaves no rank anything to do.
THEOREM RoundsInLockStep == RoundsSpec => ImplementsLockStep
<1> QED
  BY LockStepStart, LockStepStep, RoundStart, RoundStep, PTL
     DEF RoundsSpec, ImplementsLockStep, Rounds!LockStepSpec

------------------------------------------------------------------------------
(* The pool in the rounds *)

\* The rounds use the pool as its module says: the theorems about it hold of theirs.
THEOREM RoundsUsePool == RoundsSpec => Spec
<1>1. RoundsInit => Init
  BY DEF RoundsInit
<1> QED
  BY <1>1, PoolNext, RoundsTypeCorrect, PTL DEF RoundsSpec, Spec

\* A thread for every rank of a phase, ranks that are listed once, and tasks that wait
\* for tasks of their phase and round: as many threads as the pool gets by default,
\* from maps of ranks, and what bound ranks do through the guest.
Fits == \A p \in PhaseNames : Len(RanksIn(p)) <= Cardinality(Workers)
Distinct == \A p \in PhaseNames : \A i, j \in 1 .. Len(RanksIn(p)) :
                RanksIn(p)[i] = RanksIn(p)[j] => i = j
WithinPhase == \A t \in Tasks : \A u \in Needs[t] :
                   u[2] = t[2] /\ (u[1] \in Bound <=> t[1] \in Bound)

\* How many ranks of its phase the main thread has enqueued in this round.
Enqueued == IF main = "enqueue" THEN position - 1 ELSE Len(RanksIn(phase))

\* These have been accepted and the others have not; nothing else is under way.
EnqueueInv ==
    /\ pool = "alive" /\ \A t \in Tasks : future[t] # "refused"
    /\ \A i \in 1 .. Len(RanksIn(phase)) : future[<<RanksIn(phase)[i], round>>] = "none" <=> i > Enqueued
    /\ Backlog <= Enqueued

\* Unless the simulation has stopped or a rank thrown, the main thread can enqueue the next rank, or
\* one it waits for has returned, or it decides, or somebody in the pool can move.
MainCanMove ==
    \/ main = "enqueue" /\ client[Main] = "outside" /\ (~LoopOver => future[Task] = "none" /\ ~stop)
    \/ main = "await" /\ (~LoopOver => future[Task] = "ready")
    \/ main = "decide"
RoundsMove == main # "stopped" /\ failed = {} => MainCanMove \/ CanMove

LEMMA Running ==
    /\ IsFiniteSet(In("running")) /\ Cardinality(In("running")) \in Nat
    /\ TypeOK => Len(taskQueue) \in Nat
<1>1. In("running") \subseteq Workers
  BY DEF In
<1>2. IsFiniteSet(In("running"))
  BY <1>1, WorkersAssumption, FS_Subset
<1> QED
  BY <1>2, FS_CardinalityType, LenProperties DEF TypeOK

\* A pushed task adds to the backlog, one that returns takes from it, and the other
\* steps of a pool that is alive keep it.
LEMMA BacklogMoves ==
    ASSUME TypeOK
    PROVE  /\ \A c \in Clients, t \in Tasks : Push(c, t) => Backlog' = Backlog + 1
           /\ \A w \in Workers : Finish(w) => Backlog' = Backlog - 1
           /\ \A w \in Workers : Sleep(w) \/ Dequeue(w) \/ SpuriousWakeup(w) => Backlog' = Backlog
           /\ \A c \in Clients : NotifyOne(c) => Backlog' = Backlog
<1>1. ASSUME NEW c \in Clients, NEW t \in Tasks, Push(c, t) PROVE Backlog' = Backlog + 1
  <2>1. In("running")' = In("running") /\ Len(taskQueue') = Len(taskQueue) + 1
    BY <1>1, AppendProperties DEF Push, In, TypeOK
  <2> QED
    BY <2>1, Running DEF Backlog
<1>2. ASSUME NEW w \in Workers, Finish(w) PROVE Backlog' = Backlog - 1
  <2>1. In("running")' = In("running") \ {w} /\ w \in In("running") /\ taskQueue' = taskQueue
    BY <1>2 DEF Finish, In, TypeOK
  <2>2. Cardinality(In("running")') = Cardinality(In("running")) - 1
    BY <2>1, Running, FS_RemoveElement
  <2> QED
    BY <2>1, <2>2, Running DEF Backlog
<1>3. ASSUME NEW w \in Workers, Dequeue(w) PROVE Backlog' = Backlog
  <2>1. In("running")' = In("running") \union {w} /\ w \notin In("running")
    BY <1>3 DEF Dequeue, In, TypeOK
  <2>2. Cardinality(In("running")') = Cardinality(In("running")) + 1
    BY <2>1, Running, FS_AddElement
  <2>3. Len(taskQueue') = Len(taskQueue) - 1
    BY <1>3, HeadTailProperties DEF Dequeue, TypeOK
  <2> QED
    BY <2>2, <2>3, Running DEF Backlog
<1>4. ASSUME NEW w \in Workers, Sleep(w) \/ SpuriousWakeup(w) PROVE Backlog' = Backlog
  <2>1. In("running")' = In("running") /\ taskQueue' = taskQueue
    BY <1>4 DEF Sleep, SpuriousWakeup, In, TypeOK
  <2> QED
    BY <2>1 DEF Backlog
<1>5. ASSUME NEW c \in Clients, NotifyOne(c) PROVE Backlog' = Backlog
  <2>1. In("running")' = In("running") /\ taskQueue' = taskQueue
    BY <1>5 DEF NotifyOne, In, TypeOK
  <2> QED
    BY <2>1 DEF Backlog
<1> QED
  BY <1>1, <1>2, <1>3, <1>4, <1>5

\* Without a pending task there is no backlog.
LEMMA NoBacklog ==
    ASSUME TypeOK, EachTaskInOnePlace, \A t \in Tasks : future[t] # "pending"
    PROVE  Backlog = 0
<1>1. \A t \in Tasks : ~Queued(t) /\ ~Held(t)
  BY DEF EachTaskInOnePlace
<1>2. Len(taskQueue) = 0
  <2>1. Len(taskQueue) \in Nat /\ \A i \in 1 .. Len(taskQueue) : taskQueue[i] \in Tasks
    BY LenProperties, ElementOfSeq DEF TypeOK
  <2>2. ~(1 \in 1 .. Len(taskQueue))
    BY <1>1, <2>1 DEF Queued
  <2> QED
    BY <2>1, <2>2
<1>3. In("running") = {}
  BY <1>1 DEF In, Held, TypeOK
<1>4. Cardinality(In("running")) = 0
  BY <1>3, FS_EmptySet
<1> QED
  BY <1>2, <1>4 DEF Backlog

\* The ranks of a phase have no pending task once the main thread has waited for all,
\* and those of the other phase none besides.
LEMMA NothingPending ==
    ASSUME RoundInv, \A i \in 1 .. Len(RanksIn(phase)) : future[<<RanksIn(phase)[i], round>>] \in {"none", "ready"}
    PROVE  \A t \in Tasks : future[t] # "pending"
<1> SUFFICES ASSUME NEW r \in Ranks, NEW k \in 1 .. MaxRounds, future[<<r, k>>] = "pending"
             PROVE  FALSE
  BY TasksAssumption
<1>1. k = round
  BY TasksAssumption DEF RoundInv, RoundsTypeOK, FutureInv
<1>2. PICK p \in PhaseNames : \E i \in 1 .. Len(RanksIn(p)) : RanksIn(p)[i] = r
  BY RankPosition
<1>3. PICK i \in 1 .. Len(RanksIn(p)) : RanksIn(p)[i] = r
  BY <1>2
<1>4. CASE p = phase
  BY <1>1, <1>3, <1>4
<1>5. CASE p = "bound" /\ phase = "weave"
  BY <1>1, <1>3, <1>5 DEF RoundInv, FutureInv, Awaited
<1>6. CASE p = "weave" /\ phase = "bound"
  <2>1. r \in Weave
    BY <1>3, <1>6, PositionRank
  <2> QED
    BY <1>1, <1>6, <2>1 DEF RoundInv, FutureInv
<1>7. phase \in PhaseNames
  BY PhaseRanksIn DEF RoundInv
<1> QED
  BY <1>4, <1>5, <1>6, <1>7 DEF PhaseNames

------------------------------------------------------------------------------
(* The main thread never waits in vain *)

\* Steps that neither enqueue a rank nor go on to another phase keep what has been
\* accepted.
LEMMA EnqueueFrame ==
    ASSUME EnqueueInv, UNCHANGED <<pool, phase, round>>, Enqueued' = Enqueued, Enqueued \in Nat,
           Backlog' \in Int, Backlog' <= Backlog, Backlog \in Int,
           \A t \in Tasks : (future'[t] = "none" <=> future[t] = "none") /\ future'[t] # "refused",
           \A i \in 1 .. Len(RanksIn(phase)) : <<RanksIn(phase)[i], round>> \in Tasks
    PROVE  EnqueueInv'
<1>1. RanksIn(phase)' = RanksIn(phase)
  BY DEF RanksIn
<1>2. \A i \in 1 .. Len(RanksIn(phase)) :
         future'[<<RanksIn(phase)[i], round>>] = "none" <=> i > Enqueued
  BY DEF EnqueueInv
<1>3. Backlog' <= Enqueued
  BY DEF EnqueueInv
<1> QED
  BY <1>1, <1>2, <1>3 DEF EnqueueInv

LEMMA EnqueueTypes ==
    ASSUME RoundsTypeOK
    PROVE  /\ Enqueued \in Nat /\ Backlog \in Nat /\ phase \in PhaseNames
           /\ Len(RanksIn(phase)) \in Nat /\ position \in 1 .. Len(RanksIn(phase)) + 1
           /\ \A i \in 1 .. Len(RanksIn(phase)) : <<RanksIn(phase)[i], round>> \in Tasks
<1>1. phase \in PhaseNames /\ Len(RanksIn(phase)) \in Nat /\ position \in 1 .. Len(RanksIn(phase)) + 1
  BY PhaseRanksIn, PhaseLengths DEF RoundsTypeOK
<1>2. Enqueued \in Nat
  BY <1>1 DEF Enqueued
<1>3. Backlog \in Nat
  BY Running DEF Backlog, RoundsTypeOK
<1>4. \A i \in 1 .. Len(RanksIn(phase)) : RanksIn(phase)[i] \in Ranks
  BY <1>1, PositionRank
<1> QED
  BY <1>1, <1>2, <1>3, <1>4, TasksAssumption DEF RoundsTypeOK

\* The next rank is accepted, and no other is the same.
LEMMA EnqueueNext ==
    ASSUME Distinct, RoundInv, EnqueueInv, EnqueueRank
    PROVE  EnqueueInv'
<1> DEFINE r0 == RanksIn(phase)[position]
<1>t. RoundsTypeOK /\ ~LoopOver
  BY DEF RoundInv, EnqueueRank
<1>1. /\ main = "enqueue" /\ position' = position + 1 /\ Push(Main, Task)
      /\ UNCHANGED <<main, phase, round, pool>>
  BY DEF EnqueueRank, Push
<1>2. /\ position \in 1 .. Len(RanksIn(phase)) /\ Task = <<r0, round>> /\ Task \in Tasks
      /\ phase \in PhaseNames
  BY <1>t, TaskIsTask, PhaseRanksIn
<1>3. future' = [future EXCEPT ![Task] = "pending"] /\ DOMAIN future = Tasks
  BY <1>1, <1>t DEF Push, RoundsTypeOK, TypeOK
<1>r. RanksIn(phase)' = RanksIn(phase)
  BY <1>1 DEF RanksIn
<1>4. Enqueued = position - 1
  BY <1>1 DEF Enqueued
<1>n. Enqueued' = position
  <2>1. Enqueued' = position' - 1
    BY <1>1 DEF Enqueued
  <2> QED
    BY <1>1, <1>2, <2>1
<1>5. Backlog' = Backlog + 1
  BY <1>t, <1>1, <1>2, BacklogMoves, MainAssumption DEF RoundsTypeOK
<1>6. ASSUME NEW i \in 1 .. Len(RanksIn(phase))
      PROVE  future'[<<RanksIn(phase)[i], round>>] = "none" <=> i > position
  <2>1. CASE i = position
    BY <1>2, <1>3, <2>1
  <2>2. CASE i # position
    <3>1. RanksIn(phase)[i] # r0
      BY <1>2, <2>2 DEF Distinct
    <3>2. <<RanksIn(phase)[i], round>> \in Tasks /\ <<RanksIn(phase)[i], round>> # Task
      BY <1>t, <1>2, <3>1, EnqueueTypes
    <3>3. future'[<<RanksIn(phase)[i], round>>] = future[<<RanksIn(phase)[i], round>>]
      BY <1>3, <3>2
    <3>4. future[<<RanksIn(phase)[i], round>>] = "none" <=> i > position - 1
      BY <1>4 DEF EnqueueInv
    <3>5. i > position - 1 <=> i > position
      BY <1>2, <2>2
    <3> QED
      BY <3>3, <3>4, <3>5
  <2> QED
    BY <2>1, <2>2
<1>7. Backlog' <= position
  BY <1>t, <1>2, <1>4, <1>5, EnqueueTypes DEF EnqueueInv
<1>8. pool' = "alive" /\ \A t \in Tasks : future'[t] # "refused"
  BY <1>1, <1>3 DEF EnqueueInv
<1> QED
  BY <1>1, <1>r, <1>n, <1>6, <1>7, <1>8 DEF EnqueueInv

\* A phase begins, after another, with nothing accepted and nothing under way.
LEMMA EnqueueAfresh ==
    ASSUME RoundsTypeOK, RoundsTypeOK', EachTaskInOnePlace, EnqueueInv, UNCHANGED poolVars,
           \A t \in Tasks : future[t] # "pending",
           main' = "enqueue", position' = 1,
           \A i \in 1 .. Len(RanksIn(phase)') : future[<<RanksIn(phase)[i]', round'>>] = "none"
    PROVE  EnqueueInv'
<1>1. Enqueued' = 0
  BY DEF Enqueued
<1>2. Backlog = 0 /\ Backlog' = Backlog
  BY NoBacklog DEF RoundsTypeOK, Backlog, In, poolVars
<1>3. Len(RanksIn(phase)') \in Nat
  BY PhaseLengths DEF RoundsTypeOK, PhaseNames, RanksIn
<1>4. \A i \in 1 .. Len(RanksIn(phase)') : i > 0
  BY <1>3
<1> QED
  BY <1>1, <1>2, <1>4 DEF EnqueueInv, poolVars

LEMMA EnqueueStep ==
    ASSUME Distinct, RoundInv, EnqueueInv, [RoundsNext]_systemVars
    PROVE  EnqueueInv'
<1>t. RoundsTypeOK /\ EachTaskInOnePlace /\ FutureInv
  BY DEF RoundInv
<1>n. RoundInv' /\ RoundsTypeOK'
  BY RoundStep DEF RoundInv
<1>e. /\ Enqueued \in Nat /\ Backlog \in Nat /\ phase \in PhaseNames
      /\ Len(RanksIn(phase)) \in Nat /\ position \in 1 .. Len(RanksIn(phase)) + 1
      /\ \A i \in 1 .. Len(RanksIn(phase)) : <<RanksIn(phase)[i], round>> \in Tasks
  BY <1>t, EnqueueTypes
\* The pool is left alone and so is what has been accepted ...
<1>1. ASSUME UNCHANGED <<poolVars, phase, round>>, Enqueued' = Enqueued PROVE EnqueueInv'
  <2>1. UNCHANGED <<pool, phase, round, future>>
    BY <1>1 DEF poolVars
  <2>2. Backlog' = Backlog
    BY <1>1 DEF poolVars, Backlog, In
  <2>3. \A t \in Tasks : (future'[t] = "none" <=> future[t] = "none") /\ future'[t] # "refused"
    BY <2>1 DEF EnqueueInv
  <2> QED
    BY <1>1, <1>e, <2>1, <2>2, <2>3, EnqueueFrame
<1>2. CASE BeginAwait \/ AwaitRank \/ UNCHANGED systemVars
  <2>1. UNCHANGED <<poolVars, phase, round>>
    BY <1>2 DEF BeginAwait, AwaitRank, systemVars, roundVars
  <2>2. CASE BeginAwait
    <3>1. main = "enqueue" /\ main' = "await" /\ position > Len(RanksIn(phase))
      BY <1>t, <2>2, PhaseRanksIn DEF BeginAwait, LoopOver
    <3>2. position - 1 = Len(RanksIn(phase))
      BY <1>e, <3>1
    <3> QED
      BY <1>1, <2>1, <3>1, <3>2 DEF Enqueued, RanksIn
  <2>3. CASE AwaitRank \/ UNCHANGED systemVars
    <3>1. /\ main = "enqueue" <=> main' = "enqueue"
          /\ main = "enqueue" => position' = position
      BY <2>3 DEF AwaitRank, systemVars, roundVars
    <3> QED
      BY <1>1, <2>1, <3>1 DEF Enqueued, RanksIn
  <2> QED
    BY <1>2, <2>2, <2>3
\* ... or a thread takes a step in it, which accepts nothing.
<1>3. ASSUME NEW w \in Workers, RunInterval(w) \/ RunThrows(w) PROVE EnqueueInv'
  <2>1. Finish(w) /\ UNCHANGED <<main, phase, position, round>>
    BY <1>3 DEF RunInterval, RunThrows, roundVars
  <2>2. Enqueued' = Enqueued /\ pool' = pool
    BY <2>1 DEF Enqueued, RanksIn, Finish
  <2>3. Backlog' = Backlog - 1
    BY <1>t, <2>1, BacklogMoves DEF RoundsTypeOK
  <2>4. future' = [future EXCEPT ![holding[w]] = "ready"] /\ future[holding[w]] = "pending"
    BY <2>1, RunsThisRound DEF Finish
  <2>5. \A t \in Tasks : (future'[t] = "none" <=> future[t] = "none") /\ future'[t] # "refused"
    BY <1>t, <2>4 DEF EnqueueInv, RoundsTypeOK, TypeOK
  <2>6. Backlog' \in Int /\ Backlog' <= Backlog /\ Backlog \in Int
    BY <1>e, <2>3
  <2> QED
    BY <1>e, <2>1, <2>2, <2>5, <2>6, EnqueueFrame
<1>4. ASSUME Notify \/ \E w \in Workers : PoolStep(w) \/ Spurious(w) PROVE EnqueueInv'
  <2>1. UNCHANGED <<main, phase, position, round, pool, future>>
    BY <1>4 DEF Notify, NotifyOne, PoolStep, Sleep, Dequeue, Spurious, SpuriousWakeup, roundVars
  <2>2. Enqueued' = Enqueued
    BY <2>1 DEF Enqueued, RanksIn
  <2>3. Backlog' = Backlog
    BY <1>4, <1>t, BacklogMoves, MainAssumption DEF Notify, PoolStep, Spurious, RoundsTypeOK
  <2>4. \A t \in Tasks : (future'[t] = "none" <=> future[t] = "none") /\ future'[t] # "refused"
    BY <2>1 DEF EnqueueInv
  <2> QED
    BY <1>e, <2>1, <2>2, <2>3, <2>4, EnqueueFrame
<1>5. CASE EndPhase
  <2>1. /\ main = "await" /\ position' = 1 /\ UNCHANGED <<poolVars, round>>
        /\ \/ phase = "bound" /\ phase' = "weave" /\ main' = "enqueue"
           \/ phase' = phase /\ main' = "decide"
    BY <1>5 DEF EndPhase
  <2>2. CASE phase' = phase /\ main' = "decide"
    BY <1>1, <2>1, <2>2 DEF Enqueued, RanksIn
  <2>3. CASE phase = "bound" /\ phase' = "weave" /\ main' = "enqueue"
    <3>1. position > Len(RanksIn(phase))
      BY <1>t, <1>5, PhaseRanksIn DEF EndPhase, LoopOver
    <3>2. Awaited(phase) = Len(RanksIn(phase))
      BY <1>e, <2>1, <2>3, <3>1 DEF Awaited
    <3>3. \A i \in 1 .. Len(RanksIn(phase)) : future[<<RanksIn(phase)[i], round>>] = "ready"
      BY <1>t, <1>e, <3>2 DEF FutureInv
    <3>4. \A t \in Tasks : future[t] # "pending"
      BY <3>3, NothingPending
    <3>5. ASSUME NEW i \in 1 .. Len(RanksIn(phase)')
          PROVE  future[<<RanksIn(phase)[i]', round'>>] = "none"
      <4>1. RanksIn(phase)[i]' \in Weave /\ round' = round
        BY <2>1, <2>3, RanksAssumption DEF RanksIn
      <4> QED
        BY <1>t, <2>3, <4>1 DEF FutureInv
    <3> QED
      BY <1>t, <1>n, <2>1, <2>3, <3>4, <3>5, EnqueueAfresh
  <2> QED
    BY <2>1, <2>2, <2>3
<1>6. CASE Decide
  <2>1. main = "decide" /\ position = 1 /\ UNCHANGED <<poolVars, position>>
    BY <1>t, <1>6 DEF Decide, FutureInv
  <2>2. CASE main' = "stopped" /\ UNCHANGED <<phase, round>>
    BY <1>1, <2>1, <2>2 DEF Enqueued, RanksIn
  <2>3. CASE main' = "enqueue" /\ phase' = "bound" /\ round' = round + 1
    <3>1. \A t \in Tasks : future[t] # "pending"
      BY <1>e, <2>1, AllReady, PositionRank, NothingPending
    <3>2. \A i \in 1 .. Len(RanksIn(phase)') : RanksIn(phase)[i]' \in Ranks
      BY <2>3, RanksAssumption DEF RanksIn, Ranks
    <3>3. round \in 1 .. MaxRounds /\ round' \in 1 .. MaxRounds /\ round' > round
      BY <1>t, <1>n, <2>3, TasksAssumption DEF RoundsTypeOK
    <3>4. \A i \in 1 .. Len(RanksIn(phase)') : future[<<RanksIn(phase)[i]', round'>>] = "none"
      BY <1>t, <3>2, <3>3 DEF FutureInv
    <3> QED
      BY <1>t, <1>n, <2>1, <2>3, <3>1, <3>4, EnqueueAfresh
  <2> QED
    BY <1>6, <2>2, <2>3 DEF Decide
<1> QED
  BY <1>2, <1>3, <1>4, <1>5, <1>6, EnqueueNext DEF RoundsNext, MainStep

\* While the main thread waits, the tasks under way are those of its phase, and what
\* they wait for has been accepted with them.
LEMMA PhaseServed ==
    ASSUME WithinPhase, RoundInv, EnqueueInv, main = "await"
    PROVE  AllServed
<1>t. RoundsTypeOK /\ FutureInv /\ phase \in PhaseNames
  BY PhaseRanksIn DEF RoundInv
<1> SUFFICES ASSUME NEW t \in Tasks, future[t] = "pending", NEW u \in Needs[t]
             PROVE  future[u] \in {"pending", "ready"}
  BY DEF AllServed, Served
<1>1. PICK r \in Ranks, k \in 1 .. MaxRounds : t = <<r, k>>
  BY TasksAssumption
<1>2. PICK q \in Ranks, n \in 1 .. MaxRounds : u = <<q, n>>
  BY NeedsAssumption, TasksAssumption
<1>3. n = k /\ (q \in Bound <=> r \in Bound)
  BY <1>1, <1>2 DEF WithinPhase
<1>4. k = round
  BY <1>t, <1>1, TasksAssumption DEF RoundsTypeOK, FutureInv
<1>5. r \in Bound <=> phase = "bound"
  <2>1. CASE phase = "bound"
    BY <1>t, <1>1, <1>4, <2>1 DEF FutureInv, Ranks
  <2>2. CASE phase = "weave"
    <3>1. Awaited("bound") = Len(RanksIn("bound")) /\ "bound" \in PhaseNames
      BY <2>2 DEF Awaited, PhaseNames
    <3>2. \A i \in 1 .. Len(BoundRanks) : future[<<BoundRanks[i], round>>] = "ready"
      BY <1>t, <3>1 DEF FutureInv, RanksIn
    <3>3. r \notin Bound
      BY <1>1, <1>4, <3>2, RanksAssumption DEF Bound, Elements
    <3> QED
      BY <2>2, <3>3
  <2> QED
    BY <1>t, <2>1, <2>2 DEF PhaseNames
<1>6. PICK p \in PhaseNames : \E i \in 1 .. Len(RanksIn(p)) : RanksIn(p)[i] = q
  BY RankPosition
<1>7. PICK i \in 1 .. Len(RanksIn(p)) : RanksIn(p)[i] = q
  BY <1>6
<1>8. p = "bound" <=> q \in Bound
  BY <1>7, PositionRank, RanksAssumption DEF PhaseNames
<1>9. p = phase
  BY <1>t, <1>3, <1>5, <1>8 DEF PhaseNames
<1>10. ~(i > Enqueued)
  BY <1>7, <1>9, PhaseLengths DEF Enqueued
<1>11. future[u] # "none"
  BY <1>2, <1>3, <1>4, <1>7, <1>9, <1>10 DEF EnqueueInv
<1>12. u \in Tasks /\ future[u] # "refused"
  BY <1>2, TasksAssumption DEF EnqueueInv
<1> QED
  BY <1>t, <1>11, <1>12 DEF RoundsTypeOK, TypeOK

LEMMA MainMoves ==
    ASSUME Fits, WithinPhase, RoundInv, EnqueueInv, NoLostWakeup, ExitInv
    PROVE  RoundsMove
<1> SUFFICES ASSUME main # "stopped", failed = {}, ~CanMove PROVE MainCanMove
  BY DEF RoundsMove
<1>t. RoundsTypeOK /\ TypeOK /\ EachTaskInOnePlace
  BY DEF RoundInv, RoundsTypeOK
<1>e. /\ Enqueued \in Nat /\ Backlog \in Nat /\ phase \in PhaseNames
      /\ Len(RanksIn(phase)) \in Nat /\ position \in 1 .. Len(RanksIn(phase)) + 1
  BY <1>t, EnqueueTypes
<1>1. client[Main] = "outside"
  BY <1>t, MainAssumption DEF CanMove, TypeOK
<1>2. CASE main = "enqueue"
  <2>1. ASSUME ~LoopOver PROVE future[Task] = "none" /\ ~stop
    <3>1. position \in 1 .. Len(RanksIn(phase)) /\ Task = <<RanksIn(phase)[position], round>>
      BY <1>t, <2>1, TaskIsTask
    <3>2. position > Enqueued
      BY <1>2, <3>1 DEF Enqueued
    <3> QED
      BY <3>1, <3>2 DEF EnqueueInv, stop
  <2> QED
    BY <1>1, <1>2, <2>1 DEF MainCanMove
<1>3. CASE main = "await"
  <2>1. ASSUME ~LoopOver, future[Task] # "ready" PROVE FALSE
    <3>1. /\ position \in 1 .. Len(RanksIn(phase)) /\ Task = <<RanksIn(phase)[position], round>>
          /\ Task \in Tasks
      BY <1>t, <2>1, TaskIsTask
    <3>2. ~(position > Enqueued)
      BY <1>3, <1>e, <3>1 DEF Enqueued
    <3>3. future[Task] # "none" /\ future[Task] # "refused"
      BY <3>1, <3>2 DEF EnqueueInv
    <3>4. future[Task] = "pending"
      BY <1>t, <2>1, <3>1, <3>3 DEF TypeOK
    <3>5. Backlog <= Cardinality(Workers)
      <4>1. Backlog <= Len(RanksIn(phase))
        BY <1>3 DEF EnqueueInv, Enqueued
      <4>2. Len(RanksIn(phase)) <= Cardinality(Workers) /\ Cardinality(Workers) \in Nat
        BY <1>e, WorkersAssumption, FS_CardinalityType DEF Fits
      <4> QED
        BY <1>e, <4>1, <4>2
    <3>6. PoolMoves
      BY <1>t, Moves
    <3> QED
      BY <1>3, <3>1, <3>4, <3>5, <3>6, PhaseServed DEF PoolMoves
  <2> QED
    BY <1>3, <2>1 DEF MainCanMove
<1>4. CASE main = "decide"
  BY <1>4 DEF MainCanMove
<1>5. main # "failed"
  BY DEF RoundInv, FutureInv
<1> QED
  BY <1>t, <1>2, <1>3, <1>4, <1>5 DEF RoundsTypeOK

\* With a thread for every rank of a phase the rounds never come to a standstill,
\* however the tasks of a phase wait for one another, notifications and wake-ups
\* interleave: until the simulation stops or a rank throws there is a step that the main
\* thread or the pool can take.
THEOREM NoStandstill ==
    ASSUME Fits, Distinct, WithinPhase
    PROVE  RoundsSpec => []RoundsMove
<1>1. RoundsInit => EnqueueInv /\ NoLostWakeup /\ ExitInv
  <2> SUFFICES ASSUME RoundsInit PROVE EnqueueInv /\ NoLostWakeup /\ ExitInv
    OBVIOUS
  <2>1. NoLostWakeup /\ ExitInv /\ pool = "alive" /\ \A t \in Tasks : future[t] = "none"
    BY DEF RoundsInit, Init, NoLostWakeup, ExitInv, In
  <2>2. RoundInv
    BY RoundStart
  <2>3. Enqueued = 0 /\ Backlog = 0
    BY <2>1, <2>2, NoBacklog DEF RoundInv, RoundsTypeOK, Enqueued, RoundsInit
  <2>4. ASSUME NEW i \in 1 .. Len(RanksIn(phase))
        PROVE  future[<<RanksIn(phase)[i], round>>] = "none" /\ i > 0
    BY <2>1, <2>2, EnqueueTypes DEF RoundInv
  <2> QED
    BY <2>1, <2>3, <2>4 DEF EnqueueInv
<1>2. RoundInv /\ EnqueueInv /\ [RoundsNext]_systemVars => EnqueueInv'
  BY EnqueueStep
<1>3. RoundInv /\ NoLostWakeup /\ ExitInv /\ [RoundsNext]_systemVars => NoLostWakeup' /\ ExitInv'
  BY PoolNext, WakeupStep, ExitStep DEF RoundInv, RoundsTypeOK
<1>4. RoundInv /\ EnqueueInv /\ NoLostWakeup /\ ExitInv => RoundsMove
  BY MainMoves
<1> QED
  BY <1>1, <1>2, <1>3, <1>4, RoundStart, RoundStep, PTL DEF RoundsSpec

=============================================================================
