----------------------------- MODULE MCBoundWeave -----------------------------
(* Two ranks in each phase, each with events for up to two intervals, on the   *)
(* number of threads finalize() takes by default.                              *)
EXTENDS BoundWeave, TLC

CONSTANTS w1, w2, b1, b2, v1, v2

MCWorkers == {w1, w2}
MCBoundRanks == <<b1, b2>>
MCWeaveRanks == <<v1, v2>>
MCClients == {Main}
MCRounds == 2
MCTasks == {b1, b2, v1, v2} \X (1 .. MCRounds)

\* The tasks of a phase wait for one another, as bound ranks do through the guest.
SamePhase(t) == IF t[1] \in {b1, b2} THEN {b1, b2} ELSE {v1, v2}
MCNeeds == [t \in MCTasks |-> {u \in MCTasks : u[1] \in SamePhase(t) /\ u[2] = t[2]}]

=============================================================================
