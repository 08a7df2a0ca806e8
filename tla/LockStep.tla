------------------------------- MODULE LockStep -------------------------------
(***************************************************************************)
(* What a bound-weave simulation promises: the ranks advance in rounds of  *)
(* one interval, in each round first those of the bound phase, in any      *)
(* order, then those of the weave phase, and the simulation stops at the   *)
(* end of the first round after which no rank has anything left to do.     *)
(*                                                                         *)
(* BoundWeave shows that AbstractSystem's event handler and the thread     *)
(* pool implement this.                                                    *)
(***************************************************************************)
EXTENDS Integers

CONSTANTS Bound, \* the ranks of the bound phase
          Weave  \* the ranks of the weave phase

VARIABLES now,    \* now[r]: how many intervals rank r has simulated
          work,   \* work[r]: how many intervals rank r has events for
          stopped \* has the simulation stopped?

lockStepVars == <<now, work, stopped>>

LockStepInit == /\ now = [r \in Bound \union Weave |-> 0]
                /\ work \in [Bound \union Weave -> Nat]
                /\ stopped = FALSE

\* All of the ranks in set have simulated n intervals or more.
Reached(set, n) == \A r \in set : now[r] >= n

\* The round after n intervals takes place: it is the first, or somebody has
\* work left.
Continues(n) == n = 0 \/ \E r \in Bound \union Weave : work[r] > n

Advance(r) == /\ ~stopped
              /\ Continues(now[r])
              /\ Reached(Bound \union Weave, now[r])
              /\ r \in Weave => Reached(Bound, now[r] + 1)
              /\ now' = [now EXCEPT ![r] = @ + 1]
              /\ UNCHANGED <<work, stopped>>

StopSimulation == /\ ~stopped
                  /\ \E n \in {now[r] : r \in Bound \union Weave} :
                        n > 0 /\ ~Continues(n) /\ Reached(Bound \union Weave, n)
                  /\ stopped' = TRUE
                  /\ UNCHANGED <<now, work>>

LockStepNext == StopSimulation \/ \E r \in Bound \union Weave : Advance(r)

LockStepSpec == LockStepInit /\ [][LockStepNext]_lockStepVars

=============================================================================
