----------------------------- MODULE MCThreadPool -----------------------------
(* An instance of the thread pool for TLC.                                     *)
EXTENDS ThreadPool, TLC

CONSTANTS w1, w2, w3, c1, c2, t1, t2, t3, t4

MCWorkers == {w1, w2, w3}
MCClients == {c1, c2}
MCTasks == {t1, t2, t3, t4}

\* Three tasks wait for one another, as ranks do through the emulated program:
\* none returns before all run. The fourth waits for nobody.
MCNeeds == [t \in MCTasks |-> IF t = t1 THEN {} ELSE {t2, t3, t4}]

=============================================================================
