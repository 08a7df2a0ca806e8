---------------------------- MODULE MCHartPipeline ----------------------------
(* Instances of the pipeline for TLC. Hart 0 boots the process, hart 1 is     *)
(* there for a second thread. Addresses count half-words: a compressed         *)
(* instruction has length 1, every other and every system call length 2, and   *)
(* the default fetch width of four bytes is 2.                                 *)
EXTENDS HartPipeline

MCHarts == {0, 1}
MCPayload == EventData

Apart == [h \in MCHarts |-> h]
Together == [h \in MCHarts |-> 0]

Short(pc) == [pc |-> pc, len |-> 1, call |-> "none",
              spawn |-> [h \in MCHarts |-> 0], join |-> {}]
Long(pc) == [Short(pc) EXCEPT !.len = 2]
Ecall(pc) == [Long(pc) EXCEPT !.call = "sys"]
Exit(pc) == [Long(pc) EXCEPT !.call = "exit"]
Clone(pc, thread) == [Ecall(pc) EXCEPT !.spawn[1] = thread]
Join(pc) == [Ecall(pc) EXCEPT !.join = {1}]

\* Boot hart and second hart, each with the threads it may run.
Program(boot, second) == [h \in MCHarts |-> IF h = 0 THEN boot ELSE second]

\* The second thread loops over two compressed instructions, publishes more than
\* the channel holds, and is waited for.
LoopingThread == Program(
    << <<Long(0), Clone(2, 1), Short(4), Join(5), Exit(7)>> >>,
    << <<Long(10), Short(12), Short(13), Short(12), Short(13), Ecall(14), Exit(16)>> >>)

\* All the second thread publishes fits the queue.
ShortThread == Program(
    << <<Long(0), Clone(2, 1), Join(4), Exit(6)>> >>,
    << <<Long(10), Exit(12)>> >>)

\* A second thread after the first takes its vcpu over.
ReusedVcpu == Program(
    << <<Long(0), Clone(2, 1), Join(4), Clone(6, 2), Join(8), Exit(10)>> >>,
    << <<Long(20), Exit(22)>>, <<Long(30), Exit(32)>> >>)

\* The process ends while the second thread is on its way.
NoJoin == Program(
    << <<Long(0), Clone(2, 1), Exit(4)>> >>,
    << <<Long(10), Ecall(12), Exit(14)>> >>)

\* The second thread reaches a system call within the first fetch.
EarlySyscall == Program(
    << <<Long(0), Clone(2, 1), Join(4), Exit(6)>> >>,
    << <<Short(10), Ecall(11), Exit(13)>> >>)

\* The very first event is a system call.
ImmediateSyscall == Program(<< <<Ecall(0), Exit(2)>> >>, <<>>)

MCPrograms == {LoopingThread, ShortThread, ReusedVcpu, NoJoin, ImmediateSyscall}
ASSUME SteadyAssumption == \A p \in MCPrograms : Steady(p)
JoinedPrograms == {LoopingThread, ShortThread}
ASSUME JoinedAssumption == \A p \in JoinedPrograms : Joined(p) /\ SpawnedOnce(p) /\ ExitsApart(p)
RacingPrograms == {ShortThread}
EarlySyscallPrograms == {EarlySyscall}

=============================================================================
