------------------------------ MODULE SystemBoot ------------------------------
(***************************************************************************)
(* How a system gives its harts to guest processes and starts a QEMU for   *)
(* each (QemuSystem.hpp, AbstractSystem.cpp), and how the simulator ends:  *)
(* at the script's end, by SIGINT at any moment, or by an assertion.       *)
(*                                                                         *)
(* The main thread is one process here, its SIGINT handler included, which *)
(* the kernel runs on that thread; the guests and the simulation of their  *)
(* harts are others. Processes are numbered from 1, pid being one less.    *)
(***************************************************************************)
EXTENDS Integers, Sequences

CONSTANTS CPUs,         \* AbstractSystem::m_cpus.size()
          Word,         \* 2^16, the number of values of a HartID_t
          MaxProcesses, \* bound on the processes of a system (BootNext only)
          Requests,     \* values of Process::max_harts
          PipeSize,     \* what fits into the pipe of a QEMU's standard output
          Outputs       \* how much a guest may write

\* Hart numbers are HartID_t, registerCPU counts CPUs in 32 bits.
ASSUME CPUAssumption == Word \in Nat /\ CPUs \in 0 .. Word - 1
ASSUME RequestAssumption == Requests \subseteq Nat \ {0}
ASSUME OutputAssumption == Outputs \subseteq Nat /\ PipeSize \in Nat

VARIABLES
    main,      \* the main thread: script, boot, assign, run, cleanUp, exited,
               \* aborted (std::terminate in systemCleanUp), refused (assertion)
    finalized, \* AbstractSystem::m_finalized
    processes, \* m_processes: the max_harts of each
    bootHart,  \* boot_hart of those that bootSystem has come to
    hartUsed,  \* local of bootSystem
    offset,    \* hart_offset of the loop in newQemuProcess
    owner,     \* AbstractCPU::m_process of each hart, 0 for none
    qemu,      \* m_qemu_subprocesses: running, exiting, gone
    output,    \* of each guest: what it has yet to write, what is in the pipe
    completed, \* Process::is_completed
    cleaned,   \* how many processes the loop of cleanUp has passed
    signum     \* argument of systemCleanUp

bootVars == <<main, finalized, processes, bootHart, hartUsed, offset, owner, qemu,
              output, completed, cleaned, signum>>
allocVars == <<bootHart, hartUsed, offset, owner>>
guestVars == <<output, completed>>
endVars == <<cleaned, signum>>

Harts == 0 .. CPUs - 1
HartRange(p) == bootHart[p] .. bootHart[p] + processes[p] - 1

BootInit ==
    /\ main = "script" /\ finalized = FALSE
    /\ processes = <<>> /\ bootHart = <<>> /\ qemu = <<>>
    /\ hartUsed = 0 /\ offset = 0
    /\ owner = [h \in Harts |-> 0]
    /\ output = <<>> /\ completed = <<>>
    /\ cleaned = 0 /\ signum = 0

------------------------------------------------------------------------------
(* The script and the boot *)

\* n is the process's max_harts, w what its guest is going to write.
NewProcess(n, w) ==
    /\ main = "script"
    /\ processes' = Append(processes, n)
    /\ output' = Append(output, [left |-> w, piped |-> 0])
    /\ completed' = Append(completed, FALSE)
    /\ UNCHANGED <<main, finalized, allocVars, qemu, endVars>>

\* The first run finalizes the system, which boots it.
Run ==
    /\ main = "script"
    /\ main' = IF finalized THEN "run" ELSE "boot"
    /\ UNCHANGED <<finalized, processes, allocVars, qemu, guestVars, endVars>>

\* Mutant of Allocate: the next process starts where this one does.
AllocateInPlace ==
    LET p == Len(bootHart) + 1
    IN /\ main = "boot" /\ p <= Len(processes)
       /\ bootHart' = Append(bootHart, hartUsed)
       /\ IF processes[p] <= CPUs
          THEN main' = "assign" /\ qemu' = Append(qemu, "running")
          ELSE main' = "refused" /\ UNCHANGED qemu
       /\ offset' = 0
       /\ UNCHANGED <<finalized, processes, hartUsed, owner, guestVars, endVars>>

\* One round of bootSystem's loop: the next process gets the harts after those in
\* use, counted in a word, and its QEMU is started when they are not too many.
Allocate ==
    LET p == Len(bootHart) + 1
        used == (hartUsed + processes[p]) % Word
    IN /\ main = "boot" /\ p <= Len(processes)
       /\ bootHart' = Append(bootHart, hartUsed)
       /\ hartUsed' = used
       /\ IF used <= CPUs
          THEN main' = "assign" /\ qemu' = Append(qemu, "running")
          ELSE main' = "refused" /\ UNCHANGED qemu
       /\ offset' = 0
       /\ UNCHANGED <<finalized, processes, owner, guestVars, endVars>>

\* Mutant of SetProcess: a pid taken for the number of a process.
SetProcessAfter(hart, p) ==
    IF hart < CPUs
    THEN /\ owner' = [owner EXCEPT ![hart] = p + 1]
         /\ offset' = (offset + 1) % Word
         /\ UNCHANGED main
    ELSE main' = "refused" /\ UNCHANGED <<owner, offset>>

\* getCPUPtr(hart)->setProcess of process p, and on to the next hart; there is an
\* assertion that there is such a CPU.
SetProcess(hart, p) ==
    IF hart < CPUs
    THEN /\ owner' = [owner EXCEPT ![hart] = p]
         /\ offset' = (offset + 1) % Word
         /\ UNCHANGED main
    ELSE main' = "refused" /\ UNCHANGED <<owner, offset>>

\* Mutant of AssignHart: the boot hart is passed over.
AssignAfterBootHart ==
    LET p == Len(qemu)
    IN /\ main = "assign" /\ offset < processes[p]
       /\ IF offset = 0 THEN offset' = 1 /\ UNCHANGED <<main, owner>>
          ELSE SetProcess((bootHart[p] + offset) % Word, p)
       /\ UNCHANGED <<finalized, processes, bootHart, hartUsed, qemu, guestVars, endVars>>

\* One round of the loop that tells the CPUs their process.
AssignHart ==
    LET p == Len(qemu)
    IN /\ main = "assign" /\ offset < processes[p]
       /\ SetProcess((bootHart[p] + offset) % Word, p)
       /\ UNCHANGED <<finalized, processes, bootHart, hartUsed, qemu, guestVars, endVars>>

Assigned ==
    /\ main = "assign" /\ offset >= processes[Len(qemu)]
    /\ main' = "boot"
    /\ UNCHANGED <<finalized, processes, allocVars, qemu, guestVars, endVars>>

\* bootSystem returns and the schedulers run.
Booted ==
    /\ main = "boot" /\ Len(bootHart) = Len(processes)
    /\ main' = "run" /\ finalized' = TRUE
    /\ UNCHANGED <<processes, allocVars, qemu, guestVars, endVars>>

\* run returns, after its ticks or with everything completed.
RunReturns ==
    /\ main = "run"
    /\ main' = "script"
    /\ UNCHANGED <<finalized, processes, allocVars, qemu, guestVars, endVars>>

------------------------------------------------------------------------------
(* Guests and their simulation *)

\* A guest writes to a pipe that nobody reads, and waits while that is full.
Write(p) ==
    /\ qemu[p] = "running"
    /\ output[p].left > 0 /\ output[p].piped < PipeSize
    /\ output' = [output EXCEPT ![p] = [left |-> @.left - 1, piped |-> @.piped + 1]]
    /\ UNCHANGED <<main, finalized, processes, allocVars, qemu, completed, endVars>>

\* Having written all, the boot hart's thread exits, and with it the guest.
GuestEnds(p) ==
    /\ qemu[p] = "running" /\ output[p].left = 0
    /\ qemu' = [qemu EXCEPT ![p] = "exiting"]
    /\ UNCHANGED <<main, finalized, processes, allocVars, guestVars, endVars>>

\* A channel is named for a hart and not for a process, so that what a hart receives
\* is of any guest that publishes for it. Here: of one whose thread on hart h has
\* ended, which is the guest's end when that is its boot hart.
ThreadEnded(h) == \E q \in DOMAIN qemu : h \in HartRange(q) /\ (h = bootHart[q] => qemu[q] = "exiting")

\* Mutants of FetchLast: a pid is compared where the boot hart should be; the last
\* event of any hart completes the process.
FetchLastByPid(h) ==
    LET p == owner[h]
    IN /\ main = "run" /\ p # 0 /\ ThreadEnded(h)
       /\ h = p - 1 /\ ~completed[p]
       /\ completed' = [completed EXCEPT ![p] = TRUE]
       /\ UNCHANGED <<main, finalized, processes, allocVars, qemu, output, endVars>>

FetchLastOfAny(h) ==
    LET p == owner[h]
    IN /\ main = "run" /\ p # 0 /\ ThreadEnded(h)
       /\ ~completed[p]
       /\ completed' = [completed EXCEPT ![p] = TRUE]
       /\ UNCHANGED <<main, finalized, processes, allocVars, qemu, output, endVars>>

\* A simulated hart fetches a last event; the process whose boot hart it is for its
\* CPU has completed.
FetchLast(h) ==
    LET p == owner[h]
    IN /\ main = "run" /\ p # 0 /\ ThreadEnded(h)
       /\ h = bootHart[p] /\ ~completed[p]
       /\ completed' = [completed EXCEPT ![p] = TRUE]
       /\ UNCHANGED <<main, finalized, processes, allocVars, qemu, output, endVars>>

\* The publishers' destructors return when nobody subscribes any more, which is when
\* the simulator has ended.
QemuExits(p) ==
    /\ qemu[p] = "exiting" /\ main = "exited"
    /\ qemu' = [qemu EXCEPT ![p] = "gone"]
    /\ UNCHANGED <<main, finalized, processes, allocVars, guestVars, endVars>>

------------------------------------------------------------------------------
(* The end *)

\* The script ends, whether it has called run or not.
ScriptEnds ==
    /\ main = "script"
    /\ main' = "cleanUp"
    /\ UNCHANGED <<finalized, processes, allocVars, qemu, guestVars, endVars>>

\* SIGINT: the handler takes the main thread from whatever it was doing. It runs
\* with SIGINT blocked and does not return.
Interrupt ==
    /\ main \in {"script", "boot", "assign", "run", "cleanUp"} /\ signum = 0
    /\ main' = "cleanUp"
    /\ signum' = 2 /\ cleaned' = 0
    /\ UNCHANGED <<finalized, processes, allocVars, qemu, guestVars>>

\* What kill(2) does to a QEMU: there is no signal 0.
Kill(p, sig) ==
    qemu' = IF sig = 0 THEN qemu ELSE [qemu EXCEPT ![p] = "gone"]

\* One round of cleanUp's loop. The pid is an index into the QEMUs; what at()
\* throws when there is none ends the program, for systemCleanUp is noexcept.
CleanUpProcess ==
    LET p == cleaned + 1
    IN /\ main = "cleanUp" /\ p <= Len(processes)
       /\ cleaned' = p
       /\ IF completed[p] THEN UNCHANGED <<main, qemu>>
          ELSE IF p <= Len(qemu) THEN Kill(p, 0) /\ UNCHANGED main
          ELSE main' = "aborted" /\ UNCHANGED qemu
       /\ UNCHANGED <<finalized, processes, allocVars, guestVars, signum>>

Exit ==
    /\ main = "cleanUp" /\ cleaned = Len(processes)
    /\ main' = "exited"
    /\ UNCHANGED <<finalized, processes, allocVars, qemu, guestVars, endVars>>

------------------------------------------------------------------------------
BootStep == Allocate \/ AssignHart \/ Assigned \/ Booted
GuestStep(p) == p \in DOMAIN qemu /\ (Write(p) \/ GuestEnds(p) \/ QemuExits(p))

BootNext ==
    \/ /\ Len(processes) < MaxProcesses
       /\ \E n \in Requests, w \in Outputs : NewProcess(n, w)
    \/ Run \/ BootStep \/ RunReturns
    \/ \E p \in 1 .. MaxProcesses : GuestStep(p)
    \/ \E h \in Harts : FetchLast(h)
    \/ ScriptEnds \/ Interrupt \/ CleanUpProcess \/ Exit

BootSpec == BootInit /\ [][BootNext]_bootVars

\* The main thread boots, guests run, and so do the schedulers while the main
\* thread is in run. Nobody has to interrupt.
BootFairness ==
    /\ WF_bootVars(BootStep)
    /\ \A p \in 1 .. MaxProcesses : WF_bootVars(GuestStep(p))
    /\ \A h \in Harts : WF_bootVars(FetchLast(h))

FairBootSpec == BootSpec /\ BootFairness

------------------------------------------------------------------------------
(* Properties *)

\* Every variable keeps its shape, and the lists of processes, their boot harts
\* and QEMUs grow together.
BootTypeOK ==
    /\ main \in {"script", "boot", "assign", "run", "cleanUp", "exited", "aborted", "refused"}
    /\ finalized \in BOOLEAN
    /\ processes \in Seq(Nat \ {0})
    /\ bootHart \in Seq(0 .. CPUs)
    /\ hartUsed \in 0 .. Word - 1 /\ offset \in 0 .. Word - 1
    /\ owner \in [Harts -> 0 .. Len(qemu)]
    /\ qemu \in Seq({"running", "exiting", "gone"})
    /\ output \in Seq([left : Nat, piped : 0 .. PipeSize])
    /\ completed \in Seq(BOOLEAN)
    /\ Len(output) = Len(processes) /\ Len(completed) = Len(processes)
    /\ Len(qemu) <= Len(bootHart) /\ Len(bootHart) <= Len(processes)
    /\ cleaned \in 0 .. Len(processes) /\ signum \in {0, 2}

\* When the system runs, every QEMU's harts exist and simulate for it and for it
\* alone, although they were counted in 16 bits: the emulator publishes the
\* events of exactly the harts that some CPU with this process consumes.
HartsAssigned ==
    main = "run" => \A p \in DOMAIN qemu :
        /\ HartRange(p) \subseteq Harts
        /\ \A h \in Harts : owner[h] = p <=> h \in HartRange(p)

\* No hart is taken from a process that has it.
HartsStay == [][\A h \in Harts : owner[h] # 0 => owner'[h] = owner[h]]_bootVars

\* A process completes only when its own guest has come to its end, though the events
\* that tell name only a hart: of what cleanUp passes over no guest still runs.
CompletedHaveEnded ==
    \A p \in DOMAIN processes : completed[p] => p \in DOMAIN qemu /\ qemu[p] # "running"

\* When no guest writes more than its pipe holds, every process that was booted
\* completes, unless the script takes the simulation's time away.
ProcessesComplete ==
    main = "run" /\ (\A p \in DOMAIN qemu : output[p].left + output[p].piped <= PipeSize)
        ~> main # "run" \/ \A p \in DOMAIN qemu : completed[p]

\* src/python/ArchXplorePy.cpp:28: the handler is there "so we can exit cleanly".
ExitsCleanly == signum # 0 => main # "aborted"

=============================================================================
