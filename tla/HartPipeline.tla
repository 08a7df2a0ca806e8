----------------------------- MODULE HartPipeline -----------------------------
(***************************************************************************)
(* One guest process end to end: its emulated harts publish events from    *)
(* QEMU's instrumentation callbacks (InstrumentPlugin), each through its   *)
(* EventChannel, and the simulated harts (QemuISS, AbstractCPU, SimpleCPU) *)
(* fetch and retire them, driven by events of the rank they belong to.     *)
(*                                                                         *)
(* The guest program, the threads it makes and QEMU are external: they     *)
(* call the plugin's callbacks. A simulation handler is cut where it can   *)
(* wait or look at shared state, and the harts of a rank share its thread. *)
(***************************************************************************)
EXTENDS EventChannel, FiniteSets

CONSTANTS Boot,      \* Process::boot_hart
          Rank,      \* Rank[h]: the rank whose thread simulates hart h
          Programs,  \* guest programs, one of which the process runs
          FetchWidth \* SimpleCPUParams::fetch_width

ASSUME BootAssumption == Boot \in Harts
ASSUME FetchAssumption == FetchWidth \in Nat \ {0}

(***************************************************************************)
(* A program gives every hart the threads it may run, each a sequence of   *)
(* instructions. call is none, sys or exit; a system call starts on hart g *)
(* thread spawn[g], if that is not 0, and returns when the harts in join   *)
(* have exited.                                                            *)
(***************************************************************************)
Instruction ==
    [pc : Nat, len : Nat \ {0}, call : {"none", "sys", "exit"},
     spawn : [Harts -> Nat], join : SUBSET Harts]

Spawned(inst) == {g \in Harts : inst.spawn[g] # 0}

\* A thread ends with its exit, which nothing follows, and starts only threads
\* there are; the boot hart has one to begin with.
WellFormed(p) ==
    /\ p \in [Harts -> Seq(Seq(Instruction))]
    /\ p[Boot] # <<>>
    /\ \A h \in Harts : \A k \in DOMAIN p[h] :
          /\ p[h][k] # <<>>
          /\ \A i \in DOMAIN p[h][k] :
                /\ p[h][k][i].call = "exit" <=> i = Len(p[h][k])
                /\ \A g \in Spawned(p[h][k][i]) : p[h][k][i].spawn[g] \in DOMAIN p[g]

ASSUME ProgramsAssumption == \A p \in Programs : WellFormed(p)

VARIABLES
    \* the emulated process
    program,  \* the guest program
    vcpu,     \* absent, created, running, syscall (before its callback), kernel, exiting, dead
    life,     \* which of its threads the hart runs
    ip,       \* which instruction of it comes next
    instCount,\* InstrumentPlugin::m_inst_counters
    lastInst, \* InstrumentPlugin::m_last_insts
    \* the simulator
    booted,   \* has bootSystem run?
    status,   \* AbstractCPU::m_status
    sched,    \* which of the hart's events are scheduled: startup, tick, monitor
    handler,  \* where the hart's handler is: idle, boot, fetch, execute, polled, failed
    waking,   \* is the handler wakeUpMonitor, which continues after startUp?
    fetchPc,  \* generateFetchRequest's cur_fetch_pc
    fetchEnd, \* and its addr + fetch_size
    nextPc,   \* SimpleCPU::m_next_pc
    instBuffer, \* SimpleCPU::m_inst_buffer
    instret,  \* AbstractCPU::m_instret
    completed,\* Process::is_completed
    lastTag   \* ghost: tag of the event popped last

guestVars == <<vcpu, life, ip, instCount, lastInst>>
fetchVars == <<fetchPc, fetchEnd, nextPc, instBuffer, instret>>
cpuVars == <<status, sched, handler, waking, fetchVars, completed, lastTag>>
pipelineVars == <<channelVars, program, guestVars, booted, cpuVars>>

Inst == [uid : Nat, pc : Nat, len : Nat, redirect : BOOLEAN, target : Nat]
\* What the channel's Payload is here.
EventData == [tag : {"insn", "sys"}, inst : Inst, last : BOOLEAN]

NullInst == [uid |-> 0, pc |-> 0, len |-> 0, redirect |-> FALSE, target |-> 0]
InsnEvent(inst, last) == [tag |-> "insn", inst |-> inst, last |-> last]
SyscallEvent == [tag |-> "sys", inst |-> NullInst, last |-> FALSE]

MaxHarts == Cardinality(Harts)

PipelineInit ==
    /\ Init
    /\ program \in Programs
    /\ vcpu = [h \in Harts |-> "absent"]
    /\ life = [h \in Harts |-> 0]
    /\ ip = [h \in Harts |-> 1]
    /\ instCount = [h \in Harts |-> 0]
    /\ lastInst = [h \in Harts |-> NullInst]
    /\ booted = FALSE
    /\ status = [h \in Harts |-> "INACTIVE"]
    /\ sched = [h \in Harts |-> {}]
    /\ handler = [h \in Harts |-> "idle"]
    /\ waking = [h \in Harts |-> FALSE]
    /\ fetchPc = [h \in Harts |-> 0]
    /\ fetchEnd = [h \in Harts |-> 0]
    /\ nextPc = [h \in Harts |-> 0]
    /\ instBuffer = [h \in Harts |-> <<>>]
    /\ instret = [h \in Harts |-> 0]
    /\ completed = FALSE
    /\ lastTag = [h \in Harts |-> "none"]

------------------------------------------------------------------------------
(* Building and booting *)

\* registerISS gives the harts their QemuISS one by one; QemuISS::initialize
\* returns when the subscription of the hart stands.
RegisterISS(h) ==
    /\ \A g \in Harts : sub[g] # "requested"
    /\ NewSubscriber(h)
    /\ UNCHANGED <<program, guestVars, booted, cpuVars>>

\* Then bootSystem starts QEMU and setProcess schedules each hart's first event.
BootSystem ==
    /\ ~booted
    /\ \A h \in Harts : sub[h] = "subscribed"
    /\ booted' = TRUE
    /\ vcpu' = [vcpu EXCEPT ![Boot] = "created"]
    /\ life' = [life EXCEPT ![Boot] = 1]
    /\ sched' = [h \in Harts |-> IF h = Boot THEN {"startup"} ELSE {"monitor"}]
    /\ UNCHANGED <<channelVars, program, ip, instCount, lastInst, status, handler, waking,
                   fetchVars, completed, lastTag>>

------------------------------------------------------------------------------
(* InstrumentPlugin: QEMU's callbacks on a vcpu *)

Insn(h) == program[h][life[h]][ip[h]]

\* A callback runs on the vcpu's thread, which publish may be holding.
Callback(h, phase) == vcpu[h] = phase /\ pub[h] = "open" /\ ~flushing[h]

\* A vcpu index that had a thread before keeps its publisher.
ThreadInitialize(h) ==
    /\ vcpu[h] = "created"
    /\ vcpu' = [vcpu EXCEPT ![h] = "running"]
    /\ IF pub[h] = "none" THEN NewPublisher(h) ELSE UNCHANGED channelVars
    /\ UNCHANGED <<program, life, ip, instCount, lastInst, booted, cpuVars>>

\* Has the vcpu executed anything yet?
Executed(h) == instCount[h] # 0

\* uid takes the counter before its increment, in the mutant after it.
UidAfter(h) == instCount[h] + 1
Uid(h) == instCount[h]

\* The previous instruction learns what is executed after it. Neither the
\* redirect flag nor the target is ever reset.
Previous(h, inst) ==
    [lastInst[h] EXCEPT !.target = inst.pc,
                        !.redirect = @ \/ lastInst[h].pc # inst.pc + inst.len]

\* The instruction about to execute completes the previous one, which is
\* published only now.
ExecuteInstruction(h) ==
    LET inst == Insn(h)
        base == IF Executed(h) THEN Previous(h, inst) ELSE lastInst[h]
    IN /\ Callback(h, "running")
       /\ IF Executed(h) THEN Publish(h, InsnEvent(base, FALSE), FALSE)
                         ELSE UNCHANGED channelVars
       /\ lastInst' = [lastInst EXCEPT ![h] =
              [base EXCEPT !.uid = Uid(h), !.pc = inst.pc, !.len = inst.len]]
       /\ instCount' = [instCount EXCEPT ![h] = @ + 1]
       /\ IF inst.call = "none"
          THEN ip' = [ip EXCEPT ![h] = @ + 1] /\ UNCHANGED vcpu
          ELSE vcpu' = [vcpu EXCEPT ![h] = "syscall"] /\ UNCHANGED ip
       /\ UNCHANGED <<program, life, booted, cpuVars>>

\* The callback precedes the call, so the event overtakes the instruction that
\* makes it.
Syscall(h) ==
    /\ Callback(h, "syscall")
    /\ IF MaxHarts > 1 THEN Publish(h, SyscallEvent, TRUE) ELSE UNCHANGED channelVars
    /\ vcpu' = [vcpu EXCEPT ![h] = "kernel"]
    /\ UNCHANGED <<program, life, ip, instCount, lastInst, booted, cpuVars>>

Exited(h) == vcpu[h] = "dead" /\ ~flushing[h]

\* The kernel carries the call out: it may start threads, wait for threads to
\* exit, or end this one.
SyscallReturn(h) ==
    LET inst == Insn(h)
    IN /\ Callback(h, "kernel")
       /\ \A g \in inst.join : Exited(g)
       /\ \A g \in Spawned(inst) : vcpu[g] = "absent" \/ Exited(g)
       /\ vcpu' = [g \in Harts |->
                     IF g \in Spawned(inst) THEN "created"
                     ELSE IF g # h THEN vcpu[g]
                     ELSE IF inst.call = "exit" THEN "exiting" ELSE "running"]
       /\ life' = [g \in Harts |-> IF g \in Spawned(inst) THEN inst.spawn[g] ELSE life[g]]
       /\ ip' = [g \in Harts |-> IF g \in Spawned(inst) THEN 1
                                 ELSE IF g = h THEN ip[g] + 1 ELSE ip[g]]
       /\ UNCHANGED <<channelVars, program, instCount, lastInst, booted, cpuVars>>

\* The last instruction goes out, marked as the last. A thread that waits for
\* this one is woken after that.
ThreadExit(h) ==
    /\ Callback(h, "exiting")
    /\ Publish(h, InsnEvent(lastInst[h], TRUE), TRUE)
    /\ vcpu' = [vcpu EXCEPT ![h] = "dead"]
    /\ UNCHANGED <<program, life, ip, instCount, lastInst, booted, cpuVars>>

GuestStep(h) == \/ ThreadInitialize(h) \/ ExecuteInstruction(h)
                \/ Syscall(h) \/ SyscallReturn(h) \/ ThreadExit(h)

\* The steps the channel takes by itself.
TransportStep(h) ==
    /\ Subscribed(h) \/ Link(h) \/ PublisherReady(h) \/ Flush(h)
    /\ UNCHANGED <<program, guestVars, booted, cpuVars>>

------------------------------------------------------------------------------
(* Event dispatch: the rank's scheduler calls a handler when none is running *)

RankFree(h) == \A g \in Harts : Rank[g] = Rank[h] => handler[g] = "idle"
Fires(h, event) == event \in sched[h] /\ RankFree(h)

\* tick() starts with generateFetchRequest.
BeginFetch(h, pc) ==
    /\ handler' = [handler EXCEPT ![h] = "fetch"]
    /\ fetchPc' = [fetchPc EXCEPT ![h] = pc]
    /\ fetchEnd' = [fetchEnd EXCEPT ![h] = pc + FetchWidth]

\* The startup event calls startUp.
StartupEvent(h) ==
    /\ Fires(h, "startup")
    /\ sched' = [sched EXCEPT ![h] = @ \ {"startup"}]
    /\ handler' = [handler EXCEPT ![h] = "boot"]
    /\ UNCHANGED <<channelVars, program, guestVars, booted, status, waking, fetchVars,
                   completed, lastTag>>

\* handleTickEvent schedules the next tick before it ticks.
TickEvent(h) ==
    /\ Fires(h, "tick")
    /\ BeginFetch(h, nextPc[h])
    /\ UNCHANGED <<channelVars, program, guestVars, booted, status, sched, waking,
                   nextPc, instBuffer, instret, completed, lastTag>>

\* handleWakeUpMonitorEvent schedules the next poll and calls wakeUpMonitor: a
\* hart without a thread starts up when its first message is there ...
WakeInactive(h) ==
    /\ Fires(h, "monitor")
    /\ status[h] = "INACTIVE"
    /\ TryTake(h)
    /\ handler' = [handler EXCEPT ![h] = "boot"]
    /\ waking' = [waking EXCEPT ![h] = TRUE]
    /\ UNCHANGED <<program, guestVars, booted, status, sched, fetchVars, completed, lastTag>>

\* Mutant of PollInactive: the process is looked at before the queue.
PollProcessFirst(h) ==
    /\ Fires(h, "monitor")
    /\ status[h] = "INACTIVE"
    /\ handler' = [handler EXCEPT ![h] = "polled"]
    /\ UNCHANGED <<channelVars, program, guestVars, booted, status, sched, waking,
                   fetchVars, completed, lastTag>>

\* ... or, when there is none, goes on to look at the process.
PollInactive(h) ==
    /\ Fires(h, "monitor")
    /\ status[h] = "INACTIVE"
    /\ queue[h] = <<>>
    /\ handler' = [handler EXCEPT ![h] = "polled"]
    /\ UNCHANGED <<channelVars, program, guestVars, booted, status, sched, waking,
                   fetchVars, completed, lastTag>>

CheckProcess(h) ==
    /\ handler[h] = "polled"
    /\ handler' = [handler EXCEPT ![h] = "idle"]
    /\ IF completed
       THEN /\ status' = [status EXCEPT ![h] = "COMPLETED"]
            /\ sched' = [sched EXCEPT ![h] = @ \ {"monitor"}]
       ELSE UNCHANGED <<status, sched>>
    /\ UNCHANGED <<channelVars, program, guestVars, booted, waking, fetchVars, completed,
                   lastTag>>

\* A woken hart is active, polls no more and ticks. In the mutant the next poll is
\* not cancelled.
ResumePolling(h) ==
    /\ status' = [status EXCEPT ![h] = "ACTIVE"]
    /\ sched' = [sched EXCEPT ![h] = @ \union {"tick"}]

Resume(h) ==
    /\ status' = [status EXCEPT ![h] = "ACTIVE"]
    /\ sched' = [sched EXCEPT ![h] = (@ \ {"monitor"}) \union {"tick"}]

\* A hart blocked in a system call goes on when a message has arrived after it.
\* When none has, the poll changes nothing; in the mutant the hart goes on anyway.
WakeBlockedBlindly(h) ==
    /\ Fires(h, "monitor")
    /\ status[h] = "BLOCKED_SYSCALL"
    /\ TryTake(h) \/ (queue[h] = <<>> /\ UNCHANGED channelVars)
    /\ Resume(h)
    /\ UNCHANGED <<program, guestVars, booted, handler, waking, fetchVars, completed, lastTag>>

WakeBlocked(h) ==
    /\ Fires(h, "monitor")
    /\ status[h] = "BLOCKED_SYSCALL"
    /\ TryTake(h)
    /\ Resume(h)
    /\ UNCHANGED <<program, guestVars, booted, handler, waking, fetchVars, completed, lastTag>>

------------------------------------------------------------------------------
(* startUp and tick *)

\* front() waits, on the rank's thread, until the event queue has a message.
Front(h) ==
    /\ handler[h] \in {"boot", "fetch"}
    /\ Take(h)
    /\ UNCHANGED <<program, guestVars, booted, cpuVars>>

AtHead(h, step) == handler[h] = step /\ subBuffer[h] # <<>>
First(h) == Head(subBuffer[h]).data

\* initCPUState takes the boot pc from the first event, reset() makes it the next
\* pc, and startUp schedules a tick and ticks.
InitCPUState(h) ==
    /\ AtHead(h, "boot")
    /\ First(h).tag = "insn"
    /\ status' = [status EXCEPT ![h] = "ACTIVE"]
    /\ nextPc' = [nextPc EXCEPT ![h] = First(h).inst.pc]
    /\ sched' = [sched EXCEPT ![h] = @ \union {"tick"}]
    /\ BeginFetch(h, First(h).inst.pc)
    /\ UNCHANGED <<channelVars, program, guestVars, booted, waking, instBuffer, instret,
                   completed, lastTag>>

\* Its assertion fails on any other event.
FirstEventAssertion(h) ==
    /\ AtHead(h, "boot")
    /\ First(h).tag # "insn"
    /\ handler' = [handler EXCEPT ![h] = "failed"]
    /\ UNCHANGED <<channelVars, program, guestVars, booted, status, sched, waking,
                   fetchVars, completed, lastTag>>

\* handleSyscallApi blocks an active hart, which polls instead of ticking.
HandleSyscallApi(h) ==
    IF status[h] = "ACTIVE"
    THEN /\ status' = [status EXCEPT ![h] = "BLOCKED_SYSCALL"]
         /\ sched' = [sched EXCEPT ![h] = (@ \ {"tick"}) \union {"monitor"}]
    ELSE UNCHANGED <<status, sched>>

\* generateFetchRequest meets a system call: it is handled and popped, and the
\* package ends. In the mutant it is not popped.
FetchSyscallUnpopped(h) ==
    /\ AtHead(h, "fetch")
    /\ First(h).tag = "sys"
    /\ lastTag' = [lastTag EXCEPT ![h] = "sys"]
    /\ HandleSyscallApi(h)
    /\ handler' = [handler EXCEPT ![h] = "execute"]
    /\ UNCHANGED <<channelVars, program, guestVars, booted, waking, fetchVars, completed>>

FetchSyscall(h) ==
    /\ AtHead(h, "fetch")
    /\ First(h).tag = "sys"
    /\ PopFront(h)
    /\ lastTag' = [lastTag EXCEPT ![h] = "sys"]
    /\ HandleSyscallApi(h)
    /\ handler' = [handler EXCEPT ![h] = "execute"]
    /\ UNCHANGED <<program, guestVars, booted, waking, fetchVars, completed>>

Fits(h) == LET inst == First(h).inst
           IN inst.pc = fetchPc[h] /\ fetchPc[h] + inst.len <= fetchEnd[h]

\* Mutant of LastInstruction: nothing polls for the hart's next thread.
LastInstructionUnpolled(h) ==
    IF h = Boot
    THEN /\ status' = [status EXCEPT ![h] = "COMPLETED"]
         /\ sched' = [sched EXCEPT ![h] = @ \ {"tick"}]
         /\ completed' = TRUE
    ELSE /\ status' = [status EXCEPT ![h] = "INACTIVE"]
         /\ sched' = [sched EXCEPT ![h] = @ \ {"tick"}]
         /\ UNCHANGED completed

\* What the last instruction of a thread does to its hart: the boot hart's ends
\* the process, any other hart waits for its next thread.
LastInstruction(h) ==
    IF h = Boot
    THEN /\ status' = [status EXCEPT ![h] = "COMPLETED"]
         /\ sched' = [sched EXCEPT ![h] = @ \ {"tick"}]
         /\ completed' = TRUE
    ELSE /\ status' = [status EXCEPT ![h] = "INACTIVE"]
         /\ sched' = [sched EXCEPT ![h] = (@ \ {"tick"}) \union {"monitor"}]
         /\ UNCHANGED completed

\* An instruction at the fetch pc joins the package, which goes on until it is
\* full. It reaches the instruction buffer when the package is complete, which
\* nobody can tell from here.
FetchInstruction(h) ==
    LET inst == First(h).inst
        last == First(h).last
    IN /\ AtHead(h, "fetch")
       /\ First(h).tag = "insn"
       /\ Fits(h)
       /\ PopFront(h)
       /\ lastTag' = [lastTag EXCEPT ![h] = "insn"]
       /\ instBuffer' = [instBuffer EXCEPT ![h] = Append(@, inst)]
       /\ fetchPc' = [fetchPc EXCEPT ![h] = @ + inst.len]
       /\ handler' = [handler EXCEPT ![h] =
              IF last \/ fetchPc'[h] >= fetchEnd[h] THEN "execute" ELSE "fetch"]
       /\ IF last THEN LastInstruction(h) ELSE UNCHANGED <<status, sched, completed>>
       /\ UNCHANGED <<program, guestVars, booted, waking, fetchEnd, nextPc, instret>>

\* Any other instruction stays at the front, and the package ends.
FetchMismatch(h) ==
    /\ AtHead(h, "fetch")
    /\ First(h).tag = "insn"
    /\ ~Fits(h)
    /\ handler' = [handler EXCEPT ![h] = "execute"]
    /\ UNCHANGED <<channelVars, program, guestVars, booted, status, sched, waking,
                   fetchVars, completed, lastTag>>

\* Mutants of Retire: a hart that its tick has stopped retires nothing; branches
\* fall through.
RetireWhileActive(h) ==
    IF instBuffer[h] = <<>> \/ status[h] # "ACTIVE"
    THEN UNCHANGED <<instBuffer, instret, nextPc>>
    ELSE LET inst == Head(instBuffer[h])
         IN /\ instret' = [instret EXCEPT ![h] = @ + 1]
            /\ instBuffer' = [instBuffer EXCEPT ![h] = Tail(@)]
            /\ nextPc' = [nextPc EXCEPT ![h] = IF inst.redirect THEN inst.target
                                               ELSE inst.pc + inst.len]

RetireFallThrough(h) ==
    IF instBuffer[h] = <<>> THEN UNCHANGED <<instBuffer, instret, nextPc>>
    ELSE LET inst == Head(instBuffer[h])
         IN /\ instret' = [instret EXCEPT ![h] = @ + 1]
            /\ instBuffer' = [instBuffer EXCEPT ![h] = Tail(@)]
            /\ nextPc' = [nextPc EXCEPT ![h] = inst.pc + inst.len]

\* One instruction retires, if there is one, and says where to fetch next.
Retire(h) ==
    IF instBuffer[h] = <<>> THEN UNCHANGED <<instBuffer, instret, nextPc>>
    ELSE LET inst == Head(instBuffer[h])
         IN /\ instret' = [instret EXCEPT ![h] = @ + 1]
            /\ instBuffer' = [instBuffer EXCEPT ![h] = Tail(@)]
            /\ nextPc' = [nextPc EXCEPT ![h] = IF inst.redirect THEN inst.target
                                               ELSE inst.pc + inst.len]

\* The tick ends, and with it the handler; wakeUpMonitor first declares the hart
\* it has started active, whatever the tick made of it.
Execute(h) ==
    /\ handler[h] = "execute"
    /\ Retire(h)
    /\ handler' = [handler EXCEPT ![h] = "idle"]
    /\ waking' = [waking EXCEPT ![h] = FALSE]
    /\ IF waking[h] THEN Resume(h) ELSE UNCHANGED <<status, sched>>
    /\ UNCHANGED <<channelVars, program, guestVars, booted, fetchPc, fetchEnd, completed,
                   lastTag>>

------------------------------------------------------------------------------
Dispatch(h) == StartupEvent(h) \/ TickEvent(h)
                  \/ WakeInactive(h) \/ PollInactive(h) \/ WakeBlocked(h)
HandlerStep(h) == \/ Front(h) \/ InitCPUState(h) \/ FirstEventAssertion(h)
                  \/ FetchSyscall(h) \/ FetchInstruction(h) \/ FetchMismatch(h)
                  \/ Execute(h) \/ CheckProcess(h)

PipelineNext ==
    \/ BootSystem
    \/ \E h \in Harts : \/ RegisterISS(h) \/ GuestStep(h) \/ TransportStep(h)
                        \/ Dispatch(h) \/ HandlerStep(h)

PipelineSpec == PipelineInit /\ [][PipelineNext]_pipelineVars

\* The guest's threads run as long as the process lives; so does its end of the
\* transport, the boot hart's last flush included. A handler that can go on does,
\* and a scheduled event is called at its cycle, however often other harts of
\* the rank have the thread before: strong fairness.
Alive(h) == h = Boot \/ vcpu[Boot] # "dead"

PipelineFairness ==
    /\ WF_pipelineVars(BootSystem)
    /\ \A h \in Harts :
        /\ WF_pipelineVars(RegisterISS(h))
        /\ WF_pipelineVars(Alive(h) /\ (GuestStep(h) \/ TransportStep(h)))
        /\ SF_pipelineVars(Dispatch(h))
        /\ WF_pipelineVars(HandlerStep(h))

PipelineFairSpec == PipelineSpec /\ PipelineFairness

------------------------------------------------------------------------------
(* Safety *)

Between(h) == handler[h] = "idle"

\* Every variable keeps its shape.
PipelineTypeOK ==
    /\ TypeOK
    /\ vcpu \in [Harts -> {"absent", "created", "running", "syscall", "kernel", "exiting", "dead"}]
    /\ life \in [Harts -> Nat] /\ ip \in [Harts -> Nat] /\ instCount \in [Harts -> Nat]
    /\ lastInst \in [Harts -> Inst]
    /\ booted \in BOOLEAN
    /\ status \in [Harts -> {"INACTIVE", "ACTIVE", "BLOCKED_SYSCALL", "COMPLETED"}]
    /\ sched \in [Harts -> SUBSET {"startup", "tick", "monitor"}]
    /\ handler \in [Harts -> {"idle", "boot", "fetch", "execute", "polled", "failed"}]
    /\ waking \in [Harts -> BOOLEAN]
    /\ fetchPc \in [Harts -> Nat] /\ fetchEnd \in [Harts -> Nat] /\ nextPc \in [Harts -> Nat]
    /\ instBuffer \in [Harts -> Seq(Inst)]
    /\ instret \in [Harts -> Nat]
    /\ completed \in BOOLEAN
    /\ lastTag \in [Harts -> {"none", "insn", "sys"}]

\* Between two handlers a hart has exactly the wake-up its status calls for, so
\* that it neither sleeps for ever nor ticks and polls at once.
OneWakeSource == booted => \A h \in Harts : Between(h) =>
    sched[h] = CASE status[h] = "ACTIVE" -> {"tick"}
                 [] status[h] = "BLOCKED_SYSCALL" -> {"monitor"}
                 [] status[h] = "COMPLETED" -> {}
                 [] status[h] = "INACTIVE" /\ h = Boot -> {"startup"}
                 [] OTHER -> {"monitor"}

\* isBlocked(): a hart whose last event was a system call, and which has received
\* nothing since, is blocked.
BlockedOnSyscall == \A h \in Harts :
    Between(h) /\ lastTag[h] = "sys" /\ subBuffer[h] = <<>> => status[h] = "BLOCKED_SYSCALL"

\* The event the hart will see next, if it has been flushed.
Upcoming(h) == subBuffer[h] \o (IF queue[h] = <<>> THEN <<>> ELSE Head(queue[h]))

\* A guest whose threads begin with an uncompressed instruction and end with one,
\* as an exit is, both as wide as a fetch; and whose first instructions do not lie
\* the way that Previous takes for a fall-through.
Steady(p) == \A h \in Harts : \A k \in DOMAIN p[h] :
    LET t == p[h][k]
    IN /\ Len(t) >= 2
       /\ t[1].len = FetchWidth /\ t[Len(t)].len = FetchWidth
       /\ t[1].pc # t[2].pc + t[2].len

\* An active hart with nothing left to retire asks for the instruction the
\* emulated hart executed next: fetching never gets stuck on a mismatch.
NextPcFollows == \A h \in Harts :
    Between(h) /\ status[h] = "ACTIVE" /\ instBuffer[h] = <<>> /\ Upcoming(h) # <<>> =>
        LET next == Head(Upcoming(h)).data
        IN next.tag = "insn" => next.inst.pc = nextPc[h]

\* Thread t has a call at i or later that waits for hart g to exit.
Waits(t, g, i) == \E j \in DOMAIN t : j >= i /\ t[j].call # "none" /\ g \in t[j].join

\* A guest whose first thread starts all the others and waits for each of them.
Joined(p) ==
    /\ \A h \in Harts \ {Boot} : \A k \in DOMAIN p[h] : \A i \in DOMAIN p[h][k] :
          Spawned(p[h][k][i]) = {}
    /\ \A i \in DOMAIN p[Boot][1] :
          /\ Boot \notin Spawned(p[Boot][1][i])
          /\ \A g \in Spawned(p[Boot][1][i]) : Waits(p[Boot][1], g, i + 1)

\* A completed hart has consumed everything its emulated hart published: true of the
\* guests that join, simulated in one rank.
CompletedDrained == \A h \in Harts :
    status[h] = "COMPLETED" => seen[h] = nextId[h] - 1

\* A guest whose threads execute the instruction that exits once.
ExitsApart(p) == \A h \in Harts : \A k \in DOMAIN p[h] :
    LET t == p[h][k] IN \A i \in 1 .. Len(t) - 1 : t[i].pc # t[Len(t)].pc

\* totalInstRetired is the number of instructions executed, when the hart is done.
RetiredAll == \A h \in Harts :
    Between(h) /\ status[h] = "COMPLETED" => instret[h] = instCount[h]

\* The i-th instruction of hart h's k-th thread starts a thread on hart g.
Starts(p, h, k, i, g) == k \in DOMAIN p[h] /\ i \in DOMAIN p[h][k] /\ g \in Spawned(p[h][k][i])

\* A guest that starts at most one thread on a hart, so that no vcpu is used twice.
SpawnedOnce(p) ==
    /\ \A h \in Harts : \A k \in DOMAIN p[h] : \A i \in DOMAIN p[h][k] : ~Starts(p, h, k, i, Boot)
    /\ \A g, h1, h2 \in Harts : \A k1 \in DOMAIN p[h1], k2 \in DOMAIN p[h2] :
          \A i1 \in DOMAIN p[h1][k1], i2 \in DOMAIN p[h2][k2] :
              Starts(p, h1, k1, i1, g) /\ Starts(p, h2, k2, i2, g) =>
                  h1 = h2 /\ k1 = k2 /\ i1 = i2

\* Instructions retire in the order of execution, each once, on a vcpu used once.
RetireInOrder == [][\A h \in Harts :
    instret'[h] # instret[h] => Head(instBuffer[h]).uid = instret[h]]_pipelineVars

------------------------------------------------------------------------------
(* The simulated harts keep the contract of the channel: they poll only with a *)
(* drained buffer, the emulated ones publish only on an open stream.           *)

Erase(m) == [i \in DOMAIN m |-> [id |-> m[i].id, data |-> "event"]]

Channel == INSTANCE EventChannel WITH
    Payload <- {"event"},
    pubBuffer <- [h \in Harts |-> Erase(pubBuffer[h])],
    subBuffer <- [h \in Harts |-> Erase(subBuffer[h])],
    queue <- [h \in Harts |-> [i \in DOMAIN queue[h] |-> Erase(queue[h][i])]]

MeetsChannel == Channel!ChannelSpec

------------------------------------------------------------------------------
(* Liveness, under PipelineFairSpec *)

\* Every hart of the process completes, so that the simulation ends.
AllComplete == <>(\A h \in Harts : status[h] = "COMPLETED")

=============================================================================
