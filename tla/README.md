# Verification of ArchXplore in TLA+

ArchXplore is a functional-first architecture simulator. A guest program runs in
an instrumented QEMU; what its threads execute is streamed as events to
simulated harts, which decide when the instructions retire. The modules here
model that pipeline and the thread pool that drives it, TLC checks them on
small instances, and TLAPS proves every safety and action property that the passing
runs check, for every size: of the transport, the simulated harts, the pool and the
rounds, the clocks, the boot of the guests, `Popen` and `communicate`.

Paths below are relative to the repository; `src/...` stands for its `src`
directory, `include/...` for its headers.

## 1. Inventory

| part | state it keeps | operations | talks to |
|---|---|---|---|
| `InstrumentPlugin` (include/iss/qemu/instrumentation) | per vcpu: event and instruction counters, last instruction, publisher; instruction cache | QEMU callbacks: thread start, basic block translated, instruction executed, memory access, system call, thread exit, exit of QEMU, SIGINT | `EventPublisher` |
| `EventPublisher` | iceoryx publisher, buffer of events | constructor (waits for a subscriber), `publish`, destructor (waits until there is none) | iceoryx |
| `EventSubscriber` | iceoryx subscriber, the message it reads and the position in it | constructor (waits for the subscription), `front`, `take` (both wait), `tryTake`, `popFront`, destructor | iceoryx |
| `IPCConfig`, `IPCService` | sizes of messages, queues and memory pools | the RouDi daemon | iceoryx |
| `QemuISS` | subscriber, fetch buffer | `initialize`, `initCPUState`, `generateFetchRequest`, `processFetchResponse`, `handleSyscallApi`, `wakeUpMonitor` | `EventSubscriber`, `AbstractCPU`, `Process` |
| `AbstractCPU` | status, boot pc, counters, three scheduled events | `startUp`, `handleTickEvent`, `handleWakeUpMonitorEvent`, schedule and cancel, `setISS`, `setProcess` | `QemuISS`, Sparta's scheduler |
| `SimpleCPU` | next pc, instruction buffer | `reset`, `tick` | `QemuISS` |
| `Process` | pid, boot hart, number of harts, completed | written by `bootSystem` and by the boot hart's ISS, read by all | |
| `ThreadPool` | queue of tasks, threads, mutex, condition, stop flag | worker loop, `enqueue`, destructor | |
| `AbstractSystem` | ranks of bound and weave phase with a scheduler each, CPUs, processes, pool | `build`, `finalize`, `run`, `handleBoundWeaveEvent`, `runPhaseEvent`, registrations | `ThreadPool`, schedulers, CPUs |
| `QemuSystem` | QEMU subprocesses | `bootSystem`, `newQemuProcess`, `createISS`, `cleanUp` | Popen, CPUs |
| `ClockedObject` | phase, rank, frequency, and whether one of them was set | setters, getters that ask the parent, `onConfiguring_` | `AbstractSystem` |
| main program, Python bindings | none of their own | `systemCleanUp`, running a script | all |
| `Subprocess.hpp`, a copy of cpp-subprocess | descriptors and FILEs of each pipe, pid and code of the child | constructor with fork and exec, `start_process`, `communicate`, `send`, `wait`, `poll`, `kill`, `close_input` and the like | the kernel, the child; used by `QemuSystem` |

### How the parts interact

A QEMU process and the simulator share one topic per hart. The vcpu thread
calls the plugin, whose publisher collects events and sends a message when it
holds 16384 of them or when the caller forces it: at a system call and at the
thread's end. At most four messages wait; publishing into a full queue holds
the vcpu. The simulator's rank threads run Sparta schedulers for an interval at
a time; a rank's scheduler calls the handlers of its harts. `front()` on an
empty queue holds the rank's thread, and with it the phase.

### What is hard

* Three kinds of threads (vcpus, ranks, the main thread) with two directions of
  waiting: emulation waits for simulation (full queue), simulation waits for
  emulation (empty queue), and harts of a guest wait for each other.
* Handshakes in the constructors and destructors: what is sent too early is lost.
* Events that are scheduled at the beginning of a handler and cancelled in its
  middle, with the status of a hart changed at four places.
* State that one rank writes and another reads (`is_completed`).
* Waiting and waking in the pool.
* Values that objects inherit along a tree while it is being configured, in an
  order Sparta chooses.
* Two processes with copies of the same descriptors, which must each close the
  other's, and calls of the system that fail between any two of these steps.

### What makes each part correct

* Transport: events arrive once, in order, none before the subscriber is there;
  both ends bounded; nobody waits for ever.
* Plugin and ISS: a hart fetches what its emulated hart executed, retires each
  instruction once and in order, is blocked when its guest thread is in a
  system call, polls only with a drained buffer, has one wake-up pending,
  completes only when everything has been consumed, and does complete.
* Pool: no task lost or run twice, no wake-up lost, destruction leaves nothing.
* Clocks: every object runs in the phase and the rank, and at the frequency,
  that the script gave to the nearest object above it, whichever object is
  configured first.
* Popen: a child has its own pipes as its standard streams and nobody else's; the
  constructor tells whether it could execute, and an exec that failed leaves
  nothing behind. communicate: neither side waits for the other, nothing is lost.
* Rounds: no rank runs ahead, weave follows bound, the system stops exactly when
  all are finished.
* Boot: every hart is given to at most one process, and a process is completed only
  when its own guest has ended, which is how `cleanUp` knows whom to leave alone.

## 2. Modules

| module | what it is | code |
|---|---|---|
| `EventStream` | abstract specification of one stream per hart: attach, send within a window, receive in order | none: what the transport promises |
| `EventChannel` | the transport of all harts | EventPublisher.hpp, EventSubscriber.hpp, IPCConfig.hpp, iceoryx's queue |
| `HartPipeline` | extends `EventChannel` with the emulated harts and the simulated harts of one process | InstrumentPlugin.hpp, QemuISS.cpp, AbstractCPU.cpp, SimpleCPU.cpp, parts of AbstractSystem.cpp and QemuSystem.hpp |
| `ThreadPool` | the pool | ThreadPool.hpp |
| `ClockDomains` | how objects get a phase, a rank and a clock, and units their harts | ClockedObject.cpp, AbstractSystem.cpp: build, finalize and the registrations, parts of CommonModules.hpp and EmbeddedModule.hpp |
| `LockStep` | abstract specification of a bound-weave simulation: ranks advance in rounds | none: what the rounds promise |
| `BoundWeave` | extends `ThreadPool` with the main thread that runs the phases | AbstractSystem.cpp: handleBoundWeaveEvent, runPhaseEvent |
| `SystemBoot` | allocation of harts, start and end of the QEMUs, end of the simulator | QemuSystem.hpp, parts of AbstractSystem.cpp, ArchXplorePy.cpp |
| `Popen` | how a QEMU is started: pipes, fork, exec, and the calls of its client | Subprocess.hpp: Popen, Streams, Child |
| `Communicate` | data exchanged with a child over pipes of limited size | Subprocess.hpp: Communication, read_all, read_atmost_n |
| `MC...` | the instances TLC checks | |
| `EventChannelProofs` | theorems about `EventChannel`, with the proof that it implements `EventStream` | |
| `HartPipelineProofs`, `ThreadPoolProofs`, `BoundWeaveProofs`, `ClockDomainsProofs`, `SystemBootProofs`, `PopenProofs`, `CommunicateProofs` | theorems about the modules they are named for | |

Definitions carry the names of the code they stand for; PROJECT.json lists the
lines of each. Operators named as a mutant stand before the definition they
mutate: they are the plausible mistakes each property has been seen to catch,
and no specification uses them.

### EventChannel

`pub`, `sub` and `linked` are the three views of a connection: what the
publisher is doing, what the subscriber is doing, and whether RouDi has put the
two together. Constructors and the publisher's destructor are split at their
waiting loops (`offering`, `requested`, `closing`). `Publish` appends to the
buffer; when that fills it or the caller forces it, `flushing` holds the vcpu
thread until `Flush`, which waits for room in the queue. A sample published
while no subscriber is linked goes nowhere, as `historyCapacity = 0` has it.
`Take` replaces a drained buffer, `TryTake` any buffer. `StreamIntact` says that
what subscriber, queue and publisher hold are the consecutive events after the
last one consumed. `Link` and `Unlink` are external: RouDi.

### HartPipeline

The guest program is data: for each hart the threads it runs one after the
other, each a sequence of instructions with address, length and, for a system
call, the harts it starts and waits for. The emulated half (`GuestStep`) follows
the plugin's callbacks: an instruction is published when the next one executes
(`ExecuteInstruction`), a system call before the call is made (`Syscall`), the
last instruction at thread exit (`ThreadExit`).

The simulated half is the event handlers, cut where they wait (`Front`) or look
at state that another thread writes (`CheckProcess`): `handler[h]` is where the
hart's handler stands, `RankFree` keeps two handlers of one rank from running at
once. `sched[h]` is the set of its scheduled events. A handler that schedules an
event already scheduled changes nothing (the events are `UniqueEvent`s). When
`wakeUpMonitor` finds no message for a blocked hart nothing changes, so that
case is a stuttering step. Addresses count half-words, the unit of RISC-V code.

`FetchInstruction` appends straight to the instruction buffer: the package that
`generateFetchRequest` collects reaches it at the end of the same handler, and
nothing reads the buffer in between.

External assumptions on QEMU: a vcpu's init callback precedes its first
instruction; its exit callback runs before a thread that joins it goes on; the
boot hart's exit ends the process. A vcpu index is reused only after its thread
has left.

### ThreadPool

A critical section is one step. `condition.wait` gives up the mutex and begins
to sleep in one step, so checking the predicate and sleeping are `Sleep`.
`notify_one` happens after the mutex has been released and is a step of its own,
as is `notify_all`. Spurious wake-ups happen. `Needs` says which tasks a task
waits for while it runs: rank tasks wait for each other through the guest.

### BoundWeave

The main thread is the pool's only client. `EnqueueRank` and `AwaitRank` are the
two loops of `runPhaseEvent`, one iteration a step; `EndPhase` goes from the
bound to the weave phase, `Decide` ends the handler. A task is the run of one
rank in one round. The rank's Sparta scheduler is external: `RunInterval`
advances it by one interval and answers whether it is finished, which it is
after `work[r]` intervals. Ranks of a phase wait for each other (`Needs`), the
worst the guest can do. A handler may also throw, as `initCPUState` does when a
thread's first event is no instruction (`RunThrows`): the future keeps what the task
has thrown, and the main thread that waits for it leaves runPhaseEvent and the event
handler (`AwaitRank`, `main = "failed"`), whatever the other ranks still do. `LockStep`
is what all this is for.

### ClockDomains

Nodes of the tree are numbered as the script makes them, the system being 0; a
node is a `ClockedObject` with or without a unit below it, or another node of
Sparta's. `stage` is how far the system is: `script`, then `build`
(`EnterConfiguring`, `onConfiguring` of every node in any order,
`buildClockDomains`, `EnterFinalized`, `registerCPU` of every unit in any order),
then `Finalize` by the first `run`. `Get` and `Inherited` are the three getters,
which differ in the value that stands for none. `phases` is the three maps of
ranks as one set, `clock` what `buildRank` gives to nodes; `ClockOf` is Sparta's
`getClock` and external. `declared` remembers the tree as the script left it:
`ClockFollowsTree` compares the clocks with what the tree says, read off the way
from a node up to the system and not by asking parents.

### SystemBoot

`main` is where the main thread stands: in the script, in bootSystem's loop
(`boot`) or the loop that tells CPUs their process (`assign`), in `run`, in
`cleanUp`, or at one of three ends. A round of a loop is a step, so that SIGINT
can arrive between any two; the kernel runs its handler on the main thread, which
does not block the signal. Hart numbers are added modulo `Word`, which stands for
2^16, and a system has fewer CPUs than that. Processes count from 1, a pid is one
less.

What the harts of a process do between boot and the last event is
`HartPipeline`'s; here a guest writes to its standard output and ends, and its
boot hart fetches its last event (`FetchLast`). A channel is named for a hart and not
for a process, so that what a hart fetches is of whichever guest publishes for it
(`ThreadEnded`). A QEMU is gone when nobody subscribes to its publishers any more,
which is after the end of the simulator (`QemuExits`). An exception in bootSystem is
taken to leave the script uncaught (`refused`). SIGINT to the QEMUs themselves,
which a terminal would send too, is not modelled: the simulator does not rely on
it.

### Popen

`fds[p]` is the table of descriptors of process `p`, the client being 0 and each
child known by its Popen: which end of which pipe a number stands for and whether
it is closed on exec. `pipe`, `dup`, `dup2`, `close`, `fork`, `exec` and `waitpid`
do what POSIX says and are external. The constructor is cut into the steps
between which the child runs or a call can fail: a pipe for each argument
(`OpenPipe`, in an order C++ leaves open), `InitArgs`, the exec pipe
(`OpenExecPipe`), `Fork`, `AfterFork`, the read that ends when nobody holds the
exec pipe's write end (`ReadEnds`), and `Fails` when there was a message. The
child moves its streams to 0, 1 and 2 (`ExecuteStreams`), then executes or fails.
Signals interrupt the read (`Interrupted`); after too many it returns -1, which the
constructor takes for a message (`GaveUp`): it waits for the child, which may be a
program that runs (`WaitsForProgram`), and throws.
What a client does is a `usage`: the arguments it gives, the descriptors it has at
first, and the functions it calls. The code a child exits with and the command it
is called with are data.

### Communicate

Data is counted in units. `main` is where the client's thread stands, `reader[r]`
a call of `read_all` with the call of `read_atmost_n` inside it: how much it has,
how large the buffer is and how much of it the inner call fills. The child is any
program that reads and writes and does not leave a read or write before it is
done, and that ends. With one pipe or none (`Direct`) there are no threads, and
the error stream is read once (`FixedBuffer`). A call that meets too many signals
returns -1, and its reader what earlier calls have read (`GaveUp`); where threads read,
its stream stays open.

## 3. Runs

| run | instance | shows |
|---|---|---|
| `channel` | 1 hart, messages of 2, queue of 2, 12 events | the transport implements `EventStream`; `StreamIntact`; flushes get through; the destructor returns |
| `pool` | 3 threads, 2 clients, 4 tasks of which 3 wait for each other | each task in one place, no lost wake-up, nothing abandoned, futures become ready, the destructor returns |
| `pipeline` | 2 harts on 2 ranks, 5 programs, fetch width of one instruction | wake-ups, blocking, fetching, the contract with the channel |
| `pipeline_rank` | 2 harts on 1 rank, 2 programs that join | harts complete, drained, with every instruction retired once and in order |
| `clock_domains` | up to 3 objects below the system, 3 calls of setters, ranks 0 and 1 | clocks follow the tree or its ranked schedule is refused, units are clocked harts, the pool fits |
| `bound_weave` | 2 bound and 2 weave ranks, up to 2 intervals of work each, any of which may throw, 2 threads | the rounds implement `LockStep`, no scheduler is run twice at once, the simulation stops or a rank has thrown |
| `boot` | up to 3 processes asking for 1, 2, 5 or 7 of 3 harts, counted in 3 bits | allocation is sound, who is completed has ended, guests complete |
| `popen` | 2 Popens of up to 16 descriptors: as QemuSystem makes them with any of descriptors 0 to 2 open or 3 or 7 free; with 0 to 3 pipes, a redirected error stream, close_fds; started after both have their pipes; closed, killed, polled, waited for; up to 2 signals in each constructor | the child's streams, private ends, what the constructor tells and leaves, the constructor returns, who is killed is reaped |
| `communicate` | 0 to 3 pipes of one unit, messages of 0 and 2, outputs of up to 3, fwrite may fail on a lone input, up to 2 signals in each call of read_atmost_n | buffers hold, nothing is lost, communicate returns |
| `blocked_early` | a thread with a system call in its first fetch | violation: a blocked hart declared active |
| `completed_race` | 2 harts on 2 ranks | violation: a thread nobody simulates |
| `interrupted_boot` | as `boot` | violation: SIGINT ends in `std::terminate` |

Why these bounds are enough. The channel has both buffers, the queue and the
held-back flush full with seven events; twelve let it fill, drain and fill
again, and messages of two tell full from forced flushes. The harts of a channel
do not touch each other's state, which is why one is enough there; they meet in
`HartPipeline`. In the programs of `pipeline` the second thread loops over
compressed instructions so that it fills its queue and is held back, is short
enough to fit it, follows another thread on the same vcpu, or is cut off by the
end of the process. `MaxEvents` bounds the events of `EventChannel`'s own `Next`
only; a pipeline is bounded by its program. Three tasks that wait for each
other need all three threads, and a fourth makes the pool queue, sleep and be stopped
at every point of both. Requests of five and seven
harts of three wrap a three-bit sum to a value that passes the assertion, and three
processes let one follow another that did; a pipe of one and outputs of one and two
fill it or not. Trees of four nodes have chains of three objects with a node in
between that is not clocked; three settings give each a value of its own. Two
Popens are one that is made while another lives, whose ends it must not keep; with
three or seven descriptors free each of the pipes can be the one that fails. Pipes of one unit
and buffers that start at one make every write wait and a buffer grow twice.
Sixteen descriptors are enough for three pipes of two Popens. The limit of fifty
signals is one here (`EintrLimit`), and two can come (`Interrupts`), so that reads are
both retried and given up. `MaxProcesses` bounds the script's calls of `newProcess`.

Deadlock is not checked: clients need not enqueue, programs end, and the last
state of a finished system has no successor.

Fairness. Weak fairness of the transport's waiting loops (each retries until it
succeeds), of RouDi, of the worker threads and of handlers that can go on: they
are threads the operating system schedules. The guest is fair while its process
lives. A scheduled event is called at its cycle however often the other harts
of the rank run in between: strong fairness of `Dispatch`. The main
thread boots, and a fetch of a last event happens as long as it stays in `run`. A
constructor of Popen runs on, and so does a child until it executes and when it
has been killed; a client that kills polls. The threads of communicate run on, and
its child does something and ends. No signal has to come. Nobody has to
publish, enqueue, shut down or unsubscribe.

Four of the liveness properties have an exception, since the code does not go on there.
`SimulationStops` is about simulations in which no rank throws: others may wait for
that rank for ever. `ConstructorReturns` and `KilledIsReaped` assume that no
constructor waits for ever for a program that does not end (`NobodyStuck`), which it
does only after too many signals. `CommunicateReturns` leaves out a child that writes
to a full pipe whose reader has given up (`WritesUnread`). No other property depends on
how many signals come, but for `NothingLost`, which is about the streams whose reader
has not given up, and the part of `ConstructorTells` that says that a child that
executes is not taken for one that cannot.

## 4. What the runs found

Runs that end in a violation:

* `blocked_early`: `wakeUpMonitor` overwrites the status that the tick inside
  `startUp` has set (QemuISS.cpp:112).
* `completed_race`: `wakeUpMonitor` polls the queue before it looks at
  `is_completed` (QemuISS.cpp:109-116); a thread that lives in between is lost.
* `interrupted_boot`: `cleanUp` looks up a QEMU for every process that has not
  completed (QemuSystem.hpp:52), and throws when SIGINT comes before that
  process's QEMU was started.

The passing runs state properties where the code keeps them. What they leave out,
and what the models would show with other constants:

* `generateFetchRequest` cancels the tick on the last event although a tick retires
  one instruction and the buffer may hold up to a fetch package more
  (QemuISS.cpp:60): with `fetch_width=64` a hart reports fewer retired instructions
  than its thread executed. `RetiredAll` is checked with a width of one instruction.
* A thread whose system call is among the first fetch (`blocked_early`), harts of
  different ranks (`completed_race`), guests that do not join their threads.
* `cleanUp` sends signal 0, which ends nothing (QemuSystem.hpp:52).
* The system's startup event goes where the script puts the system, while `run`
  drives the scheduler of the schedule phase (AbstractSystem.cpp:202, 220): in the
  run `clock_domains` scripts leave the system its own domain.
* A configured object that inherits its rank answers -1 (ClockedObject.cpp:45).
* In Subprocess.hpp: one dup is not enough to move an error stream out of the way
  of 0 and 1 (:1728); error{STDOUT} before output is ignored (:1699); after a failed
  exec descriptors are closed, and their FILEs destroyed, which closes them again
  (:1649); an OSError leaves the child's ends open (:1608); a second `poll` makes the
  code 0 (:1467); `kill` before the start is kill(-1) (:1485); a lone error stream is
  read into a fixed buffer (:1912); when standard descriptors are closed and starts are
  deferred, a Popen that ends can free the numbers 0 and 1 for the exec pipe of another,
  whose write end dup2 then overwrites, so that a failed exec looks like a started
  child (:1735); after too many signals a read returns -1 and drops what it has read
  (:551), although the comment above it says that it "will return with whatever data it
  read" (:535): the constructor then waits for the child and throws, even of a program
  that runs (:1639), and communicate can wait for a child that writes to a stream
  nobody reads; an error of
  fwrite is thrown with the input open and readers waiting (:1961). QemuSystem meets only the failed exec and the OSError.

## 5. Proofs

Each theorem says that an invariant or an action property of section 3 holds for
every value of the constants, under the named assumptions of its module and the
hypotheses in its statement, which the instances of the runs satisfy. Three state
more than a run checks: `NeverStuck`, `RoundsUsePool` and `NoStandstill`.

`EventChannelProofs` holds for every set of harts and payloads, every batch size
and capacity of at least one (`BatchAssumption`, `QueueAssumption`), without a
bound on the events: `ChannelSpec` is `Spec` without `MaxEvents`.

* `TypeCorrect` (`ChannelSpec => []TypeOK`). `TypeOK` bounds the publisher's buffer,
  which is inductive only with the fact that a buffer that is not being flushed
  has room (`TypeInv`).
* `StreamStaysIntact` (`ChannelSpec => []StreamIntact`). The inductive invariant adds
  `Attached`: an open publisher is linked or its subscriber is gone, a link has
  a subscriber at its other end, and a flush sends something. Without the first
  a flush could drop a message of a subscriber that is there; without the last
  an empty message would break the numbering that `Start` reads off the queue.
  The sequence lemmas `IntactPublish`, `IntactFlush`, `IntactTake` and
  `IntactPop` say what the four operations do to a numbered stream; `OneHart`
  reduces a step to the hart that takes it.
* `Refinement` (`ChannelSpec => ImplementsStream`). `Link` is `Attach`, `Unsubscribe` is
  `Detach`, `Publish` is `Send`, `PopFront` is `Receive`, every other step
  stutters. That `Receive` is handed the next event follows from `StreamIntact`;
  that the emulator never runs ahead by a whole window does not, because
  `StreamIntact` says where events are and not how many fit. `WindowInv` adds
  `Held`: messages never outgrow a batch (`Batches`); the number the publisher's
  buffer starts at is not below that of any message in the queue, and at most a
  batch per message above it (`Close`); and only a subscriber that was linked
  holds anything. `CloseAppend`, `CloseTake` and `ClosePop` say that the three
  operations on the queue keep numbers close. `Close` stands for a sum over the
  queue, which the provers could not handle as a sum: it relates each message to
  the end, so that it is kept one message at a time.

`SystemBootProofs` holds for every number of processes, word and number of CPUs
below it (`CPUAssumption`), and for requests of at least one hart
(`RequestAssumption`).

* `BootTypeCorrect`, `HartsAreAssigned` (`BootSpec => []HartsAssigned`) and
  `HartsKeepTheirProcess` (`BootSpec => HartsStay`). The assertion in bootSystem
  does not bound a sum that has wrapped. `AllocInv` says what does: the processes
  that are done have harts below the number of CPUs, one range after the other,
  and the one that bootSystem is at (`Assigning`) has the harts up to `offset`,
  which getCPUPtr's assertion has let pass. When it has them all, its end is at
  most the number of CPUs, so that the sum did not wrap. `BootOther` covers the
  steps that leave the allocation alone.
* `CompletedEnd` (`BootSpec => []CompletedHaveEnded`). What a hart fetches may be of any
  guest that publishes for it. That it is of the hart's own process follows from
  `AllocInv`: when the system runs, the ranges of harts of all QEMUs have their owners
  (`OnePublisher`), although the sum may have wrapped on the way. So the boot hart that
  completes a process is that of the guest that has ended (`EndedFetch`).

`ThreadPoolProofs` holds for finite sets of workers and clients, any tasks and any
waiting among them.

* `TypeCorrect` and `TasksInOnePlace` (`Spec => []EachTaskInOnePlace`). The latter
  is inductive with `TypeOK`; `PushPlace`, `DequeuePlace` and `FinishPlace` are the
  three steps that move a task, `PlaceFrame` every other.
* `NoWakeupIsLost` (`Spec => []NoLostWakeup`) compares the length of the queue with
  two cardinalities; the `Counts...` lemmas say how one worker or client that
  changes its state changes them. A notification that finds nobody asleep is not
  lost, since then nobody sleeps.
* `NothingIsAbandoned` (`Spec => []NothingAbandoned`). That a destroyed pool has no
  pending task needs that all workers have exited and that one who has exited has
  no task, together with the previous theorem about places.
* `NeverStuck` (`Spec => []PoolMoves`): somebody can move while a task is pending, if
  there are no more accepted tasks than workers (`Backlog`) and none waits for a task
  that nobody has enqueued (`AllServed`). If nobody is on the way to the queue, the
  queue is empty: sleepers have been notified of all there was (`NoLostWakeup`), and
  workers that all run have a task each (`QueueServed`). Then every pending task is
  with a worker, so that it has started, and what waits for it can return.

`BoundWeaveProofs` extends it and holds for any ranks, at least one and no rank in
both phases, and any number of rounds (`RanksAssumption`, `TasksAssumption`).
`RoundInv` relates three things that no single invariant does: `FutureInv` says
from where the main thread is (`Awaited`) what has become of every rank's run in
each round, `RankInv` what a rank and its last answer are, given its runs.

* `RoundsTypeCorrect`: that `round` stays below its bound is not a matter of shape.
  The next round is started since some rank answered that it is not finished, and
  that answer is about the round that ends.
* `OneRun`: only runs of this round can be pending, and none once all were waited for.
* `RoundsInLockStep` (`RoundsSpec => ImplementsLockStep`): `RunInterval` is
  `Advance`, the decision to stop is `StopSimulation`, every other step stutters, a run
  that throws included.
  The refinement does not need `Needs` or fairness, so that it holds with fewer
  threads than ranks too.
* `RoundsUsePool` (`RoundsSpec => Spec`): steps of the pool in the rounds are steps of
  `ThreadPool` (`PoolNext`), so that its theorems hold of it.
* `NoStandstill` (`RoundsSpec => []RoundsMove`): until the simulation stops or a rank
  throws the main thread or the pool can take a step, with a thread for every rank of a phase
  (`Fits`; that the code provides them by default is `PoolFits` below), each rank listed
  once (`Distinct`) and tasks that wait for tasks of their phase and round
  (`WithinPhase`). `EnqueueInv` makes the hypotheses of `NeverStuck` true where the main
  thread waits: exactly the ranks it has come to have been accepted, and the backlog
  is no larger than their number. While it still enqueues it can move itself.
  The guards of the steps are written out in `MainCanMove` and `CanMove`, since `ENABLED`
  is out of the provers' reach. This is the safety half of `SimulationStops`, for any
  number of ranks, threads and rounds.

`HartPipelineProofs` holds for any harts, ranks, fetch width, batches and queue, and
any well-formed guest programs (`ProgramsAssumption`: a thread has instructions, and
ends with its exit). Some theorems are about guests of a kind, as their properties
are: `Joined` (the first thread starts all others and waits for each),
`SpawnedOnce` (no vcpu gets a second thread), `Steady` (a thread begins and ends with
an instruction as wide as a fetch, and its second does not lie before its first as
if it fell through), `ExitsApart` (the exit is executed once). All programs of the
run `pipeline` are `Steady`; those of `pipeline_rank` are of all four kinds, which
`SteadyAssumption` and `JoinedAssumption` have TLC evaluate.

* `OneWake` (`PipelineSpec => []OneWakeSource`). The property speaks of harts
  between two handlers; `Woken` says for each place in a handler which events its
  hart has: a hart that `wakeUpMonitor` started has a poll left over until the
  handler ends, the boot hart is never polled for.
* `PipelineTypeCorrect`, `PipelineContract` (`PipelineSpec => ChannelSpec`) and
  `PipelineMeetsChannel` (`MeetsChannel`: the same with events that carry nothing).
  Whether plugin and harts use a channel as it may be used is decided by both ends:
  `wakeUpMonitor` polls whatever is in the buffer, and drops it unless it is drained.
  `PipeInv` says why it is: events that the plugin forces out, system calls and last
  ones, are the last of their message (`BatchesFor`), and a hart is polled for only
  when it has stopped at such an event (`DrainedFor`). `GuestOK` keeps each vcpu at
  an instruction of its program.
* `PipelineStream` (`[]StreamIntact`) follows from `StreamStaysIntact`: the channel's
  theorems hold of the pipeline.
* `CompletedAreDrained` (`[]CompletedDrained`), of guests that join and one rank.
  `CompletionInv`: the event marked last is the boot hart's last (`LastMarked`); when
  the boot hart's thread ends all others have (`Joining`) and have nothing left to
  flush (`Quiet`); and no hart stands between its poll and its look at the process
  when that completes (`OneHandler`), which is what fails in `completed_race`.
* `RetiresInOrder` (`RetireInOrder`), of guests that use no vcpu twice. The events
  on their way continue a numbering: `Counts` has a function that says how many
  instructions precede each event, which a system call does not add to and which ends
  at what the plugin has published, one less than it counts until the thread exits.
* `BlocksOnSyscall` (`[]BlockedOnSyscall`) and `FollowsNextPc` (`[]NextPcFollows`), of
  steady guests. `SteadyInv` does for pcs what `Counts` does for numbers: `Chained`
  has the set of events that begin a thread and the pc at which each event finds the
  hart, and relates them at the emulated end (`Ends`), on the way (`Linked`) and at
  the simulated end (`Begins`). That a thread's first package holds its first
  instruction alone (`Tuned`) keeps `wakeUpMonitor` from overwriting the status that
  a system call has set, which is what fails in `blocked_early`.
* `RetiresAll` (`[]RetiredAll`), of guests of all four kinds in one rank. The exit
  does not fit into a package with other instructions, so that it finds the
  instruction buffer empty: `ExitingInv` says that only the exit has its pc, that the
  buffered instructions follow one another and that the next pc is that of the
  oldest (`Queued`).

`PopenProofs` holds for any number of Popens, any descriptors and limit on them, any
signals, and usages that are `Plain`: what QemuSystem asks for with any standard
descriptors closed, or with the three of them open an error stream too, output
given before an error stream that is to be the same, or a deferred start. All usages
of the run `popen` are (`PlainAssumption`).

* `PopenInvariant` (`[]PopenInv`). `ClientTable` says what the client's table
  holds at each stage of each constructor (`Has`, `Where`, `There`) and that it holds
  nothing else (`Placed`); `Stage` relates the stage to the pipes, the FILEs and the
  child; `ChildTable` says the same of a child's table from the fork on. That one
  constructor runs at a time (`OneBusy`) keeps what it has found taken from becoming
  free before it forks. `Numbers` says why moving the streams spares the exec pipe:
  pipes take the lowest free descriptors, so that with a pipe made before it the exec
  pipe's write end is above 2.
* `StreamsAreOwn` (`[]ChildStreams`) and `EndsPrivate` (`[]EndsArePrivate`).
* `TellsTruly` (`[]ConstructorTells`). A constructor that gives up reading does not
  return: it takes -1 for a message, and throws when the child has ended, so that
  "returned" means executed however many signals come. That a child whose constructor
  threw has not executed holds only of those that have not given up.

`CommunicateProofs` holds for any pipes, capacities, buffers and messages.

* `BuffersHold` (`CommSpec => []BufferHolds`), with the shape of the variables.
* `NothingIsLost` (`CommSpec => []NothingLost`). `Accounted` says where what the child wrote is while its reader reads, and that what a reader returns is
  `Settled`: the child is dead, its stream closed, or the buffer fixed and full, so
  that nothing it still writes counts; or it has given up, of which the property does
  not speak. `InputInv` is the same for the message, whatever the readers do.

`ClockDomainsProofs` holds for any tree, settings and order of configuration.

* `PoolFits` (`DomainsSpec => PoolFitsPhases`). `PhasesInv` says that rounds are
  enabled after the last registration, and only if there are ranks.
* `ClocksFollow` (`[]ClockFollowsTree`, if the script leaves the system its own
  domain: `System \notin Movable`) and `HartsFollow` (`[]HartsClocked`). The three
  recursions up the tree have solutions (`WayIs`, `InheritedIs`, `ClockOfIs`), read off
  the last node on the way that has a value (`TopOf`); two functions that agree
  where there is a value, and elsewhere with the node above, agree everywhere
  (`DownTheTree`, by the smallest node at which they do not). `Registering` says what
  makes the order of build not matter: an object has what it was given or what the
  tree says, so that asking through objects already resolved and objects not yet
  resolved gives the same answer (`Inherits`), and those that have been there are
  registered for it. `ClocksInherit` does the same for the clocks. Only where the
  first round is depends on the hypothesis; the rest is `ClockInvariant`, which has none.

Only model-checked are the liveness properties, under the fairness of section 3:
`FlushDelivers`, `ShutdownReturns`, `EveryFutureReady`, `DestructorReturns`,
`AllComplete`, `SimulationStops`, `ProcessesComplete`, `ConstructorReturns`,
`KilledIsReaped`, `CommunicateReturns`. The installed provers do not reach fairness
and `ENABLED`. `NeverStuck` and `NoStandstill` prove that somebody can always move; that
everybody who can does in the end is the fairness TLC assumes.

## 6. Not modelled

The instruction cache and memory information of the plugin, trace output and
statistics, the memory pools of RouDi; signals in the middle of `publish`; the
declarations of the Python bindings, which keep no state; of Subprocess.hpp the
code for Windows, streams given as files or descriptors, `pipeline`, `send`,
process groups, shell, environment and working directory, and pids that the system
uses again; signals while the client waits for a child, which waitpid reports as an
error. SIGPIPE is taken to be ignored, as it is in a process that embeds
Python. Several calls of `run` with a tick count are Sparta's scheduler's. An exception
that leaves `run`, whether an assertion in a handler or one in bootSystem, is
taken to leave the script too; one that catches it and calls `run` again is not
modelled, nor is what a thrown exception destroys on its way.

## 7. Plan

Done: `EventStream`, `EventChannel`, `HartPipeline`, `ThreadPool`, `LockStep`,
`BoundWeave`, `SystemBoot`, `ClockDomains`, `Popen`, `Communicate`; the proofs
listed in section 5.

Next, in this order:

1. The end of a QEMU: `userExitCallback` in the middle of `publish`, and publishers
   whose subscribers are not unsubscribed.
2. Calls of `run` with a number of ticks in `BoundWeave`.
3. The fetch and retirement of wider packages: what `RetiredAll` becomes with a
   `fetch_width` of more than one instruction.
