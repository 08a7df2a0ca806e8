-------------------------------- MODULE Popen --------------------------------
(***************************************************************************)
(* How the simulator starts a QEMU: the Popen of Subprocess.hpp, which     *)
(* makes pipes, forks, makes the pipes the standard streams of the child   *)
(* and learns over one more pipe, closed by exec, whether the child could  *)
(* execute. QemuSystem makes one Popen for each guest process, each with   *)
(* an input and an output pipe.                                            *)
(*                                                                         *)
(* The model is one of descriptors: every process has a table of them, and *)
(* calls of the system (pipe, dup, dup2, close, fork, exec, waitpid) are   *)
(* what POSIX says. The parts for Windows are left out.                    *)
(***************************************************************************)
EXTENDS Integers, Sequences, FiniteSets, Functions

CONSTANTS Popens,     \* 1 .. n, the Popens a client makes, one after the other
          Usages,     \* what it may do with them
          MaxFd,      \* the largest descriptor (RLIMIT_NOFILE)
          EintrLimit, \* 50, in read_atmost_n
          Interrupts  \* bound on the signals caught while one constructor reads

Fds == 0 .. MaxFd

\* Which of input{PIPE}, output{PIPE}, error{PIPE} and error{STDOUT} ("stdout") are
\* given, in the order of the arguments, the options of those names, the functions
\* that the client calls, and the descriptors it has at first.
Usage == [args : Seq({"input", "output", "error", "stdout"}), closeFds : BOOLEAN,
          deferSpawn : BOOLEAN, calls : SUBSET {"kill", "wait", "poll", "close"}, open : SUBSET Fds]

ASSUME PopensAssumption == IsFiniteSet(Popens) /\ Popens = 1 .. Cardinality(Popens)
ASSUME FdAssumption == MaxFd \in Nat
ASSUME EintrAssumption == EintrLimit \in Nat /\ Interrupts \in Nat
ASSUME UsageAssumption == Usages \subseteq Usage

Client == 0
Processes == Popens \union {Client}
None == -1

VARIABLES
    usage,   \* what the client does with its Popens
    fds,     \* descriptors of each process: [end, cloexec]
    ctor,    \* how far each Popen is: none, args, deferred, spawn, fork, forked, reading,
             \* reaping, built, failed (CalledProcessError), oserror
    pipes,   \* the pipe in each of its arguments: [read, write]
    stream,  \* its Streams' six descriptors
    files,   \* which of its Streams' FILEs are open
    exec,    \* err_rd_pipe and err_wr_pipe of execute_process
    eintr,   \* the signals its constructor's read_atmost_n has met
    child,   \* its child: none, forked, streams, running, zombie, reaped
    told,    \* has the child written to the exec pipe?
    executed,\* ghost: has it become another program?
    killed   \* has a kill() reached the child?

argVars == <<usage, pipes, stream>>
childVars == <<child, told, executed>>
popenVars == <<argVars, fds, ctor, files, exec, eintr, childVars, killed>>

NoStream == [read_from_parent |-> None, write_to_child |-> None,
             write_to_parent |-> None, read_from_child |-> None,
             err_write |-> None, err_read |-> None]

PopenInit ==
    /\ usage \in Usages
    /\ fds = [p \in Processes |->
                 IF p = Client THEN [fd \in usage.open |-> [end |-> <<Client, "file", fd>>, cloexec |-> FALSE]]
                 ELSE <<>>]
    /\ ctor = [c \in Popens |-> "none"]
    /\ pipes = [c \in Popens |-> <<>>]
    /\ stream = [c \in Popens |-> NoStream]
    /\ files = [c \in Popens |-> {}]
    /\ exec = [c \in Popens |-> [read |-> None, write |-> None]]
    /\ eintr = [c \in Popens |-> 0]
    /\ child = [c \in Popens |-> "none"]
    /\ told = [c \in Popens |-> FALSE]
    /\ executed = [c \in Popens |-> FALSE]
    /\ killed = [c \in Popens |-> FALSE]

------------------------------------------------------------------------------
(* Tables of descriptors *)

LowestFree(t) == CHOOSE fd \in Fds \ DOMAIN t : \A other \in Fds \ DOMAIN t : fd <= other

\* What calls of close for S, of which -1 is left out, make of t.
Close(t, S) == Restrict(t, DOMAIN t \ S)

\* Table t with d at fd.
Put(t, fd, d) == [x \in DOMAIN t \union {fd} |-> IF x = fd THEN d ELSE t[x]]

dup(t, fd) == Put(t, LowestFree(t), [t[fd] EXCEPT !.cloexec = FALSE])

\* Mutant of dup2: a descriptor that is in its place already keeps its flag.
dup2Plain(t, fd, to) ==
    IF fd = None THEN t ELSE IF fd = to THEN t
    ELSE Put(t, to, [t[fd] EXCEPT !.cloexec = FALSE])

\* _dup2_ of execute_child: the system's call leaves FD_CLOEXEC alone when both are
\* the same, so that it is reset by hand.
dup2(t, fd, to) ==
    IF fd = None THEN t ELSE Put(t, to, [t[fd] EXCEPT !.cloexec = FALSE])

\* pipe_cloexec, with at least two descriptors free.
WithPipe(t, c, name) ==
    LET r == LowestFree(t)
        half == Put(t, r, [end |-> <<c, name, "r">>, cloexec |-> TRUE])
        w == LowestFree(half)
    IN [table |-> Put(half, w, [end |-> <<c, name, "w">>, cloexec |-> TRUE]),
        ends |-> [read |-> r, write |-> w]]

CanOpenPipe(t) == Cardinality(Fds \ DOMAIN t) >= 2

ClientCloses(S) == fds' = [fds EXCEPT ![Client] = Close(@, S)]

Holders(end) == {p \in Processes : \E fd \in DOMAIN fds[p] : fds[p][fd].end = end}

------------------------------------------------------------------------------
(* The constructor, on the client's thread *)

Names == Range(usage.args)
Busy == \E c \in Popens : ctor[c] \in {"args", "spawn", "fork", "forked", "reading", "reaping"}

Begin(c) ==
    /\ ctor[c] = "none" /\ ~Busy
    /\ \A b \in 1 .. c - 1 : ctor[b] \in {"built", "deferred"}
    /\ ctor' = [ctor EXCEPT ![c] = "args"]
    /\ UNCHANGED <<argVars, fds, files, exec, eintr, childVars, killed>>

\* The constructors of input, output and error, in an order C++ leaves open. When
\* there is no pipe to be had, one throws, and nobody closes those there are.
OpenPipe(c, name) ==
    /\ ctor[c] = "args" /\ name \in Names \ ({"stdout"} \union DOMAIN pipes[c])
    /\ IF CanOpenPipe(fds[Client])
       THEN LET made == WithPipe(fds[Client], c, name)
            IN /\ fds' = [fds EXCEPT ![Client] = made.table]
               /\ pipes' = [pipes EXCEPT ![c] = Put(@, name, made.ends)]
               /\ UNCHANGED ctor
       ELSE ctor' = [ctor EXCEPT ![c] = "oserror"] /\ UNCHANGED <<fds, pipes>>
    /\ UNCHANGED <<usage, stream, files, exec, eintr, childVars, killed>>

\* set_option of error{STDOUT} takes write_to_parent_ as the arguments before it
\* have left it.
RedirectedError(c) ==
    IF \E i, j \in DOMAIN usage.args : i < j /\ usage.args[i] = "output" /\ usage.args[j] = "stdout"
    THEN pipes[c]["output"].write ELSE None

\* What set_option of the arguments makes of the Streams' descriptors.
set_option(c) ==
    LET end(name, side) == IF name \in Names THEN pipes[c][name][side] ELSE None
    IN stream' = [stream EXCEPT ![c] =
          [read_from_parent |-> end("input", "read"), write_to_child |-> end("input", "write"),
           write_to_parent |-> end("output", "write"), read_from_child |-> end("output", "read"),
           err_write |-> IF "stdout" \in Names THEN RedirectedError(c) ELSE end("error", "write"),
           err_read |-> end("error", "read")]]

\* The client's ends become FILEs.
setup_comm_channels(c) == files' = [files EXCEPT ![c] = DOMAIN pipes[c]]

\* The constructor, when it has its arguments. A Popen that is not deferred goes on.
InitArgs(c) ==
    /\ ctor[c] = "args" /\ Names \ {"stdout"} = DOMAIN pipes[c]
    /\ set_option(c)
    /\ setup_comm_channels(c)
    /\ ctor' = [ctor EXCEPT ![c] = IF usage.deferSpawn THEN "deferred" ELSE "spawn"]
    /\ UNCHANGED <<usage, fds, pipes, exec, eintr, childVars, killed>>

start_process(c) ==
    /\ ctor[c] = "deferred" /\ ~Busy
    /\ ctor' = [ctor EXCEPT ![c] = "spawn"]
    /\ UNCHANGED <<argVars, fds, files, exec, eintr, childVars, killed>>

\* What fclose of the FILEs in S closes.
FileFds(c, S) ==
    LET s == stream[c]
    IN {s.err_read : f \in S \intersect {"error"}}
       \union {s.read_from_child : f \in S \intersect {"output"}}
       \union {s.write_to_child : f \in S \intersect {"input"}}

\* execute_process throws after it has closed S. In a constructor the members are
\* destroyed, the FILEs with them.
Throws(c, S, how) ==
    LET files_destroyed == IF usage.deferSpawn THEN {} ELSE files[c]
    IN /\ ClientCloses(S \union FileFds(c, files_destroyed))
       /\ files' = [files EXCEPT ![c] = @ \ files_destroyed]
       /\ ctor' = [ctor EXCEPT ![c] = how]

OpenExecPipe(c) ==
    /\ ctor[c] = "spawn"
    /\ IF CanOpenPipe(fds[Client])
       THEN LET made == WithPipe(fds[Client], c, "exec")
            IN /\ fds' = [fds EXCEPT ![Client] = made.table]
               /\ exec' = [exec EXCEPT ![c] = made.ends]
               /\ ctor' = [ctor EXCEPT ![c] = "fork"]
               /\ UNCHANGED files
       ELSE Throws(c, {}, "oserror") /\ UNCHANGED exec
    /\ UNCHANGED <<argVars, eintr, childVars, killed>>

\* close_parent_fds and the exec pipe's read end are the first that the child closes.
ParentFds(c) == {stream[c].write_to_child, stream[c].read_from_child, stream[c].err_read}

Fork(c) ==
    /\ ctor[c] = "fork"
    /\ ctor' = [ctor EXCEPT ![c] = "forked"]
    /\ fds' = [fds EXCEPT ![c] = Close(fds[Client], ParentFds(c) \union {exec[c].read})]
    /\ child' = [child EXCEPT ![c] = "forked"]
    /\ UNCHANGED <<argVars, files, exec, eintr, told, executed, killed>>

ForkFails(c) ==
    /\ ctor[c] = "fork"
    /\ Throws(c, {exec[c].read, exec[c].write}, "oserror")
    /\ UNCHANGED <<argVars, exec, eintr, childVars, killed>>

\* close_child_fds and the exec pipe's write end are what the client closes, else
\* it would get stuck in reading.
ChildFds(c) == {stream[c].write_to_parent, stream[c].read_from_parent, stream[c].err_write}

\* Mutants of AfterFork: the exec pipe's write end stays open; the child's ends do.
AfterForkKeepingExec(c) ==
    /\ ctor[c] = "forked"
    /\ ctor' = [ctor EXCEPT ![c] = "reading"]
    /\ ClientCloses(ChildFds(c))
    /\ eintr' = [eintr EXCEPT ![c] = 0]
    /\ UNCHANGED <<argVars, files, exec, childVars, killed>>
AfterForkKeepingEnds(c) ==
    /\ ctor[c] = "forked"
    /\ ctor' = [ctor EXCEPT ![c] = "reading"]
    /\ ClientCloses({exec[c].write})
    /\ eintr' = [eintr EXCEPT ![c] = 0]
    /\ UNCHANGED <<argVars, files, exec, childVars, killed>>

AfterFork(c) ==
    /\ ctor[c] = "forked"
    /\ ctor' = [ctor EXCEPT ![c] = "reading"]
    /\ ClientCloses({exec[c].write} \union ChildFds(c))
    /\ eintr' = [eintr EXCEPT ![c] = 0]
    /\ UNCHANGED <<argVars, files, exec, childVars, killed>>

\* read_atmost_n returns at the end of the exec pipe, which is when nobody has its
\* write end any more; a message in it is the child's failure.
ReadEnds(c) ==
    /\ ctor[c] = "reading" /\ Holders(<<c, "exec", "w">>) = {}
    /\ ctor' = [ctor EXCEPT ![c] = IF told[c] THEN "reaping" ELSE "built"]
    /\ ClientCloses({exec[c].read})
    /\ UNCHANGED <<argVars, files, exec, eintr, childVars, killed>>

\* A signal is caught. After EintrLimit of them the next makes read_atmost_n return -1,
\* which the constructor takes for a message.
Interrupted(c) ==
    /\ ctor[c] = "reading" /\ eintr[c] < Interrupts
    /\ eintr' = [eintr EXCEPT ![c] = @ + 1]
    /\ IF eintr[c] >= EintrLimit
       THEN ctor' = [ctor EXCEPT ![c] = "reaping"] /\ ClientCloses({exec[c].read})
       ELSE UNCHANGED <<ctor, fds>>
    /\ UNCHANGED <<argVars, files, exec, childVars, killed>>

\* Mutant of Fails: the child is left to init.
FailsUnreaped(c) ==
    /\ ctor[c] = "reaping"
    /\ Throws(c, {}, "failed")
    /\ UNCHANGED <<argVars, exec, eintr, childVars, killed>>

\* cleanup_fds closes the parent's ends of the pipes.
CleanupFds(c) ==
    LET s == stream[c]
    IN {IF s.read_from_parent # None THEN s.write_to_child ELSE None,
        IF s.write_to_parent # None THEN s.read_from_child ELSE None,
        IF s.err_write # None THEN s.err_read ELSE None}

\* The constructor waits for the child and throws CalledProcessError.
Fails(c) ==
    /\ ctor[c] = "reaping" /\ child[c] = "zombie"
    /\ child' = [child EXCEPT ![c] = "reaped"]
    /\ Throws(c, CleanupFds(c), "failed")
    /\ UNCHANGED <<argVars, exec, eintr, told, executed, killed>>

Construct(c) ==
    \/ InitArgs(c) \/ OpenExecPipe(c) \/ Fork(c) \/ ForkFails(c)
    \/ AfterFork(c) \/ ReadEnds(c) \/ Fails(c)
    \/ \E name \in {"input", "output", "error"} : OpenPipe(c, name)

------------------------------------------------------------------------------
(* The child, until it is another program, and its end *)

\* execute_child moves descriptors that are in the way of 1 and 2, and makes the
\* streams the standard ones, which are closed where they were.
ExecuteStreams(c) ==
    LET s == stream[c]
        t0 == fds[c]
        moveOut == s.write_to_parent = 0
        out == IF moveOut THEN LowestFree(t0) ELSE s.write_to_parent
        t1 == IF moveOut THEN dup(t0, 0) ELSE t0
        moveErr == s.err_write \in {0, 1}
        err == IF moveErr THEN LowestFree(t1) ELSE s.err_write
        t2 == IF moveErr THEN dup(t1, s.err_write) ELSE t1
        t3 == dup2(dup2(dup2(t2, s.read_from_parent, 0), out, 1), err, 2)
        t4 == Close(t3, {s.read_from_parent, out, err} \ (0 .. 2))
    IN /\ child[c] = "forked"
       /\ child' = [child EXCEPT ![c] = "streams"]
       /\ fds' = [fds EXCEPT ![c] =
                     IF usage.closeFds THEN Restrict(t4, DOMAIN t4 \intersect (0 .. 2 \union {exec[c].write}))
                     ELSE t4]
       /\ UNCHANGED <<argVars, ctor, files, exec, eintr, told, executed, killed>>

\* execvp, which closes what is to be closed on it.
Exec(c) ==
    /\ child[c] = "streams"
    /\ child' = [child EXCEPT ![c] = "running"]
    /\ executed' = [executed EXCEPT ![c] = TRUE]
    /\ fds' = [fds EXCEPT ![c] = RestrictValues(@, LAMBDA d : ~d.cloexec)]
    /\ UNCHANGED <<argVars, ctor, files, exec, eintr, told, killed>>

\* A process that ends is a zombie until its parent waits for it.
Ends(c) ==
    /\ child' = [child EXCEPT ![c] = "zombie"]
    /\ fds' = [fds EXCEPT ![c] = <<>>]
    /\ UNCHANGED <<argVars, ctor, files, exec, eintr, executed, killed>>

\* execvp or a call before it fails: the message goes to what err_wr_pipe_ is now.
ExecFails(c) ==
    /\ child[c] = "streams"
    /\ told' = [told EXCEPT ![c] =
                   /\ exec[c].write \in DOMAIN fds[c]
                   /\ fds[c][exec[c].write].end = <<c, "exec", "w">>]
    /\ Ends(c)

\* What the program does is its own matter; SIGKILL ends it.
Exits(c) == child[c] = "running" /\ UNCHANGED told /\ Ends(c)
Dies(c) == killed[c] /\ Exits(c)

ChildStarts(c) == ExecuteStreams(c) \/ Exec(c) \/ ExecFails(c)

------------------------------------------------------------------------------
(* Calls of a client that has its Popens *)

Usable(c) == ctor[c] \in {"built", "deferred"} /\ ~Busy
Created == {c \in Popens : child[c] # "none"}

\* close_input, close_output, close_error and, for all three, the destructor.
CloseFile(c, file) ==
    /\ Usable(c) /\ file \in files[c]
    /\ files' = [files EXCEPT ![c] = @ \ {file}]
    /\ ClientCloses(FileFds(c, {file}))
    /\ UNCHANGED <<argVars, ctor, exec, eintr, childVars, killed>>

\* The processes that the system takes child_pid_ to mean: it is -1 while there is
\* no child, which to kill and to waitpid is every one.
Target(c) == IF c \in Created THEN {c} ELSE Created

kill(c) ==
    /\ Usable(c)
    /\ killed' = [d \in Popens |-> killed[d] \/ (d \in Target(c) /\ child[d] # "reaped")]
    /\ UNCHANGED <<argVars, fds, ctor, files, exec, eintr, childVars>>

\* A waitpid, which blocks until it has found a zombie or there is no child (ECHILD).
Reaps(S) ==
    /\ IF \A d \in S : child[d] = "reaped" THEN UNCHANGED child
       ELSE \E d \in S : child[d] = "zombie" /\ child' = [child EXCEPT ![d] = "reaped"]
    /\ UNCHANGED <<argVars, fds, ctor, files, exec, eintr, told, executed, killed>>

wait(c) == Usable(c) /\ Reaps(Target(c))

\* Mutant of poll: a child that was killed is left alone.
pollUnkilled(c) == Usable(c) /\ c \in Created /\ ~killed[c] /\ Reaps({c})

\* poll, when the child is not running, and the end of communicate.
poll(c) == Usable(c) /\ c \in Created /\ Reaps({c})

ClientCalls(c) ==
    \/ start_process(c)
    \/ "kill" \in usage.calls /\ kill(c)
    \/ "wait" \in usage.calls /\ wait(c)
    \/ "poll" \in usage.calls /\ poll(c)
    \/ "close" \in usage.calls /\ \E file \in {"input", "output", "error"} : CloseFile(c, file)

------------------------------------------------------------------------------
PopenNext ==
    \E c \in Popens :
        \/ Begin(c) \/ Construct(c) \/ Interrupted(c) \/ ClientCalls(c)
        \/ ChildStarts(c) \/ Exits(c)

\* The client's thread and the children run on; a signal need not come. A client that
\* has killed a child looks after it with poll.
Fairness ==
    \A c \in Popens : /\ WF_popenVars(Construct(c))
                      /\ WF_popenVars(ChildStarts(c))
                      /\ WF_popenVars(Dies(c))
                      /\ WF_popenVars("poll" \in usage.calls /\ poll(c))

PopenSpec == PopenInit /\ [][PopenNext]_popenVars /\ Fairness

------------------------------------------------------------------------------
(* Properties *)

\* The pipe ends a child should have, and where.
OwnEnds(c) ==
    {own \in {<<0, <<c, "input", "r">>>>, <<1, <<c, "output", "w">>>>, <<2, <<c, "error", "w">>>>} :
        own[2][2] \in Names}
    \union {<<2, <<c, "output", "w">>>> : name \in Names \intersect {"stdout"}}

\* What QemuSystem asks for, whichever descriptors are open; or, when the standard
\* ones are, an error stream as well, of its own or the output given before it, or a
\* start that is deferred, of a client that closes nothing.
Plain(u) ==
    LET names == Range(u.args)
    IN /\ "error" \in names \/ "stdout" \in names \/ u.deferSpawn => 0 .. 2 \subseteq u.open
       /\ "stdout" \in names =>
             /\ "error" \notin names
             /\ \E i, j \in DOMAIN u.args : i < j /\ u.args[i] = "output" /\ u.args[j] = "stdout"
       /\ u.deferSpawn => "close" \notin u.calls

\* Subprocess.hpp:1731: the "child owned descriptors" are made "the stdin, stdout
\* and stderr for the child process", whichever descriptors the client had free and
\* in whichever order the pipes were made, and a child has no other pipe's end,
\* neither its parent's nor of another Popen.
ChildStreams ==
    \A c \in Popens : child[c] = "running" =>
        {<<fd, fds[c][fd].end>> : fd \in {f \in DOMAIN fds[c] : fds[c][f].end[2] # "file"}} = OwnEnds(c)

\* When no child is about to execute, the ends of the pipes of a Popen are each with
\* one process, so that each side sees the other go: the client has those of the
\* FILEs it has not closed, the child at most its own, and nobody the exec pipe.
EndsArePrivate ==
    (~Busy /\ \A c \in Popens : child[c] \notin {"forked", "streams"}) =>
        \A c \in {b \in Popens : ctor[b] = "built"} :
            /\ \A side \in {"r", "w"} : Holders(<<c, "exec", side>>) = {}
            /\ \A name \in {"input", "output", "error"} :
                  LET clientSide == IF name = "input" THEN "w" ELSE "r"
                      childSide == IF name = "input" THEN "r" ELSE "w"
                  IN /\ Holders(<<c, name, clientSide>>) = (IF name \in files[c] THEN {Client} ELSE {})
                     /\ Holders(<<c, name, childSide>>) \subseteq {c}

\* The constructor has returned -1 from its read, before the end of the exec pipe.
GaveUp(c) == eintr[c] > EintrLimit

\* The constructor returns of a child that has executed, and throws
\* CalledProcessError of one that has not, of which then neither a descriptor nor a
\* zombie is left with the client. Only after too many signals does it treat a child
\* that executes as one that cannot; then too it leaves nothing.
ConstructorTells ==
    \A c \in Popens :
        /\ ctor[c] = "built" => executed[c]
        /\ ctor[c] \in {"reaping", "failed"} /\ ~GaveUp(c) => ~executed[c]
        /\ ctor[c] = "failed" => /\ child[c] = "reaped"
                                /\ \A fd \in DOMAIN fds[Client] : fds[Client][fd].end[1] # c

\* The constructor waits for the end of a program, which is its own matter: where
\* giving up leads when the child has executed or does so yet.
WaitsForProgram(c) == ctor[c] = "reaping" /\ child[c] = "running"
NobodyStuck == \A c \in Popens : []<>~WaitsForProgram(c)

\* The constructor and start_process end, whatever becomes of the child and however
\* often they are interrupted, unless one waits for a program that does not end.
ConstructorReturns ==
    NobodyStuck =>
        \A c \in Popens : ctor[c] \in {"spawn", "fork", "forked", "reading", "reaping"} ~>
                          ctor[c] \in {"built", "failed", "oserror"}

\* Subprocess.hpp:1283: after kill the "caller is expected to recheck the status
\* with a call to poll()", and then the child has gone; if the caller gets there.
KilledIsReaped == NobodyStuck => \A c \in Popens : killed[c] ~> child[c] = "reaped"

=============================================================================
