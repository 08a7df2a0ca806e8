----------------------------- MODULE PopenProofs -----------------------------
(***************************************************************************)
(* Which process has which end of which pipe, for any number of Popens,    *)
(* any descriptors the client has at first and any limit on them: what a   *)
(* child's streams are, that ends are private, and what a constructor      *)
(* tells, of the uses that Plain describes.                                *)
(***************************************************************************)
EXTENDS Popen, FiniteSetTheorems, WellFoundedInduction, TLAPS

PlainUsages == \A u \in Usages : Plain(u)

PipeNames == {"input", "output", "error"}
EndNames == PipeNames \union {"exec"}
Sides == {"r", "w"}

\* The client's side of a pipe and the child's.
Mine(n) == IF n = "input" THEN "w" ELSE "r"
Its(n) == IF n = "input" THEN "r" ELSE "w"

Pipe == [read : Fds, write : Fds]
Side(e, s) == IF s = "r" THEN e.read ELSE e.write

PopenTypeOK ==
    /\ usage \in Usages
    /\ DOMAIN fds = Processes
    /\ ctor \in [Popens -> {"none", "args", "deferred", "spawn", "fork", "forked", "reading", "reaping",
                            "built", "failed", "oserror"}]
    /\ DOMAIN pipes = Popens
    /\ \A c \in Popens : /\ DOMAIN pipes[c] \subseteq PipeNames
                         /\ \A n \in DOMAIN pipes[c] : pipes[c][n] \in Pipe
    /\ DOMAIN stream = Popens
    /\ files \in [Popens -> SUBSET PipeNames]
    /\ exec \in [Popens -> [read : Fds \union {None}, write : Fds \union {None}]]
    /\ eintr \in [Popens -> Nat]
    /\ child \in [Popens -> {"none", "forked", "streams", "running", "zombie", "reaped"}]
    /\ told \in [Popens -> BOOLEAN]
    /\ executed \in [Popens -> BOOLEAN]
    /\ killed \in [Popens -> BOOLEAN]

\* The descriptor of an end that the client has.
Where(c, n, s) == IF n = "exec" THEN Side(exec[c], s) ELSE Side(pipes[c][n], s)

\* The ends of the pipes of c that the client has at this point of the constructor; of
\* those that an OSError has left, some.
Has(c, n, s) ==
    IF n = "exec" THEN ctor[c] \in {"fork", "forked"} \/ (ctor[c] = "reading" /\ s = "r")
    ELSE \/ ctor[c] \in {"args", "deferred", "spawn", "fork", "forked", "oserror"} /\ n \in DOMAIN pipes[c]
         \/ ctor[c] \in {"reading", "reaping", "built"} /\ n \in files[c] /\ s = Mine(n)

PipeEnd(c, n, s) == [end |-> <<c, n, s>>, cloexec |-> TRUE]
FileOf(fd) == [end |-> <<Client, "file", fd>>, cloexec |-> FALSE]

\* What the client has at fd is a file it had at first, or an end it should have.
Placed(fd) ==
    \/ fd \in usage.open /\ fds[Client][fd] = FileOf(fd)
    \/ \E c \in Popens, n \in EndNames, s \in Sides :
          Has(c, n, s) /\ Where(c, n, s) = fd /\ fds[Client][fd] = PipeEnd(c, n, s)

\* The client has the end.
There(c, n, s) == /\ Where(c, n, s) \in DOMAIN fds[Client]
                  /\ fds[Client][Where(c, n, s)] = PipeEnd(c, n, s)

ClientTable ==
    /\ \A fd \in DOMAIN fds[Client] : Placed(fd)
    /\ \A fd \in usage.open : fd \in DOMAIN fds[Client] /\ fds[Client][fd] = FileOf(fd)
    /\ \A c \in Popens, n \in EndNames, s \in Sides :
          Has(c, n, s) /\ ctor[c] # "oserror" => There(c, n, s)

\* Pipes have taken the lowest descriptors, so that the exec pipe's write end is not
\* where a stream of the child will be.
Numbers(c) ==
    /\ \A n \in DOMAIN pipes[c] : /\ pipes[c][n].read < pipes[c][n].write
                                  /\ \A s \in Sides : Side(pipes[c][n], s) \notin usage.open
    /\ ctor[c] \in {"args", "deferred", "spawn"} /\ DOMAIN pipes[c] # {} =>
          \A a, b \in 0 .. 2 : a # b => a \in DOMAIN fds[Client] \/ b \in DOMAIN fds[Client]
    /\ ctor[c] \in {"fork", "forked", "reading", "reaping"} =>
          exec[c] \in Pipe /\ (DOMAIN pipes[c] # {} => exec[c].write > 2)

\* The descriptors of Streams, from InitArgs on.
Began == {"deferred", "spawn", "fork", "forked", "reading", "reaping", "built"}
EndOf(c, n, s) == IF n \in DOMAIN pipes[c] THEN Side(pipes[c][n], s) ELSE None
StreamsSet(c) ==
    /\ Names \ {"stdout"} = DOMAIN pipes[c]
    /\ stream[c].read_from_parent = EndOf(c, "input", "r")
    /\ stream[c].write_to_child = EndOf(c, "input", "w")
    /\ stream[c].write_to_parent = EndOf(c, "output", "w")
    /\ stream[c].read_from_child = EndOf(c, "output", "r")
    /\ stream[c].err_write = (IF "stdout" \in Names THEN EndOf(c, "output", "w") ELSE EndOf(c, "error", "w"))
    /\ stream[c].err_read = EndOf(c, "error", "r")

\* What has become of the arguments and of the child at each point of the constructor.
Stage(c) ==
    /\ ctor[c] = "none" => DOMAIN pipes[c] = {}
    /\ ctor[c] \in Began => StreamsSet(c)
    /\ ctor[c] \in Began \ {"built"} => files[c] = DOMAIN pipes[c]
    /\ files[c] \subseteq DOMAIN pipes[c]
    /\ ctor[c] = "deferred" => usage.deferSpawn
    /\ ctor[c] \in {"none", "args", "deferred", "spawn", "fork", "oserror"} => child[c] = "none"
    /\ ctor[c] \in {"forked", "reading", "reaping", "built", "failed"} => child[c] # "none"
    /\ ctor[c] = "built" => executed[c]
    /\ ctor[c] = "failed" => child[c] = "reaped"
    /\ ctor[c] \in {"reaping", "failed"} /\ eintr[c] <= EintrLimit => told[c]

BusyStages == {"args", "spawn", "fork", "forked", "reading", "reaping"}
OneBusy == \A c, d \in Popens : ctor[c] \in BusyStages /\ ctor[d] \in BusyStages => c = d

\* A child that has not executed holds the exec pipe.
ExecHeld(c) == exec[c].write \in DOMAIN fds[c] /\ fds[c][exec[c].write].end = <<c, "exec", "w">>

\* What a child keeps when it executes: files and its own ends, all of them.
OwnOnly(c) == \A fd \in DOMAIN fds[c] :
    fds[c][fd].cloexec \/ fds[c][fd].end[2] = "file" \/ <<fd, fds[c][fd].end>> \in OwnEnds(c)
OwnThere(c) == \A own \in OwnEnds(c) :
    own[1] \in DOMAIN fds[c] /\ fds[c][own[1]].end = own[2] /\ ~fds[c][own[1]].cloexec

Inherits(c) ==
    /\ \A fd \in DOMAIN fds[c] : fds[c][fd].cloexec \/ fds[c][fd].end[2] = "file"
    /\ \A n \in DOMAIN pipes[c] : /\ Where(c, n, Its(n)) \in DOMAIN fds[c]
                                  /\ fds[c][Where(c, n, Its(n))] = PipeEnd(c, n, Its(n))

ChildTable(c) ==
    /\ child[c] \in {"none", "zombie", "reaped"} => DOMAIN fds[c] = {}
    /\ child[c] \in {"forked", "streams"} => ExecHeld(c)
    /\ child[c] = "forked" => Inherits(c)
    /\ child[c] \in {"streams", "running"} => OwnOnly(c) /\ OwnThere(c)
    /\ child[c] = "running" => \A fd \in DOMAIN fds[c] : ~fds[c][fd].cloexec

\* A child executes or tells that it could not, and never both.
ToldOrExecuted(c) ==
    /\ told[c] => ~executed[c]
    /\ child[c] \in {"none", "forked", "streams"} => ~told[c] /\ ~executed[c]
    /\ child[c] \in {"running", "zombie", "reaped"} => told[c] \/ executed[c]

PopenInv ==
    /\ PopenTypeOK
    /\ ClientTable
    /\ OneBusy
    /\ \A c \in Popens : Numbers(c) /\ Stage(c) /\ ChildTable(c) /\ ToldOrExecuted(c)

------------------------------------------------------------------------------
(* Tables *)

LEMMA PopensAreNat == Popens \subseteq Nat \ {0} /\ Client \notin Popens
<1>1. Cardinality(Popens) \in Nat
  BY PopensAssumption, FS_CardinalityType
<1>2. PICK n \in Nat : n = Cardinality(Popens)
  BY <1>1
<1>3. Popens = 1 .. n
  BY <1>2, PopensAssumption
<1> QED
  BY <1>3 DEF Client

LEMMA Smallest ==
    ASSUME NEW S \in SUBSET Nat, S # {}
    PROVE  \E x \in S : \A y \in S : x <= y
<1> DEFINE R == OpToRel(<, Nat)
<1>0. IsWellFoundedOn(R, Nat)
  BY NatLessThanWellFounded
<1>1. PICK x \in S : \A y \in S : ~ (<<y, x>> \in R)
  <2> HIDE DEF R
  <2> QED BY <1>0, WFMin
<1>2. \A y \in S : ~(y < x)
  <2>1. \A y \in S : y < x => <<y, x>> \in R
    BY DEF OpToRel
  <2> QED
    BY <2>1, <1>1
<1>3. \A a, b \in Nat : ~(a < b) => b <= a
  OBVIOUS
<1> QED
  BY <1>1, <1>2, <1>3

\* The lowest free descriptor is one, when there is one.
LEMMA Lowest ==
    ASSUME NEW t, Fds \ DOMAIN t # {}
    PROVE  /\ LowestFree(t) \in Fds \ DOMAIN t
           /\ \A other \in Fds \ DOMAIN t : LowestFree(t) <= other
<1>1. \E fd \in Fds \ DOMAIN t : \A other \in Fds \ DOMAIN t : fd <= other
  <2>1. Fds \ DOMAIN t \in SUBSET Nat
    BY FdAssumption DEF Fds
  <2> QED
    BY <2>1, Smallest
<1> QED
  BY <1>1 DEF LowestFree

LEMMA TwoFree ==
    ASSUME NEW t, CanOpenPipe(t)
    PROVE  \E a, b \in Fds \ DOMAIN t : a # b
<1>1. IsFiniteSet(Fds \ DOMAIN t)
  <2>1. IsFiniteSet(Fds)
    BY FS_Interval, FdAssumption DEF Fds
  <2> QED
    BY <2>1, FS_Subset
<1>2. Fds \ DOMAIN t # {}
  BY FS_EmptySet DEF CanOpenPipe
<1>3. PICK a : a \in Fds \ DOMAIN t
  BY <1>2
<1>4. SUFFICES ASSUME Fds \ DOMAIN t = {a} PROVE FALSE
  BY <1>3
<1>5. Cardinality(Fds \ DOMAIN t) = 1
  BY <1>4, FS_Singleton
<1> QED
  BY <1>5 DEF CanOpenPipe

\* Table u is t with a new pipe in its two lowest free descriptors.
Opened(t, u, c, n, r, w) ==
    /\ r \in Fds \ DOMAIN t /\ w \in Fds \ DOMAIN t /\ r < w
    /\ DOMAIN u = DOMAIN t \union {r, w}
    /\ u[r] = PipeEnd(c, n, "r") /\ u[w] = PipeEnd(c, n, "w")
    /\ \A fd \in DOMAIN t : u[fd] = t[fd]
    /\ \A fd \in Fds \ DOMAIN t : r <= fd /\ (fd = r \/ w <= fd)

LEMMA PipeMade ==
    ASSUME NEW t, NEW c, NEW n, CanOpenPipe(t)
    PROVE  \E u, r, w : /\ WithPipe(t, c, n) = [table |-> u, ends |-> [read |-> r, write |-> w]]
                        /\ Opened(t, u, c, n, r, w)
<1> DEFINE half == Put(t, LowestFree(t), [end |-> <<c, n, "r">>, cloexec |-> TRUE])
<1>1. PICK r, w, u :
         /\ r = LowestFree(t) /\ w = LowestFree(half)
         /\ u = Put(half, LowestFree(half), [end |-> <<c, n, "w">>, cloexec |-> TRUE])
         /\ WithPipe(t, c, n) = [table |-> u, ends |-> [read |-> r, write |-> w]]
  BY DEF WithPipe
<1>2. PICK a, b \in Fds \ DOMAIN t : a # b
  BY TwoFree
<1>3. r \in Fds \ DOMAIN t /\ \A fd \in Fds \ DOMAIN t : r <= fd
  BY <1>1, <1>2, Lowest
<1>4. DOMAIN half = DOMAIN t \union {r} /\ half[r] = PipeEnd(c, n, "r") /\ \A fd \in DOMAIN t : half[fd] = t[fd]
  BY <1>1, <1>3 DEF Put, PipeEnd
<1> HIDE DEF half
<1>5. Fds \ DOMAIN half # {}
  BY <1>2, <1>4
<1>6. w \in Fds \ DOMAIN half /\ \A fd \in Fds \ DOMAIN half : w <= fd
  BY <1>1, <1>5, Lowest
<1>7. DOMAIN u = DOMAIN half \union {w} /\ u[w] = PipeEnd(c, n, "w") /\ \A fd \in DOMAIN half : u[fd] = half[fd]
  BY <1>1, <1>6 DEF Put, PipeEnd
<1>8. r < w
  <2>1. r \in Nat /\ w \in Nat /\ r <= w /\ r # w
    BY <1>3, <1>4, <1>6, FdAssumption DEF Fds
  <2> QED
    BY <2>1
<1>9. r \in Fds \ DOMAIN t /\ w \in Fds \ DOMAIN t
  BY <1>3, <1>4, <1>6
<1>10. /\ DOMAIN u = DOMAIN t \union {r, w}
       /\ u[r] = PipeEnd(c, n, "r") /\ u[w] = PipeEnd(c, n, "w")
       /\ \A fd \in DOMAIN t : u[fd] = t[fd]
  BY <1>4, <1>7
<1>11. \A fd \in Fds \ DOMAIN t : r <= fd /\ (fd = r \/ w <= fd)
  BY <1>3, <1>4, <1>6
<1>12. WithPipe(t, c, n) = [table |-> u, ends |-> [read |-> r, write |-> w]]
  BY <1>1
<1>13. Opened(t, u, c, n, r, w)
  BY <1>8, <1>9, <1>10, <1>11 DEF Opened
<1> QED
  BY <1>12, <1>13

------------------------------------------------------------------------------
(* The client's table *)

LEMMA WhereIsFd ==
    ASSUME PopenInv, NEW c \in Popens, NEW n \in EndNames, NEW s \in Sides, Has(c, n, s)
    PROVE  Where(c, n, s) \in Fds
<1>1. CASE n = "exec"
  <2>1. exec[c] \in Pipe
    BY <1>1 DEF Has, PopenInv, Numbers
  <2> QED
    BY <1>1, <2>1 DEF Where, Side, Pipe
<1>2. CASE n # "exec"
  <2>1. n \in DOMAIN pipes[c]
    BY <1>2 DEF Has, PopenInv, Stage
  <2>2. pipes[c][n] \in Pipe
    BY <2>1 DEF PopenInv, PopenTypeOK
  <2> QED
    BY <1>2, <2>2 DEF Where, Side, Pipe
<1> QED
  BY <1>1, <1>2

LEMMA FilesAreFds == ASSUME PopenInv PROVE usage.open \subseteq Fds
BY UsageAssumption DEF PopenInv, PopenTypeOK, Usage

\* Two ends are not at one descriptor, and no end is where a file is.
LEMMA Distinct ==
    ASSUME PopenInv,
           NEW b \in Popens, NEW m \in EndNames, NEW q \in Sides, Has(b, m, q), ctor[b] # "oserror",
           NEW c \in Popens, NEW n \in EndNames, NEW s \in Sides, Has(c, n, s), ctor[c] # "oserror",
           Where(b, m, q) = Where(c, n, s)
    PROVE  b = c /\ m = n /\ q = s
<1>1. There(b, m, q) /\ There(c, n, s)
  BY DEF PopenInv, ClientTable
<1>2. PipeEnd(b, m, q).end = PipeEnd(c, n, s).end
  BY <1>1 DEF There
<1> QED
  BY <1>2 DEF PipeEnd

LEMMA NoFileThere ==
    ASSUME PopenInv,
           NEW c \in Popens, NEW n \in EndNames, NEW s \in Sides, Has(c, n, s), ctor[c] # "oserror"
    PROVE  Where(c, n, s) \notin usage.open
<1> SUFFICES ASSUME Where(c, n, s) \in usage.open PROVE FALSE
  OBVIOUS
<1>1. PipeEnd(c, n, s).end = FileOf(Where(c, n, s)).end
  BY DEF PopenInv, ClientTable, There
<1>2. c = Client
  BY <1>1 DEF PipeEnd, FileOf
<1> QED
  BY <1>2, PopensAreNat

\* A step after which the client has what it had.
LEMMA TableKept ==
    ASSUME PopenInv, fds'[Client] = fds[Client], UNCHANGED usage,
           \A b \in Popens, n \in EndNames, s \in Sides :
              /\ Has(b, n, s)' <=> Has(b, n, s)
              /\ Has(b, n, s) => Where(b, n, s)' = Where(b, n, s),
           \A b \in Popens : ctor[b] = "oserror" => ctor'[b] = "oserror"
    PROVE  ClientTable'
<1>1. ASSUME NEW fd \in DOMAIN fds[Client]
      PROVE  Placed(fd)'
  <2>1. Placed(fd)
    BY DEF PopenInv, ClientTable
  <2>2. CASE fd \in usage.open /\ fds[Client][fd] = FileOf(fd)
    BY <2>2 DEF Placed, FileOf
  <2>3. ASSUME NEW b \in Popens, NEW n \in EndNames, NEW s \in Sides,
               Has(b, n, s), Where(b, n, s) = fd, fds[Client][fd] = PipeEnd(b, n, s)
        PROVE  Placed(fd)'
    <3>1. Has(b, n, s)' /\ Where(b, n, s)' = fd /\ fds'[Client][fd] = PipeEnd(b, n, s)
      BY <2>3
    <3> QED
      BY <3>1 DEF Placed, PipeEnd
  <2> QED
    BY <2>1, <2>2, <2>3 DEF Placed
<1>2. \A fd \in usage.open : fd \in DOMAIN fds[Client] /\ fds[Client][fd] = FileOf(fd)
  BY DEF PopenInv, ClientTable
<1>3. ASSUME NEW b \in Popens, NEW n \in EndNames, NEW s \in Sides,
             Has(b, n, s)', ctor'[b] # "oserror"
      PROVE  There(b, n, s)'
  <2>1. There(b, n, s) /\ Where(b, n, s)' = Where(b, n, s)
    BY <1>3 DEF PopenInv, ClientTable
  <2> QED
    BY <2>1 DEF There, PipeEnd
<1> QED
  BY <1>1, <1>2, <1>3 DEF ClientTable, FileOf

\* A step in which c's constructor or the client closes ends of c.
LEMMA TableCloses ==
    ASSUME PopenInv, NEW c \in Popens, NEW S, ctor[c] # "oserror",
           fds'[Client] = Close(fds[Client], S), UNCHANGED <<usage, pipes, exec>>,
           \A b \in Popens \ {c} : UNCHANGED <<ctor[b], files[b]>>,
           \A fd \in S : fd = None \/ \E n \in EndNames, s \in Sides : Has(c, n, s) /\ fd = Where(c, n, s),
           \A n \in EndNames, s \in Sides :
              /\ Has(c, n, s) /\ Where(c, n, s) \notin S => Has(c, n, s)'
              /\ Has(c, n, s)' /\ ctor'[c] # "oserror" => Has(c, n, s) /\ Where(c, n, s) \notin S
    PROVE  ClientTable'
<1>1. DOMAIN fds'[Client] = DOMAIN fds[Client] \ S
      /\ \A fd \in DOMAIN fds'[Client] : fds'[Client][fd] = fds[Client][fd]
  BY DEF Close, Restrict
<1>2. \A b \in Popens \ {c}, n \in EndNames, s \in Sides : Has(b, n, s)' <=> Has(b, n, s)
  BY DEF Has
<1>3. \A b \in Popens, n \in EndNames, s \in Sides : Where(b, n, s)' = Where(b, n, s)
  BY DEF Where, Side
<1>4. ASSUME NEW fd \in DOMAIN fds'[Client]
      PROVE  Placed(fd)'
  <2>1. fd \in DOMAIN fds[Client] /\ fd \notin S /\ fds'[Client][fd] = fds[Client][fd]
    BY <1>1
  <2>2. Placed(fd)
    BY <2>1 DEF PopenInv, ClientTable
  <2>3. CASE fd \in usage.open /\ fds[Client][fd] = FileOf(fd)
    BY <2>1, <2>3 DEF Placed, FileOf
  <2>4. ASSUME NEW b \in Popens, NEW n \in EndNames, NEW s \in Sides,
               Has(b, n, s), Where(b, n, s) = fd, fds[Client][fd] = PipeEnd(b, n, s)
        PROVE  Placed(fd)'
    <3>1. Has(b, n, s)'
      BY <1>2, <2>1, <2>4
    <3> QED
      BY <1>3, <2>1, <2>4, <3>1 DEF Placed, PipeEnd
  <2> QED
    BY <2>2, <2>3, <2>4 DEF Placed
<1>5. ASSUME NEW fd \in usage.open
      PROVE  fd \in DOMAIN fds'[Client] /\ fds'[Client][fd] = FileOf(fd)
  <2>1. fd \in DOMAIN fds[Client] /\ fds[Client][fd] = FileOf(fd)
    BY DEF PopenInv, ClientTable
  <2>2. fd \notin S
    <3>1. fd # None
      BY FilesAreFds, FdAssumption DEF Fds, None
    <3> QED
      BY <3>1, NoFileThere
  <2> QED
    BY <1>1, <2>1, <2>2
<1>6. ASSUME NEW b \in Popens, NEW n \in EndNames, NEW s \in Sides,
             Has(b, n, s)', ctor'[b] # "oserror"
      PROVE  There(b, n, s)'
  <2>1. Has(b, n, s) /\ ctor[b] # "oserror"
    BY <1>2, <1>6
  <2>2. There(b, n, s)
    BY <2>1 DEF PopenInv, ClientTable
  <2>3. Where(b, n, s) \notin S
    <3>1. CASE b = c
      BY <1>6, <3>1
    <3>2. CASE b # c
      <4>1. Where(b, n, s) # None
        BY <2>1, WhereIsFd, FdAssumption DEF Fds, None
      <4> QED
        BY <2>1, <3>2, <4>1, Distinct
    <3> QED
      BY <3>1, <3>2
  <2> QED
    BY <1>1, <1>3, <2>2, <2>3 DEF There, PipeEnd
<1> QED
  BY <1>4, <1>5, <1>6 DEF ClientTable, FileOf

\* A step in which the client opens a pipe of c.
LEMMA TableOpens ==
    ASSUME PopenInv, NEW c \in Popens, NEW name \in EndNames,
           NEW r \in Fds \ DOMAIN fds[Client], NEW w \in Fds \ DOMAIN fds[Client], r # w,
           DOMAIN fds'[Client] = DOMAIN fds[Client] \union {r, w},
           fds'[Client][r] = PipeEnd(c, name, "r"), fds'[Client][w] = PipeEnd(c, name, "w"),
           \A fd \in DOMAIN fds[Client] : fds'[Client][fd] = fds[Client][fd],
           UNCHANGED usage,
           Where(c, name, "r")' = r, Where(c, name, "w")' = w,
           \A s \in Sides : ~Has(c, name, s) /\ Has(c, name, s)',
           \A b \in Popens, n \in EndNames, s \in Sides : b # c \/ n # name =>
              /\ Has(b, n, s)' <=> Has(b, n, s)
              /\ Has(b, n, s) => Where(b, n, s)' = Where(b, n, s),
           \A b \in Popens : ctor[b] = "oserror" => ctor'[b] = "oserror"
    PROVE  ClientTable'
<1>1. ASSUME NEW fd \in DOMAIN fds'[Client]
      PROVE  Placed(fd)'
  <2>1. CASE fd \in {r, w}
    <3>1. PICK s \in Sides : fd = Where(c, name, s)' /\ fds'[Client][fd] = PipeEnd(c, name, s)
      BY <2>1 DEF Sides
    <3> QED
      BY <3>1 DEF Placed, PipeEnd
  <2>2. CASE fd \in DOMAIN fds[Client]
    <3>1. Placed(fd) /\ fds'[Client][fd] = fds[Client][fd]
      BY <2>2 DEF PopenInv, ClientTable
    <3>2. ASSUME NEW b \in Popens, NEW n \in EndNames, NEW s \in Sides,
                 Has(b, n, s), Where(b, n, s) = fd, fds[Client][fd] = PipeEnd(b, n, s)
          PROVE  Placed(fd)'
      <4>1. b # c \/ n # name
        BY <3>2
      <4>2. Has(b, n, s)' /\ Where(b, n, s)' = fd /\ fds'[Client][fd] = PipeEnd(b, n, s)
        BY <3>1, <3>2, <4>1
      <4> QED
        BY <4>2 DEF Placed, PipeEnd
    <3>3. CASE fd \in usage.open /\ fds[Client][fd] = FileOf(fd)
      BY <3>1, <3>3 DEF Placed, FileOf
    <3> QED
      BY <3>1, <3>2, <3>3 DEF Placed
  <2> QED
    BY <2>1, <2>2
<1>2. \A fd \in usage.open : fd \in DOMAIN fds'[Client] /\ fds'[Client][fd] = FileOf(fd)
  BY DEF PopenInv, ClientTable
<1>3. ASSUME NEW b \in Popens, NEW n \in EndNames, NEW s \in Sides,
             Has(b, n, s)', ctor'[b] # "oserror"
      PROVE  There(b, n, s)'
  <2>1. CASE b = c /\ n = name
    BY <2>1 DEF There, Sides, PipeEnd
  <2>2. CASE b # c \/ n # name
    <3>1. Has(b, n, s) /\ There(b, n, s) /\ Where(b, n, s)' = Where(b, n, s)
      BY <1>3, <2>2 DEF PopenInv, ClientTable
    <3> QED
      BY <3>1 DEF There, PipeEnd
  <2> QED
    BY <2>1, <2>2
<1> QED
  BY <1>1, <1>2, <1>3 DEF ClientTable, FileOf

------------------------------------------------------------------------------
(* Steps of one Popen *)

\* What decides about a Popen, besides the client's table.
PopenVars(c) == <<fds[c], ctor[c], pipes[c], stream[c], files[c], exec[c], eintr[c], child[c], told[c],
                  executed[c]>>

LEMMA StandardOpen ==
    ASSUME PopenInv, PlainUsages,
           usage.deferSpawn \/ "error" \in Names \/ "stdout" \in Names
    PROVE  0 .. 2 \subseteq usage.open
BY DEF PopenInv, PopenTypeOK, PlainUsages, Plain, Names

\* A step that leaves a child and what it holds alone keeps its table.
LEMMA ChildTableKept ==
    ASSUME NEW c, ChildTable(c), usage' = usage, fds'[c] = fds[c], pipes'[c] = pipes[c],
           exec'[c] = exec[c], child'[c] = child[c]
    PROVE  ChildTable(c)'
<1>1. OwnEnds(c)' = OwnEnds(c)
  BY DEF OwnEnds, Names
<1>2. ExecHeld(c) => ExecHeld(c)'
  BY DEF ExecHeld
<1>3. \A n : Where(c, n, Its(n))' = Where(c, n, Its(n))
  BY DEF Where, Side
<1>4. Inherits(c) => Inherits(c)'
  BY <1>3 DEF Inherits, PipeEnd
<1>5. (OwnOnly(c) => OwnOnly(c)') /\ (OwnThere(c) => OwnThere(c)')
  BY <1>1 DEF OwnOnly, OwnThere
<1> QED
  BY <1>2, <1>4, <1>5 DEF ChildTable

\* A Popen of which nothing changes.
LEMMA OneKept ==
    ASSUME PopenInv, PlainUsages, ClientTable', UNCHANGED usage, NEW b \in Popens, UNCHANGED PopenVars(b),
           ctor[b] \in {"args", "spawn"} => DOMAIN fds[Client] \subseteq DOMAIN fds'[Client]
    PROVE  Numbers(b)' /\ Stage(b)' /\ ChildTable(b)' /\ ToldOrExecuted(b)'
<1>0. Numbers(b) /\ Stage(b) /\ ChildTable(b) /\ ToldOrExecuted(b)
  BY DEF PopenInv
<1>1. Numbers(b)'
  <2>1. \A n \in DOMAIN pipes'[b] : /\ pipes'[b][n].read < pipes'[b][n].write
                                    /\ \A s \in Sides : Side(pipes'[b][n], s) \notin usage'.open
    BY <1>0 DEF Numbers, PopenVars
  <2>2. ASSUME ctor'[b] \in {"args", "deferred", "spawn"}, DOMAIN pipes'[b] # {}, NEW x \in 0 .. 2, NEW y \in 0 .. 2, x # y
        PROVE  x \in DOMAIN fds'[Client] \/ y \in DOMAIN fds'[Client]
    <3>1. CASE ctor[b] \in {"args", "spawn"}
      BY <1>0, <2>2, <3>1 DEF Numbers, PopenVars
    <3>2. CASE ctor[b] = "deferred"
      <4>1. 0 .. 2 \subseteq usage.open
        BY <1>0, <3>2, StandardOpen DEF Stage
      <4> QED
        BY <4>1 DEF ClientTable
    <3> QED
      BY <2>2, <3>1, <3>2 DEF PopenVars
  <2>3. ctor'[b] \in {"fork", "forked", "reading", "reaping"} =>
          exec'[b] \in Pipe /\ (DOMAIN pipes'[b] # {} => exec'[b].write > 2)
    BY <1>0 DEF Numbers, PopenVars
  <2> QED
    BY <2>1, <2>2, <2>3 DEF Numbers, Side
<1>2. Stage(b)'
  BY <1>0 DEF Stage, StreamsSet, EndOf, Side, Names, PopenVars
<1>3. ChildTable(b)'
  BY <1>0, ChildTableKept DEF PopenVars
<1>4. ToldOrExecuted(b)'
  BY <1>0 DEF ToldOrExecuted, PopenVars
<1> QED
  BY <1>1, <1>2, <1>3, <1>4

\* A step of c leaves the other Popens alone: while c's constructor runs no other does,
\* and one that is deferred does not depend on what is free.
LEMMA StepOf ==
    ASSUME PopenInv, PlainUsages, PopenTypeOK', ClientTable', UNCHANGED usage, NEW c \in Popens,
           \A b \in Popens \ {c} : UNCHANGED PopenVars(b),
           ctor[c] \in BusyStages \/ ~Busy \/ DOMAIN fds[Client] \subseteq DOMAIN fds'[Client],
           ctor'[c] \in BusyStages => ctor[c] \in BusyStages \/ ~Busy,
           Numbers(c)', Stage(c)', ChildTable(c)', ToldOrExecuted(c)'
    PROVE  PopenInv'
<1>1. OneBusy'
  <2> SUFFICES ASSUME NEW a \in Popens, NEW b \in Popens, ctor'[a] \in BusyStages, ctor'[b] \in BusyStages, a # b
               PROVE  FALSE
    BY DEF OneBusy
  <2>1. PICK d \in Popens : d \in {a, b} /\ d # c
    OBVIOUS
  <2>2. ctor[d] \in BusyStages /\ c \in {a, b}
    BY <2>1 DEF PopenVars, PopenInv, OneBusy
  <2>3. Busy
    BY <2>2 DEF Busy, BusyStages
  <2> QED
    BY <2>1, <2>2, <2>3 DEF PopenInv, OneBusy
<1>2. ASSUME NEW b \in Popens, b # c
      PROVE  Numbers(b)' /\ Stage(b)' /\ ChildTable(b)' /\ ToldOrExecuted(b)'
  <2>1. UNCHANGED PopenVars(b)
    BY <1>2
  <2>2. ctor[b] \in {"args", "spawn"} => DOMAIN fds[Client] \subseteq DOMAIN fds'[Client]
    <3>1. ctor[b] \in {"args", "spawn"} => ctor[b] \in BusyStages /\ Busy
      BY DEF Busy, BusyStages
    <3> QED
      BY <1>2, <3>1 DEF PopenInv, OneBusy
  <2> QED
    BY <2>1, <2>2, OneKept
<1> QED
  BY <1>1, <1>2 DEF PopenInv

LEMMA PopenStart == PopenInit => PopenInv
<1> SUFFICES ASSUME PopenInit PROVE PopenInv
  OBVIOUS
<1>u. usage \in Usage
  BY UsageAssumption DEF PopenInit
<1>0. /\ DOMAIN fds[Client] = usage.open
      /\ \A fd \in usage.open : fds[Client][fd] = FileOf(fd)
      /\ \A c \in Popens : DOMAIN fds[c] = {}
  <2>1. fds[Client] = [fd \in usage.open |-> [end |-> <<Client, "file", fd>>, cloexec |-> FALSE]]
    BY DEF PopenInit, Processes
  <2>2. \A c \in Popens : fds[c] = <<>>
    BY PopensAreNat DEF PopenInit, Processes
  <2> QED
    BY <2>1, <2>2 DEF FileOf
<1>1. PopenTypeOK
  BY DEF PopenInit, PopenTypeOK, None
<1>2. \A c \in Popens, n \in EndNames, s \in Sides : ~Has(c, n, s)
  BY DEF PopenInit, Has
<1>3. ClientTable
  BY <1>0, <1>2 DEF ClientTable, Placed
<1>4. OneBusy
  BY DEF PopenInit, OneBusy, BusyStages
<1>5. \A c \in Popens : Numbers(c)
  BY DEF PopenInit, Numbers
<1>6. \A c \in Popens : Stage(c)
  BY DEF PopenInit, Stage, Began
<1>7. \A c \in Popens : ChildTable(c) /\ ToldOrExecuted(c)
  BY <1>0 DEF PopenInit, ChildTable, ToldOrExecuted
<1> QED
  BY <1>1, <1>3, <1>4, <1>5, <1>6, <1>7 DEF PopenInv

LEMMA BeginStep ==
    ASSUME PopenInv, PlainUsages, NEW c \in Popens, Begin(c)
    PROVE  PopenInv'
<1>t. PopenTypeOK
  BY DEF PopenInv
<1>0. /\ ctor[c] = "none" /\ ~Busy /\ ctor' = [ctor EXCEPT ![c] = "args"]
      /\ UNCHANGED <<usage, pipes, stream, fds, files, exec, eintr, child, told, executed, killed>>
  BY DEF Begin, argVars, childVars
<1>1. PopenTypeOK'
  BY <1>t, <1>0 DEF PopenTypeOK
<1>2. Numbers(c) /\ Stage(c) /\ ChildTable(c) /\ ToldOrExecuted(c)
  BY DEF PopenInv
<1>3. ctor'[c] = "args" /\ DOMAIN pipes[c] = {} /\ \A b \in Popens \ {c} : ctor'[b] = ctor[b]
  BY <1>t, <1>0, <1>2 DEF PopenTypeOK, Stage
<1>4. \A b \in Popens, n \in EndNames, s \in Sides :
         /\ Has(b, n, s)' <=> Has(b, n, s)
         /\ Has(b, n, s) => Where(b, n, s)' = Where(b, n, s)
  <2>1. \A n \in EndNames, s \in Sides : ~Has(c, n, s) /\ ~Has(c, n, s)'
    BY <1>0, <1>3 DEF Has
  <2>2. \A b \in Popens \ {c}, n \in EndNames, s \in Sides : Has(b, n, s)' <=> Has(b, n, s)
    BY <1>0, <1>3 DEF Has
  <2>3. \A b \in Popens, n \in EndNames, s \in Sides : Where(b, n, s)' = Where(b, n, s)
    BY <1>0 DEF Where, Side
  <2> QED
    BY <2>1, <2>2, <2>3
<1>5. ClientTable'
  <2>1. \A b \in Popens : ctor[b] = "oserror" => ctor'[b] = "oserror"
    BY <1>0, <1>3
  <2> QED
    BY <1>0, <1>4, <2>1, TableKept
<1>6. Numbers(c)' /\ Stage(c)'
  BY <1>0, <1>2, <1>3 DEF Numbers, Stage, Began, Side
<1>7. ChildTable(c)' /\ ToldOrExecuted(c)'
  BY <1>0, <1>2 DEF ChildTable, ToldOrExecuted, Stage
<1>8. \A b \in Popens \ {c} : UNCHANGED PopenVars(b)
  BY <1>0, <1>3 DEF PopenVars
<1> QED
  BY <1>0, <1>1, <1>5, <1>6, <1>7, <1>8, StepOf

LEMMA StartStep ==
    ASSUME PopenInv, PlainUsages, NEW c \in Popens, start_process(c)
    PROVE  PopenInv'
<1>t. PopenTypeOK
  BY DEF PopenInv
<1>0. /\ ctor[c] = "deferred" /\ ~Busy /\ ctor' = [ctor EXCEPT ![c] = "spawn"]
      /\ UNCHANGED <<usage, pipes, stream, fds, files, exec, eintr, child, told, executed, killed>>
  BY DEF start_process, argVars, childVars
<1>1. PopenTypeOK'
  BY <1>t, <1>0 DEF PopenTypeOK
<1>2. Numbers(c) /\ Stage(c) /\ ChildTable(c) /\ ToldOrExecuted(c)
  BY DEF PopenInv
<1>3. ctor'[c] = "spawn" /\ \A b \in Popens \ {c} : ctor'[b] = ctor[b]
  BY <1>t, <1>0 DEF PopenTypeOK
<1>4. \A b \in Popens, n \in EndNames, s \in Sides :
         /\ Has(b, n, s)' <=> Has(b, n, s)
         /\ Has(b, n, s) => Where(b, n, s)' = Where(b, n, s)
  <2>1. \A n \in EndNames, s \in Sides : Has(c, n, s)' <=> Has(c, n, s)
    BY <1>0, <1>3 DEF Has
  <2>2. \A b \in Popens \ {c}, n \in EndNames, s \in Sides : Has(b, n, s)' <=> Has(b, n, s)
    BY <1>0, <1>3 DEF Has
  <2>3. \A b \in Popens, n \in EndNames, s \in Sides : Where(b, n, s)' = Where(b, n, s)
    BY <1>0 DEF Where, Side
  <2> QED
    BY <2>1, <2>2, <2>3
<1>5. ClientTable'
  <2>1. \A b \in Popens : ctor[b] = "oserror" => ctor'[b] = "oserror"
    BY <1>0, <1>3
  <2> QED
    BY <1>0, <1>4, <2>1, TableKept
<1>6. Numbers(c)'
  BY <1>0, <1>2, <1>3 DEF Numbers, Side
<1>9. Stage(c)'
  BY <1>0, <1>2, <1>3 DEF Stage, Began, StreamsSet, EndOf, Side, Names
<1>7. ChildTable(c)' /\ ToldOrExecuted(c)'
  BY <1>0, <1>2 DEF ChildTable, ToldOrExecuted, Stage
<1>8. \A b \in Popens \ {c} : UNCHANGED PopenVars(b)
  BY <1>0, <1>3 DEF PopenVars
<1> QED
  BY <1>0, <1>1, <1>5, <1>6, <1>7, <1>8, <1>9, StepOf

\* set_option reads the output that was given before a redirected error stream.
LEMMA Redirected ==
    ASSUME PopenInv, PlainUsages, NEW c \in Popens, "stdout" \in Names
    PROVE  /\ RedirectedError(c) = pipes[c]["output"].write
           /\ "output" \in Names /\ "error" \notin Names
<1>1. /\ "error" \notin Names
      /\ \E i, j \in DOMAIN usage.args : i < j /\ usage.args[i] = "output" /\ usage.args[j] = "stdout"
  BY DEF PopenInv, PopenTypeOK, PlainUsages, Plain, Names
<1>2. "output" \in Names
  BY <1>1 DEF Names, Range
<1> QED
  BY <1>1, <1>2 DEF RedirectedError

LEMMA InitArgsStep ==
    ASSUME PopenInv, PlainUsages, NEW c \in Popens, InitArgs(c)
    PROVE  PopenInv'
<1>t. PopenTypeOK
  BY DEF PopenInv
<1>0. /\ ctor[c] = "args" /\ Names \ {"stdout"} = DOMAIN pipes[c]
      /\ set_option(c) /\ files' = [files EXCEPT ![c] = DOMAIN pipes[c]]
      /\ ctor' = [ctor EXCEPT ![c] = IF usage.deferSpawn THEN "deferred" ELSE "spawn"]
      /\ UNCHANGED <<usage, pipes, fds, exec, eintr, child, told, executed, killed>>
  BY DEF InitArgs, setup_comm_channels, childVars
<1>s. DOMAIN stream' = DOMAIN stream /\ \A b \in Popens \ {c} : stream'[b] = stream[b]
  BY <1>t, <1>0 DEF set_option, PopenTypeOK
<1>1. PopenTypeOK'
  BY <1>t, <1>0, <1>s DEF PopenTypeOK
<1>2. Numbers(c) /\ Stage(c) /\ ChildTable(c) /\ ToldOrExecuted(c)
  BY DEF PopenInv
<1>3. /\ ctor'[c] = IF usage.deferSpawn THEN "deferred" ELSE "spawn"
      /\ files'[c] = DOMAIN pipes[c]
      /\ \A b \in Popens \ {c} : ctor'[b] = ctor[b] /\ files'[b] = files[b]
  BY <1>t, <1>0 DEF PopenTypeOK
<1>4. \A b \in Popens, n \in EndNames, s \in Sides :
         /\ Has(b, n, s)' <=> Has(b, n, s)
         /\ Has(b, n, s) => Where(b, n, s)' = Where(b, n, s)
  <2>1. \A n \in EndNames, s \in Sides : Has(c, n, s)' <=> Has(c, n, s)
    BY <1>0, <1>3 DEF Has
  <2>2. \A b \in Popens \ {c}, n \in EndNames, s \in Sides : Has(b, n, s)' <=> Has(b, n, s)
    BY <1>0, <1>3 DEF Has
  <2>3. \A b \in Popens, n \in EndNames, s \in Sides : Where(b, n, s)' = Where(b, n, s)
    BY <1>0 DEF Where, Side
  <2> QED
    BY <2>1, <2>2, <2>3
<1>5. ClientTable'
  <2>1. \A b \in Popens : ctor[b] = "oserror" => ctor'[b] = "oserror"
    BY <1>0, <1>3
  <2> QED
    BY <1>0, <1>4, <2>1, TableKept
<1>6. Numbers(c)'
  BY <1>0, <1>2, <1>3 DEF Numbers, Side
<1>7. StreamsSet(c)'
  <2>1. "stdout" \in Names => RedirectedError(c) = EndOf(c, "output", "w")
    BY <1>0, Redirected DEF EndOf, Side
  <2>2. /\ stream'[c].read_from_parent = EndOf(c, "input", "r")
        /\ stream'[c].write_to_child = EndOf(c, "input", "w")
        /\ stream'[c].write_to_parent = EndOf(c, "output", "w")
        /\ stream'[c].read_from_child = EndOf(c, "output", "r")
        /\ stream'[c].err_read = EndOf(c, "error", "r")
    BY <1>t, <1>0 DEF set_option, PopenTypeOK, EndOf, Side
  <2>3. stream'[c].err_write = (IF "stdout" \in Names THEN EndOf(c, "output", "w") ELSE EndOf(c, "error", "w"))
    <3>1. stream'[c].err_write = (IF "stdout" \in Names THEN RedirectedError(c)
                                  ELSE IF "error" \in Names THEN pipes[c]["error"].write ELSE None)
      BY <1>t, <1>0 DEF set_option, PopenTypeOK
    <3> QED
      BY <1>0, <2>1, <3>1 DEF EndOf, Side
  <2> QED
    BY <1>0, <2>2, <2>3 DEF StreamsSet, EndOf, Side, Names
<1>9. Stage(c)'
  BY <1>0, <1>2, <1>3, <1>7 DEF Stage, Began
<1>10. ChildTable(c)' /\ ToldOrExecuted(c)'
  BY <1>0, <1>2 DEF ChildTable, ToldOrExecuted, Stage
<1>8. \A b \in Popens \ {c} : UNCHANGED PopenVars(b)
  BY <1>0, <1>3, <1>s DEF PopenVars
<1>11. ctor[c] \in BusyStages
  BY <1>0 DEF BusyStages
<1> QED
  BY <1>0, <1>1, <1>5, <1>6, <1>8, <1>9, <1>10, <1>11, StepOf

LEMMA NamesMeet ==
    ASSUME PopenInv, NEW c \in Popens, NEW n \in DOMAIN pipes[c]
    PROVE  n \in PipeNames /\ n \in EndNames /\ n # "exec" /\ pipes[c][n] \in Pipe
BY DEF PopenInv, PopenTypeOK, PipeNames, EndNames

LEMMA OpenPipeStep ==
    ASSUME PopenInv, PlainUsages, NEW c \in Popens, NEW name \in PipeNames, OpenPipe(c, name)
    PROVE  PopenInv'
<1>t. PopenTypeOK
  BY DEF PopenInv
<1>0. /\ ctor[c] = "args" /\ name \notin DOMAIN pipes[c] /\ name # "exec" /\ name \in EndNames
      /\ UNCHANGED <<usage, stream, files, exec, eintr, child, told, executed, killed>>
  BY DEF OpenPipe, childVars, PipeNames, EndNames
<1>2. Numbers(c) /\ Stage(c) /\ ChildTable(c) /\ ToldOrExecuted(c)
  BY DEF PopenInv
<1>11. ctor[c] \in BusyStages
  BY <1>0 DEF BusyStages
<1>3. CASE CanOpenPipe(fds[Client])
  <2> DEFINE made == WithPipe(fds[Client], c, name)
  <2>0. /\ fds' = [fds EXCEPT ![Client] = made.table]
        /\ pipes' = [pipes EXCEPT ![c] = Put(@, name, made.ends)]
        /\ UNCHANGED ctor
    BY <1>3 DEF OpenPipe
  <2>1. PICK u, r, w : /\ made = [table |-> u, ends |-> [read |-> r, write |-> w]]
                       /\ Opened(fds[Client], u, c, name, r, w)
    BY <1>3, PipeMade
  <2>2. /\ made = [table |-> u, ends |-> [read |-> r, write |-> w]]
        /\ r \in Fds \ DOMAIN fds[Client] /\ w \in Fds \ DOMAIN fds[Client] /\ r < w
        /\ DOMAIN u = DOMAIN fds[Client] \union {r, w}
        /\ u[r] = PipeEnd(c, name, "r") /\ u[w] = PipeEnd(c, name, "w")
        /\ \A fd \in DOMAIN fds[Client] : u[fd] = fds[Client][fd]
        /\ \A fd \in Fds \ DOMAIN fds[Client] : r <= fd /\ (fd = r \/ w <= fd)
    BY <2>1 DEF Opened
  <2> HIDE DEF made
  <2>3. /\ fds'[Client] = u /\ \A b \in Popens : fds'[b] = fds[b]
        /\ DOMAIN fds' = Processes
    BY <1>t, <2>0, <2>2, PopensAreNat DEF PopenTypeOK, Processes
  <2>4. /\ pipes'[c] = Put(pipes[c], name, [read |-> r, write |-> w]) /\ DOMAIN pipes' = Popens
        /\ \A b \in Popens \ {c} : pipes'[b] = pipes[b]
    BY <1>t, <2>0, <2>2 DEF PopenTypeOK
  <2>5. /\ DOMAIN pipes'[c] = DOMAIN pipes[c] \union {name}
        /\ pipes'[c][name] = [read |-> r, write |-> w]
        /\ \A n \in DOMAIN pipes[c] : pipes'[c][n] = pipes[c][n]
    BY <1>0, <2>4 DEF Put
  <2>6. PopenTypeOK'
    <3>1. \A b \in Popens : /\ DOMAIN pipes'[b] \subseteq PipeNames
                            /\ \A n \in DOMAIN pipes'[b] : pipes'[b][n] \in Pipe
      <4>1. [read |-> r, write |-> w] \in Pipe
        BY <2>2 DEF Pipe
      <4> QED
        BY <1>t, <2>4, <2>5, <4>1 DEF PopenTypeOK
    <3> QED
      BY <1>t, <1>0, <2>0, <2>3, <2>4, <3>1 DEF PopenTypeOK
  <2>7. ClientTable'
    <3>1. Where(c, name, "r")' = r /\ Where(c, name, "w")' = w
      BY <1>0, <2>5 DEF Where, Side
    <3>2. \A s \in Sides : ~Has(c, name, s) /\ Has(c, name, s)'
      BY <1>0, <2>0, <2>5 DEF Has
    <3>3. ASSUME NEW b \in Popens, NEW n \in EndNames, NEW s \in Sides, b # c \/ n # name
          PROVE  /\ Has(b, n, s)' <=> Has(b, n, s)
                 /\ Has(b, n, s) => Where(b, n, s)' = Where(b, n, s)
      <4>1. CASE b # c
        BY <1>0, <2>0, <2>4, <4>1 DEF Has, Where, Side
      <4>2. CASE b = c /\ n # name
        <5>1. Has(c, n, s)' <=> Has(c, n, s)
          BY <1>0, <2>0, <2>5, <4>2 DEF Has
        <5>2. Has(c, n, s) => n \in DOMAIN pipes[c]
          BY <1>0 DEF Has
        <5>3. n \in DOMAIN pipes[c] => Where(c, n, s)' = Where(c, n, s)
          BY <1>0, <2>5 DEF Where, Side
        <5> QED
          BY <4>2, <5>1, <5>2, <5>3
      <4> QED
        BY <3>3, <4>1, <4>2
    <3>4. r # w
      BY <2>2, FdAssumption DEF Fds
    <3> QED
      BY <1>0, <2>0, <2>2, <2>3, <3>1, <3>2, <3>3, <3>4, TableOpens
  <2>8. Numbers(c)'
    <3>1. r \in Nat /\ w \in Nat /\ r < w /\ w <= MaxFd /\ MaxFd \in Nat
      BY <2>2, FdAssumption DEF Fds
    <3>2. ASSUME NEW n \in DOMAIN pipes'[c]
          PROVE  /\ pipes'[c][n].read < pipes'[c][n].write
                 /\ \A s \in Sides : Side(pipes'[c][n], s) \notin usage.open
      <4>1. CASE n = name
        <5>1. r \notin usage.open /\ w \notin usage.open
          BY <2>2 DEF PopenInv, ClientTable
        <5> QED
          BY <2>2, <2>5, <4>1, <5>1 DEF Side
      <4>2. CASE n # name
        BY <1>2, <2>5, <4>2 DEF Numbers
      <4> QED
        BY <4>1, <4>2
    <3>3. ASSUME NEW a \in 0 .. 2, NEW b \in 0 .. 2, a < b, a \notin DOMAIN u, b \notin DOMAIN u
          PROVE  FALSE
      <4>1. a # r /\ a # w
        BY <2>2, <3>3
      <4>2. a \in Fds => w <= a
        BY <2>2, <3>3, <4>1
      <4>3. a \notin Fds => w < a
        BY <3>1 DEF Fds
      <4> QED
        BY <3>1, <3>3, <4>1, <4>2, <4>3
    <3>4. \A a, b \in 0 .. 2 : a # b => a \in DOMAIN u \/ b \in DOMAIN u
      <4>1. \A a, b \in 0 .. 2 : a # b => a < b \/ b < a
        OBVIOUS
      <4> QED
        BY <3>3, <4>1
    <3>5. /\ \A n \in DOMAIN pipes'[c] : /\ pipes'[c][n].read < pipes'[c][n].write
                                         /\ \A s \in Sides : Side(pipes[c][n], s)' \notin usage'.open
          /\ ctor'[c] = "args"
      BY <1>0, <2>0, <3>2 DEF Side
    <3> QED
      BY <2>3, <3>4, <3>5 DEF Numbers
  <2>9. Stage(c)'
    BY <1>0, <1>2, <2>0, <2>5 DEF Stage, Began
  <2>10. ChildTable(c)' /\ ToldOrExecuted(c)'
    BY <1>0, <1>2, <2>3 DEF ChildTable, ToldOrExecuted, Stage
  <2>11. \A b \in Popens \ {c} : UNCHANGED PopenVars(b)
    BY <1>0, <2>0, <2>3, <2>4 DEF PopenVars
  <2> QED
    BY <1>0, <1>11, <2>6, <2>7, <2>8, <2>9, <2>10, <2>11, StepOf
<1>4. CASE ~CanOpenPipe(fds[Client])
  <2>0. ctor' = [ctor EXCEPT ![c] = "oserror"] /\ UNCHANGED <<fds, pipes>>
    BY <1>4 DEF OpenPipe
  <2>1. PopenTypeOK'
    BY <1>t, <1>0, <2>0 DEF PopenTypeOK
  <2>3. ctor'[c] = "oserror" /\ \A b \in Popens \ {c} : ctor'[b] = ctor[b]
    BY <1>t, <2>0 DEF PopenTypeOK
  <2>4. \A b \in Popens, n \in EndNames, s \in Sides :
           /\ Has(b, n, s)' <=> Has(b, n, s)
           /\ Has(b, n, s) => Where(b, n, s)' = Where(b, n, s)
    <3>1. \A n \in EndNames, s \in Sides : Has(c, n, s)' <=> Has(c, n, s)
      BY <1>0, <2>0, <2>3 DEF Has
    <3>2. \A b \in Popens \ {c}, n \in EndNames, s \in Sides : Has(b, n, s)' <=> Has(b, n, s)
      BY <1>0, <2>0, <2>3 DEF Has
    <3>3. \A b \in Popens, n \in EndNames, s \in Sides : Where(b, n, s)' = Where(b, n, s)
      BY <1>0, <2>0 DEF Where, Side
    <3> QED
      BY <3>1, <3>2, <3>3
  <2>5. ClientTable'
    <3>1. \A b \in Popens : ctor[b] = "oserror" => ctor'[b] = "oserror"
      BY <2>3
    <3> QED
      BY <1>0, <2>0, <2>4, <3>1, TableKept
  <2>6. Numbers(c)' /\ Stage(c)'
    BY <1>0, <1>2, <2>0, <2>3 DEF Numbers, Stage, Began, Side
  <2>7. ChildTable(c)' /\ ToldOrExecuted(c)'
    BY <1>0, <1>2, <2>0 DEF ChildTable, ToldOrExecuted, Stage
  <2>8. \A b \in Popens \ {c} : UNCHANGED PopenVars(b)
    BY <1>0, <2>0, <2>3 DEF PopenVars
  <2> QED
    BY <1>0, <1>11, <2>1, <2>5, <2>6, <2>7, <2>8, StepOf
<1> QED
  BY <1>3, <1>4

LEMMA ClientClosed ==
    ASSUME PopenTypeOK, NEW S, ClientCloses(S)
    PROVE  /\ fds'[Client] = Close(fds[Client], S)
           /\ \A b \in Popens : fds'[b] = fds[b]
           /\ DOMAIN fds' = Processes
BY PopensAreNat DEF PopenTypeOK, ClientCloses, Processes

\* The FILEs of a Popen are the client's ends of its pipes.
LEMMA FilesClosed ==
    ASSUME PopenInv, NEW c \in Popens, StreamsSet(c), NEW S \in SUBSET DOMAIN pipes[c]
    PROVE  \A fd : fd \in FileFds(c, S) <=> \E n \in S : n \in PipeNames /\ fd = Where(c, n, Mine(n))
<1>1. DOMAIN pipes[c] \subseteq PipeNames
  BY DEF PopenInv, PopenTypeOK
<1>2. \A n \in S : n \in DOMAIN pipes[c] /\ n # "exec"
  BY <1>1 DEF PipeNames
<1>3. "input" \in S => stream[c].write_to_child = Where(c, "input", Mine("input"))
  BY <1>2 DEF StreamsSet, EndOf, Where, Mine
<1>4. "output" \in S => stream[c].read_from_child = Where(c, "output", Mine("output"))
  BY <1>2 DEF StreamsSet, EndOf, Where, Mine
<1>5. "error" \in S => stream[c].err_read = Where(c, "error", Mine("error"))
  BY <1>2 DEF StreamsSet, EndOf, Where, Mine
<1>6. \A fd : fd \in FileFds(c, S) <=> \/ "error" \in S /\ fd = stream[c].err_read
                                       \/ "output" \in S /\ fd = stream[c].read_from_child
                                       \/ "input" \in S /\ fd = stream[c].write_to_child
  BY DEF FileFds
<1> QED
  BY <1>1, <1>3, <1>4, <1>5, <1>6 DEF PipeNames

\* An OSError of execute_process, which has closed the exec pipe.
LEMMA ThrowStep ==
    ASSUME PopenInv, PlainUsages, NEW c \in Popens, ctor[c] \in {"spawn", "fork"}, NEW S,
           \A fd : fd \in S <=> \E s \in Sides : Has(c, "exec", s) /\ fd = Where(c, "exec", s),
           Throws(c, S, "oserror"), UNCHANGED <<argVars, exec, eintr, childVars, killed>>
    PROVE  PopenInv'
<1>t. PopenTypeOK
  BY DEF PopenInv
<1>2. Numbers(c) /\ Stage(c) /\ ChildTable(c) /\ ToldOrExecuted(c)
  BY DEF PopenInv
<1> DEFINE destroyed == IF usage.deferSpawn THEN {} ELSE files[c]
<1>0. /\ ClientCloses(S \union FileFds(c, destroyed))
      /\ files' = [files EXCEPT ![c] = files[c] \ destroyed]
      /\ ctor' = [ctor EXCEPT ![c] = "oserror"]
      /\ UNCHANGED <<usage, pipes, stream, exec, eintr, child, told, executed, killed>>
  <2>1. files' = [files EXCEPT ![c] = @ \ destroyed] => files' = [files EXCEPT ![c] = files[c] \ destroyed]
    BY <1>t DEF PopenTypeOK
  <2> QED
    BY <2>1 DEF Throws, argVars, childVars
<1>3. /\ StreamsSet(c) /\ files[c] = DOMAIN pipes[c] /\ files[c] \subseteq PipeNames
      /\ child[c] = "none" /\ ctor[c] # "oserror" /\ ctor[c] \in BusyStages
  BY <1>t, <1>2 DEF Stage, Began, BusyStages, PopenTypeOK
<1>4. destroyed \subseteq DOMAIN pipes[c]
  BY <1>3
<1> HIDE DEF destroyed
<1>5. PICK Z : Z = S \union FileFds(c, destroyed)
  OBVIOUS
<1>6. /\ fds'[Client] = Close(fds[Client], Z) /\ \A b \in Popens : fds'[b] = fds[b]
      /\ DOMAIN fds' = Processes
  BY <1>t, <1>0, <1>5, ClientClosed
<1>7. /\ ctor'[c] = "oserror" /\ files'[c] \subseteq files[c]
      /\ \A b \in Popens \ {c} : ctor'[b] = ctor[b] /\ files'[b] = files[b]
  BY <1>t, <1>0 DEF PopenTypeOK
<1>8. PopenTypeOK'
  <2>1. files' \in [Popens -> SUBSET PipeNames]
    BY <1>t, <1>0 DEF PopenTypeOK
  <2>2. ctor' \in [Popens -> {"none", "args", "deferred", "spawn", "fork", "forked", "reading", "reaping",
                            "built", "failed", "oserror"}]
    BY <1>t, <1>0 DEF PopenTypeOK
  <2> QED
    BY <1>t, <1>0, <1>6, <2>1, <2>2 DEF PopenTypeOK
<1>9. ClientTable'
  <2>1. ASSUME NEW fd \in Z
        PROVE  fd = None \/ \E n \in EndNames, s \in Sides : Has(c, n, s) /\ fd = Where(c, n, s)
    <3>1. CASE fd \in S
      BY <3>1 DEF EndNames
    <3>2. CASE fd \in FileFds(c, destroyed)
      <4>1. PICK n \in destroyed : n \in PipeNames /\ fd = Where(c, n, Mine(n))
        BY <1>3, <1>4, <3>2, FilesClosed
      <4>2. n \in EndNames /\ Mine(n) \in Sides /\ Has(c, n, Mine(n))
        BY <1>4, <4>1 DEF EndNames, PipeNames, Mine, Sides, Has
      <4> QED
        BY <4>1, <4>2
    <3> QED
      BY <1>5, <3>1, <3>2
  <2>2. ASSUME NEW n \in EndNames, NEW s \in Sides
        PROVE  /\ Has(c, n, s) /\ Where(c, n, s) \notin Z => Has(c, n, s)'
               /\ Has(c, n, s)' /\ ctor'[c] # "oserror" => Has(c, n, s) /\ Where(c, n, s) \notin Z
    <3>1. CASE n = "exec"
      BY <1>5, <1>7, <3>1
    <3>2. CASE n # "exec"
      <4>1. Has(c, n, s) => n \in DOMAIN pipes[c]
        BY <1>2, <3>2 DEF Has, Stage
      <4>2. n \in DOMAIN pipes[c] => Has(c, n, s)'
        BY <1>0, <1>7, <3>2 DEF Has
      <4> QED
        BY <1>7, <4>1, <4>2
    <3> QED
      BY <3>1, <3>2
  <2> QED
    BY <1>0, <1>3, <1>6, <1>7, <2>1, <2>2, TableCloses
<1>10. Numbers(c)' /\ Stage(c)'
  BY <1>0, <1>2, <1>3, <1>7 DEF Numbers, Stage, Began, Side
<1>11. ChildTable(c)' /\ ToldOrExecuted(c)'
  BY <1>0, <1>2, <1>3, <1>6 DEF ChildTable, ToldOrExecuted
<1>12. \A b \in Popens \ {c} : UNCHANGED PopenVars(b)
  BY <1>0, <1>6, <1>7 DEF PopenVars
<1> QED
  BY <1>0, <1>3, <1>8, <1>9, <1>10, <1>11, <1>12, StepOf

LEMMA OpenExecStep ==
    ASSUME PopenInv, PlainUsages, NEW c \in Popens, OpenExecPipe(c)
    PROVE  PopenInv'
<1>t. PopenTypeOK
  BY DEF PopenInv
<1>0. /\ ctor[c] = "spawn" /\ UNCHANGED <<usage, pipes, stream, eintr, child, told, executed, killed>>
  BY DEF OpenExecPipe, argVars, childVars
<1>2. Numbers(c) /\ Stage(c) /\ ChildTable(c) /\ ToldOrExecuted(c)
  BY DEF PopenInv
<1>3. CASE CanOpenPipe(fds[Client])
  <2> DEFINE made == WithPipe(fds[Client], c, "exec")
  <2>0. /\ fds' = [fds EXCEPT ![Client] = made.table]
        /\ exec' = [exec EXCEPT ![c] = made.ends]
        /\ ctor' = [ctor EXCEPT ![c] = "fork"]
        /\ UNCHANGED files
    BY <1>3 DEF OpenExecPipe
  <2>1. PICK u, r, w : /\ made = [table |-> u, ends |-> [read |-> r, write |-> w]]
                       /\ Opened(fds[Client], u, c, "exec", r, w)
    BY <1>3, PipeMade
  <2>2. /\ made = [table |-> u, ends |-> [read |-> r, write |-> w]]
        /\ r \in Fds \ DOMAIN fds[Client] /\ w \in Fds \ DOMAIN fds[Client] /\ r < w
        /\ DOMAIN u = DOMAIN fds[Client] \union {r, w}
        /\ u[r] = PipeEnd(c, "exec", "r") /\ u[w] = PipeEnd(c, "exec", "w")
        /\ \A fd \in DOMAIN fds[Client] : u[fd] = fds[Client][fd]
        /\ \A fd \in Fds \ DOMAIN fds[Client] : r <= fd /\ (fd = r \/ w <= fd)
    BY <2>1 DEF Opened
  <2> HIDE DEF made
  <2>3. /\ fds'[Client] = u /\ \A b \in Popens : fds'[b] = fds[b]
        /\ DOMAIN fds' = Processes
    BY <1>t, <2>0, <2>2, PopensAreNat DEF PopenTypeOK, Processes
  <2>4. /\ exec'[c] = [read |-> r, write |-> w] /\ ctor'[c] = "fork"
        /\ \A b \in Popens \ {c} : exec'[b] = exec[b] /\ ctor'[b] = ctor[b]
    BY <1>t, <2>0, <2>2 DEF PopenTypeOK
  <2>5. r \in Nat /\ w \in Nat /\ r < w /\ r # w /\ [read |-> r, write |-> w] \in Pipe
    BY <2>2, FdAssumption DEF Fds, Pipe
  <2>6. PopenTypeOK'
    <3>1. exec' \in [Popens -> [read : Fds \union {None}, write : Fds \union {None}]]
      BY <1>t, <2>0, <2>2 DEF PopenTypeOK
    <3>2. ctor' \in [Popens -> {"none", "args", "deferred", "spawn", "fork", "forked", "reading", "reaping",
                                "built", "failed", "oserror"}]
      BY <1>t, <2>0 DEF PopenTypeOK
    <3> QED
      BY <1>t, <1>0, <2>0, <2>3, <3>1, <3>2 DEF PopenTypeOK
  <2>7. ClientTable'
    <3>1. Where(c, "exec", "r")' = r /\ Where(c, "exec", "w")' = w
      BY <2>4 DEF Where, Side
    <3>2. \A s \in Sides : ~Has(c, "exec", s) /\ Has(c, "exec", s)'
      BY <1>0, <2>4 DEF Has
    <3>3. ASSUME NEW b \in Popens, NEW n \in EndNames, NEW s \in Sides, b # c \/ n # "exec"
          PROVE  /\ Has(b, n, s)' <=> Has(b, n, s)
                 /\ Has(b, n, s) => Where(b, n, s)' = Where(b, n, s)
      <4>1. CASE b # c
        BY <1>0, <2>0, <2>4, <4>1 DEF Has, Where, Side
      <4>2. CASE b = c /\ n # "exec"
        BY <1>0, <2>0, <2>4, <4>2 DEF Has, Where, Side
      <4> QED
        BY <3>3, <4>1, <4>2
    <3>4. \A b \in Popens : ctor[b] = "oserror" => ctor'[b] = "oserror"
      BY <1>0, <2>4
    <3>5. "exec" \in EndNames
      BY DEF EndNames
    <3> QED
      BY <1>0, <2>2, <2>3, <2>5, <3>1, <3>2, <3>3, <3>4, <3>5, TableOpens
  <2>8. Numbers(c)'
    <3>1. ASSUME DOMAIN pipes[c] # {}
          PROVE  w > 2
      <4>1. \A a, b \in 0 .. 2 : a # b => a \in DOMAIN fds[Client] \/ b \in DOMAIN fds[Client]
        BY <1>0, <1>2, <3>1 DEF Numbers
      <4>2. r \notin DOMAIN fds[Client] /\ w \notin DOMAIN fds[Client]
        BY <2>2
      <4>3. w \in 0 .. 2 => r \in 0 .. 2
        BY <2>5
      <4>4. w \notin 0 .. 2
        BY <2>5, <4>1, <4>2, <4>3
      <4> QED
        BY <2>5, <4>4
    <3> QED
      BY <1>0, <1>2, <2>4, <2>5, <3>1 DEF Numbers, Side
  <2>9. Stage(c)'
    BY <1>0, <1>2, <2>0, <2>4 DEF Stage, Began, StreamsSet, EndOf, Side, Names
  <2>10. ChildTable(c)' /\ ToldOrExecuted(c)'
    BY <1>0, <1>2, <2>3 DEF ChildTable, ToldOrExecuted, Stage
  <2>11. \A b \in Popens \ {c} : UNCHANGED PopenVars(b)
    BY <1>0, <2>0, <2>3, <2>4 DEF PopenVars
  <2>12. ctor[c] \in BusyStages
    BY <1>0 DEF BusyStages
  <2> QED
    BY <1>0, <2>6, <2>7, <2>8, <2>9, <2>10, <2>11, <2>12, StepOf
<1>4. CASE ~CanOpenPipe(fds[Client])
  <2>1. Throws(c, {}, "oserror") /\ UNCHANGED <<argVars, exec, eintr, childVars, killed>>
    BY <1>4 DEF OpenExecPipe
  <2>2. \A s \in Sides : ~Has(c, "exec", s)
    BY <1>0 DEF Has
  <2> QED
    BY <1>0, <2>1, <2>2, ThrowStep
<1> QED
  BY <1>3, <1>4

LEMMA ForkFailsStep ==
    ASSUME PopenInv, PlainUsages, NEW c \in Popens, ForkFails(c)
    PROVE  PopenInv'
<1>0. /\ ctor[c] = "fork" /\ Throws(c, {exec[c].read, exec[c].write}, "oserror")
      /\ UNCHANGED <<argVars, exec, eintr, childVars, killed>>
  BY DEF ForkFails
<1>1. \A s \in Sides : Has(c, "exec", s)
  BY <1>0 DEF Has
<1>2. Where(c, "exec", "r") = exec[c].read /\ Where(c, "exec", "w") = exec[c].write
  BY DEF Where, Side
<1>3. \A fd : fd \in {exec[c].read, exec[c].write} <=> \E s \in Sides : Has(c, "exec", s) /\ fd = Where(c, "exec", s)
  BY <1>1, <1>2 DEF Sides
<1> QED
  BY <1>0, <1>3, ThrowStep

\* What a client and a child close first are the other's ends.
LEMMA ParentEnds ==
    ASSUME PopenInv, NEW c \in Popens, StreamsSet(c)
    PROVE  \A fd \in ParentFds(c) : fd = None \/ \E n \in DOMAIN pipes[c] : fd = Where(c, n, Mine(n))
<1>1. \A n \in DOMAIN pipes[c] : n # "exec"
  BY NamesMeet
<1>2. \A n \in PipeNames : /\ n \notin DOMAIN pipes[c] => EndOf(c, n, Mine(n)) = None
                           /\ n \in DOMAIN pipes[c] => EndOf(c, n, Mine(n)) = Where(c, n, Mine(n))
  BY <1>1 DEF EndOf, Where
<1>3. \A fd \in ParentFds(c) : \E n \in PipeNames : fd = EndOf(c, n, Mine(n))
  BY DEF ParentFds, StreamsSet, PipeNames, Mine
<1> QED
  BY <1>2, <1>3

LEMMA ChildEnds ==
    ASSUME PopenInv, PlainUsages, NEW c \in Popens, StreamsSet(c)
    PROVE  /\ \A fd \in ChildFds(c) : fd = None \/ \E n \in DOMAIN pipes[c] : fd = Where(c, n, Its(n))
           /\ \A n \in DOMAIN pipes[c] : Where(c, n, Its(n)) \in ChildFds(c)
<1>1. \A n \in DOMAIN pipes[c] : n # "exec" /\ n \in PipeNames
  BY NamesMeet
<1>2. \A n \in PipeNames : /\ n \notin DOMAIN pipes[c] => EndOf(c, n, Its(n)) = None
                           /\ n \in DOMAIN pipes[c] => EndOf(c, n, Its(n)) = Where(c, n, Its(n))
  BY <1>1 DEF EndOf, Where
<1>3. \A fd \in ChildFds(c) : \E n \in PipeNames : fd = EndOf(c, n, Its(n))
  BY DEF ChildFds, StreamsSet, PipeNames, Its
<1>4. "input" \in DOMAIN pipes[c] => Where(c, "input", Its("input")) \in ChildFds(c)
  BY <1>2 DEF ChildFds, StreamsSet, PipeNames, Its
<1>5. "output" \in DOMAIN pipes[c] => Where(c, "output", Its("output")) \in ChildFds(c)
  BY <1>2 DEF ChildFds, StreamsSet, PipeNames, Its
<1>6. "error" \in DOMAIN pipes[c] => Where(c, "error", Its("error")) \in ChildFds(c)
  <2>1. "error" \in DOMAIN pipes[c] => "stdout" \notin Names
    BY Redirected DEF StreamsSet
  <2> QED
    BY <1>2, <2>1 DEF ChildFds, StreamsSet, PipeNames, Its
<1> QED
  BY <1>1, <1>2, <1>3, <1>4, <1>5, <1>6 DEF PipeNames

LEMMA ForkStep ==
    ASSUME PopenInv, PlainUsages, NEW c \in Popens, Fork(c)
    PROVE  PopenInv'
<1>t. PopenTypeOK
  BY DEF PopenInv
<1>2. Numbers(c) /\ Stage(c) /\ ChildTable(c) /\ ToldOrExecuted(c)
  BY DEF PopenInv
<1>5. PICK Z : Z = ParentFds(c) \union {exec[c].read}
  OBVIOUS
<1>0. /\ ctor[c] = "fork" /\ ctor' = [ctor EXCEPT ![c] = "forked"]
      /\ fds' = [fds EXCEPT ![c] = Close(fds[Client], Z)]
      /\ child' = [child EXCEPT ![c] = "forked"]
      /\ UNCHANGED <<usage, pipes, stream, files, exec, eintr, told, executed, killed>>
  BY <1>5 DEF Fork, argVars
<1>3. /\ fds'[Client] = fds[Client] /\ fds'[c] = Close(fds[Client], Z) /\ DOMAIN fds' = Processes
      /\ \A b \in Popens \ {c} : fds'[b] = fds[b]
  BY <1>t, <1>0, PopensAreNat DEF PopenTypeOK, Processes
<1>4. /\ ctor'[c] = "forked" /\ child'[c] = "forked"
      /\ \A b \in Popens \ {c} : ctor'[b] = ctor[b] /\ child'[b] = child[b]
  BY <1>t, <1>0 DEF PopenTypeOK
<1>6. PopenTypeOK'
  <2>1. ctor' \in [Popens -> {"none", "args", "deferred", "spawn", "fork", "forked", "reading", "reaping",
                            "built", "failed", "oserror"}]
    BY <1>t, <1>0 DEF PopenTypeOK
  <2>2. child' \in [Popens -> {"none", "forked", "streams", "running", "zombie", "reaped"}]
    BY <1>t, <1>0 DEF PopenTypeOK
  <2> QED
    BY <1>t, <1>0, <1>3, <2>1, <2>2 DEF PopenTypeOK
<1>7. \A b \in Popens, n \in EndNames, s \in Sides :
         /\ Has(b, n, s)' <=> Has(b, n, s)
         /\ Has(b, n, s) => Where(b, n, s)' = Where(b, n, s)
  <2>1. \A n \in EndNames, s \in Sides : Has(c, n, s)' <=> Has(c, n, s)
    BY <1>0, <1>4 DEF Has
  <2>2. \A b \in Popens \ {c}, n \in EndNames, s \in Sides : Has(b, n, s)' <=> Has(b, n, s)
    BY <1>0, <1>4 DEF Has
  <2>3. \A b \in Popens, n \in EndNames, s \in Sides : Where(b, n, s)' = Where(b, n, s)
    BY <1>0 DEF Where, Side
  <2> QED
    BY <2>1, <2>2, <2>3
<1>8. ClientTable'
  <2>1. \A b \in Popens : ctor[b] = "oserror" => ctor'[b] = "oserror"
    BY <1>0, <1>4
  <2> QED
    BY <1>0, <1>3, <1>7, <2>1, TableKept
<1>9. Numbers(c)' /\ Stage(c)'
  <2>1. Numbers(c)'
    BY <1>0, <1>2, <1>4 DEF Numbers, Side
  <2>2. Stage(c)'
    BY <1>0, <1>2, <1>4 DEF Stage, Began, StreamsSet, EndOf, Side, Names
  <2> QED
    BY <2>1, <2>2
<1>10. ToldOrExecuted(c)'
  BY <1>0, <1>2, <1>4 DEF ToldOrExecuted, Stage
<1>11. ChildTable(c)'
  <2>1. /\ DOMAIN fds'[c] = DOMAIN fds[Client] \ Z
        /\ \A fd \in DOMAIN fds'[c] : fds'[c][fd] = fds[Client][fd]
    BY <1>3 DEF Close, Restrict
  <2>2. /\ StreamsSet(c)
        /\ \A n \in EndNames, s \in Sides : n = "exec" \/ n \in DOMAIN pipes[c] =>
              Has(c, n, s) /\ There(c, n, s) /\ Where(c, n, s) \in Fds
    <3>1. \A n \in EndNames, s \in Sides : n = "exec" \/ n \in DOMAIN pipes[c] => Has(c, n, s)
      BY <1>0 DEF Has
    <3>2. StreamsSet(c)
      BY <1>0, <1>2 DEF Stage, Began
    <3> QED
      BY <1>0, <3>1, <3>2, WhereIsFd DEF PopenInv, ClientTable
  <2>3. ASSUME NEW n \in EndNames, NEW s \in Sides,
               (n = "exec" /\ s = "w") \/ (n \in DOMAIN pipes[c] /\ s = Its(n))
        PROVE  Where(c, n, s) \notin Z
    <3>1. SUFFICES ASSUME Where(c, n, s) \in Z PROVE FALSE
      OBVIOUS
    <3>2. Where(c, n, s) # None /\ Has(c, n, s)
      BY <2>2, <2>3, FdAssumption DEF Fds, None
    <3>3. CASE Where(c, n, s) = exec[c].read
      <4>1. Where(c, n, s) = Where(c, "exec", "r") /\ Has(c, "exec", "r") /\ "exec" \in EndNames /\ "r" \in Sides
        BY <2>2, <3>3 DEF Where, Side, EndNames, Sides
      <4>2. n = "exec" /\ s = "r"
        BY <1>0, <3>2, <4>1, Distinct
      <4> QED
        BY <2>3, <4>2, NamesMeet
    <3>4. CASE Where(c, n, s) \in ParentFds(c)
      <4>1. PICK m \in DOMAIN pipes[c] : Where(c, n, s) = Where(c, m, Mine(m))
        BY <2>2, <3>2, <3>4, ParentEnds
      <4>2. m \in EndNames /\ Mine(m) \in Sides /\ m # "exec"
        BY <4>1, NamesMeet DEF Mine, Sides
      <4>3. n = m /\ s = Mine(m)
        BY <1>0, <2>2, <3>2, <4>1, <4>2, Distinct
      <4> QED
        BY <2>3, <4>2, <4>3 DEF Mine, Its
    <3> QED
      BY <1>5, <3>1, <3>3, <3>4
  <2>4. ExecHeld(c)'
    <3>1. "exec" \in EndNames /\ "w" \in Sides /\ Where(c, "exec", "w") = exec[c].write
      BY DEF EndNames, Sides, Where, Side
    <3>2. exec[c].write \notin Z /\ There(c, "exec", "w")
      BY <2>2, <2>3, <3>1
    <3>3. exec[c].write \in DOMAIN fds'[c] /\ fds'[c][exec[c].write].end = <<c, "exec", "w">>
      BY <2>1, <3>1, <3>2 DEF There, PipeEnd
    <3> QED
      BY <1>0, <3>3 DEF ExecHeld
  <2>5. Inherits(c)'
    <3>1. ASSUME NEW fd \in DOMAIN fds'[c]
          PROVE  fds'[c][fd].cloexec \/ fds'[c][fd].end[2] = "file"
      <4>1. Placed(fd) /\ fds'[c][fd] = fds[Client][fd]
        BY <2>1 DEF PopenInv, ClientTable
      <4>2. CASE fds[Client][fd] = FileOf(fd)
        BY <4>1, <4>2 DEF FileOf
      <4>3. ASSUME NEW b \in Popens, NEW n \in EndNames, NEW s \in Sides, fds[Client][fd] = PipeEnd(b, n, s)
            PROVE  fds[Client][fd].cloexec
        BY <4>3 DEF PipeEnd
      <4> QED
        BY <4>1, <4>2, <4>3 DEF Placed
    <3>2. ASSUME NEW n \in DOMAIN pipes[c]
          PROVE  Where(c, n, Its(n)) \in DOMAIN fds'[c] /\ fds'[c][Where(c, n, Its(n))] = PipeEnd(c, n, Its(n))
      <4>1. n \in EndNames /\ Its(n) \in Sides
        BY NamesMeet DEF Its, Sides
      <4> QED
        BY <2>1, <2>2, <2>3, <4>1 DEF There
    <3>3. \A n \in DOMAIN pipes[c] : Where(c, n, Its(n))' = Where(c, n, Its(n))
      BY <1>0 DEF Where, Side, Its
    <3> QED
      BY <1>0, <3>1, <3>2, <3>3 DEF Inherits, PipeEnd, Its
  <2> QED
    BY <1>4, <2>4, <2>5 DEF ChildTable
<1>12. \A b \in Popens \ {c} : UNCHANGED PopenVars(b)
  BY <1>0, <1>3, <1>4 DEF PopenVars
<1>13. ctor[c] \in BusyStages
  BY <1>0 DEF BusyStages
<1> QED
  BY <1>0, <1>6, <1>8, <1>9, <1>10, <1>11, <1>12, <1>13, StepOf

LEMMA AfterForkStep ==
    ASSUME PopenInv, PlainUsages, NEW c \in Popens, AfterFork(c)
    PROVE  PopenInv'
<1>t. PopenTypeOK
  BY DEF PopenInv
<1>2. Numbers(c) /\ Stage(c) /\ ChildTable(c) /\ ToldOrExecuted(c)
  BY DEF PopenInv
<1>5. PICK Z : Z = {exec[c].write} \union ChildFds(c)
  OBVIOUS
<1>0. /\ ctor[c] = "forked" /\ ctor' = [ctor EXCEPT ![c] = "reading"]
      /\ ClientCloses(Z) /\ eintr' = [eintr EXCEPT ![c] = 0]
      /\ UNCHANGED <<usage, pipes, stream, files, exec, child, told, executed, killed>>
  BY <1>5 DEF AfterFork, argVars, childVars
<1>3. /\ fds'[Client] = Close(fds[Client], Z) /\ \A b \in Popens : fds'[b] = fds[b]
      /\ DOMAIN fds' = Processes
  BY <1>t, <1>0, ClientClosed
<1>4. ctor'[c] = "reading" /\ \A b \in Popens \ {c} : ctor'[b] = ctor[b] /\ eintr'[b] = eintr[b]
  BY <1>t, <1>0 DEF PopenTypeOK
<1>6. PopenTypeOK'
  <2>1. ctor' \in [Popens -> {"none", "args", "deferred", "spawn", "fork", "forked", "reading", "reaping",
                            "built", "failed", "oserror"}]
    BY <1>t, <1>0 DEF PopenTypeOK
  <2>2. eintr' \in [Popens -> Nat]
    BY <1>t, <1>0 DEF PopenTypeOK
  <2> QED
    BY <1>t, <1>0, <1>3, <2>1, <2>2 DEF PopenTypeOK
<1>7. /\ StreamsSet(c) /\ files[c] = DOMAIN pipes[c]
      /\ \A n \in DOMAIN pipes[c] : n \in EndNames /\ n # "exec" /\ Its(n) \in Sides /\ Mine(n) \in Sides
                                    /\ Its(n) # Mine(n)
      /\ "exec" \in EndNames /\ "r" \in Sides /\ "w" \in Sides
      /\ Where(c, "exec", "w") = exec[c].write
      /\ \A n \in EndNames, s \in Sides : Has(c, n, s) <=> n = "exec" \/ n \in DOMAIN pipes[c]
  <2>1. StreamsSet(c) /\ files[c] = DOMAIN pipes[c]
    BY <1>0, <1>2 DEF Stage, Began
  <2>2. \A n \in DOMAIN pipes[c] : n \in EndNames /\ n # "exec"
    BY NamesMeet
  <2>3. \A n : Its(n) \in Sides /\ Mine(n) \in Sides /\ Its(n) # Mine(n)
    BY DEF Its, Mine, Sides
  <2>4. "exec" \in EndNames /\ "r" \in Sides /\ "w" \in Sides /\ Where(c, "exec", "w") = exec[c].write
    BY DEF EndNames, Sides, Where, Side
  <2>5. \A n \in EndNames, s \in Sides : Has(c, n, s) <=> n = "exec" \/ n \in DOMAIN pipes[c]
    BY <1>0 DEF Has
  <2> QED
    BY <2>1, <2>2, <2>3, <2>4, <2>5
<1>8. ClientTable'
  <2>1. ASSUME NEW fd \in Z
        PROVE  fd = None \/ \E n \in EndNames, s \in Sides : Has(c, n, s) /\ fd = Where(c, n, s)
    <3>1. CASE fd = exec[c].write
      BY <1>7, <3>1
    <3>2. CASE fd \in ChildFds(c)
      <4>1. fd = None \/ \E n \in DOMAIN pipes[c] : fd = Where(c, n, Its(n))
        BY <1>7, <3>2, ChildEnds
      <4> QED
        BY <1>7, <4>1
    <3> QED
      BY <1>5, <3>1, <3>2
  <2>2. ASSUME NEW n \in EndNames, NEW s \in Sides
        PROVE  Has(c, n, s)' <=> Has(c, n, s) /\ Where(c, n, s) \notin Z
    <3>1. Has(c, n, s)' <=> (n = "exec" /\ s = "r") \/ (n \in DOMAIN pipes[c] /\ s = Mine(n))
      BY <1>0, <1>4, <1>7 DEF Has
    <3>2. CASE (n = "exec" /\ s = "w") \/ (n \in DOMAIN pipes[c] /\ s = Its(n))
      <4>1. Where(c, n, s) \in Z
        BY <1>5, <1>7, <3>2, ChildEnds
      <4> QED
        BY <1>7, <3>1, <3>2, <4>1
    <3>3. CASE (n = "exec" /\ s = "r") \/ (n \in DOMAIN pipes[c] /\ s = Mine(n))
      <4>1. SUFFICES ASSUME Where(c, n, s) \in Z PROVE FALSE
        BY <1>7, <3>1, <3>3
      <4>2. Has(c, n, s) /\ Where(c, n, s) # None
        BY <1>7, <3>3, WhereIsFd, FdAssumption DEF Fds, None
      <4>3. CASE Where(c, n, s) = exec[c].write
        <5>1. n = "exec" /\ s = "w"
          BY <1>0, <1>7, <4>2, <4>3, Distinct
        <5> QED
          BY <1>7, <3>3, <5>1
      <4>4. CASE Where(c, n, s) \in ChildFds(c)
        <5>1. PICK m \in DOMAIN pipes[c] : Where(c, n, s) = Where(c, m, Its(m))
          BY <1>7, <4>2, <4>4, ChildEnds
        <5>2. n = m /\ s = Its(m)
          BY <1>0, <1>7, <4>2, <5>1, Distinct
        <5> QED
          BY <1>7, <3>3, <5>2
      <4> QED
        BY <1>5, <4>1, <4>3, <4>4
    <3>4. CASE n # "exec" /\ n \notin DOMAIN pipes[c]
      BY <1>7, <3>1, <3>4
    <3>5. s = "r" \/ s = "w"
      BY DEF Sides
    <3>6. s = Its(n) \/ s = Mine(n)
      BY <3>5 DEF Its, Mine
    <3> QED
      BY <3>2, <3>3, <3>4, <3>5, <3>6
  <2> QED
    BY <1>0, <1>3, <1>4, <2>1, <2>2, TableCloses
<1>9. Numbers(c)' /\ Stage(c)'
  <2>1. Numbers(c)'
    BY <1>0, <1>2, <1>4 DEF Numbers, Side
  <2>2. Stage(c)'
    BY <1>0, <1>2, <1>4 DEF Stage, Began, StreamsSet, EndOf, Side, Names
  <2> QED
    BY <2>1, <2>2
<1>10. ToldOrExecuted(c)'
  BY <1>0, <1>2 DEF ToldOrExecuted
<1>11. ChildTable(c)'
  BY <1>0, <1>2, <1>3, ChildTableKept
<1>12. \A b \in Popens \ {c} : UNCHANGED PopenVars(b)
  BY <1>0, <1>3, <1>4 DEF PopenVars
<1>13. ctor[c] \in BusyStages
  BY <1>0 DEF BusyStages
<1> QED
  BY <1>0, <1>6, <1>8, <1>9, <1>10, <1>11, <1>12, <1>13, StepOf

\* The constructor reads no more.
LEMMA ReadStops ==
    ASSUME PopenInv, PlainUsages, NEW c \in Popens, NEW next \in {"reaping", "built"},
           ctor[c] = "reading", ctor' = [ctor EXCEPT ![c] = next], ClientCloses({exec[c].read}),
           UNCHANGED <<argVars, files, exec, childVars, killed>>,
           eintr' \in [Popens -> Nat], \A b \in Popens \ {c} : eintr'[b] = eintr[b],
           next = "reaping" /\ eintr'[c] <= EintrLimit => told[c],
           next = "built" => executed[c]
    PROVE  PopenInv'
<1>t. PopenTypeOK
  BY DEF PopenInv
<1>2. Numbers(c) /\ Stage(c) /\ ChildTable(c) /\ ToldOrExecuted(c)
  BY DEF PopenInv
<1>0. UNCHANGED <<usage, pipes, stream, files, exec, child, told, executed, killed>>
  BY DEF argVars, childVars
<1>3. /\ fds'[Client] = Close(fds[Client], {exec[c].read}) /\ \A b \in Popens : fds'[b] = fds[b]
      /\ DOMAIN fds' = Processes
  BY <1>t, ClientClosed
<1>4. ctor'[c] = next /\ \A b \in Popens \ {c} : ctor'[b] = ctor[b]
  BY <1>t DEF PopenTypeOK
<1>6. PopenTypeOK'
  <2>1. ctor' \in [Popens -> {"none", "args", "deferred", "spawn", "fork", "forked", "reading", "reaping",
                            "built", "failed", "oserror"}]
    BY <1>t, <1>0 DEF PopenTypeOK
  <2> QED
    BY <1>t, <1>0, <1>3, <2>1 DEF PopenTypeOK
<1>7. /\ "exec" \in EndNames /\ "r" \in Sides /\ Where(c, "exec", "r") = exec[c].read /\ Has(c, "exec", "r")
      /\ ctor'[c] \in {"reaping", "built"}
  BY <1>0, <1>4 DEF EndNames, Sides, Where, Side, Has
<1>8. ClientTable'
  <2>2. ASSUME NEW n \in EndNames, NEW s \in Sides
        PROVE  Has(c, n, s)' <=> Has(c, n, s) /\ Where(c, n, s) \notin {exec[c].read}
    <3>1. CASE n = "exec"
      <4>1. ~Has(c, n, s)'
        BY <1>7, <3>1 DEF Has
      <4>2. Has(c, n, s) => s = "r"
        BY <1>0, <3>1 DEF Has
      <4> QED
        BY <1>7, <3>1, <4>1, <4>2
    <3>2. CASE n # "exec"
      <4>1. Has(c, n, s)' <=> Has(c, n, s)
        BY <1>0, <1>7, <3>2 DEF Has
      <4>2. Has(c, n, s) => Where(c, n, s) # exec[c].read
        BY <1>0, <1>7, <3>2, Distinct
      <4> QED
        BY <4>1, <4>2
    <3> QED
      BY <3>1, <3>2
  <2>3. \A fd \in {exec[c].read} : fd = None \/ \E n \in EndNames, s \in Sides : Has(c, n, s) /\ fd = Where(c, n, s)
    BY <1>7
  <2> QED
    BY <1>0, <1>3, <1>4, <2>2, <2>3, TableCloses
<1>9. Numbers(c)' /\ Stage(c)'
  <2>1. Numbers(c)'
    BY <1>0, <1>2, <1>7 DEF Numbers, Side
  <2>2. StreamsSet(c)'
    BY <1>0, <1>2 DEF Stage, Began, StreamsSet, EndOf, Side, Names
  <2>3. Stage(c)'
    <3>1. files'[c] = DOMAIN pipes'[c] /\ child'[c] # "none"
      BY <1>0, <1>2 DEF Stage, Began
    <3>2. ctor'[c] = "reaping" /\ eintr'[c] <= EintrLimit => told'[c]
      BY <1>0, <1>4
    <3>3. ctor'[c] = "built" => executed'[c]
      BY <1>0, <1>4
    <3> QED
      BY <1>7, <2>2, <3>1, <3>2, <3>3 DEF Stage, Began
  <2> QED
    BY <2>1, <2>3
<1>10. ToldOrExecuted(c)'
  BY <1>0, <1>2 DEF ToldOrExecuted
<1>11. ChildTable(c)'
  BY <1>0, <1>2, <1>3, ChildTableKept
<1>12. \A b \in Popens \ {c} : UNCHANGED PopenVars(b)
  BY <1>0, <1>3, <1>4 DEF PopenVars
<1>13. ctor[c] \in BusyStages
  BY <1>0 DEF BusyStages
<1> QED
  BY <1>0, <1>6, <1>8, <1>9, <1>10, <1>11, <1>12, <1>13, StepOf

LEMMA ReadEndsStep ==
    ASSUME PopenInv, PlainUsages, NEW c \in Popens, ReadEnds(c)
    PROVE  PopenInv'
<1>0. /\ ctor[c] = "reading" /\ Holders(<<c, "exec", "w">>) = {}
      /\ ctor' = [ctor EXCEPT ![c] = IF told[c] THEN "reaping" ELSE "built"]
      /\ ClientCloses({exec[c].read})
      /\ UNCHANGED <<argVars, files, exec, eintr, childVars, killed>>
  BY DEF ReadEnds
<1>1. Stage(c) /\ ChildTable(c) /\ ToldOrExecuted(c) /\ PopenTypeOK
  BY DEF PopenInv
<1>2. child[c] \notin {"forked", "streams"}
  <2>1. ExecHeld(c) => c \in Holders(<<c, "exec", "w">>)
    BY DEF ExecHeld, Holders, Processes
  <2> QED
    BY <1>0, <1>1, <2>1 DEF ChildTable
<1>3. child[c] \in {"running", "zombie", "reaped"}
  BY <1>0, <1>1, <1>2 DEF PopenTypeOK, Stage
<1>4. told[c] \/ executed[c]
  BY <1>1, <1>3 DEF ToldOrExecuted
<1>r. eintr' \in [Popens -> Nat] /\ \A b \in Popens \ {c} : eintr'[b] = eintr[b]
  BY <1>0, <1>1 DEF PopenTypeOK
<1>5. CASE told[c]
  <2>1. ctor' = [ctor EXCEPT ![c] = "reaping"]
    BY <1>0, <1>5
  <2> QED
    BY <1>0, <1>r, <1>5, <2>1, ReadStops
<1>6. CASE ~told[c]
  <2>1. ctor' = [ctor EXCEPT ![c] = "built"]
    BY <1>0, <1>6
  <2> QED
    BY <1>0, <1>r, <1>4, <1>6, <2>1, ReadStops
<1> QED
  BY <1>5, <1>6

\* A step that changes neither a table nor a constructor, and at most the child of c.
LEMMA QuietStep ==
    ASSUME PopenInv, PlainUsages, NEW c \in Popens, PopenTypeOK',
           UNCHANGED <<argVars, fds, ctor, files, exec, told, executed>>,
           \A b \in Popens \ {c} : child'[b] = child[b] /\ eintr'[b] = eintr[b],
           eintr'[c] = eintr[c] \/ ctor[c] = "reading",
           child'[c] = child[c] \/ (child[c] = "zombie" /\ child'[c] = "reaped")
    PROVE  PopenInv'
<1>0. UNCHANGED <<usage, pipes, stream, fds, ctor, files, exec, told, executed>>
  BY DEF argVars
<1>2. Numbers(c) /\ Stage(c) /\ ChildTable(c) /\ ToldOrExecuted(c)
  BY DEF PopenInv
<1>3. \A b \in Popens, n \in EndNames, s \in Sides :
         /\ Has(b, n, s)' <=> Has(b, n, s)
         /\ Has(b, n, s) => Where(b, n, s)' = Where(b, n, s)
  BY <1>0 DEF Has, Where, Side
<1>4. ClientTable'
  BY <1>0, <1>3, TableKept
<1>5. Numbers(c)'
  BY <1>0, <1>2 DEF Numbers, Side
<1>6. Stage(c)'
  BY <1>0, <1>2 DEF Stage, StreamsSet, EndOf, Side, Names
<1>7. ToldOrExecuted(c)'
  BY <1>0, <1>2 DEF ToldOrExecuted
<1>8. ChildTable(c)'
  <2>1. OwnEnds(c)' = OwnEnds(c)
    BY <1>0 DEF OwnEnds, Names
  <2> QED
    BY <1>0, <1>2, <2>1 DEF ChildTable, ExecHeld, Inherits, OwnOnly, OwnThere, Where, Side, PipeEnd
<1>9. \A b \in Popens \ {c} : UNCHANGED PopenVars(b)
  BY <1>0 DEF PopenVars
<1>10. (ctor'[c] \in BusyStages => ctor[c] \in BusyStages) /\ DOMAIN fds[Client] \subseteq DOMAIN fds'[Client]
  BY <1>0
<1> QED
  BY <1>0, <1>4, <1>5, <1>6, <1>7, <1>8, <1>9, <1>10, StepOf

LEMMA InterruptedStep ==
    ASSUME PopenInv, PlainUsages, NEW c \in Popens, Interrupted(c)
    PROVE  PopenInv'
<1>t. PopenTypeOK
  BY DEF PopenInv
<1>0. /\ ctor[c] = "reading" /\ eintr' = [eintr EXCEPT ![c] = eintr[c] + 1]
      /\ UNCHANGED <<argVars, files, exec, childVars, killed>>
  BY DEF Interrupted
<1>3. /\ eintr' \in [Popens -> Nat] /\ eintr[c] \in Nat /\ eintr'[c] = eintr[c] + 1
      /\ \A b \in Popens \ {c} : eintr'[b] = eintr[b]
  BY <1>t, <1>0 DEF PopenTypeOK
<1>1. CASE eintr[c] >= EintrLimit
  <2>1. ~(eintr'[c] <= EintrLimit)
    BY <1>1, <1>3, EintrAssumption
  <2>2. ctor' = [ctor EXCEPT ![c] = "reaping"] /\ ClientCloses({exec[c].read})
    BY <1>1 DEF Interrupted
  <2> QED
    BY <1>0, <1>3, <2>1, <2>2, ReadStops
<1>2. CASE ~(eintr[c] >= EintrLimit)
  <2>1. UNCHANGED <<ctor, fds>>
    BY <1>2 DEF Interrupted
  <2>2. PopenTypeOK'
    BY <1>t, <1>0, <1>3, <2>1 DEF PopenTypeOK, argVars, childVars
  <2> QED
    BY <1>0, <1>3, <2>1, <2>2, QuietStep DEF childVars
<1> QED
  BY <1>1, <1>2

LEMMA KillStep ==
    ASSUME PopenInv, PlainUsages, NEW c \in Popens, kill(c)
    PROVE  PopenInv'
<1>t. PopenTypeOK
  BY DEF PopenInv
<1>0. /\ UNCHANGED <<argVars, fds, ctor, files, exec, eintr, childVars>>
      /\ killed' = [d \in Popens |-> killed[d] \/ (d \in Target(c) /\ child[d] # "reaped")]
  BY DEF kill
<1>1. killed' \in [Popens -> BOOLEAN]
  <2>1. \A d \in Popens : (killed[d] \/ (d \in Target(c) /\ child[d] # "reaped")) \in BOOLEAN
    BY Zenon
  <2> QED
    BY <1>0, <2>1, Zenon
<1>2. PopenTypeOK'
  BY <1>t, <1>0, <1>1 DEF PopenTypeOK, argVars, childVars
<1> QED
  BY <1>0, <1>2, QuietStep DEF childVars

LEMMA ReapsStep ==
    ASSUME PopenInv, PlainUsages, NEW c \in Popens, NEW S \in SUBSET Popens, Reaps(S)
    PROVE  PopenInv'
<1>t. PopenTypeOK
  BY DEF PopenInv
<1>0. UNCHANGED <<argVars, fds, ctor, files, exec, eintr, told, executed, killed>>
  BY DEF Reaps
<1>1. CASE UNCHANGED child
  <2>1. PopenTypeOK'
    BY <1>t, <1>0, <1>1 DEF PopenTypeOK, argVars
  <2> QED
    BY <1>0, <1>1, <2>1, QuietStep
<1>2. ASSUME NEW d \in S, child[d] = "zombie", child' = [child EXCEPT ![d] = "reaped"]
      PROVE  PopenInv'
  <2>1. PopenTypeOK'
    BY <1>t, <1>0, <1>2 DEF PopenTypeOK, argVars
  <2>2. child'[d] = "reaped" /\ \A b \in Popens \ {d} : child'[b] = child[b]
    BY <1>t, <1>2 DEF PopenTypeOK
  <2> QED
    BY <1>0, <1>2, <2>1, <2>2, QuietStep
<1> QED
  BY <1>1, <1>2 DEF Reaps

LEMMA FailsStep ==
    ASSUME PopenInv, PlainUsages, NEW c \in Popens, Fails(c)
    PROVE  PopenInv'
<1>t. PopenTypeOK
  BY DEF PopenInv
<1>2. Numbers(c) /\ Stage(c) /\ ChildTable(c) /\ ToldOrExecuted(c)
  BY DEF PopenInv
<1> DEFINE destroyed == IF usage.deferSpawn THEN {} ELSE files[c]
<1>0. /\ ctor[c] = "reaping" /\ child[c] = "zombie" /\ child' = [child EXCEPT ![c] = "reaped"]
      /\ ClientCloses(CleanupFds(c) \union FileFds(c, destroyed))
      /\ files' = [files EXCEPT ![c] = files[c] \ destroyed]
      /\ ctor' = [ctor EXCEPT ![c] = "failed"]
      /\ UNCHANGED <<usage, pipes, stream, exec, eintr, told, executed, killed>>
  <2>1. files' = [files EXCEPT ![c] = @ \ destroyed] => files' = [files EXCEPT ![c] = files[c] \ destroyed]
    BY <1>t DEF PopenTypeOK
  <2> QED
    BY <2>1 DEF Fails, Throws, argVars
<1>3. /\ StreamsSet(c) /\ files[c] = DOMAIN pipes[c] /\ files[c] \subseteq PipeNames
      /\ (eintr[c] <= EintrLimit => told[c])
  BY <1>t, <1>0, <1>2 DEF Stage, Began, PopenTypeOK
<1>4. destroyed \subseteq DOMAIN pipes[c]
  BY <1>3
<1> HIDE DEF destroyed
<1>5. PICK Z : Z = CleanupFds(c) \union FileFds(c, destroyed)
  OBVIOUS
<1>6. /\ fds'[Client] = Close(fds[Client], Z) /\ \A b \in Popens : fds'[b] = fds[b]
      /\ DOMAIN fds' = Processes
  BY <1>t, <1>0, <1>5, ClientClosed
<1>7. /\ ctor'[c] = "failed" /\ files'[c] \subseteq files[c] /\ child'[c] = "reaped"
      /\ \A b \in Popens \ {c} : ctor'[b] = ctor[b] /\ files'[b] = files[b] /\ child'[b] = child[b]
  BY <1>t, <1>0 DEF PopenTypeOK
<1>8. PopenTypeOK'
  <2>1. files' \in [Popens -> SUBSET PipeNames]
    BY <1>t, <1>0 DEF PopenTypeOK
  <2>2. ctor' \in [Popens -> {"none", "args", "deferred", "spawn", "fork", "forked", "reading", "reaping",
                            "built", "failed", "oserror"}]
    BY <1>t, <1>0 DEF PopenTypeOK
  <2>3. child' \in [Popens -> {"none", "forked", "streams", "running", "zombie", "reaped"}]
    BY <1>t, <1>0 DEF PopenTypeOK
  <2> QED
    BY <1>t, <1>0, <1>6, <2>1, <2>2, <2>3 DEF PopenTypeOK
<1>9. \A n \in DOMAIN pipes[c] : /\ n \in EndNames /\ n # "exec" /\ Mine(n) \in Sides /\ Has(c, n, Mine(n))
                                 /\ \A s \in Sides : Side(pipes[c][n], s) # None
  <2>1. \A n \in DOMAIN pipes[c] : n \in EndNames /\ n # "exec" /\ Mine(n) \in Sides
    BY NamesMeet DEF Mine, Sides
  <2>2. \A n \in DOMAIN pipes[c], s \in Sides : Side(pipes[c][n], s) # None
    <3>1. \A e \in Pipe, s \in Sides : Side(e, s) # None
      BY FdAssumption DEF Pipe, Side, Fds, None
    <3> QED
      BY <3>1, NamesMeet
  <2>3. \A n \in DOMAIN pipes[c] : Has(c, n, Mine(n))
    BY <1>0, <1>3, <2>1 DEF Has
  <2> QED
    BY <2>1, <2>2, <2>3
<1>10. /\ \A fd \in CleanupFds(c) : fd = None \/ \E n \in DOMAIN pipes[c] : fd = Where(c, n, Mine(n))
       /\ \A n \in DOMAIN pipes[c] : Where(c, n, Mine(n)) \in CleanupFds(c)
  <2>1. \A n \in PipeNames : /\ n \notin DOMAIN pipes[c] => EndOf(c, n, Mine(n)) = None /\ EndOf(c, n, Its(n)) = None
                             /\ n \in DOMAIN pipes[c] => /\ EndOf(c, n, Mine(n)) = Where(c, n, Mine(n))
                                                         /\ EndOf(c, n, Its(n)) # None
    BY <1>9 DEF EndOf, Where, Its, Sides
  <2>2. \A fd \in CleanupFds(c) : fd = None \/ \E n \in PipeNames : fd = EndOf(c, n, Mine(n))
    BY <1>3 DEF CleanupFds, StreamsSet, PipeNames, Mine
  <2>3. "input" \in DOMAIN pipes[c] => Where(c, "input", Mine("input")) \in CleanupFds(c)
    BY <1>3, <2>1 DEF CleanupFds, StreamsSet, PipeNames, Mine, Its
  <2>4. "output" \in DOMAIN pipes[c] => Where(c, "output", Mine("output")) \in CleanupFds(c)
    BY <1>3, <2>1 DEF CleanupFds, StreamsSet, PipeNames, Mine, Its
  <2>5. "error" \in DOMAIN pipes[c] => Where(c, "error", Mine("error")) \in CleanupFds(c)
    <3>1. "error" \in DOMAIN pipes[c] => "stdout" \notin Names
      BY <1>3, Redirected DEF StreamsSet
    <3> QED
      BY <1>3, <2>1, <3>1 DEF CleanupFds, StreamsSet, PipeNames, Mine, Its
  <2> QED
    BY <1>3, <2>1, <2>2, <2>3, <2>4, <2>5 DEF PipeNames
<1>11. ClientTable'
  <2>1. ASSUME NEW fd \in Z
        PROVE  fd = None \/ \E n \in EndNames, s \in Sides : Has(c, n, s) /\ fd = Where(c, n, s)
    <3>1. fd = None \/ \E n \in DOMAIN pipes[c] : fd = Where(c, n, Mine(n))
      BY <1>3, <1>4, <1>5, <1>10, FilesClosed
    <3> QED
      BY <1>9, <3>1
  <2>2. ASSUME NEW n \in EndNames, NEW s \in Sides
        PROVE  /\ ~Has(c, n, s)'
               /\ Has(c, n, s) => Where(c, n, s) \in Z
    <3>1. ~Has(c, n, s)'
      BY <1>7 DEF Has
    <3>2. Has(c, n, s) => n \in DOMAIN pipes[c] /\ s = Mine(n)
      BY <1>0, <1>3 DEF Has
    <3> QED
      BY <1>5, <1>10, <3>1, <3>2
  <2> QED
    BY <1>0, <1>6, <1>7, <2>1, <2>2, TableCloses
<1>12. Numbers(c)' /\ Stage(c)'
  BY <1>0, <1>2, <1>3, <1>7 DEF Numbers, Stage, Began, Side
<1>13. ChildTable(c)' /\ ToldOrExecuted(c)'
  BY <1>0, <1>2, <1>3, <1>6, <1>7 DEF ChildTable, ToldOrExecuted
<1>14. \A b \in Popens \ {c} : UNCHANGED PopenVars(b)
  BY <1>0, <1>6, <1>7 DEF PopenVars
<1>15. ctor[c] \in BusyStages
  BY <1>0 DEF BusyStages
<1> QED
  BY <1>0, <1>8, <1>11, <1>12, <1>13, <1>14, <1>15, StepOf

\* A client that closes FILEs starts nothing later, so that the Popen is one that it has.
LEMMA CloseFileStep ==
    ASSUME PopenInv, PlainUsages, NEW c \in Popens, NEW file \in PipeNames,
           "close" \in usage.calls, CloseFile(c, file)
    PROVE  PopenInv'
<1>t. PopenTypeOK
  BY DEF PopenInv
<1>2. Numbers(c) /\ Stage(c) /\ ChildTable(c) /\ ToldOrExecuted(c)
  BY DEF PopenInv
<1>5. PICK Z : Z = FileFds(c, {file})
  OBVIOUS
<1>0. /\ ctor[c] \in {"built", "deferred"} /\ file \in files[c]
      /\ files' = [files EXCEPT ![c] = files[c] \ {file}]
      /\ ClientCloses(Z)
      /\ UNCHANGED <<usage, pipes, stream, ctor, exec, eintr, child, told, executed, killed>>
  <2>1. files' = [files EXCEPT ![c] = @ \ {file}] => files' = [files EXCEPT ![c] = files[c] \ {file}]
    BY <1>t DEF PopenTypeOK
  <2> QED
    BY <1>5, <2>1 DEF CloseFile, Usable, argVars, childVars
<1>1. ctor[c] = "built"
  BY <1>t, <1>0, <1>2 DEF PopenTypeOK, PlainUsages, Plain, Stage
<1>3. /\ fds'[Client] = Close(fds[Client], Z) /\ \A b \in Popens : fds'[b] = fds[b]
      /\ DOMAIN fds' = Processes
  BY <1>t, <1>0, ClientClosed
<1>4. files'[c] = files[c] \ {file} /\ \A b \in Popens \ {c} : files'[b] = files[b]
  BY <1>t, <1>0 DEF PopenTypeOK
<1>6. PopenTypeOK'
  <2>1. files' \in [Popens -> SUBSET PipeNames]
    BY <1>t, <1>0 DEF PopenTypeOK
  <2> QED
    BY <1>t, <1>0, <1>3, <2>1 DEF PopenTypeOK
<1>7. /\ StreamsSet(c) /\ file \in DOMAIN pipes[c] /\ file # "exec" /\ file \in EndNames /\ Mine(file) \in Sides
      /\ Has(c, file, Mine(file))
  <2>1. StreamsSet(c) /\ file \in DOMAIN pipes[c]
    BY <1>0, <1>1, <1>2 DEF Stage, Began
  <2>2. file # "exec" /\ file \in EndNames /\ Mine(file) \in Sides
    BY <2>1, NamesMeet DEF Mine, Sides
  <2> QED
    BY <1>0, <1>1, <2>1, <2>2 DEF Has
<1>8. \A fd : fd \in Z <=> fd = Where(c, file, Mine(file))
  BY <1>5, <1>7, FilesClosed
<1>9. ClientTable'
  <2>1. ASSUME NEW n \in EndNames, NEW s \in Sides
        PROVE  Has(c, n, s)' <=> Has(c, n, s) /\ Where(c, n, s) \notin Z
    <3>1. Has(c, n, s)' <=> Has(c, n, s) /\ n # file
      BY <1>0, <1>1, <1>4 DEF Has
    <3>2. Has(c, n, s) /\ n # file => Where(c, n, s) # Where(c, file, Mine(file))
      BY <1>1, <1>7, Distinct
    <3>3. Has(c, file, s) => s = Mine(file)
      BY <1>1, <1>7 DEF Has
    <3> QED
      BY <1>8, <3>1, <3>2, <3>3
  <2> QED
    BY <1>0, <1>1, <1>3, <1>4, <1>7, <1>8, <2>1, TableCloses
<1>10. Numbers(c)' /\ Stage(c)'
  <2>1. Numbers(c)'
    BY <1>0, <1>1, <1>2 DEF Numbers, Side
  <2>2. Stage(c)'
    BY <1>0, <1>1, <1>2, <1>4 DEF Stage, Began, StreamsSet, EndOf, Side, Names
  <2> QED
    BY <2>1, <2>2
<1>11. ToldOrExecuted(c)'
  BY <1>0, <1>2 DEF ToldOrExecuted
<1>12. ChildTable(c)'
  BY <1>0, <1>2, <1>3, ChildTableKept
<1>13. \A b \in Popens \ {c} : UNCHANGED PopenVars(b)
  BY <1>0, <1>3, <1>4 DEF PopenVars
<1>14. ~Busy /\ ctor'[c] \notin BusyStages
  BY <1>0, <1>1 DEF CloseFile, Usable, BusyStages
<1> QED
  BY <1>0, <1>6, <1>9, <1>10, <1>11, <1>12, <1>13, <1>14, StepOf

------------------------------------------------------------------------------
(* Steps of the child *)

\* A child that has not executed is one that the constructor has just made.
LEMMA ChildIsNew ==
    ASSUME PopenInv, NEW c \in Popens, child[c] \in {"forked", "streams"}
    PROVE  ctor[c] \in {"forked", "reading", "reaping"}
<1>1. Stage(c) /\ ToldOrExecuted(c)
  BY DEF PopenInv
<1>2. ctor[c] \in {"none", "args", "deferred", "spawn", "fork", "forked", "reading", "reaping",
                   "built", "failed", "oserror"}
  BY DEF PopenInv, PopenTypeOK
<1> QED
  BY <1>1, <1>2 DEF Stage, ToldOrExecuted

\* A step that changes c's child and its table alone.
LEMMA ChildStep ==
    ASSUME PopenInv, PlainUsages, NEW c \in Popens, NEW t, NEW state,
           state \in {"forked", "streams", "running", "zombie", "reaped"}, child[c] # "none",
           child[c] \in {"zombie", "reaped"} => state = "reaped",
           fds' = [fds EXCEPT ![c] = t], child' = [child EXCEPT ![c] = state],
           UNCHANGED <<argVars, ctor, files, exec, eintr, killed>>,
           told' \in [Popens -> BOOLEAN], executed' \in [Popens -> BOOLEAN],
           \A b \in Popens \ {c} : UNCHANGED <<told[b], executed[b]>>,
           told[c] => told'[c], executed[c] => executed'[c],
           ctor[c] = "failed" => state = "reaped",
           ChildTable(c)', ToldOrExecuted(c)'
    PROVE  PopenInv'
<1>t. PopenTypeOK
  BY DEF PopenInv
<1>2. Numbers(c) /\ Stage(c)
  BY DEF PopenInv
<1>0. UNCHANGED <<usage, pipes, stream, ctor, files, exec, eintr, killed>>
  BY DEF argVars
<1>3. /\ fds'[Client] = fds[Client] /\ DOMAIN fds' = Processes
      /\ \A b \in Popens \ {c} : fds'[b] = fds[b]
  BY <1>t, PopensAreNat DEF PopenTypeOK, Processes
<1>4. child'[c] = state /\ \A b \in Popens \ {c} : child'[b] = child[b]
  BY <1>t DEF PopenTypeOK
<1>5. PopenTypeOK'
  <2>1. child' \in [Popens -> {"none", "forked", "streams", "running", "zombie", "reaped"}]
    BY <1>t DEF PopenTypeOK
  <2> QED
    BY <1>t, <1>0, <1>3, <2>1 DEF PopenTypeOK
<1>6. \A b \in Popens, n \in EndNames, s \in Sides :
         /\ Has(b, n, s)' <=> Has(b, n, s)
         /\ Has(b, n, s) => Where(b, n, s)' = Where(b, n, s)
  BY <1>0 DEF Has, Where, Side
<1>7. ClientTable'
  BY <1>0, <1>3, <1>6, TableKept
<1>8. Numbers(c)'
  BY <1>0, <1>2, <1>3 DEF Numbers, Side
<1>9. Stage(c)'
  <2>1. StreamsSet(c) => StreamsSet(c)'
    BY <1>0 DEF StreamsSet, EndOf, Side, Names
  <2> QED
    BY <1>0, <1>2, <1>4, <2>1 DEF Stage
<1>10. \A b \in Popens \ {c} : UNCHANGED PopenVars(b)
  BY <1>0, <1>3, <1>4 DEF PopenVars
<1>11. (ctor'[c] \in BusyStages => ctor[c] \in BusyStages) /\ DOMAIN fds[Client] \subseteq DOMAIN fds'[Client]
  BY <1>0, <1>3
<1> QED
  BY <1>0, <1>5, <1>7, <1>8, <1>9, <1>10, <1>11, StepOf

\* Table u is t with the end e at fd, which exec does not close.
With(t, u, fd, e) ==
    /\ DOMAIN u = DOMAIN t \union {fd} /\ u[fd].end = e /\ ~u[fd].cloexec
    /\ \A x \in DOMAIN t \ {fd} : u[x] = t[x]

LEMMA Duplicated ==
    ASSUME NEW t, NEW fd, NEW to, NEW e, fd # None, t[fd] = [end |-> e, cloexec |-> TRUE]
    PROVE  With(t, dup2(t, fd, to), to, e)
<1>1. PICK d : d = [t[fd] EXCEPT !.cloexec = FALSE]
  OBVIOUS
<1>2. d.end = e /\ ~d.cloexec
  BY <1>1
<1>3. dup2(t, fd, to) = Put(t, to, d)
  BY <1>1 DEF dup2
<1> QED
  BY <1>2, <1>3 DEF Put, With

LEMMA NotDuplicated == ASSUME NEW t, NEW to PROVE dup2(t, None, to) = t
BY DEF dup2

\* A child's table has the standard streams, and all else that it had.
LEMMA StandardStreams ==
    ASSUME NEW t, NEW in, NEW out, NEW err, NEW ei, NEW eo, NEW ee,
           out # 0, err # 0, err # 1,
           in # None => in \in DOMAIN t /\ t[in] = [end |-> ei, cloexec |-> TRUE],
           out # None => out \in DOMAIN t /\ t[out] = [end |-> eo, cloexec |-> TRUE],
           err # None => err \in DOMAIN t /\ t[err] = [end |-> ee, cloexec |-> TRUE],
           NEW u, u = dup2(dup2(dup2(t, in, 0), out, 1), err, 2)
    PROVE  /\ \A fd : fd \in DOMAIN u <=> \/ fd \in DOMAIN t
                                          \/ fd = 0 /\ in # None
                                          \/ fd = 1 /\ out # None
                                          \/ fd = 2 /\ err # None
           /\ in # None => u[0].end = ei /\ ~u[0].cloexec
           /\ out # None => u[1].end = eo /\ ~u[1].cloexec
           /\ err # None => u[2].end = ee /\ ~u[2].cloexec
           /\ \A fd \in DOMAIN t : \/ fd = 0 /\ in # None
                                   \/ fd = 1 /\ out # None
                                   \/ fd = 2 /\ err # None
                                   \/ u[fd] = t[fd]
<1>1. PICK a : a = dup2(t, in, 0)
  OBVIOUS
<1>2. PICK b : b = dup2(a, out, 1)
  OBVIOUS
<1>3. u = dup2(b, err, 2)
  BY <1>1, <1>2
<1>4. /\ \A fd : fd \in DOMAIN a <=> fd \in DOMAIN t \/ (fd = 0 /\ in # None)
      /\ in # None => a[0].end = ei /\ ~a[0].cloexec
      /\ \A fd \in DOMAIN t : (fd = 0 /\ in # None) \/ a[fd] = t[fd]
  <2>1. CASE in = None
    BY <1>1, <2>1, NotDuplicated
  <2>2. CASE in # None
    <3>1. t[in] = [end |-> ei, cloexec |-> TRUE]
      BY <2>2
    <3>2. With(t, a, 0, ei)
      BY <1>1, <2>2, <3>1, Duplicated
    <3> QED
      BY <2>2, <3>2 DEF With
  <2> QED
    BY <2>1, <2>2
<1>5. /\ \A fd : fd \in DOMAIN b <=> fd \in DOMAIN a \/ (fd = 1 /\ out # None)
      /\ out # None => b[1].end = eo /\ ~b[1].cloexec
      /\ \A fd \in DOMAIN a : (fd = 1 /\ out # None) \/ b[fd] = a[fd]
  <2>1. CASE out = None
    BY <1>2, <2>1, NotDuplicated
  <2>2. CASE out # None
    <3>1. a[out] = [end |-> eo, cloexec |-> TRUE]
      BY <1>4, <2>2
    <3>2. With(a, b, 1, eo)
      BY <1>2, <2>2, <3>1, Duplicated
    <3> QED
      BY <2>2, <3>2 DEF With
  <2> QED
    BY <2>1, <2>2
<1>6. /\ \A fd : fd \in DOMAIN u <=> fd \in DOMAIN b \/ (fd = 2 /\ err # None)
      /\ err # None => u[2].end = ee /\ ~u[2].cloexec
      /\ \A fd \in DOMAIN b : (fd = 2 /\ err # None) \/ u[fd] = b[fd]
  <2>1. CASE err = None
    BY <1>3, <2>1, NotDuplicated
  <2>2. CASE err # None
    <3>1. err \in DOMAIN a /\ a[err] = [end |-> ee, cloexec |-> TRUE]
      BY <1>4, <2>2
    <3>2. b[err] = [end |-> ee, cloexec |-> TRUE]
      BY <1>5, <2>2, <3>1
    <3>3. With(b, u, 2, ee)
      BY <1>3, <2>2, <3>2, Duplicated
    <3> QED
      BY <2>2, <3>3 DEF With
  <2> QED
    BY <2>1, <2>2
<1> QED
  BY <1>4, <1>5, <1>6

LEMMA ExecuteStreamsStep ==
    ASSUME PopenInv, PlainUsages, NEW c \in Popens, ExecuteStreams(c)
    PROVE  PopenInv'
<1>t. PopenTypeOK
  BY DEF PopenInv
<1>n. Numbers(c) /\ Stage(c) /\ ChildTable(c) /\ ToldOrExecuted(c)
  BY DEF PopenInv
<1>0. /\ child[c] = "forked" /\ child' = [child EXCEPT ![c] = "streams"]
      /\ UNCHANGED <<argVars, ctor, files, exec, eintr, told, executed, killed>>
  BY DEF ExecuteStreams
<1>1. /\ ctor[c] \in {"forked", "reading", "reaping"} /\ StreamsSet(c) /\ exec[c] \in Pipe
      /\ DOMAIN pipes[c] # {} => exec[c].write > 2
      /\ Inherits(c) /\ ExecHeld(c)
  BY <1>0, <1>n, ChildIsNew DEF Numbers, Stage, Began, ChildTable
<1>2. ASSUME NEW n \in DOMAIN pipes[c]
      PROVE  /\ EndOf(c, n, Its(n)) \in DOMAIN fds[c] /\ EndOf(c, n, Its(n)) \in Nat
             /\ EndOf(c, n, Its(n)) \notin usage.open
             /\ fds[c][EndOf(c, n, Its(n))] = [end |-> <<c, n, Its(n)>>, cloexec |-> TRUE]
  <2>1. n # "exec" /\ pipes[c][n] \in Pipe /\ Its(n) \in Sides
    BY NamesMeet DEF Its, Sides
  <2>2. EndOf(c, n, Its(n)) = Where(c, n, Its(n)) /\ EndOf(c, n, Its(n)) = Side(pipes[c][n], Its(n))
    BY <2>1 DEF EndOf, Where
  <2>3. EndOf(c, n, Its(n)) \in Nat
    BY <2>1, <2>2, FdAssumption DEF Side, Pipe, Fds
  <2> QED
    BY <1>1, <1>n, <2>1, <2>2, <2>3 DEF Inherits, PipeEnd, Numbers
<1>3. \A n \in PipeNames \ DOMAIN pipes[c] : EndOf(c, n, Its(n)) = None
  BY DEF EndOf
<1>4. PICK in, out, err : /\ in = stream[c].read_from_parent /\ out = stream[c].write_to_parent
                          /\ err = stream[c].err_write
  OBVIOUS
<1>5. PICK ee : ee = IF "stdout" \in Names THEN <<c, "output", "w">> ELSE <<c, "error", "w">>
  OBVIOUS
<1>6. /\ in = EndOf(c, "input", Its("input")) /\ out = EndOf(c, "output", Its("output"))
      /\ err = IF "stdout" \in Names THEN EndOf(c, "output", Its("output")) ELSE EndOf(c, "error", Its("error"))
      /\ Its("input") = "r" /\ Its("output") = "w" /\ Its("error") = "w"
  BY <1>1, <1>4 DEF StreamsSet, Its
<1>7. /\ "stdout" \in Names => "output" \in Names /\ "error" \notin Names
      /\ \A n \in PipeNames : n \in DOMAIN pipes[c] <=> n \in Names
  <2>1. \A n \in PipeNames : n # "stdout"
    BY DEF PipeNames
  <2> QED
    BY <1>1, <2>1, Redirected DEF StreamsSet
<1>8. /\ in # None <=> "input" \in Names
      /\ out # None <=> "output" \in Names
      /\ err # None <=> "error" \in Names \/ "stdout" \in Names
      /\ in # None => in \in DOMAIN fds[c] /\ fds[c][in] = [end |-> <<c, "input", "r">>, cloexec |-> TRUE]
      /\ out # None => out \in DOMAIN fds[c] /\ fds[c][out] = [end |-> <<c, "output", "w">>, cloexec |-> TRUE]
      /\ err # None => err \in DOMAIN fds[c] /\ fds[c][err] = [end |-> ee, cloexec |-> TRUE]
  <2>1. "input" \in PipeNames /\ "output" \in PipeNames /\ "error" \in PipeNames
    BY DEF PipeNames
  <2>2. None \notin Nat
    BY DEF None
  <2> QED
    BY <1>2, <1>3, <1>5, <1>6, <1>7, <2>1, <2>2
<1>9. out # 0 /\ err # 0 /\ err # 1
  <2>1. out # 0
    <3>1. ASSUME "output" \in DOMAIN pipes[c]
          PROVE  pipes[c]["output"].write \in Nat /\ pipes[c]["output"].write # 0
      <4>1. /\ pipes[c]["output"].read < pipes[c]["output"].write
            /\ pipes[c]["output"].read \in Nat /\ pipes[c]["output"].write \in Nat
        BY <1>n, <3>1, NamesMeet, FdAssumption DEF Numbers, Pipe, Fds
      <4> QED
        BY <4>1
    <3> QED
      BY <1>6, <3>1 DEF EndOf, Side, None
  <2>2. ASSUME "error" \in Names \/ "stdout" \in Names
        PROVE  err # 0 /\ err # 1
    <3>1. 0 .. 2 \subseteq usage.open
      BY <2>2, StandardOpen
    <3>2. err \notin usage.open
      <4>1. "output" \in PipeNames /\ "error" \in PipeNames
        BY DEF PipeNames
      <4> QED
        BY <1>2, <1>6, <1>7, <2>2, <4>1
    <3> QED
      BY <3>1, <3>2
  <2>3. err = None => err # 0 /\ err # 1
    BY DEF None
  <2> QED
    BY <1>8, <2>1, <2>2, <2>3
<1>10. PICK u : u = dup2(dup2(dup2(fds[c], in, 0), out, 1), err, 2)
  OBVIOUS
<1>11. /\ \A fd : fd \in DOMAIN u <=> \/ fd \in DOMAIN fds[c]
                                      \/ fd = 0 /\ in # None
                                      \/ fd = 1 /\ out # None
                                      \/ fd = 2 /\ err # None
       /\ in # None => u[0].end = <<c, "input", "r">> /\ ~u[0].cloexec
       /\ out # None => u[1].end = <<c, "output", "w">> /\ ~u[1].cloexec
       /\ err # None => u[2].end = ee /\ ~u[2].cloexec
       /\ \A fd \in DOMAIN fds[c] : \/ fd = 0 /\ in # None
                                    \/ fd = 1 /\ out # None
                                    \/ fd = 2 /\ err # None
                                    \/ u[fd] = fds[c][fd]
  BY <1>8, <1>9, <1>10, StandardStreams
<1>12. PICK v : v = Close(u, {in, out, err} \ (0 .. 2))
  OBVIOUS
<1>13. PICK t : t = IF usage.closeFds THEN Restrict(v, DOMAIN v \intersect (0 .. 2 \union {exec[c].write})) ELSE v
  OBVIOUS
<1>14. fds' = [fds EXCEPT ![c] = t]
  BY <1>4, <1>9, <1>10, <1>12, <1>13 DEF ExecuteStreams
<1>15. /\ DOMAIN v = DOMAIN u \ ({in, out, err} \ (0 .. 2)) /\ \A fd \in DOMAIN v : v[fd] = u[fd]
  BY <1>12 DEF Close, Restrict
<1>16. /\ DOMAIN t \subseteq DOMAIN v /\ \A fd \in DOMAIN t : t[fd] = v[fd]
       /\ \A fd \in DOMAIN v : fd \in 0 .. 2 \/ fd = exec[c].write => fd \in DOMAIN t
  BY <1>13 DEF Restrict
<1>17. /\ \A fd \in DOMAIN t : fd \in DOMAIN u /\ t[fd] = u[fd]
       /\ \A fd \in 0 .. 2 : fd \in DOMAIN u => fd \in DOMAIN t
       /\ exec[c].write \in DOMAIN u /\ exec[c].write \notin {in, out, err} => exec[c].write \in DOMAIN t
  BY <1>15, <1>16
<1>18. fds'[c] = t /\ child'[c] = "streams" /\ UNCHANGED <<usage, pipes, exec>>
  BY <1>t, <1>0, <1>14 DEF PopenTypeOK, Processes, argVars
<1>19. OwnEnds(c)' = OwnEnds(c) /\ OwnEnds(c) \subseteq {<<0, <<c, "input", "r">>>>, <<1, <<c, "output", "w">>>>, <<2, ee>>}
  <2>1. OwnEnds(c)' = OwnEnds(c)
    BY <1>18 DEF OwnEnds, Names
  <2>2. "stdout" \in Names => ee = <<c, "output", "w">> /\ "error" \notin Names
    BY <1>5, <1>7
  <2>3. "stdout" \notin Names => ee = <<c, "error", "w">>
    BY <1>5
  <2> QED
    BY <2>1, <2>2, <2>3 DEF OwnEnds
<1>20. /\ <<0, <<c, "input", "r">>>> \in OwnEnds(c) <=> in # None
       /\ <<1, <<c, "output", "w">>>> \in OwnEnds(c) <=> out # None
       /\ <<2, ee>> \in OwnEnds(c) <=> err # None
  <2>1. CASE "stdout" \in Names
    <3>1. ee = <<c, "output", "w">> /\ err # None
      BY <1>5, <1>8, <2>1
    <3>2. <<2, <<c, "output", "w">>>> \in OwnEnds(c)
      BY <2>1 DEF OwnEnds
    <3> QED
      BY <1>8, <3>1, <3>2 DEF OwnEnds
  <2>2. CASE "stdout" \notin Names
    <3>1. ee = <<c, "error", "w">> /\ (err # None <=> "error" \in Names)
      BY <1>5, <1>8, <2>2
    <3> QED
      BY <1>8, <3>1 DEF OwnEnds
  <2> QED
    BY <2>1, <2>2
<1>21. ExecHeld(c)'
  <2>1. exec[c].write \in DOMAIN fds[c] /\ fds[c][exec[c].write].end = <<c, "exec", "w">>
    BY <1>1 DEF ExecHeld
  <2>2. exec[c].write \in Nat
    BY <1>1, FdAssumption DEF Pipe, Fds
  <2>3. exec[c].write \notin {in, out, err}
    <3>1. ee # <<c, "exec", "w">>
      BY <1>5
    <3>2. exec[c].write # None
      BY <2>2 DEF None
    <3> QED
      BY <1>8, <2>1, <3>1, <3>2
  <2>4. in # None \/ out # None \/ err # None => exec[c].write > 2
    BY <1>1, <1>7, <1>8 DEF PipeNames
  <2>5. u[exec[c].write] = fds[c][exec[c].write] /\ exec[c].write \in DOMAIN u
    BY <1>11, <2>1, <2>2, <2>4
  <2>6. exec[c].write \in DOMAIN t /\ t[exec[c].write].end = <<c, "exec", "w">>
    BY <1>17, <2>1, <2>3, <2>5
  <2> QED
    BY <1>18, <2>6 DEF ExecHeld
<1>22. OwnOnly(c)'
  <2>1. ASSUME NEW fd \in DOMAIN t
        PROVE  t[fd].cloexec \/ t[fd].end[2] = "file" \/ <<fd, t[fd].end>> \in OwnEnds(c)
    <3>1. fd \in DOMAIN u /\ t[fd] = u[fd]
      BY <1>17
    <3>2. CASE fd = 0 /\ in # None
      BY <1>11, <1>20, <3>1, <3>2
    <3>3. CASE fd = 1 /\ out # None
      BY <1>11, <1>20, <3>1, <3>3
    <3>4. CASE fd = 2 /\ err # None
      BY <1>11, <1>20, <3>1, <3>4
    <3>5. CASE fd \in DOMAIN fds[c] /\ u[fd] = fds[c][fd]
      BY <1>1, <3>1, <3>5 DEF Inherits
    <3> QED
      BY <1>11, <3>1, <3>2, <3>3, <3>4, <3>5
  <2> QED
    BY <1>18, <1>19, <2>1 DEF OwnOnly
<1>23. OwnThere(c)'
  <2>1. ASSUME NEW own \in OwnEnds(c)
        PROVE  own[1] \in DOMAIN t /\ t[own[1]].end = own[2] /\ ~t[own[1]].cloexec
    <3>1. CASE own = <<0, <<c, "input", "r">>>>
      BY <1>11, <1>17, <1>20, <3>1
    <3>2. CASE own = <<1, <<c, "output", "w">>>>
      BY <1>11, <1>17, <1>20, <3>2
    <3>3. CASE own = <<2, ee>>
      BY <1>11, <1>17, <1>20, <3>3
    <3> QED
      BY <1>19, <3>1, <3>2, <3>3
  <2> QED
    BY <1>18, <1>19, <2>1 DEF OwnThere
<1>24. ChildTable(c)'
  BY <1>18, <1>21, <1>22, <1>23 DEF ChildTable
<1>25. ToldOrExecuted(c)'
  BY <1>0, <1>18, <1>n DEF ToldOrExecuted
<1>26. told' \in [Popens -> BOOLEAN] /\ executed' \in [Popens -> BOOLEAN]
  BY <1>t, <1>0 DEF PopenTypeOK
<1> QED
  BY <1>0, <1>1, <1>14, <1>24, <1>25, <1>26, ChildStep

LEMMA ExecStep ==
    ASSUME PopenInv, PlainUsages, NEW c \in Popens, Exec(c)
    PROVE  PopenInv'
<1>t. PopenTypeOK
  BY DEF PopenInv
<1>n. ChildTable(c) /\ ToldOrExecuted(c)
  BY DEF PopenInv
<1>1. PICK t : t = RestrictValues(fds[c], LAMBDA d : ~d.cloexec)
  OBVIOUS
<1>0. /\ child[c] = "streams" /\ child' = [child EXCEPT ![c] = "running"]
      /\ executed' = [executed EXCEPT ![c] = TRUE]
      /\ fds' = [fds EXCEPT ![c] = t]
      /\ UNCHANGED <<argVars, ctor, files, exec, eintr, told, killed>>
  <2>1. fds' = [fds EXCEPT ![c] = t]
    BY <1>t, <1>1 DEF Exec, PopenTypeOK, Processes
  <2> QED
    BY <2>1 DEF Exec
<1>2. /\ \A fd : fd \in DOMAIN t <=> fd \in DOMAIN fds[c] /\ ~fds[c][fd].cloexec
      /\ \A fd \in DOMAIN t : t[fd] = fds[c][fd]
  BY <1>1 DEF RestrictValues, Restrict
<1>3. fds'[c] = t /\ child'[c] = "running" /\ UNCHANGED <<usage, pipes, exec>>
  BY <1>t, <1>0 DEF PopenTypeOK, Processes, argVars
<1>4. OwnOnly(c) /\ OwnThere(c) /\ OwnEnds(c)' = OwnEnds(c)
  BY <1>0, <1>3, <1>n DEF ChildTable, OwnEnds, Names
<1>5. ChildTable(c)'
  <2>1. OwnOnly(c)'
    BY <1>2, <1>3, <1>4 DEF OwnOnly
  <2>2. OwnThere(c)'
    BY <1>2, <1>3, <1>4 DEF OwnThere
  <2>3. \A fd \in DOMAIN fds'[c] : ~fds'[c][fd].cloexec
    BY <1>2, <1>3
  <2> QED
    BY <1>3, <2>1, <2>2, <2>3 DEF ChildTable
<1>6. executed' \in [Popens -> BOOLEAN] /\ executed'[c] /\ \A b \in Popens \ {c} : executed'[b] = executed[b]
  BY <1>t, <1>0 DEF PopenTypeOK
<1>7. ToldOrExecuted(c)'
  BY <1>0, <1>3, <1>6, <1>n DEF ToldOrExecuted
<1>8. told' \in [Popens -> BOOLEAN] /\ \A b \in Popens \ {c} : UNCHANGED <<told[b], executed[b]>>
  BY <1>t, <1>0, <1>6 DEF PopenTypeOK
<1>9. ctor[c] # "failed"
  BY <1>0, ChildIsNew
<1> QED
  BY <1>0, <1>5, <1>6, <1>7, <1>8, <1>9, ChildStep

LEMMA EndsStep ==
    ASSUME PopenInv, PlainUsages, NEW c \in Popens, ExecFails(c) \/ Exits(c)
    PROVE  PopenInv'
<1>t. PopenTypeOK
  BY DEF PopenInv
<1>n. Stage(c) /\ ChildTable(c) /\ ToldOrExecuted(c)
  BY DEF PopenInv
<1>1. PICK t : t = <<>>
  OBVIOUS
<1>0. /\ child[c] \in {"streams", "running"} /\ child' = [child EXCEPT ![c] = "zombie"]
      /\ fds' = [fds EXCEPT ![c] = t]
      /\ UNCHANGED <<argVars, ctor, files, exec, eintr, executed, killed>>
  BY <1>1 DEF ExecFails, Exits, Ends
<1>2. /\ \A b \in Popens \ {c} : told'[b] = told[b]
      /\ told' \in [Popens -> BOOLEAN]
      /\ child[c] = "streams" => told'[c]
      /\ child[c] = "running" => told'[c] = told[c]
  <2>1. CASE ExecFails(c)
    <3>1. ExecHeld(c) /\ child[c] = "streams"
      BY <1>n, <2>1 DEF ExecFails, ChildTable
    <3>2. told' = [told EXCEPT ![c] = TRUE]
      <4>1. (/\ exec[c].write \in DOMAIN fds[c]
             /\ fds[c][exec[c].write].end = <<c, "exec", "w">>) = TRUE
        BY <3>1, Zenon DEF ExecHeld
      <4> QED
        BY <2>1, <4>1 DEF ExecFails
    <3> QED
      BY <1>t, <3>1, <3>2 DEF PopenTypeOK
  <2>2. CASE Exits(c)
    BY <1>t, <2>2 DEF Exits, PopenTypeOK
  <2> QED
    BY <2>1, <2>2
<1>3. fds'[c] = t /\ child'[c] = "zombie"
  BY <1>t, <1>0 DEF PopenTypeOK, Processes
<1>4. ChildTable(c)'
  BY <1>1, <1>3 DEF ChildTable
<1>5. ToldOrExecuted(c)'
  BY <1>0, <1>2, <1>3, <1>n DEF ToldOrExecuted
<1>6. executed' \in [Popens -> BOOLEAN] /\ executed' = executed
  BY <1>t, <1>0 DEF PopenTypeOK
<1>7. ctor[c] # "failed" /\ child[c] \notin {"none", "zombie", "reaped"}
  BY <1>0, <1>n DEF Stage
<1>8. told[c] => told'[c]
  BY <1>0, <1>2
<1> QED
  BY <1>0, <1>2, <1>4, <1>5, <1>6, <1>7, <1>8, ChildStep

------------------------------------------------------------------------------
(* All steps, and what follows *)

LEMMA PopenStep ==
    ASSUME PlainUsages, PopenInv, [PopenNext]_popenVars
    PROVE  PopenInv'
<1>1. CASE UNCHANGED popenVars
  <2>1. UNCHANGED <<usage, pipes, stream, fds, ctor, files, exec, eintr, child, told, executed, killed>>
    BY <1>1 DEF popenVars, argVars, childVars
  <2>2. CASE Popens = {}
    BY <2>1, <2>2 DEF PopenInv, PopenTypeOK, ClientTable, Placed, OneBusy
  <2>3. ASSUME NEW c \in Popens
        PROVE  PopenInv'
    <3>1. PopenTypeOK'
      BY <2>1 DEF PopenInv, PopenTypeOK
    <3> QED
      BY <2>1, <3>1, QuietStep DEF argVars
  <2> QED
    BY <2>2, <2>3
<1>2. ASSUME NEW c \in Popens,
             \/ Begin(c) \/ Construct(c) \/ Interrupted(c)
             \/ ClientCalls(c) \/ ChildStarts(c) \/ Exits(c)
      PROVE  PopenInv'
  <2>1. CASE Begin(c)
    BY <2>1, BeginStep
  <2>2. CASE Construct(c)
    <3>1. CASE \E name \in {"input", "output", "error"} : OpenPipe(c, name)
      BY <3>1, OpenPipeStep DEF PipeNames
    <3>2. CASE InitArgs(c) \/ OpenExecPipe(c) \/ Fork(c) \/ ForkFails(c)
      BY <3>2, InitArgsStep, OpenExecStep, ForkStep, ForkFailsStep
    <3>3. CASE AfterFork(c) \/ ReadEnds(c) \/ Fails(c)
      BY <3>3, AfterForkStep, ReadEndsStep, FailsStep
    <3> QED
      BY <2>2, <3>1, <3>2, <3>3 DEF Construct
  <2>6. CASE Interrupted(c)
    BY <2>6, InterruptedStep
  <2>3. CASE ClientCalls(c)
    <3>1. CASE start_process(c)
      BY <3>1, StartStep
    <3>2. CASE kill(c)
      BY <3>2, KillStep
    <3>3. CASE wait(c)
      <4>1. Target(c) \in SUBSET Popens
        BY DEF Target, Created
      <4> QED
        BY <3>3, <4>1, ReapsStep DEF wait
    <3>4. CASE poll(c)
      BY <3>4, ReapsStep DEF poll
    <3>5. CASE "close" \in usage.calls /\ \E file \in {"input", "output", "error"} : CloseFile(c, file)
      BY <3>5, CloseFileStep DEF PipeNames
    <3> QED
      BY <2>3, <3>1, <3>2, <3>3, <3>4, <3>5 DEF ClientCalls
  <2>4. CASE ChildStarts(c)
    BY <2>4, ExecuteStreamsStep, ExecStep, EndsStep DEF ChildStarts
  <2>5. CASE Exits(c)
    BY <2>5, EndsStep
  <2> QED
    BY <1>2, <2>1, <2>2, <2>3, <2>4, <2>5, <2>6
<1> QED
  BY <1>1, <1>2 DEF PopenNext

\* In every state of the program the client and the children have the ends of pipes
\* that the stage of each constructor and of each child says.
THEOREM PopenInvariant ==
    ASSUME PlainUsages
    PROVE  PopenSpec => []PopenInv
<1>1. PopenInit => PopenInv
  BY PopenStart
<1>2. PopenInv /\ [PopenNext]_popenVars => PopenInv'
  BY PopenStep
<1> QED
  BY <1>1, <1>2, PTL DEF PopenSpec

\* A constructor that returns has a child that has executed; one that throws
\* CalledProcessError has a child that has not, unless the constructor has given up
\* reading, which it has waited for, and no end of a pipe of it is left with the client:
\* whatever order the children, the client's calls and the signals come in.
THEOREM TellsTruly ==
    ASSUME PlainUsages
    PROVE  PopenSpec => []ConstructorTells
<1>1. PopenInv => ConstructorTells
  <2> SUFFICES ASSUME PopenInv, NEW c \in Popens
               PROVE  /\ ctor[c] = "built" => executed[c]
                      /\ ctor[c] \in {"reaping", "failed"} /\ ~GaveUp(c) => ~executed[c]
                      /\ ctor[c] = "failed" => /\ child[c] = "reaped"
                                              /\ \A fd \in DOMAIN fds[Client] : fds[Client][fd].end[1] # c
    BY DEF ConstructorTells
  <2>1. Stage(c) /\ ToldOrExecuted(c)
    BY DEF PopenInv
  <2>3. ~GaveUp(c) => eintr[c] <= EintrLimit
    BY EintrAssumption DEF PopenInv, PopenTypeOK, GaveUp
  <2>2. ASSUME ctor[c] = "failed", NEW fd \in DOMAIN fds[Client]
        PROVE  fds[Client][fd].end[1] # c
    <3>1. Placed(fd)
      BY DEF PopenInv, ClientTable
    <3>2. CASE fds[Client][fd] = FileOf(fd)
      <4>1. fds[Client][fd].end[1] = Client
        BY <3>2 DEF FileOf
      <4> QED
        BY <4>1, PopensAreNat
    <3>3. ASSUME NEW b \in Popens, NEW n \in EndNames, NEW s \in Sides,
                 Has(b, n, s), fds[Client][fd] = PipeEnd(b, n, s)
          PROVE  fds[Client][fd].end[1] # c
      <4>1. b # c
        BY <2>2, <3>3 DEF Has
      <4>2. fds[Client][fd].end[1] = b
        BY <3>3 DEF PipeEnd
      <4> QED
        BY <4>1, <4>2
    <3> QED
      BY <3>1, <3>2, <3>3 DEF Placed
  <2> QED
    BY <2>1, <2>2, <2>3 DEF Stage, ToldOrExecuted
<1> QED
  BY <1>1, PopenInvariant, PTL

\* A child that runs has the streams it was given at 0, 1 and 2, and no other end of
\* any Popen's pipe, for any descriptors that were free when the pipes were made.
THEOREM StreamsAreOwn ==
    ASSUME PlainUsages
    PROVE  PopenSpec => []ChildStreams
<1>1. PopenInv => ChildStreams
  <2> SUFFICES ASSUME PopenInv, NEW c \in Popens, child[c] = "running"
               PROVE  {<<fd, fds[c][fd].end>> : fd \in {f \in DOMAIN fds[c] : fds[c][f].end[2] # "file"}} = OwnEnds(c)
    BY DEF ChildStreams
  <2>1. /\ \A fd \in DOMAIN fds[c] : fds[c][fd].end[2] = "file" \/ <<fd, fds[c][fd].end>> \in OwnEnds(c)
        /\ \A own \in OwnEnds(c) : own[1] \in DOMAIN fds[c] /\ fds[c][own[1]].end = own[2]
    BY DEF PopenInv, ChildTable, OwnOnly, OwnThere
  <2>2. \A own \in OwnEnds(c) : own = <<own[1], own[2]>> /\ own[2][2] # "file"
    BY DEF OwnEnds
  <2> QED
    BY <2>1, <2>2
<1> QED
  BY <1>1, PopenInvariant, PTL

\* While no child is about to execute, the ends of a Popen's pipes are each with one
\* process: the client has its side of those it has not closed, at most the child has
\* the other, and nobody the exec pipe.
THEOREM EndsPrivate ==
    ASSUME PlainUsages
    PROVE  PopenSpec => []EndsArePrivate
<1>1. PopenInv => EndsArePrivate
  <2> SUFFICES ASSUME PopenInv, ~Busy, \A c \in Popens : child[c] \notin {"forked", "streams"},
                      NEW c \in Popens, ctor[c] = "built"
               PROVE  /\ \A side \in {"r", "w"} : Holders(<<c, "exec", side>>) = {}
                      /\ \A name \in {"input", "output", "error"} :
                            /\ Holders(<<c, name, Mine(name)>>) = (IF name \in files[c] THEN {Client} ELSE {})
                            /\ Holders(<<c, name, Its(name)>>) \subseteq {c}
    BY DEF EndsArePrivate, Mine, Its
  <2>1. ASSUME NEW n \in EndNames, NEW s \in Sides, NEW p \in Popens, p \in Holders(<<c, n, s>>)
        PROVE  p = c /\ n # "exec" /\ s = Its(n)
    <3>1. PICK fd \in DOMAIN fds[p] : fds[p][fd].end = <<c, n, s>>
      BY <2>1 DEF Holders
    <3>2. child[p] = "running"
      <4>1. child[p] \in {"none", "forked", "streams", "running", "zombie", "reaped"}
        BY DEF PopenInv, PopenTypeOK
      <4> QED
        BY <3>1, <4>1 DEF PopenInv, ChildTable
    <3>3. <<fd, <<c, n, s>>>> \in OwnEnds(p)
      <4>1. n # "file"
        BY DEF EndNames, PipeNames
      <4> QED
        BY <3>1, <3>2, <4>1 DEF PopenInv, ChildTable, OwnOnly
    <3>4. <<fd, <<c, n, s>>>> \in {<<0, <<p, "input", "r">>>>, <<1, <<p, "output", "w">>>>,
                                   <<2, <<p, "error", "w">>>>, <<2, <<p, "output", "w">>>>}
      BY <3>3 DEF OwnEnds
    <3> QED
      BY <3>4 DEF Its
  <2>2. ASSUME NEW n \in EndNames, NEW s \in Sides
        PROVE  Client \in Holders(<<c, n, s>>) <=> Has(c, n, s)
    <3>1. Client \in Holders(<<c, n, s>>) <=> \E fd \in DOMAIN fds[Client] : fds[Client][fd].end = <<c, n, s>>
      BY DEF Holders, Processes
    <3>2. ASSUME NEW fd \in DOMAIN fds[Client], fds[Client][fd].end = <<c, n, s>>
          PROVE  Has(c, n, s)
      <4>1. Placed(fd)
        BY DEF PopenInv, ClientTable
      <4>2. fds[Client][fd] # FileOf(fd)
        BY <3>2, PopensAreNat DEF FileOf
      <4>3. PICK b \in Popens, m \in EndNames, q \in Sides : Has(b, m, q) /\ fds[Client][fd] = PipeEnd(b, m, q)
        BY <4>1, <4>2 DEF Placed
      <4>4. b = c /\ m = n /\ q = s
        BY <3>2, <4>3 DEF PipeEnd
      <4> QED
        BY <4>3, <4>4
    <3>3. ASSUME Has(c, n, s)
          PROVE  \E fd \in DOMAIN fds[Client] : fds[Client][fd].end = <<c, n, s>>
      <4>1. There(c, n, s)
        BY <3>3 DEF PopenInv, ClientTable
      <4> QED
        BY <4>1 DEF There, PipeEnd
    <3> QED
      BY <3>1, <3>2, <3>3
  <2>3. \A n \in EndNames, s \in Sides : Has(c, n, s) <=> n # "exec" /\ n \in files[c] /\ s = Mine(n)
    BY DEF Has
  <2>4. \A e, p : p \in Holders(e) => p = Client \/ p \in Popens
    BY DEF Holders, Processes
  <2>5. \A side \in {"r", "w"} : Holders(<<c, "exec", side>>) = {}
    BY <2>1, <2>2, <2>3, <2>4 DEF EndNames, Sides
  <2>6. ASSUME NEW name \in PipeNames
        PROVE  /\ Holders(<<c, name, Mine(name)>>) = (IF name \in files[c] THEN {Client} ELSE {})
               /\ Holders(<<c, name, Its(name)>>) \subseteq {c}
    <3>1. name \in EndNames /\ name # "exec" /\ Mine(name) \in Sides /\ Its(name) \in Sides /\ Mine(name) # Its(name)
      BY DEF EndNames, PipeNames, Mine, Its, Sides
    <3>2. \A p \in Popens : p \notin Holders(<<c, name, Mine(name)>>)
      BY <2>1, <3>1
    <3>3. \A p \in Popens : p \in Holders(<<c, name, Its(name)>>) => p = c
      BY <2>1, <3>1
    <3>4. Client \in Holders(<<c, name, Mine(name)>>) <=> name \in files[c]
      BY <2>2, <2>3, <3>1
    <3>5. Client \notin Holders(<<c, name, Its(name)>>)
      BY <2>2, <2>3, <3>1
    <3> QED
      BY <2>4, <3>2, <3>3, <3>4, <3>5
  <2> QED
    BY <2>5, <2>6 DEF PipeNames
<1> QED
  BY <1>1, PopenInvariant, PTL
=============================================================================
