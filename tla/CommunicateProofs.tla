-------------------------- MODULE CommunicateProofs --------------------------
(***************************************************************************)
(* Theorems about Communicate: the buffers of readers hold what is read,   *)
(* and what a child writes is what communicate returns, for any pipes,     *)
(* buffers and messages.                                                   *)
(***************************************************************************)
EXTENDS Communicate, TLAPS

Streams == {"input"} \union Outputs
Readers == [at : {"none", "reading", "done", "closed"}, total : Nat, fill : Nat, size : Nat,
            rbytes : Nat, eintr : Nat, result : Int]

CommTypeOK ==
    /\ given \in SUBSET Streams /\ length \in Nat
    /\ main \in {"call", "write", "get", "unwind", "wait", "returned", "threw"}
    /\ sent \in Nat /\ input \in BOOLEAN
    /\ pipe \in [Streams -> Nat]
    /\ reader \in [Outputs -> Readers]
    /\ child \in {"think", "dead"} \union Streams
    /\ wrote \in [Outputs -> Nat] /\ eaten \in Nat /\ sawEnd \in BOOLEAN

BufferInv == CommTypeOK /\ BufferHolds

\* The message is what was eaten, what is in the pipe and what is not sent, and a
\* child that lives sees the end of its input only when all was sent.
InputInv ==
    /\ eaten + pipe["input"] = sent /\ sent <= length
    /\ child = "input" => "input" \in given /\ ~sawEnd
    /\ "input" \in given /\ ~input /\ child # "dead" => sent = length
    /\ sawEnd => eaten = length

\* What a reader returns is settled: nothing that the child still writes changes it.
Returns(r) == IF FixedBuffer(r) THEN Smaller(wrote[r], BufferCap) ELSE wrote[r]
Settled(r) ==
    /\ reader[r].result = Returns(r)
    /\ \/ child = "dead" \/ reader[r].at = "closed"
       \/ FixedBuffer(r) /\ reader[r].result = BufferCap

\* What a child wrote is in the buffer and the pipe while its reader reads, and is
\* what the reader returns unless it gives up.
Accounted(r) ==
    /\ FixedBuffer(r) => reader[r].fill = BufferCap /\ reader[r].total = 0
    /\ reader[r].at \in {"none", "reading"} =>
          wrote[r] = reader[r].total + reader[r].rbytes + pipe[r]
    /\ reader[r].at \in {"done", "closed"} /\ reader[r].eintr <= EintrLimit => Settled(r)
    /\ reader[r].at = "none" <=> main = "call"
    /\ main \in {"wait", "returned"} => reader[r].at \in {"done", "closed"}

OutputInv ==
    /\ child \in Outputs => child \in given
    /\ \A r \in given \intersect Outputs : Accounted(r)

CommInv == BufferInv /\ InputInv /\ OutputInv

------------------------------------------------------------------------------
(* Types and buffers *)

LEMMA BufferStart == CommInit => BufferInv
<1> SUFFICES ASSUME CommInit PROVE BufferInv
  OBVIOUS
<1>1. NoReader \in Readers
  BY CapacityAssumption DEF NoReader, Readers
<1>2. NoReader.rbytes <= NoReader.fill /\ NoReader.total + NoReader.fill = NoReader.size
  BY CapacityAssumption DEF NoReader
<1>3. \A r \in Outputs : reader[r] = NoReader
  BY DEF CommInit
<1>4. BufferHolds
  BY <1>2, <1>3 DEF BufferHolds
<1>5. given \in SUBSET Streams /\ length \in Nat
  BY GivenAssumption, CountAssumption DEF CommInit, Streams, Outputs
<1>6. input \in BOOLEAN
  BY DEF CommInit
<1>7. pipe \in [Streams -> Nat] /\ reader \in [Outputs -> Readers] /\ wrote \in [Outputs -> Nat]
  BY <1>1 DEF CommInit, Streams
<1>8. CommTypeOK
  BY <1>5, <1>6, <1>7 DEF CommInit, CommTypeOK
<1> QED
  BY <1>4, <1>8 DEF BufferInv

\* Steps of the client's thread and of the child leave buffers alone.
LEMMA ClientBuffers == BufferInv /\ Client => BufferInv'
<1> SUFFICES ASSUME BufferInv, Client PROVE BufferInv'
  OBVIOUS
<1>1. CommTypeOK /\ BufferHolds
  BY DEF BufferInv
<1>2. CASE Call
  BY <1>1, <1>2 DEF Call, BufferInv, CommTypeOK, BufferHolds, Readers, childVars
<1>3. CASE Write
  BY <1>1, <1>3 DEF Write, BufferInv, CommTypeOK, BufferHolds, Streams, childVars
<1>4. CASE WriteFails \/ CloseInput \/ Unwind \/ Wait
  BY <1>1, <1>4 DEF WriteFails, CloseInput, Unwind, Wait, BufferInv, CommTypeOK, BufferHolds, childVars
<1>5. CASE Get
  <2>1. /\ main' \in {"threw", "wait"}
        /\ UNCHANGED <<given, length, sent, input, pipe, child, wrote, eaten, sawEnd>>
    BY <1>5 DEF Get, childVars
  <2>2. /\ reader' \in [Outputs -> Readers]
        /\ \A r \in Outputs : /\ reader'[r].rbytes = reader[r].rbytes
                              /\ reader'[r].fill = reader[r].fill
                              /\ reader'[r].total = reader[r].total
                              /\ reader'[r].size = reader[r].size
    BY <1>1, <1>5 DEF Get, CommTypeOK, Readers
  <2> QED
    BY <1>1, <2>1, <2>2 DEF BufferInv, CommTypeOK, BufferHolds
<1> QED
  BY <1>2, <1>3, <1>4, <1>5 DEF Client

LEMMA ChildBuffers == BufferInv /\ Child => BufferInv'
<1> SUFFICES ASSUME BufferInv, Child PROVE BufferInv'
  OBVIOUS
<1>1. CommTypeOK /\ BufferHolds
  BY DEF BufferInv
<1>2. UNCHANGED <<given, length, main, sent, input, reader>>
  BY DEF Child, Decide, ReadInput, WriteOutput, BrokenPipe, clientVars
<1>3. CASE Decide \/ BrokenPipe
  BY <1>1, <1>2, <1>3 DEF Decide, BrokenPipe, BufferInv, CommTypeOK, BufferHolds, Streams
<1>4. CASE ReadInput
  <2>1. wrote' = wrote /\ child' = "think"
    BY <1>4 DEF ReadInput
  <2>2. pipe' \in [Streams -> Nat] /\ eaten' \in Nat /\ sawEnd' \in BOOLEAN
    <3>1. "input" \in Streams /\ pipe["input"] \in Nat /\ eaten \in Nat /\ sawEnd \in BOOLEAN
      BY <1>1 DEF CommTypeOK, Streams
    <3>2. CASE pipe["input"] > 0
      BY <1>1, <1>4, <3>1, <3>2 DEF ReadInput, CommTypeOK
    <3>3. CASE ~(pipe["input"] > 0)
      BY <1>1, <1>4, <3>1, <3>3 DEF ReadInput, CommTypeOK
    <3> QED
      BY <3>2, <3>3
  <2> QED
    BY <1>1, <1>2, <2>1, <2>2 DEF BufferInv, CommTypeOK, BufferHolds
<1>5. CASE WriteOutput
  BY <1>1, <1>2, <1>5 DEF WriteOutput, BufferInv, CommTypeOK, BufferHolds, Streams
<1> QED
  BY <1>3, <1>4, <1>5 DEF Child

\* A buffer grows by the part that the next call fills.
LEMMA GrowHolds ==
    ASSUME NEW rd \in Readers, rd.rbytes = rd.fill, rd.total + rd.fill = rd.size
    PROVE  /\ Grow(rd) \in Readers
           /\ Grow(rd).at = rd.at /\ Grow(rd).total = rd.total + rd.rbytes /\ Grow(rd).rbytes = 0
           /\ Grow(rd).total + Grow(rd).fill = Grow(rd).size
           /\ Grow(rd).fill = rd.size
<1>1. /\ rd.total + rd.rbytes \in Nat /\ 2 * rd.size \in Nat /\ rd.size \in Nat
      /\ rd.total \in Nat /\ rd.rbytes \in Nat
  BY DEF Readers
<1>2. ASSUME NEW a \in Nat, NEW b \in Nat, NEW c \in Nat
      PROVE  [rd EXCEPT !.total = a, !.size = b, !.fill = c, !.rbytes = 0, !.eintr = 0] \in Readers
  BY DEF Readers
<1>3. Grow(rd) \in Readers
  BY <1>1, <1>2 DEF Grow
<1> QED
  BY <1>1, <1>3 DEF Readers, Grow

\* The end of a call leaves the buffer alone.
Done(rd, n) == [rd EXCEPT !.at = "done", !.result = n]

LEMMA DoneHolds ==
    ASSUME NEW rd \in Readers, NEW n \in Int
    PROVE  /\ Done(rd, n) \in Readers /\ Done(rd, n).at = "done" /\ Done(rd, n).result = n
           /\ Done(rd, n).rbytes = rd.rbytes /\ Done(rd, n).fill = rd.fill
           /\ Done(rd, n).total = rd.total /\ Done(rd, n).size = rd.size
<1>1. Done(rd, n) \in Readers
  BY DEF Readers, Done
<1> QED
  BY <1>1 DEF Readers, Done

LEMMA ReaderBuffers ==
    ASSUME BufferInv, NEW r \in Outputs, ReaderStep(r) \/ Interrupted(r)
    PROVE  BufferInv'
<1>1. CommTypeOK /\ BufferHolds /\ reader[r] \in Readers /\ pipe[r] \in Nat
  BY DEF BufferInv, CommTypeOK, Streams
<1>2. UNCHANGED <<given, length, main, sent, input, child, wrote, eaten, sawEnd>>
  BY DEF ReaderStep, Read, Full, End, Interrupted, clientVars, childVars
<1>3. ASSUME NEW rd \in Readers, rd.rbytes <= rd.fill, rd.total + rd.fill = rd.size,
             reader' = [reader EXCEPT ![r] = rd], pipe' \in [Streams -> Nat]
      PROVE  BufferInv'
  BY <1>1, <1>2, <1>3 DEF BufferInv, CommTypeOK, BufferHolds
<1>4. /\ reader[r].rbytes \in Nat /\ reader[r].fill \in Nat /\ reader[r].rbytes <= reader[r].fill
      /\ reader[r].total \in Nat /\ reader[r].size \in Nat
      /\ reader[r].total + reader[r].fill = reader[r].size
      /\ reader[r].eintr \in Nat
      /\ pipe \in [Streams -> Nat]
  BY <1>1 DEF BufferHolds, CommTypeOK, Readers
<1>5. CASE Read(r)
  <2> DEFINE k == Smaller(pipe[r], reader[r].fill - reader[r].rbytes)
             rd == [reader[r] EXCEPT !.rbytes = @ + k]
  <2>1. k \in Nat /\ k <= pipe[r] /\ k <= reader[r].fill - reader[r].rbytes
    BY <1>1, <1>4 DEF Smaller
  <2>2. reader' = [reader EXCEPT ![r] = rd] /\ pipe' = [pipe EXCEPT ![r] = @ - k]
    BY <1>1, <1>5 DEF Read, CommTypeOK
  <2> HIDE DEF k
  <2>3. rd \in Readers /\ rd.rbytes <= rd.fill /\ rd.total + rd.fill = rd.size
    BY <1>1, <1>4, <2>1 DEF Readers
  <2>4. pipe' \in [Streams -> Nat]
    BY <1>1, <1>4, <2>1, <2>2 DEF Streams
  <2> HIDE DEF rd
  <2> QED
    BY <1>3, <2>2, <2>3, <2>4
<1>6. CASE Full(r)
  <2>1. reader[r].rbytes = reader[r].fill /\ pipe' = pipe
    BY <1>6 DEF Full
  <2>2. CASE FixedBuffer(r)
    <3>1. reader' = [reader EXCEPT ![r] = Done(reader[r], reader[r].rbytes)]
      BY <1>6, <2>2 DEF Full, Done
    <3>2. reader[r].rbytes \in Int
      BY <1>4
    <3> QED
      BY <1>1, <1>3, <1>4, <2>1, <3>1, <3>2, DoneHolds
  <2>3. CASE ~FixedBuffer(r)
    <3>1. reader' = [reader EXCEPT ![r] = Grow(reader[r])]
      BY <1>6, <2>3 DEF Full
    <3>2. /\ Grow(reader[r]) \in Readers /\ Grow(reader[r]).rbytes <= Grow(reader[r]).fill
          /\ Grow(reader[r]).total + Grow(reader[r]).fill = Grow(reader[r]).size
      BY <1>1, <1>4, <2>1, GrowHolds
    <3> QED
      BY <1>3, <1>4, <2>1, <3>1, <3>2
  <2> QED
    BY <2>2, <2>3
<1>7. CASE End(r)
  <2>1. /\ reader' = [reader EXCEPT ![r] = Done(reader[r], reader[r].total + reader[r].rbytes)]
        /\ pipe' = pipe
    BY <1>7 DEF End, Done
  <2>2. reader[r].total + reader[r].rbytes \in Int
    BY <1>4
  <2> QED
    BY <1>1, <1>3, <1>4, <2>1, <2>2, DoneHolds
<1>8. CASE Interrupted(r)
  <2>1. pipe' = pipe
    BY <1>8 DEF Interrupted
  <2>2. CASE reader[r].eintr < EintrLimit
    <3> DEFINE rd == [reader[r] EXCEPT !.eintr = @ + 1]
    <3>1. reader' = [reader EXCEPT ![r] = rd]
      BY <1>8, <2>2 DEF Interrupted
    <3>2. rd \in Readers /\ rd.rbytes <= rd.fill /\ rd.total + rd.fill = rd.size
      BY <1>1, <1>4 DEF Readers
    <3> HIDE DEF rd
    <3> QED
      BY <1>3, <1>4, <2>1, <3>1, <3>2
  <2>3. CASE ~(reader[r].eintr < EintrLimit)
    <3> DEFINE n == IF reader[r].total = 0 THEN -1 ELSE reader[r].total
    <3> DEFINE rd == [reader[r] EXCEPT !.eintr = @ + 1]
    <3>1. reader' = [reader EXCEPT ![r] = Done(rd, n)]
      BY <1>8, <2>3 DEF Interrupted, Done
    <3>2. n \in Int
      BY <1>4
    <3>3. rd \in Readers /\ rd.rbytes <= rd.fill /\ rd.total + rd.fill = rd.size
      BY <1>1, <1>4 DEF Readers
    <3> HIDE DEF n, rd
    <3> QED
      BY <1>3, <1>4, <2>1, <3>1, <3>2, <3>3, DoneHolds
  <2> QED
    BY <2>2, <2>3
<1> QED
  BY <1>5, <1>6, <1>7, <1>8 DEF ReaderStep

LEMMA BufferStep == BufferInv /\ [CommNext]_commVars => BufferInv'
<1>1. BufferInv /\ UNCHANGED commVars => BufferInv'
  BY DEF commVars, clientVars, childVars, BufferInv, CommTypeOK, BufferHolds
<1> QED
  BY <1>1, ClientBuffers, ChildBuffers, ReaderBuffers DEF CommNext

\* However often the buffer of read_all grows, what read_atmost_n reads lands within
\* it, and the next call fills exactly what is left of it.
THEOREM BuffersHold == CommSpec => []BufferHolds
<1>1. BufferInv => BufferHolds
  BY DEF BufferInv
<1> QED
  BY <1>1, BufferStart, BufferStep, PTL DEF CommSpec

------------------------------------------------------------------------------
(* Data *)

LEMMA CommStart == CommInit => CommInv
<1> SUFFICES ASSUME CommInit PROVE CommInv
  OBVIOUS
<1>1. BufferInv
  BY BufferStart
<1>2. InputInv
  <2>1. "input" \in given => input
    BY DEF CommInit
  <2>2. length \in Nat /\ pipe["input"] = 0 /\ sent = 0 /\ eaten = 0 /\ ~sawEnd /\ child = "think"
    BY <1>1 DEF CommInit, BufferInv, CommTypeOK
  <2> QED
    BY <2>1, <2>2 DEF InputInv
<1>3. /\ NoReader.at = "none" /\ NoReader.fill = BufferCap /\ NoReader.total = 0
      /\ NoReader.rbytes = 0
  BY DEF NoReader
<1>4. \A r \in Outputs : reader[r] = NoReader /\ wrote[r] = 0 /\ pipe[r] = 0 /\ main = "call"
  BY DEF CommInit
<1>5. \A r \in Outputs : Accounted(r)
  BY <1>3, <1>4 DEF Accounted
<1>6. OutputInv
  BY <1>5 DEF CommInit, OutputInv, Outputs
<1> QED
  BY <1>1, <1>2, <1>6 DEF CommInv

LEMMA InputStep == CommInv /\ [CommNext]_commVars => InputInv'
<1> SUFFICES ASSUME CommInv, [CommNext]_commVars PROVE InputInv'
  OBVIOUS
<1>1. InputInv /\ CommTypeOK
  BY DEF CommInv, BufferInv
<1>2. /\ sent \in Nat /\ eaten \in Nat /\ length \in Nat /\ pipe["input"] \in Nat
      /\ "input" \in Streams /\ pipe \in [Streams -> Nat]
  BY <1>1 DEF CommTypeOK, Streams
<1>3. ASSUME pipe'["input"] = pipe["input"], UNCHANGED <<given, length, sent, input, childVars>>
      PROVE  InputInv'
  BY <1>1, <1>3 DEF InputInv, childVars
<1>4. CASE Call \/ WriteFails \/ Get \/ Unwind \/ Wait \/ UNCHANGED commVars
  BY <1>3, <1>4 DEF Call, WriteFails, Get, Unwind, Wait, commVars, clientVars
<1>5. CASE Write
  <2>1. /\ sent' = sent + 1 /\ sent < length /\ child # "dead" /\ pipe'["input"] = pipe["input"] + 1
        /\ UNCHANGED <<given, length, input, child, eaten, sawEnd>>
    BY <1>2, <1>5 DEF Write, childVars
  <2> QED
    BY <1>1, <1>2, <2>1 DEF InputInv
<1>6. CASE CloseInput
  BY <1>1, <1>6 DEF CloseInput, InputInv, childVars
<1>7. ASSUME NEW r \in Outputs, ReaderStep(r) \/ Interrupted(r)
      PROVE  InputInv'
  BY <1>2, <1>3, <1>7
     DEF ReaderStep, Read, Full, End, Interrupted, clientVars, Outputs
<1>8. CASE Child
  <2>1. UNCHANGED <<given, length, sent, input>>
    BY <1>8 DEF Child, Decide, ReadInput, WriteOutput, BrokenPipe, clientVars
  <2>2. CASE Decide
    BY <1>1, <2>1, <2>2 DEF Decide, InputInv, Outputs
  <2>3. CASE ReadInput
    <3>1. child = "input" /\ child' = "think" /\ (pipe["input"] > 0 \/ ~input)
      BY <2>3 DEF ReadInput
    <3>2. CASE pipe["input"] > 0
      <4>1. eaten' = eaten + 1 /\ pipe'["input"] = pipe["input"] - 1 /\ sawEnd' = sawEnd
        BY <1>2, <2>3, <3>2 DEF ReadInput
      <4> QED
        BY <1>1, <1>2, <2>1, <3>1, <4>1 DEF InputInv
    <3>3. CASE ~(pipe["input"] > 0)
      <4>1. eaten' = eaten /\ pipe' = pipe /\ sawEnd' = TRUE
        BY <2>3, <3>3 DEF ReadInput
      <4>2. eaten = length
        BY <1>1, <1>2, <3>1, <3>3 DEF InputInv
      <4> QED
        BY <1>1, <1>2, <2>1, <3>1, <4>1, <4>2 DEF InputInv
    <3> QED
      BY <3>2, <3>3
  <2>4. CASE WriteOutput \/ BrokenPipe
    <3>1. pipe'["input"] = pipe["input"]
      BY <1>2, <2>4 DEF WriteOutput, BrokenPipe, Outputs
    <3>2. child \in Outputs /\ child' \in {"think", "dead"} /\ UNCHANGED <<eaten, sawEnd>>
      BY <2>4 DEF WriteOutput, BrokenPipe
    <3> QED
      BY <1>1, <2>1, <3>1, <3>2 DEF InputInv, Outputs
  <2> QED
    BY <1>8, <2>2, <2>3, <2>4 DEF Child
<1> QED
  BY <1>4, <1>5, <1>6, <1>7, <1>8 DEF CommNext, Client

\* A reader that goes on to read accounts for what it has read, and what it returns
\* at the end of its stream or with a full fixed buffer is settled.
LEMMA ReaderAccounts ==
    ASSUME CommInv, NEW r \in given \intersect Outputs, ReaderStep(r) \/ Interrupted(r)
    PROVE  Accounted(r)'
<1>1. /\ Accounted(r) /\ reader \in [Outputs -> Readers] /\ reader[r] \in Readers
      /\ reader[r].rbytes <= reader[r].fill
      /\ wrote[r] \in Nat /\ pipe[r] \in Nat /\ r \in Outputs /\ r \in Streams
      /\ pipe \in [Streams -> Nat]
  BY DEF CommInv, OutputInv, BufferInv, BufferHolds, CommTypeOK, Streams
<1>2. UNCHANGED <<given, main, wrote, child>> /\ reader[r].at = "reading"
  BY DEF ReaderStep, Read, Full, End, Interrupted, clientVars, childVars, Reading
<1>3. FixedBuffer(r)' <=> FixedBuffer(r)
  BY <1>2 DEF FixedBuffer, Direct
<1>4. /\ reader[r].total \in Nat /\ reader[r].fill \in Nat /\ reader[r].rbytes \in Nat
      /\ reader[r].eintr \in Nat
      /\ wrote[r] = reader[r].total + reader[r].rbytes + pipe[r]
      /\ main \notin {"call", "wait", "returned"}
      /\ FixedBuffer(r) => reader[r].fill = BufferCap /\ reader[r].total = 0
  BY <1>1, <1>2 DEF Accounted, Readers
<1>5. ASSUME reader'[r].at = "reading",
             reader'[r].total + reader'[r].rbytes + pipe'[r] = wrote[r],
             FixedBuffer(r) => reader'[r].fill = BufferCap /\ reader'[r].total = 0
      PROVE  Accounted(r)'
  BY <1>2, <1>3, <1>4, <1>5 DEF Accounted
<1>6. ASSUME NEW n \in Int, reader'[r] = Done(reader[r], n), n = Returns(r),
             child = "dead" \/ (FixedBuffer(r) /\ n = BufferCap)
      PROVE  Accounted(r)'
  <2>1. reader'[r].at = "done" /\ reader'[r].result = n
        /\ reader'[r].fill = reader[r].fill /\ reader'[r].total = reader[r].total
    BY <1>1, <1>6, DoneHolds
  <2>2. Returns(r)' = Returns(r)
    BY <1>2, <1>3 DEF Returns, Smaller
  <2> QED
    BY <1>2, <1>3, <1>4, <1>6, <2>1, <2>2 DEF Accounted, Settled
<1>7. CASE Read(r)
  <2> DEFINE k == Smaller(pipe[r], reader[r].fill - reader[r].rbytes)
  <2>1. k \in Nat /\ k <= pipe[r]
    BY <1>1, <1>4 DEF Smaller
  <2>2. reader' = [reader EXCEPT ![r].rbytes = @ + k] /\ pipe' = [pipe EXCEPT ![r] = @ - k]
    BY <1>7 DEF Read
  <2> HIDE DEF k
  <2>3. /\ reader'[r].at = "reading" /\ reader'[r].total = reader[r].total
        /\ reader'[r].fill = reader[r].fill /\ reader'[r].rbytes = reader[r].rbytes + k
        /\ pipe'[r] = pipe[r] - k
    BY <1>1, <1>2, <2>2 DEF Readers
  <2> QED
    BY <1>1, <1>4, <1>5, <2>1, <2>3
<1>8. CASE Full(r)
  <2>1. reader[r].rbytes = reader[r].fill /\ pipe' = pipe
    BY <1>8 DEF Full
  <2>2. CASE FixedBuffer(r)
    <3>1. reader'[r] = Done(reader[r], reader[r].rbytes)
      BY <1>1, <1>8, <2>2 DEF Full, Done
    <3>2. reader[r].rbytes = Returns(r) /\ reader[r].rbytes = BufferCap /\ reader[r].rbytes \in Int
      BY <1>1, <1>4, <2>1, <2>2 DEF Returns, Smaller
    <3> QED
      BY <1>6, <2>2, <3>1, <3>2
  <2>3. CASE ~FixedBuffer(r)
    <3>1. reader'[r] = Grow(reader[r])
      BY <1>1, <1>8, <2>3 DEF Full
    <3>2. reader[r].total + reader[r].fill = reader[r].size
      BY DEF CommInv, BufferInv, BufferHolds
    <3>3. /\ reader'[r].at = "reading" /\ reader'[r].rbytes = 0
          /\ reader'[r].total = reader[r].total + reader[r].rbytes
      BY <1>1, <1>2, <2>1, <3>1, <3>2, GrowHolds
    <3> QED
      BY <1>1, <1>4, <1>5, <2>1, <2>3, <3>3
  <2> QED
    BY <2>2, <2>3
<1>9. CASE End(r)
  <2> DEFINE n == reader[r].total + reader[r].rbytes
  <2>1. reader'[r] = Done(reader[r], n)
    BY <1>1, <1>9 DEF End, Done
  <2>2. reader[r].rbytes < reader[r].fill /\ pipe[r] = 0 /\ child = "dead"
    BY <1>9 DEF End
  <2>3. n \in Int /\ n = wrote[r]
    BY <1>1, <1>4, <2>2
  <2>4. FixedBuffer(r) => n < BufferCap
    BY <1>4, <2>2
  <2> HIDE DEF n
  <2>5. n = Returns(r)
    BY <2>3, <2>4 DEF Returns, Smaller
  <2> QED
    BY <1>6, <2>1, <2>2, <2>3, <2>5
<1>10. CASE Interrupted(r)
  <2> DEFINE rd == [reader[r] EXCEPT !.eintr = @ + 1]
  <2>1. /\ rd \in Readers /\ rd.at = "reading" /\ rd.total = reader[r].total
        /\ rd.fill = reader[r].fill /\ rd.rbytes = reader[r].rbytes
        /\ rd.eintr = reader[r].eintr + 1
    BY <1>1, <1>2, <1>4 DEF Readers
  <2>2. pipe' = pipe
    BY <1>10 DEF Interrupted
  <2>3. CASE reader[r].eintr < EintrLimit
    <3>1. reader'[r] = rd
      BY <1>1, <1>10, <2>3 DEF Interrupted
    <3> QED
      BY <1>1, <1>4, <1>5, <2>1, <2>2, <3>1
  <2>4. CASE ~(reader[r].eintr < EintrLimit)
    <3> DEFINE n == IF reader[r].total = 0 THEN -1 ELSE reader[r].total
    <3>1. reader'[r] = Done(rd, n)
      BY <1>1, <1>10, <2>4 DEF Interrupted, Done
    <3>2. n \in Int
      BY <1>4
    <3> HIDE DEF n
    <3>3. /\ reader'[r].at = "done" /\ reader'[r].fill = reader[r].fill
          /\ reader'[r].total = reader[r].total /\ reader'[r].eintr = reader[r].eintr + 1
      <4>1. Done(rd, n).eintr = rd.eintr
        BY <2>1 DEF Done, Readers
      <4> HIDE DEF rd
      <4> QED
        BY <2>1, <3>1, <3>2, <4>1, DoneHolds
    <3>4. ~(reader'[r].eintr <= EintrLimit)
      BY <1>4, <2>4, <3>3, CountAssumption
    <3> QED
      BY <1>2, <1>3, <1>4, <3>3, <3>4 DEF Accounted
  <2> QED
    BY <2>3, <2>4
<1> QED
  BY <1>7, <1>8, <1>9, <1>10 DEF ReaderStep

\* Other steps that leave a reader and what it has to read alone.
LEMMA ReaderFrame ==
    ASSUME CommInv, NEW r \in given \intersect Outputs,
           UNCHANGED <<given, reader[r], wrote[r], pipe[r]>>,
           child = "dead" => child' = "dead",
           main' = "call" <=> main = "call",
           main' \in {"wait", "returned"} => main \in {"wait", "returned"}
    PROVE  Accounted(r)'
<1>1. Accounted(r)
  BY DEF CommInv, OutputInv
<1>2. FixedBuffer(r)' <=> FixedBuffer(r)
  BY DEF FixedBuffer, Direct
<1>3. Returns(r)' = Returns(r)
  BY <1>2 DEF Returns, Smaller
<1> QED
  BY <1>1, <1>2, <1>3 DEF Accounted, Settled

LEMMA ClientAccounts ==
    ASSUME CommInv, Client, NEW r \in given \intersect Outputs
    PROVE  Accounted(r)'
<1>1. /\ Accounted(r) /\ reader \in [Outputs -> Readers] /\ reader[r] \in Readers
      /\ r \in Outputs /\ r \in given
  BY DEF CommInv, OutputInv, BufferInv, CommTypeOK
<1>2. UNCHANGED <<given, wrote, child>> /\ (main' # "call")
  BY DEF Client, Call, Write, WriteFails, CloseInput, Get, Unwind, Wait, childVars
<1>3. FixedBuffer(r)' <=> FixedBuffer(r)
  BY <1>2 DEF FixedBuffer, Direct
<1>4. Returns(r)' = Returns(r)
  BY <1>2, <1>3 DEF Returns, Smaller
<1>5. CASE Call
  <2>1. /\ reader'[r] = [reader[r] EXCEPT !.at = "reading"] /\ pipe' = pipe
        /\ main = "call" /\ main' \in {"write", "get"}
    BY <1>1, <1>5 DEF Call
  <2>2. /\ reader'[r].at = "reading" /\ reader'[r].total = reader[r].total
        /\ reader'[r].fill = reader[r].fill /\ reader'[r].rbytes = reader[r].rbytes
    BY <1>1, <2>1 DEF Readers
  <2> QED
    BY <1>1, <1>2, <1>3, <2>1, <2>2 DEF Accounted
<1>6. CASE Get
  <2>1. main = "get" /\ reader[r].at = "done" /\ pipe' = pipe
    BY <1>1, <1>6 DEF Get, ReadersDone
  <2>2. reader'[r] \in {[reader[r] EXCEPT !.at = "closed"], [reader[r] EXCEPT !.result = 0], reader[r]}
    BY <1>1, <1>6 DEF Get, Readers
  <2>3. /\ reader'[r].at \in {"done", "closed"} /\ reader'[r].total = reader[r].total
        /\ reader'[r].fill = reader[r].fill /\ reader'[r].eintr = reader[r].eintr
    BY <1>1, <2>1, <2>2 DEF Readers
  <2>4. CASE reader[r].eintr <= EintrLimit
    <3>1. Settled(r)
      BY <1>1, <2>1, <2>4 DEF Accounted
    <3>2. Returns(r) \in Nat
      BY CapacityAssumption DEF CommInv, BufferInv, CommTypeOK, Returns, Smaller
    <3>3. reader[r].result # -1
      BY <3>1, <3>2 DEF Settled
    <3>4. reader'[r].result = reader[r].result
      <4>1. reader'[r] \in {[reader[r] EXCEPT !.at = "closed"], [reader[r] EXCEPT !.result = @]}
        BY <1>1, <1>6, <3>3 DEF Get
      <4> QED
        BY <1>1, <4>1 DEF Readers
    <3> QED
      BY <1>1, <1>2, <1>3, <1>4, <2>1, <2>3, <3>1, <3>4 DEF Accounted, Settled
  <2>5. CASE ~(reader[r].eintr <= EintrLimit)
    BY <1>1, <1>2, <1>3, <2>1, <2>3, <2>5 DEF Accounted
  <2> QED
    BY <2>4, <2>5
<1>7. CASE Write \/ WriteFails \/ CloseInput \/ Unwind \/ Wait
  <2>1. /\ main # "call" /\ UNCHANGED <<given, reader[r], wrote[r], pipe[r], child>>
        /\ main' \in {"wait", "returned"} => main \in {"wait", "returned"}
    <3>1. pipe \in [Streams -> Nat] /\ r \in Streams
      BY <1>1 DEF CommInv, BufferInv, CommTypeOK, Streams
    <3> QED
      BY <1>1, <1>2, <1>7, <3>1 DEF Write, WriteFails, CloseInput, Unwind, Wait, Outputs
  <2> QED
    BY <1>2, <2>1, ReaderFrame
<1> QED
  BY <1>5, <1>6, <1>7 DEF Client

LEMMA ChildAccounts ==
    ASSUME CommInv, Child, NEW r \in given \intersect Outputs
    PROVE  Accounted(r)'
<1>1. UNCHANGED <<given, main, reader>> /\ (child = "dead" => child' = "dead")
  BY DEF Child, Decide, ReadInput, WriteOutput, BrokenPipe, clientVars, Outputs
<1>2. /\ Accounted(r) /\ reader[r] \in Readers /\ r \in Outputs /\ r \in Streams
      /\ wrote \in [Outputs -> Nat] /\ pipe \in [Streams -> Nat]
      /\ wrote[r] \in Nat /\ pipe[r] \in Nat
  BY DEF CommInv, OutputInv, BufferInv, CommTypeOK, Streams
<1>3. CASE ~(WriteOutput /\ child = r)
  <2>1. UNCHANGED <<wrote[r], pipe[r]>>
    BY <1>2, <1>3 DEF Child, Decide, ReadInput, WriteOutput, BrokenPipe, Outputs
  <2> QED
    BY <1>1, <2>1, ReaderFrame
<1>4. CASE WriteOutput /\ child = r
  <2>1. /\ wrote'[r] = wrote[r] + 1 /\ pipe'[r] = pipe[r] + 1
        /\ reader[r].at # "closed" /\ child # "dead"
    BY <1>2, <1>4 DEF WriteOutput, Outputs
  <2>2. FixedBuffer(r)' <=> FixedBuffer(r)
    BY <1>1 DEF FixedBuffer, Direct
  <2>3. CASE reader[r].at \in {"none", "reading"}
    BY <1>1, <1>2, <2>1, <2>2, <2>3 DEF Accounted, Readers
  <2>4. CASE reader[r].at = "done"
    <3>0. CASE ~(reader[r].eintr <= EintrLimit)
      BY <1>1, <1>2, <2>2, <2>4, <3>0 DEF Accounted
    <3>s. SUFFICES ASSUME reader[r].eintr <= EintrLimit PROVE Accounted(r)'
      BY <3>0
    <3>1. Settled(r) /\ FixedBuffer(r) /\ reader[r].result = BufferCap
      BY <1>2, <2>1, <2>4, <3>s DEF Accounted, Settled
    <3>2. BufferCap <= wrote[r]
      BY <1>2, <3>1, CapacityAssumption DEF Settled, Returns, Smaller
    <3>3. Returns(r)' = BufferCap
      BY <1>2, <2>1, <2>2, <3>1, <3>2, CapacityAssumption DEF Returns, Smaller
    <3>4. Settled(r)'
      BY <1>1, <2>2, <3>1, <3>3 DEF Settled
    <3> QED
      BY <1>1, <1>2, <2>2, <2>4, <3>4 DEF Accounted
  <2> QED
    BY <1>2, <2>1, <2>3, <2>4 DEF Readers
<1> QED
  BY <1>3, <1>4

LEMMA OutputStep == CommInv /\ [CommNext]_commVars => OutputInv'
<1> SUFFICES ASSUME CommInv, [CommNext]_commVars PROVE OutputInv'
  OBVIOUS
<1>1. given' = given /\ (child \in Outputs => child \in given)
  BY DEF CommNext, Client, Call, Write, WriteFails, CloseInput, Get, Unwind, Wait,
         ReaderStep, Read, Full, End, Interrupted, Child, Decide, ReadInput, WriteOutput,
         BrokenPipe, commVars, CommInv, OutputInv
<1>2. child' \in Outputs => child' \in given
  BY <1>1 DEF CommNext, Client, Call, Write, WriteFails, CloseInput, Get, Unwind, Wait,
         ReaderStep, Read, Full, End, Interrupted, Child, Decide, ReadInput, WriteOutput,
         BrokenPipe, commVars, childVars, Outputs
<1>3. ASSUME NEW r \in given \intersect Outputs
      PROVE  Accounted(r)'
  <2>1. CASE Client
    BY <2>1, ClientAccounts
  <2>2. CASE Child
    BY <2>2, ChildAccounts
  <2>3. CASE ReaderStep(r) \/ Interrupted(r)
    BY <2>3, ReaderAccounts
  <2>4. ASSUME NEW s \in Outputs, s # r, ReaderStep(s) \/ Interrupted(s)
        PROVE  Accounted(r)'
    <3>1. UNCHANGED <<given, reader[r], wrote[r], pipe[r], child, main>>
      BY <2>4 DEF ReaderStep, Read, Full, End, Interrupted, clientVars, childVars,
                  CommInv, BufferInv, CommTypeOK, Streams
    <3> QED
      BY <3>1, ReaderFrame
  <2>5. CASE UNCHANGED commVars
    BY <2>5, ReaderFrame DEF commVars, clientVars, childVars
  <2> QED
    BY <2>1, <2>2, <2>3, <2>4, <2>5 DEF CommNext
<1> QED
  BY <1>1, <1>2, <1>3 DEF OutputInv

LEMMA CommStep == CommInv /\ [CommNext]_commVars => CommInv'
BY BufferStep, InputStep, OutputStep DEF CommInv

\* What a child has written, or what fits the fixed buffer of a lone error stream, is
\* what communicate returns, of each stream whose reader has not met more signals than
\* read_atmost_n puts up with, and a child that reads to the end of its input has the
\* whole message: whatever pipes and buffers hold and however the child mixes its streams.
THEOREM NothingIsLost == CommSpec => []NothingLost
<1>1. CommInv => NothingLost
  <2> SUFFICES ASSUME CommInv PROVE NothingLost
    OBVIOUS
  <2>1. ASSUME main = "returned", NEW r \in given \intersect Outputs, ~GaveUp(r)
        PROVE  reader[r].result = Returns(r)
    <3>1. reader[r].eintr \in Nat
      <4>1. reader[r] \in Readers
        BY <2>1 DEF CommInv, BufferInv, CommTypeOK
      <4> QED
        BY <4>1 DEF Readers
    <3>2. reader[r].eintr <= EintrLimit
      BY <2>1, <3>1, CountAssumption DEF GaveUp
    <3> QED
      BY <2>1, <3>2 DEF CommInv, OutputInv, Accounted, Settled
  <2>2. sawEnd => eaten = length
    BY DEF CommInv, InputInv
  <2> QED
    BY <2>1, <2>2 DEF NothingLost, Returns
<1>2. CommInv /\ [CommNext]_commVars => CommInv'
  BY CommStep
<1> QED
  BY <1>1, <1>2, CommStart, PTL DEF CommSpec

=============================================================================
