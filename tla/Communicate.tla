----------------------------- MODULE Communicate -----------------------------
(***************************************************************************)
(* Popen::communicate (Subprocess.hpp): the client writes a message to its *)
(* child, closes the child's input, collects what the child writes to its  *)
(* output and its error stream, and waits for it to end. With more than    *)
(* one pipe each stream is read by a thread of its own, since the pipes    *)
(* hold little and either side waits when its pipe is full or empty.       *)
(*                                                                         *)
(* The child is any program: it reads and writes when it likes, and ends.  *)
(* Data is counted, and arrives in pipes in the order it was written.      *)
(* SIGPIPE is ignored by the client, as an embedded Python sees to.        *)
(***************************************************************************)
EXTENDS Integers, FiniteSets

CONSTANTS Givens,     \* which of input, output and error may be pipes
          Lengths,    \* lengths of messages
          Capacity,   \* what a pipe holds
          BufferCap,  \* out_buf_cap_ and err_buf_cap_
          EintrLimit, \* 50, in read_atmost_n
          Written,    \* bound on what a child writes to each stream
          Interrupts, \* bound on the signals a call of read_atmost_n meets
          WriteErrors \* the Givens with which fwrite may fail otherwise than by EPIPE and EINVAL

ASSUME CapacityAssumption == {Capacity, BufferCap} \subseteq Nat \ {0}
ASSUME CountAssumption == Lengths \union {EintrLimit, Written, Interrupts} \subseteq Nat
ASSUME GivenAssumption == Givens \subseteq SUBSET {"input", "output", "error"}

VARIABLES
    given,  \* the streams that have a FILE
    length, \* of the message
    main,   \* the client: call, write, get, unwind, wait, returned, threw
    sent,   \* how much of the message it has written
    input,  \* is input_ open?
    pipe,   \* what each pipe holds
    reader, \* of output and error: a call of read_all, or read_atmost_n
    child,  \* what the child is about to do: think, input, output, error, dead
    wrote,  \* how much it has written to each of output and error
    eaten,  \* how much it has read
    sawEnd  \* has it read to the end of its input?

clientVars == <<main, sent, input>>
childVars == <<child, wrote, eaten, sawEnd>>
commVars == <<given, length, clientVars, pipe, reader, childVars>>

Outputs == {"output", "error"}

\* total_bytes_read, fill_sz and buf.size() of read_all, rbytes of the last call of
\* read_atmost_n and the signals it has met, and what is returned.
NoReader == [at |-> "none", total |-> 0, fill |-> BufferCap, size |-> BufferCap,
             rbytes |-> 0, eintr |-> 0, result |-> 0]

CommInit ==
    /\ given \in Givens /\ length \in Lengths
    /\ main = "call" /\ sent = 0 /\ input = ("input" \in given)
    /\ pipe = [s \in {"input"} \union Outputs |-> 0]
    /\ reader = [r \in Outputs |-> NoReader]
    /\ child = "think" /\ wrote = [r \in Outputs |-> 0] /\ eaten = 0 /\ sawEnd = FALSE

\* At most one pipe: no thread is made.
Direct == Cardinality(given) <= 1

------------------------------------------------------------------------------
(* The client's thread *)

\* The readers start, and the message is next.
Call ==
    /\ main = "call"
    /\ main' = IF "input" \in given THEN "write" ELSE "get"
    /\ reader' = [r \in Outputs |-> IF r \in given THEN [reader[r] EXCEPT !.at = "reading"] ELSE reader[r]]
    /\ UNCHANGED <<given, length, sent, input, pipe, childVars>>

\* fwrite, which waits while the pipe is full.
Write ==
    /\ main = "write" /\ sent < length /\ child # "dead"
    /\ pipe["input"] < Capacity
    /\ sent' = sent + 1
    /\ pipe' = [pipe EXCEPT !["input"] = @ + 1]
    /\ UNCHANGED <<given, length, main, input, reader, childVars>>

\* Another error than that of a broken pipe: OSError is thrown. The destructors of
\* the futures wait for the readers, the input being open still.
WriteFails ==
    /\ given \in WriteErrors
    /\ main = "write" /\ sent < length
    /\ main' = "unwind"
    /\ UNCHANGED <<given, length, sent, input, pipe, reader, childVars>>

\* All is written, or nobody is there to read it.
CloseInput ==
    /\ main = "write" /\ (sent = length \/ child = "dead")
    /\ main' = "get" /\ input' = FALSE
    /\ UNCHANGED <<given, length, sent, pipe, reader, childVars>>

ReadersDone == \A r \in given \intersect Outputs : reader[r].at = "done"

\* The futures' get, or the return of a direct read: a failed one is an empty buffer
\* in the former case and OSError in the latter, else the stream is closed.
Get ==
    /\ main = "get" /\ ReadersDone
    /\ main' = IF Direct /\ \E r \in Outputs : reader[r].result = -1 THEN "threw" ELSE "wait"
    /\ reader' = [r \in Outputs |->
                     IF Direct /\ reader[r].result # -1 THEN [reader[r] EXCEPT !.at = "closed"]
                     ELSE [reader[r] EXCEPT !.result = IF @ = -1 THEN 0 ELSE @]]
    /\ UNCHANGED <<given, length, sent, input, pipe, childVars>>

Unwind ==
    /\ main = "unwind" /\ ReadersDone
    /\ main' = "threw"
    /\ UNCHANGED <<given, length, sent, input, pipe, reader, childVars>>

\* communicate ends with wait.
Wait ==
    /\ main = "wait" /\ child = "dead"
    /\ main' = "returned"
    /\ UNCHANGED <<given, length, sent, input, pipe, reader, childVars>>

Client == Call \/ Write \/ WriteFails \/ CloseInput \/ Get \/ Unwind \/ Wait

------------------------------------------------------------------------------
(* Readers *)

\* Mutant of Reading: one stream after the other, without threads.
ReadingInTurn(r) ==
    reader[r].at = "reading" /\ (r = "error" => reader["output"].at # "reading")

Reading(r) == reader[r].at = "reading"

Smaller(a, b) == IF a < b THEN a ELSE b

\* A read of read_atmost_n takes what there is and fits.
Read(r) ==
    LET k == Smaller(pipe[r], reader[r].fill - reader[r].rbytes)
    IN /\ Reading(r) /\ k > 0
       /\ reader' = [reader EXCEPT ![r].rbytes = @ + k]
       /\ pipe' = [pipe EXCEPT ![r] = @ - k]
       /\ UNCHANGED <<given, length, clientVars, childVars>>

\* The error stream alone is read with one call of read_atmost_n.
FixedBuffer(r) == Direct /\ r = "error"

\* Mutant of Grow: the next call may fill the whole of the new buffer.
GrowWhole(rd) ==
    [rd EXCEPT !.total = @ + rd.rbytes, !.size = 2 * @, !.fill = 2 * rd.size,
               !.rbytes = 0, !.eintr = 0]

\* read_all doubles a full buffer, and the next call fills the new half.
Grow(rd) ==
    [rd EXCEPT !.total = @ + rd.rbytes, !.size = 2 * @, !.fill = rd.size,
               !.rbytes = 0, !.eintr = 0]

\* read_atmost_n returns since there is no room.
Full(r) ==
    LET rd == reader[r]
    IN /\ Reading(r) /\ rd.rbytes = rd.fill
       /\ reader' = [reader EXCEPT ![r] =
                        IF FixedBuffer(r) THEN [rd EXCEPT !.at = "done", !.result = rd.rbytes]
                        ELSE Grow(rd)]
       /\ UNCHANGED <<given, length, clientVars, pipe, childVars>>

\* Mutant of End: what came last does not count.
EndUncounted(r) ==
    LET rd == reader[r]
    IN /\ Reading(r) /\ rd.rbytes < rd.fill
       /\ pipe[r] = 0 /\ child = "dead"
       /\ reader' = [reader EXCEPT ![r].at = "done", ![r].result = rd.total]
       /\ UNCHANGED <<given, length, clientVars, pipe, childVars>>

\* The end of the stream: the pipe is empty and the child gone.
End(r) ==
    LET rd == reader[r]
    IN /\ Reading(r) /\ rd.rbytes < rd.fill
       /\ pipe[r] = 0 /\ child = "dead"
       /\ reader' = [reader EXCEPT ![r].at = "done", ![r].result = rd.total + rd.rbytes]
       /\ UNCHANGED <<given, length, clientVars, pipe, childVars>>

\* A signal: the read is tried again, but not for ever, and then read_atmost_n
\* returns -1 and read_all what earlier calls have read, if anything.
Interrupted(r) ==
    LET rd == reader[r]
    IN /\ Reading(r) /\ rd.eintr < Interrupts
       /\ reader' = [reader EXCEPT ![r] =
                        IF rd.eintr < EintrLimit THEN [rd EXCEPT !.eintr = @ + 1]
                        ELSE [rd EXCEPT !.eintr = @ + 1, !.at = "done",
                                        !.result = IF rd.total = 0 THEN -1 ELSE rd.total]]
       /\ UNCHANGED <<given, length, clientVars, pipe, childVars>>

ReaderStep(r) == Read(r) \/ Full(r) \/ End(r)

------------------------------------------------------------------------------
(* The child *)

\* It sets out to do something, from which it does not return before it is done.
Decide ==
    /\ child = "think"
    /\ \/ "input" \in given /\ ~sawEnd /\ child' = "input"
       \/ \E r \in given \intersect Outputs : wrote[r] < Written /\ child' = r
       \/ child' = "dead"
    /\ UNCHANGED <<given, length, clientVars, pipe, reader, wrote, eaten, sawEnd>>

ReadInput ==
    /\ child = "input" /\ (pipe["input"] > 0 \/ ~input)
    /\ child' = "think"
    /\ IF pipe["input"] > 0
       THEN eaten' = eaten + 1 /\ pipe' = [pipe EXCEPT !["input"] = @ - 1] /\ UNCHANGED sawEnd
       ELSE sawEnd' = TRUE /\ UNCHANGED <<eaten, pipe>>
    /\ UNCHANGED <<given, length, clientVars, reader, wrote>>

WriteOutput ==
    /\ child \in Outputs /\ pipe[child] < Capacity
    /\ reader[child].at # "closed"
    /\ wrote' = [wrote EXCEPT ![child] = @ + 1]
    /\ pipe' = [pipe EXCEPT ![child] = @ + 1]
    /\ child' = "think"
    /\ UNCHANGED <<given, length, clientVars, reader, eaten, sawEnd>>

\* The client has closed the stream: SIGPIPE.
BrokenPipe ==
    /\ child \in Outputs /\ reader[child].at = "closed"
    /\ child' = "dead"
    /\ UNCHANGED <<given, length, clientVars, pipe, reader, wrote, eaten, sawEnd>>

Child == Decide \/ ReadInput \/ WriteOutput \/ BrokenPipe

------------------------------------------------------------------------------
CommNext == Client \/ Child \/ \E r \in Outputs : ReaderStep(r) \/ Interrupted(r)

\* Threads and the child run on; the child decides on only so many things.
CommSpec ==
    /\ CommInit /\ [][CommNext]_commVars
    /\ WF_commVars(Client) /\ WF_commVars(Child)
    /\ \A r \in Outputs : WF_commVars(ReaderStep(r))

------------------------------------------------------------------------------
(* Properties *)

\* However often the buffer of read_all grows, what is read lands within it, and the
\* next call fills exactly what is left of it.
BufferHolds ==
    \A r \in Outputs : /\ reader[r].rbytes <= reader[r].fill
                       /\ reader[r].total + reader[r].fill = reader[r].size

\* The last call of read_atmost_n has met more signals than it takes.
GaveUp(r) == reader[r].eintr > EintrLimit

\* What a child has written, however it mixed its streams and whatever it left
\* unread, is what communicate returns, or what fits the buffer when that is fixed,
\* of each stream whose reader has not given up; and a child that reads to the end of
\* its input has the whole message.
NothingLost ==
    /\ main = "returned" =>
          \A r \in given \intersect Outputs :
              ~GaveUp(r) =>
              reader[r].result = IF FixedBuffer(r) THEN Smaller(wrote[r], BufferCap) ELSE wrote[r]
    /\ sawEnd => eaten = length

\* Subprocess.hpp:1211: communicate gets "the output/error from the child" and
\* closes "the channels from the parent side": it ends if the child does what it
\* sets out to do, neither waiting for the other; unless a thread has given up reading,
\* which leaves its stream open, and the child has more to write to it.
WritesUnread(r) == ~Direct /\ GaveUp(r) /\ child = r /\ pipe[r] = Capacity
CommunicateReturns ==
    main = "call" ~> main \in {"returned", "threw"} \/ \E r \in Outputs : WritesUnread(r)

=============================================================================
