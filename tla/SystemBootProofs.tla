--------------------------- MODULE SystemBootProofs ---------------------------
(***************************************************************************)
(* The allocation of harts is right for every number of processes, every   *)
(* width of a hart number and every number of harts that it can count,     *)
(* whatever the processes ask for.                                         *)
(***************************************************************************)
EXTENDS SystemBoot, SequenceTheorems, TLAPS

\* A hart number below the number of CPUs does not wrap.
LEMMA NoWrap == \A n \in Nat : n <= CPUs => n % Word = n
BY CPUAssumption

\* Process p has its harts: they exist, and know it.
Done(p) == /\ bootHart[p] + processes[p] <= CPUs
           /\ \A h \in Harts : owner[h] = p <=> h \in HartRange(p)

\* The process that bootSystem is at: it has the harts up to offset, the processes
\* before it have theirs and end where it begins.
Assigning(n) ==
    /\ \A p \in 1 .. n - 1 : Done(p) /\ bootHart[p] + processes[p] <= bootHart[n]
    /\ hartUsed = (bootHart[n] + processes[n]) % Word
    /\ offset <= processes[n] /\ bootHart[n] + offset <= CPUs
    /\ \A h \in Harts : owner[h] = n <=> bootHart[n] <= h /\ h < bootHart[n] + offset

\* What of this holds where the main thread is.
AllocInv ==
    /\ main \in {"script", "boot", "run"} =>
           Len(bootHart) = Len(qemu) /\ \A p \in 1 .. Len(qemu) : Done(p)
    /\ main = "boot" =>
           hartUsed <= CPUs /\ \A p \in 1 .. Len(qemu) : bootHart[p] + processes[p] <= hartUsed
    /\ main = "assign" =>
           Len(bootHart) = Len(qemu) /\ Len(qemu) > 0 /\ hartUsed <= CPUs /\ Assigning(Len(qemu))
    /\ main = "run" => finalized
    /\ main = "script" /\ ~finalized => qemu = <<>> /\ hartUsed = 0

BootInv == BootTypeOK /\ AllocInv

------------------------------------------------------------------------------
\* Before the script begins there is nothing to be wrong.
LEMMA BootStart == BootInit => BootInv
<1> SUFFICES ASSUME BootInit PROVE BootInv
  OBVIOUS
<1>1. Len(<<>>) = 0
  BY EmptySeq
<1>2. BootTypeOK
  <2>1. /\ processes \in Seq(Nat \ {0}) /\ bootHart \in Seq(0 .. CPUs)
        /\ qemu \in Seq({"running", "exiting", "gone"})
        /\ output \in Seq([left : Nat, piped : 0 .. PipeSize]) /\ completed \in Seq(BOOLEAN)
    BY EmptySeq DEF BootInit
  <2>2. /\ Len(processes) = 0 /\ Len(bootHart) = 0 /\ Len(qemu) = 0
        /\ Len(output) = 0 /\ Len(completed) = 0
    BY <1>1 DEF BootInit
  <2>3. 0 \in 0 .. Word - 1
    BY CPUAssumption
  <2>4. owner \in [Harts -> 0 .. Len(qemu)]
    BY <2>2 DEF BootInit
  <2>5. /\ main = "script" /\ finalized \in BOOLEAN
        /\ hartUsed = 0 /\ offset = 0 /\ cleaned = 0 /\ signum = 0
    BY DEF BootInit
  <2> QED
    BY <2>1, <2>2, <2>3, <2>4, <2>5 DEF BootTypeOK
<1>3. AllocInv
  BY <1>1 DEF BootInit, AllocInv
<1>4. QED
  BY <1>2, <1>3 DEF BootInv

\* The script adds a process.
LEMMA BootNewProcess ==
    ASSUME BootInv, NEW n \in Requests, NEW w \in Outputs, NewProcess(n, w)
    PROVE  BootInv'
<1> DEFINE out == [left |-> w, piped |-> 0]
<1>1. /\ main = "script" /\ processes' = Append(processes, n)
      /\ output' = Append(output, out) /\ completed' = Append(completed, FALSE)
      /\ UNCHANGED <<main, finalized, bootHart, hartUsed, offset, owner, qemu, cleaned, signum>>
  BY DEF NewProcess, allocVars, endVars
<1>2. BootTypeOK /\ AllocInv
  BY DEF BootInv
<1>3. /\ processes \in Seq(Nat \ {0}) /\ output \in Seq([left : Nat, piped : 0 .. PipeSize])
      /\ completed \in Seq(BOOLEAN) /\ qemu \in Seq({"running", "exiting", "gone"})
      /\ bootHart \in Seq(0 .. CPUs)
      /\ Len(qemu) <= Len(bootHart) /\ Len(bootHart) <= Len(processes)
  BY <1>2 DEF BootTypeOK
<1>4. n \in Nat \ {0} /\ out \in [left : Nat, piped : 0 .. PipeSize]
  BY RequestAssumption, OutputAssumption
<1> HIDE DEF out
<1>5. /\ processes' \in Seq(Nat \ {0}) /\ Len(processes') = Len(processes) + 1
      /\ \A i \in 1 .. Len(processes) : processes'[i] = processes[i]
      /\ output' \in Seq([left : Nat, piped : 0 .. PipeSize]) /\ Len(output') = Len(output) + 1
      /\ completed' \in Seq(BOOLEAN) /\ Len(completed') = Len(completed) + 1
      /\ Len(processes) \in Nat /\ Len(qemu) \in Nat /\ Len(bootHart) \in Nat
  BY <1>1, <1>3, <1>4, AppendProperties, LenProperties
<1>6. BootTypeOK'
  BY <1>1, <1>2, <1>5 DEF BootTypeOK
<1>7. ASSUME NEW p \in 1 .. Len(qemu) PROVE Done(p)'
  <2>1. Done(p)
    BY <1>1, <1>2 DEF AllocInv
  <2>2. processes'[p] = processes[p]
    BY <1>3, <1>5
  <2> QED
    BY <1>1, <2>1, <2>2 DEF Done, HartRange
<1>8. AllocInv'
  BY <1>1, <1>2, <1>7 DEF AllocInv
<1>9. QED
  BY <1>6, <1>8 DEF BootInv

\* bootSystem goes to the next process.
LEMMA BootAllocate == BootInv /\ Allocate => BootInv'
<1> SUFFICES ASSUME BootInv, Allocate PROVE BootInv'
  OBVIOUS
<1> DEFINE n == Len(bootHart) + 1
           used == (hartUsed + processes[n]) % Word
<1>1. BootTypeOK /\ AllocInv
  BY DEF BootInv
<1>2. /\ main = "boot" /\ n <= Len(processes)
      /\ bootHart' = Append(bootHart, hartUsed) /\ hartUsed' = used /\ offset' = 0
      /\ \/ used <= CPUs /\ main' = "assign" /\ qemu' = Append(qemu, "running")
         \/ main' = "refused" /\ UNCHANGED qemu
      /\ UNCHANGED <<finalized, processes, owner, output, completed, cleaned, signum>>
  BY DEF Allocate, guestVars, endVars
<1>3. /\ processes \in Seq(Nat \ {0}) /\ qemu \in Seq({"running", "exiting", "gone"})
      /\ bootHart \in Seq(0 .. CPUs) /\ hartUsed \in 0 .. Word - 1
      /\ Len(qemu) = Len(bootHart) /\ hartUsed <= CPUs
      /\ owner \in [Harts -> 0 .. Len(qemu)]
  BY <1>1, <1>2 DEF BootTypeOK, AllocInv
<1>4. Len(bootHart) \in Nat /\ n \in 1 .. Len(processes) /\ processes[n] \in Nat \ {0}
  <2>1. Len(bootHart) \in Nat /\ Len(processes) \in Nat
    BY <1>3, LenProperties
  <2>2. n \in 1 .. Len(processes)
    BY <1>2, <2>1
  <2> QED
    BY <1>3, <2>1, <2>2, ElementOfSeq
<1>5. used \in 0 .. Word - 1
  <2>1. Word \in Nat \ {0} /\ hartUsed + processes[n] \in Nat
    BY <1>3, <1>4, CPUAssumption
  <2> QED
    BY <2>1
<1>6. /\ bootHart' \in Seq(0 .. CPUs) /\ Len(bootHart') = n /\ bootHart'[n] = hartUsed
      /\ \A p \in 1 .. Len(bootHart) : bootHart'[p] = bootHart[p]
  BY <1>2, <1>3, AppendProperties, CPUAssumption
<1> HIDE DEF used, n
<1>n. n = Len(bootHart) + 1
  BY DEF n
<1>7. CASE main' = "refused" /\ UNCHANGED qemu
  <2>1. BootTypeOK'
    BY <1>n, <1>1, <1>2, <1>3, <1>4, <1>5, <1>6, <1>7, CPUAssumption DEF BootTypeOK
  <2>2. AllocInv'
    BY <1>7 DEF AllocInv
  <2> QED
    BY <2>1, <2>2 DEF BootInv
<1>8. CASE used <= CPUs /\ main' = "assign" /\ qemu' = Append(qemu, "running")
  <2>1. qemu' \in Seq({"running", "exiting", "gone"}) /\ Len(qemu') = n
    BY <1>n, <1>3, <1>8, AppendProperties
  <2>2. BootTypeOK'
    <3>1. Len(qemu) \in Nat /\ owner' \in [Harts -> 0 .. Len(qemu')]
      <4>1. Len(qemu) \in Nat /\ Len(qemu') = Len(qemu) + 1
        BY <1>n, <1>3, <1>4, <2>1
      <4>2. \A p \in 0 .. Len(qemu) : p \in 0 .. Len(qemu')
        BY <4>1
      <4> QED
        BY <1>2, <1>3, <4>1, <4>2
    <3>2. Len(qemu') <= Len(bootHart') /\ Len(bootHart') <= Len(processes)
      BY <1>4, <1>6, <1>n, <2>1
    <3>3. offset' \in 0 .. Word - 1
      BY <1>2, CPUAssumption
    <3> QED
      BY <1>1, <1>2, <1>5, <1>6, <1>8, <2>1, <3>1, <3>2, <3>3 DEF BootTypeOK
  <2>3. ASSUME NEW p \in 1 .. n - 1
        PROVE  Done(p)' /\ bootHart'[p] + processes[p] <= bootHart'[n]
    <3>1. p \in 1 .. Len(qemu) /\ bootHart'[p] = bootHart[p]
      BY <1>n, <1>3, <1>4, <1>6
    <3>2. Done(p) /\ bootHart[p] + processes[p] <= hartUsed
      BY <1>1, <1>2, <3>1 DEF AllocInv
    <3> QED
      BY <1>2, <1>6, <3>1, <3>2 DEF Done, HartRange
  <2>4. ASSUME NEW h \in Harts
        PROVE  owner'[h] = n <=> bootHart'[n] <= h /\ h < bootHart'[n] + offset'
    <3>1. owner[h] # n
      BY <1>n, <1>3, <1>4
    <3>2. ~ (hartUsed <= h /\ h < hartUsed + 0)
      BY <1>3 DEF Harts
    <3> QED
      BY <1>2, <1>6, <3>1, <3>2
  <2>5. offset' <= processes[n] /\ bootHart'[n] + offset' <= CPUs
    BY <1>2, <1>3, <1>4, <1>6
  <2>6. hartUsed' = (bootHart'[n] + processes[n]) % Word
    BY <1>2, <1>6 DEF used
  <2>7. Assigning(Len(qemu))'
    BY <1>2, <1>6, <2>1, <2>3, <2>4, <2>5, <2>6 DEF Assigning
  <2>8. AllocInv'
    BY <1>n, <1>2, <1>4, <1>6, <1>8, <2>1, <2>7 DEF AllocInv
  <2> QED
    BY <2>2, <2>8 DEF BootInv
<1>9. QED
  BY <1>2, <1>7, <1>8

\* bootSystem tells a CPU its process.
LEMMA BootAssignHart == BootInv /\ AssignHart => BootInv' /\ \A h \in Harts : owner[h] # 0 => owner'[h] = owner[h]
<1> SUFFICES ASSUME BootInv, AssignHart
             PROVE  BootInv' /\ \A h \in Harts : owner[h] # 0 => owner'[h] = owner[h]
  OBVIOUS
<1> DEFINE n == Len(qemu)
           hart == bootHart[n] + offset
<1>1. BootTypeOK /\ AllocInv
  BY DEF BootInv
<1>2. /\ main = "assign" /\ offset < processes[n]
      /\ SetProcess(hart % Word, n)
      /\ UNCHANGED <<finalized, processes, bootHart, hartUsed, qemu, output, completed,
                     cleaned, signum>>
  BY DEF AssignHart, guestVars, endVars
<1>3. /\ Len(bootHart) = n /\ n > 0 /\ hartUsed <= CPUs /\ Assigning(n)
      /\ n \in Nat
  BY <1>1, <1>2, LenProperties DEF AllocInv, BootTypeOK
<1>4. bootHart[n] \in 0 .. CPUs /\ processes[n] \in Nat \ {0} /\ offset \in 0 .. Word - 1
  <2>1. n \in 1 .. Len(bootHart) /\ n \in 1 .. Len(processes)
    BY <1>1, <1>3, LenProperties DEF BootTypeOK
  <2> QED
    BY <1>1, <2>1, ElementOfSeq DEF BootTypeOK
<1> HIDE DEF n
<1>5. hart \in Nat /\ hart <= CPUs /\ hart % Word = hart
  <2>1. hart \in Nat
    BY <1>4, CPUAssumption
  <2>2. hart <= CPUs
    BY <1>3 DEF Assigning
  <2> QED
    BY <2>1, <2>2, NoWrap
<1>6. owner \in [Harts -> 0 .. n]
  BY <1>1 DEF BootTypeOK, n
<1>7. CASE hart >= CPUs
  <2>1. main' = "refused" /\ UNCHANGED <<owner, offset>>
    BY <1>2, <1>5, <1>7, CPUAssumption DEF SetProcess
  <2>2. BootTypeOK'
    BY <1>1, <1>2, <2>1 DEF BootTypeOK
  <2>3. AllocInv'
    BY <2>1 DEF AllocInv
  <2> QED
    BY <2>1, <2>2, <2>3 DEF BootInv
<1>8. CASE hart < CPUs
  <2>1. /\ owner' = [owner EXCEPT ![hart] = n] /\ UNCHANGED main
        /\ offset' = (offset + 1) % Word
    BY <1>2, <1>5, <1>8 DEF SetProcess
  <2>2. hart \in Harts
    BY <1>5, <1>8, CPUAssumption DEF Harts
  <2>3. offset' = offset + 1
    <3>1. offset + 1 \in Nat /\ offset + 1 <= CPUs
      BY <1>4, <1>8, CPUAssumption
    <3> QED
      BY <2>1, <3>1, NoWrap
  <2>4. offset' \in 0 .. Word - 1
    BY <1>4, <1>8, <2>3, CPUAssumption
  <2>5. owner' \in [Harts -> 0 .. n]
    <3>1. n \in 0 .. n
      BY <1>3
    <3> QED
      BY <1>6, <2>1, <3>1
  <2>6. BootTypeOK'
    BY <1>1, <1>2, <2>1, <2>4, <2>5 DEF BootTypeOK, n
  <2>7. owner[hart] = 0
    <3>1. owner[hart] # n
      BY <1>3, <1>4, <2>2 DEF Assigning
    <3>2. ASSUME NEW p \in 1 .. n - 1 PROVE owner[hart] # p
      <4>1. Done(p) /\ bootHart[p] + processes[p] <= bootHart[n]
        BY <1>3, <3>2 DEF Assigning
      <4>2. bootHart[p] \in Int /\ processes[p] \in Int
        <5>1. p \in 1 .. Len(bootHart) /\ p \in 1 .. Len(processes)
          BY <1>1, <1>3, LenProperties DEF BootTypeOK
        <5>2. bootHart[p] \in 0 .. CPUs /\ processes[p] \in Nat \ {0}
          BY <1>1, <5>1, ElementOfSeq DEF BootTypeOK
        <5> QED
          BY <5>2, CPUAssumption
      <4>3. hart \notin HartRange(p)
        BY <1>4, <4>1, <4>2 DEF HartRange
      <4> QED
        BY <2>2, <4>1, <4>3 DEF Done
    <3> QED
      BY <1>3, <1>6, <2>2, <3>1, <3>2
  <2>8. \A h \in Harts : owner[h] # 0 => owner'[h] = owner[h]
    BY <1>6, <2>1, <2>7
  <2>9. ASSUME NEW p \in 1 .. n - 1 PROVE Done(p)' /\ bootHart[p] + processes[p] <= bootHart[n]
    <3>1. Done(p) /\ bootHart[p] + processes[p] <= bootHart[n]
      BY <1>3 DEF Assigning
    <3>2. \A h \in Harts : owner'[h] = p <=> owner[h] = p
      BY <1>3, <1>6, <2>1, <2>2, <2>7
    <3> QED
      BY <1>2, <3>1, <3>2 DEF Done, HartRange
  <2>10. \A h \in Harts : owner'[h] = n <=> bootHart[n] <= h /\ h < bootHart[n] + offset'
    <3> SUFFICES ASSUME NEW h \in Harts
                 PROVE  owner'[h] = n <=> bootHart[n] <= h /\ h < bootHart[n] + offset'
      OBVIOUS
    <3>1. h \in Int /\ bootHart[n] \in Int /\ offset \in Int
      BY <1>4, CPUAssumption DEF Harts
    <3>2. owner[h] = n <=> bootHart[n] <= h /\ h < bootHart[n] + offset
      BY <1>3 DEF Assigning
    <3>3. CASE h = hart
      <4>1. owner'[h] = n
        BY <1>6, <2>1, <2>2, <3>3
      <4>2. bootHart[n] <= h /\ h < bootHart[n] + offset'
        BY <1>4, <2>3, <3>1, <3>3
      <4> QED
        BY <4>1, <4>2
    <3>4. CASE h # hart
      BY <1>6, <2>1, <2>3, <3>1, <3>2, <3>4
    <3> QED
      BY <3>3, <3>4
  <2>11. offset' <= processes[n] /\ bootHart[n] + offset' <= CPUs
    BY <1>2, <1>4, <1>8, <2>3, CPUAssumption
  <2>12. hartUsed' = (bootHart[n] + processes[n]) % Word
    BY <1>2, <1>3 DEF Assigning
  <2>13. Len(qemu)' = n
    BY <1>2 DEF n
  <2>14. Assigning(Len(qemu))'
    BY <1>2, <2>9, <2>10, <2>11, <2>12, <2>13 DEF Assigning
  <2>15. AllocInv'
    BY <1>2, <1>3, <2>1, <2>13, <2>14 DEF AllocInv
  <2> QED
    BY <2>6, <2>8, <2>15 DEF BootInv
<1>9. QED
  BY <1>4, <1>5, <1>7, <1>8, CPUAssumption

\* A process has all its harts, and bootSystem goes on.
LEMMA BootAssigned == BootInv /\ Assigned => BootInv'
<1> SUFFICES ASSUME BootInv, Assigned PROVE BootInv'
  OBVIOUS
<1> DEFINE n == Len(qemu)
<1>1. BootTypeOK /\ AllocInv
  BY DEF BootInv
<1>2. /\ main = "assign" /\ offset >= processes[n] /\ main' = "boot"
      /\ UNCHANGED <<finalized, processes, bootHart, hartUsed, offset, owner, qemu, output,
                     completed, cleaned, signum>>
  BY DEF Assigned, allocVars, guestVars, endVars
<1>3. /\ Len(bootHart) = n /\ n > 0 /\ hartUsed <= CPUs /\ Assigning(n)
      /\ n \in Nat
  BY <1>1, <1>2, LenProperties DEF AllocInv, BootTypeOK
<1>4. \A p \in 1 .. n :
          bootHart[p] \in 0 .. CPUs /\ processes[p] \in Nat \ {0} /\ offset \in 0 .. Word - 1
  <2> SUFFICES ASSUME NEW p \in 1 .. n
               PROVE  bootHart[p] \in 0 .. CPUs /\ processes[p] \in Nat \ {0}
    BY <1>1 DEF BootTypeOK
  <2>1. p \in 1 .. Len(bootHart) /\ p \in 1 .. Len(processes)
    BY <1>1, <1>3, LenProperties DEF BootTypeOK
  <2> QED
    BY <1>1, <2>1, ElementOfSeq DEF BootTypeOK
<1> HIDE DEF n
<1>5. /\ bootHart[n] \in Int /\ bootHart[n] >= 0
      /\ processes[n] \in Nat \ {0} /\ offset = processes[n] /\ bootHart[n] + processes[n] <= CPUs
  BY <1>2, <1>3, <1>4, CPUAssumption DEF Assigning
<1>6. hartUsed = bootHart[n] + processes[n]
  <2>1. bootHart[n] + processes[n] \in Nat
    BY <1>5
  <2> QED
    BY <1>3, <1>5, <2>1, NoWrap DEF Assigning
<1>7. ASSUME NEW p \in 1 .. n PROVE Done(p) /\ bootHart[p] + processes[p] <= hartUsed
  <2>1. CASE p = n
    <3>1. \A h \in Harts : owner[h] = n <=> h \in HartRange(n)
      <4> SUFFICES ASSUME NEW h \in Harts PROVE owner[h] = n <=> h \in HartRange(n)
        OBVIOUS
      <4>1. h \in Int
        BY DEF Harts
      <4>2. owner[h] = n <=> bootHart[n] <= h /\ h < bootHart[n] + processes[n]
        BY <1>3, <1>5 DEF Assigning
      <4> QED
        BY <1>5, <4>1, <4>2 DEF HartRange
    <3> QED
      BY <1>5, <1>6, <2>1, <3>1 DEF Done
  <2>2. CASE p # n
    <3>1. Done(p) /\ bootHart[p] + processes[p] <= bootHart[n]
      BY <1>3, <2>2 DEF Assigning
    <3>2. bootHart[p] + processes[p] \in Int
      BY <1>4, CPUAssumption
    <3> QED
      BY <1>5, <1>6, <3>1, <3>2
  <2> QED
    BY <2>1, <2>2
<1>8. BootTypeOK'
  BY <1>1, <1>2 DEF BootTypeOK
<1>9. AllocInv'
  <2>1. \A p \in 1 .. n : Done(p)' /\ bootHart'[p] + processes'[p] <= hartUsed'
    BY <1>2, <1>7 DEF Done, HartRange
  <2> QED
    BY <1>2, <1>3, <2>1 DEF AllocInv, n
<1>10. QED
  BY <1>8, <1>9 DEF BootInv

\* The system runs, for the first time or again; and run returns.
LEMMA BootRun == BootInv /\ (Run \/ Booted \/ RunReturns) => BootInv'
<1> SUFFICES ASSUME BootInv, Run \/ Booted \/ RunReturns PROVE BootInv'
  OBVIOUS
<1>1. BootTypeOK /\ AllocInv
  BY DEF BootInv
<1>2. /\ \/ main = "script" /\ finalized /\ main' = "run" /\ UNCHANGED finalized
         \/ main = "script" /\ ~finalized /\ main' = "boot" /\ UNCHANGED finalized
         \/ main = "boot" /\ main' = "run" /\ finalized' = TRUE
         \/ main = "run" /\ main' = "script" /\ UNCHANGED finalized
      /\ UNCHANGED <<processes, bootHart, hartUsed, offset, owner, qemu, output, completed,
                     cleaned, signum>>
  BY <1>1 DEF Run, Booted, RunReturns, allocVars, guestVars, endVars, BootTypeOK
<1>3. BootTypeOK'
  <2>1. main' \in {"boot", "run", "script"} /\ finalized' \in BOOLEAN
    BY <1>1, <1>2 DEF BootTypeOK
  <2> QED
    BY <1>1, <1>2, <2>1 DEF BootTypeOK
<1>4. Len(bootHart) = Len(qemu) /\ \A p \in 1 .. Len(qemu) : Done(p)
  BY <1>1, <1>2 DEF AllocInv
<1>5. \A p \in 1 .. Len(qemu) : Done(p)'
  BY <1>2, <1>4 DEF Done, HartRange
<1>6. main' = "boot" => qemu = <<>> /\ hartUsed = 0
  BY <1>1, <1>2 DEF AllocInv
<1>7. main' = "boot" => Len(qemu) = 0 /\ hartUsed <= CPUs
  BY <1>6, EmptySeq, CPUAssumption
<1>8. main' = "script" => finalized' 
  <2> SUFFICES ASSUME main' = "script" PROVE finalized'
    OBVIOUS
  <2>1. main = "run" /\ finalized' = finalized
    BY <1>2
  <2>2. finalized
    BY <1>1, <2>1 DEF AllocInv
  <2> QED
    BY <2>1, <2>2, Zenon
<1>9. AllocInv'
  BY <1>2, <1>4, <1>5, <1>7, <1>8 DEF AllocInv
<1>10. QED
  BY <1>3, <1>9 DEF BootInv

\* Guests, their simulation and the clean-up leave the allocation alone.
LEMMA BootOther ==
    ASSUME BootInv, BootTypeOK',
           main' = main \/ main' \notin {"script", "boot", "assign", "run"},
           UNCHANGED <<finalized, processes, bootHart, hartUsed, offset, owner>>,
           Len(qemu') = Len(qemu), qemu = <<>> => qemu' = <<>>
    PROVE  BootInv'
<1>1. AllocInv
  BY DEF BootInv
<1>2. \A p : Done(p) => Done(p)'
  BY DEF Done, HartRange
<1>3. Assigning(Len(qemu)) => Assigning(Len(qemu))'
  BY <1>2 DEF Assigning
<1>4. AllocInv'
  BY <1>1, <1>2, <1>3 DEF AllocInv
<1>5. QED
  BY <1>4 DEF BootInv

\* A guest or its simulation takes a step.
LEMMA BootGuest ==
    ASSUME BootInv,
           \/ \E p \in 1 .. MaxProcesses : GuestStep(p)
           \/ \E h \in Harts : FetchLast(h)
    PROVE  BootInv' /\ UNCHANGED owner
<1>1. BootTypeOK /\ AllocInv
  BY DEF BootInv
<1> DEFINE States == {"running", "exiting", "gone"}
           Output == [left : Nat, piped : 0 .. PipeSize]
<1>2. /\ qemu \in Seq(States) /\ output \in Seq(Output) /\ completed \in Seq(BOOLEAN)
      /\ Len(qemu) <= Len(processes)
      /\ Len(output) = Len(processes) /\ Len(completed) = Len(processes)
      /\ Len(qemu) \in Nat /\ Len(processes) \in Nat
  <2>1. Len(qemu) \in Nat /\ Len(processes) \in Nat /\ Len(bootHart) \in Nat
    BY <1>1, LenProperties DEF BootTypeOK
  <2> QED
    BY <1>1, <2>1 DEF BootTypeOK
<1>3. ASSUME NEW p \in DOMAIN qemu, Write(p) PROVE BootInv' /\ UNCHANGED owner
  <2>1. p \in 1 .. Len(output)
    BY <1>2, <1>3, LenProperties
  <2>2. output[p] \in Output
    BY <1>2, <2>1, ElementOfSeq
  <2> DEFINE out == [left |-> output[p].left - 1, piped |-> output[p].piped + 1]
  <2>3. out \in Output
    <3>1. /\ output[p].left \in Nat /\ output[p].left > 0
          /\ output[p].piped \in 0 .. PipeSize /\ output[p].piped < PipeSize
      BY <1>3, <2>2 DEF Write
    <3>2. output[p].left - 1 \in Nat /\ output[p].piped + 1 \in 0 .. PipeSize
      BY <3>1, OutputAssumption
    <3> QED
      BY <3>2
  <2>4. /\ output' = [output EXCEPT ![p] = out]
        /\ UNCHANGED <<main, finalized, processes, bootHart, hartUsed, offset, owner, qemu,
                       completed, cleaned, signum>>
    BY <1>3 DEF Write, allocVars, endVars
  <2> HIDE DEF out, Output
  <2>5. output' \in Seq(Output) /\ Len(output') = Len(output)
    BY <1>2, <2>1, <2>3, <2>4, ExceptSeq
  <2>6. BootTypeOK'
    BY <1>1, <2>4, <2>5 DEF BootTypeOK, Output
  <2> QED
    BY <2>4, <2>6, BootOther
<1>4. ASSUME NEW p \in DOMAIN qemu, GuestEnds(p) \/ QemuExits(p)
      PROVE BootInv' /\ UNCHANGED owner
  <2>1. p \in 1 .. Len(qemu)
    BY <1>2, <1>4, LenProperties
  <2>2. PICK state \in States : qemu' = [qemu EXCEPT ![p] = state]
    BY <1>4 DEF GuestEnds, QemuExits
  <2>3. UNCHANGED <<main, finalized, processes, bootHart, hartUsed, offset, owner, output,
                    completed, cleaned, signum>>
    BY <1>4 DEF GuestEnds, QemuExits, allocVars, guestVars, endVars
  <2>4. qemu' \in Seq(States) /\ Len(qemu') = Len(qemu)
    BY <1>2, <2>1, <2>2, ExceptSeq
  <2>5. BootTypeOK'
    BY <1>1, <2>3, <2>4 DEF BootTypeOK
  <2>6. qemu # <<>>
    BY <1>2, <2>1, EmptySeq
  <2> QED
    BY <2>3, <2>4, <2>5, <2>6, BootOther
<1>5. ASSUME NEW h \in Harts, FetchLast(h) PROVE BootInv' /\ UNCHANGED owner
  <2> DEFINE p == owner[h]
  <2>1. p \in 0 .. Len(qemu) /\ p # 0
    BY <1>1, <1>5 DEF BootTypeOK, FetchLast
  <2>2. p \in 1 .. Len(completed)
    BY <1>2, <2>1
  <2>3. /\ completed' = [completed EXCEPT ![p] = TRUE]
        /\ UNCHANGED <<main, finalized, processes, bootHart, hartUsed, offset, owner, qemu,
                       output, cleaned, signum>>
    BY <1>5 DEF FetchLast, allocVars, endVars
  <2> HIDE DEF p
  <2>4. completed' \in Seq(BOOLEAN) /\ Len(completed') = Len(completed)
    BY <1>2, <2>2, <2>3, ExceptSeq
  <2>5. BootTypeOK'
    BY <1>1, <2>3, <2>4 DEF BootTypeOK
  <2> QED
    BY <2>3, <2>5, BootOther
<1>6. QED
  BY <1>3, <1>4, <1>5 DEF GuestStep

\* The end of the script, an interrupt and cleanUp take a step.
LEMMA BootEnd ==
    ASSUME BootInv, ScriptEnds \/ Interrupt \/ CleanUpProcess \/ Exit
    PROVE  BootInv' /\ UNCHANGED owner
<1>1. BootTypeOK /\ AllocInv
  BY DEF BootInv
<1>2. /\ main' \in {"cleanUp", "exited", "aborted"}
      /\ UNCHANGED <<finalized, processes, bootHart, hartUsed, offset, owner, qemu, output,
                     completed>>
  BY DEF ScriptEnds, Interrupt, CleanUpProcess, Exit, Kill, allocVars, guestVars, endVars
<1>3. Len(processes) \in Nat
  BY <1>1, LenProperties DEF BootTypeOK
<1>4. signum' \in {0, 2} /\ cleaned' \in 0 .. Len(processes)
  <2>1. signum \in {0, 2} /\ cleaned \in 0 .. Len(processes)
    BY <1>1 DEF BootTypeOK
  <2> QED
    BY <1>3, <2>1 DEF ScriptEnds, Interrupt, CleanUpProcess, Exit, endVars
<1>5. BootTypeOK'
  BY <1>1, <1>2, <1>4 DEF BootTypeOK
<1>6. QED
  BY <1>2, <1>5, BootOther

------------------------------------------------------------------------------
\* Every step keeps the allocation right and takes no hart from anybody.
LEMMA BootKeeps ==
    BootInv /\ [BootNext]_bootVars =>
        BootInv' /\ \A h \in Harts : owner[h] # 0 => owner'[h] = owner[h]
<1> SUFFICES ASSUME BootInv, [BootNext]_bootVars
             PROVE  BootInv' /\ \A h \in Harts : owner[h] # 0 => owner'[h] = owner[h]
  OBVIOUS
<1>1. CASE UNCHANGED bootVars
  <2>1. BootTypeOK'
    BY <1>1 DEF bootVars, BootInv, BootTypeOK
  <2> QED
    BY <1>1, <2>1, BootOther DEF bootVars
<1>2. ASSUME NEW n \in Requests, NEW w \in Outputs, NewProcess(n, w)
      PROVE  BootInv' /\ UNCHANGED owner
  BY <1>2, BootNewProcess DEF NewProcess, allocVars
<1>3. CASE Allocate
  BY <1>3, BootAllocate DEF Allocate
<1>4. CASE AssignHart
  BY <1>4, BootAssignHart
<1>5. CASE Assigned
  BY <1>5, BootAssigned DEF Assigned, allocVars
<1>6. CASE Run \/ Booted \/ RunReturns
  BY <1>6, BootRun DEF Run, Booted, RunReturns, allocVars
<1>7. CASE (\E p \in 1 .. MaxProcesses : GuestStep(p)) \/ (\E h \in Harts : FetchLast(h))
  BY <1>7, BootGuest
<1>8. CASE ScriptEnds \/ Interrupt \/ CleanUpProcess \/ Exit
  BY <1>8, BootEnd
<1>9. QED
  BY <1>1, <1>2, <1>3, <1>4, <1>5, <1>6, <1>7, <1>8 DEF BootNext, BootStep

\* The variables keep their shape; the lists of the boot grow together.
THEOREM BootTypeCorrect == BootSpec => []BootTypeOK
<1>1. BootInv => BootTypeOK
  BY DEF BootInv
<1>2. QED
  BY <1>1, BootStart, BootKeeps, PTL DEF BootSpec

\* When the system runs, every booted process has exactly the harts its QEMU was told
\* of, however many processes ask for however many harts.
THEOREM HartsAreAssigned == BootSpec => []HartsAssigned
<1>1. BootInv => HartsAssigned
  <2> SUFFICES ASSUME BootInv, main = "run", NEW p \in DOMAIN qemu
               PROVE  /\ HartRange(p) \subseteq Harts
                      /\ \A h \in Harts : owner[h] = p <=> h \in HartRange(p)
    BY DEF HartsAssigned
  <2>1. BootTypeOK /\ AllocInv
    BY DEF BootInv
  <2>2. p \in 1 .. Len(qemu)
    BY <2>1, LenProperties DEF BootTypeOK
  <2>3. Done(p)
    BY <2>1, <2>2 DEF AllocInv
  <2>4. bootHart[p] \in 0 .. CPUs /\ processes[p] \in Nat
    <3>0. /\ Len(qemu) \in Nat /\ Len(bootHart) \in Nat /\ Len(processes) \in Nat
          /\ Len(qemu) <= Len(bootHart) /\ Len(bootHart) <= Len(processes)
      BY <2>1, LenProperties DEF BootTypeOK
    <3>1. p \in 1 .. Len(bootHart) /\ p \in 1 .. Len(processes)
      BY <2>2, <3>0
    <3>2. bootHart[p] \in 0 .. CPUs /\ processes[p] \in Nat \ {0}
      BY <2>1, <3>1, ElementOfSeq DEF BootTypeOK
    <3> QED
      BY <3>2
  <2>5. HartRange(p) \subseteq Harts
    BY <2>3, <2>4, CPUAssumption DEF Done, HartRange, Harts
  <2> QED
    BY <2>3, <2>5 DEF Done
<1>2. QED
  BY <1>1, BootStart, BootKeeps, PTL DEF BootSpec

\* A hart stays with the process that has it.
THEOREM HartsKeepTheirProcess == BootSpec => HartsStay
<1>1. BootInv /\ [BootNext]_bootVars =>
          [\A h \in Harts : owner[h] # 0 => owner'[h] = owner[h]]_bootVars
  BY BootKeeps
<1>2. QED
  BY <1>1, BootStart, BootKeeps, PTL DEF BootSpec, HartsStay

------------------------------------------------------------------------------
(* Completion *)

\* QEMUs are added, and do not come back to life.
LEMMA EndedFrame ==
    ASSUME CompletedHaveEnded, UNCHANGED <<processes, completed>>,
           \A p \in DOMAIN qemu : p \in DOMAIN qemu' /\ (qemu[p] # "running" => qemu'[p] # "running")
    PROVE  CompletedHaveEnded'
BY DEF CompletedHaveEnded

\* When the system runs, the process that a hart simulates for is the only one whose
\* guest publishes for this hart.
LEMMA OnePublisher ==
    ASSUME BootInv, main = "run", NEW h \in Harts, NEW q \in DOMAIN qemu, h \in HartRange(q)
    PROVE  owner[h] = q
<1>1. q \in 1 .. Len(qemu)
  BY LenProperties DEF BootInv, BootTypeOK
<1> QED
  BY <1>1 DEF BootInv, AllocInv, Done

\* A process that completes has ended: the hart that tells is its boot hart.
LEMMA EndedFetch ==
    ASSUME BootInv, CompletedHaveEnded, NEW h \in Harts, FetchLast(h)
    PROVE  CompletedHaveEnded'
<1>1. PICK q \in DOMAIN qemu : h \in HartRange(q) /\ (h = bootHart[q] => qemu[q] = "exiting")
  BY DEF FetchLast, ThreadEnded
<1>2. owner[h] = q
  BY <1>1, OnePublisher DEF FetchLast
<1>3. h = bootHart[q] /\ completed' = [completed EXCEPT ![q] = TRUE] /\ UNCHANGED <<processes, qemu>>
  BY <1>2 DEF FetchLast, allocVars
<1>4. qemu[q] = "exiting"
  BY <1>1, <1>3
<1>5. \A p : p # q /\ p \in DOMAIN completed => completed'[p] = completed[p]
  BY <1>3
<1>6. DOMAIN completed = DOMAIN processes
  BY LenProperties DEF BootInv, BootTypeOK
<1> QED
  BY <1>3, <1>4, <1>5, <1>6 DEF CompletedHaveEnded

LEMMA EndedStep == BootInv /\ CompletedHaveEnded /\ [BootNext]_bootVars => CompletedHaveEnded'
<1> SUFFICES ASSUME BootInv, CompletedHaveEnded, [BootNext]_bootVars PROVE CompletedHaveEnded'
  OBVIOUS
<1>1. CASE UNCHANGED <<processes, completed, qemu>>
  BY <1>1 DEF CompletedHaveEnded
<1>2. ASSUME NEW n \in Requests, NEW w \in Outputs, NewProcess(n, w) PROVE CompletedHaveEnded'
  <2>1. /\ processes \in Seq(Nat \ {0}) /\ completed \in Seq(BOOLEAN) /\ Len(completed) = Len(processes)
        /\ Len(processes) \in Nat /\ n \in Nat \ {0}
    BY RequestAssumption, LenProperties DEF BootInv, BootTypeOK
  <2>2. processes' = Append(processes, n) /\ completed' = Append(completed, FALSE) /\ qemu' = qemu
    BY <1>2 DEF NewProcess
  <2>3. /\ DOMAIN processes = 1 .. Len(processes) /\ DOMAIN processes' = 1 .. Len(processes) + 1
        /\ completed'[Len(processes) + 1] = FALSE
        /\ \A p \in 1 .. Len(processes) : completed'[p] = completed[p]
    <3>1. processes' \in Seq(Nat \ {0}) /\ Len(processes') = Len(processes) + 1
      BY <2>1, <2>2, AppendProperties
    <3>2. /\ completed'[Len(completed) + 1] = FALSE
          /\ \A p \in 1 .. Len(completed) : completed'[p] = completed[p]
      <4> DEFINE none == FALSE
      <4>1. none \in BOOLEAN /\ completed' = Append(completed, none)
        BY <2>2
      <4> HIDE DEF none
      <4>2. /\ completed'[Len(completed) + 1] = none
            /\ \A p \in 1 .. Len(completed) : completed'[p] = completed[p]
          <5>1. /\ Append(completed, none)[Len(completed) + 1] = none
                /\ \A p \in 1 .. Len(completed) : Append(completed, none)[p] = completed[p]
            <6>1. completed \in Seq(BOOLEAN) /\ none \in BOOLEAN
              BY <2>1, <4>1
            <6> QED
              BY <6>1, AppendProperties
          <5> QED
            BY <4>1, <5>1, Zenon
      <4> QED
        BY <4>2, Zenon DEF none
    <3> QED
      BY <2>1, <3>1, <3>2, LenProperties
  <2>4. \A p \in DOMAIN processes' : p \in DOMAIN processes \/ p = Len(processes) + 1
    BY <2>1, <2>3
  <2> QED
    BY <2>2, <2>3, <2>4 DEF CompletedHaveEnded
<1>3. CASE Allocate
  <2>1. UNCHANGED <<processes, completed>> /\ (qemu' = qemu \/ qemu' = Append(qemu, "running"))
    BY <1>3 DEF Allocate, guestVars
  <2>2. qemu \in Seq({"running", "exiting", "gone"})
    BY DEF BootInv, BootTypeOK
  <2>3. \A p \in DOMAIN qemu : p \in DOMAIN qemu' /\ qemu'[p] = qemu[p]
    BY <2>1, <2>2, AppendProperties, LenProperties
  <2> QED
    BY <2>1, <2>3, EndedFrame
<1>4. ASSUME NEW p \in 1 .. MaxProcesses, GuestStep(p) PROVE CompletedHaveEnded'
  <2>1. /\ UNCHANGED <<processes, completed>>
        /\ \/ qemu' = qemu \/ qemu' = [qemu EXCEPT ![p] = "exiting"]
           \/ qemu' = [qemu EXCEPT ![p] = "gone"]
    BY <1>4 DEF GuestStep, Write, GuestEnds, QemuExits, guestVars
  <2>2. \A q \in DOMAIN qemu : q \in DOMAIN qemu' /\ (qemu[q] # "running" => qemu'[q] # "running")
    BY <2>1
  <2> QED
    BY <2>1, <2>2, EndedFrame
<1>5. ASSUME NEW h \in Harts, FetchLast(h) PROVE CompletedHaveEnded'
  BY <1>5, EndedFetch
<1>6. CASE Run \/ AssignHart \/ Assigned \/ Booted \/ RunReturns
  BY <1>1, <1>6 DEF Run, AssignHart, Assigned, Booted, RunReturns, guestVars
<1>7. CASE ScriptEnds \/ Interrupt \/ CleanUpProcess \/ Exit
  BY <1>1, <1>7 DEF ScriptEnds, Interrupt, CleanUpProcess, Exit, Kill, guestVars
<1>8. CASE UNCHANGED bootVars
  BY <1>1, <1>8 DEF bootVars
<1> QED
  BY <1>2, <1>3, <1>4, <1>5, <1>6, <1>7, <1>8 DEF BootNext, BootStep

\* For any number of processes, whatever they ask for and whenever SIGINT comes: a
\* process that is complete has been booted and its guest has ended.
THEOREM CompletedEnd == BootSpec => []CompletedHaveEnded
<1>1. BootInit => CompletedHaveEnded
  BY DEF BootInit, CompletedHaveEnded
<1> QED
  BY <1>1, BootStart, BootKeeps, EndedStep, PTL DEF BootSpec

=============================================================================
