-------------------------- MODULE HartPipelineProofs --------------------------
(***************************************************************************)
(* Theorems about the pipeline, for any guest programs, harts, ranks and   *)
(* sizes: a hart that no handler runs has exactly the wake-up its status   *)
(* calls for; the channels are used as they ask to be, so that what is     *)
(* proved of them holds here; and, of the guests each theorem names, harts *)
(* block and fetch as they should, retire every instruction once and in    *)
(* order, and complete with nothing left.                                  *)
(***************************************************************************)
EXTENDS HartPipeline, EventChannelProofs

\* The shape of what decides when a hart is called.
WakeTypeOK ==
    /\ status \in [Harts -> {"INACTIVE", "ACTIVE", "BLOCKED_SYSCALL", "COMPLETED"}]
    /\ sched \in [Harts -> SUBSET {"startup", "tick", "monitor"}]
    /\ handler \in [Harts -> {"idle", "boot", "fetch", "execute", "polled", "failed"}]
    /\ waking \in [Harts -> BOOLEAN]

\* The wake-up that the status of hart h calls for.
WakeFor(h) ==
    CASE status[h] = "ACTIVE" -> {"tick"}
      [] status[h] = "BLOCKED_SYSCALL" -> {"monitor"}
      [] status[h] = "COMPLETED" -> {}
      [] status[h] = "INACTIVE" /\ h = Boot -> {"startup"}
      [] OTHER -> {"monitor"}

\* While a handler runs, its hart has the wake-up that it will find, with a poll left
\* over if wakeUpMonitor has started it; the boot hart is never polled for.
Woken(h) ==
    CASE handler[h] = "idle" -> ~waking[h] /\ sched[h] = WakeFor(h)
      [] handler[h] = "boot" -> /\ status[h] = "INACTIVE"
                                /\ sched[h] = IF waking[h] THEN {"monitor"} ELSE {}
      [] handler[h] = "fetch" -> /\ status[h] = "ACTIVE"
                                 /\ sched[h] = {"tick"} \union (IF waking[h] THEN {"monitor"} ELSE {})
      [] handler[h] = "execute" -> IF waking[h] THEN sched[h] \subseteq {"tick", "monitor"}
                                                ELSE sched[h] = WakeFor(h)
      [] handler[h] = "polled" -> /\ status[h] = "INACTIVE" /\ ~waking[h] /\ h # Boot
                                  /\ sched[h] = {"monitor"}
      [] OTHER -> TRUE

WakeInv ==
    /\ WakeTypeOK
    /\ \A h \in Harts :
          IF booted THEN Woken(h) /\ (waking[h] => h # Boot)
          ELSE /\ handler[h] = "idle" /\ ~waking[h]
               /\ status[h] = "INACTIVE" /\ sched[h] = {}

\* What decides about a hart.
WakeVars(h) == <<status[h], sched[h], handler[h], waking[h]>>

------------------------------------------------------------------------------
LEMMA WakeStart == PipelineInit => WakeInv
BY DEF PipelineInit, WakeInv, WakeTypeOK

\* A step of one hart leaves the others alone.
LEMMA WakeFrame ==
    ASSUME WakeInv, booted, booted' = booted, WakeTypeOK', NEW h \in Harts,
           \A g \in Harts : g # h => UNCHANGED WakeVars(g),
           Woken(h)', waking'[h] => h # Boot
    PROVE  WakeInv'
<1>1. \A g \in Harts : g # h => Woken(g)' /\ (waking'[g] => g # Boot)
  BY DEF WakeInv, Woken, WakeFor, WakeVars
<1> QED
  BY <1>1 DEF WakeInv

LEMMA WakeUnchanged ==
    ASSUME WakeInv, UNCHANGED <<booted, status, sched, handler, waking>>
    PROVE  WakeInv'
BY DEF WakeInv, WakeTypeOK, Woken, WakeFor

LEMMA BootWakes == WakeInv /\ BootSystem => WakeInv'
<1> SUFFICES ASSUME WakeInv, BootSystem PROVE WakeInv'
  OBVIOUS
<1>1. /\ ~booted /\ booted' = TRUE /\ UNCHANGED <<status, handler, waking>>
      /\ sched' = [h \in Harts |-> IF h = Boot THEN {"startup"} ELSE {"monitor"}]
  BY DEF BootSystem
<1>2. WakeTypeOK'
  BY <1>1 DEF WakeInv, WakeTypeOK
<1>3. ASSUME NEW h \in Harts
      PROVE  Woken(h)' /\ ~waking'[h]
  <2>1. handler'[h] = "idle" /\ ~waking'[h] /\ status'[h] = "INACTIVE"
    BY <1>1 DEF WakeInv
  <2>2. sched'[h] = WakeFor(h)'
    BY <1>1, <2>1 DEF WakeFor
  <2> QED
    BY <2>1, <2>2 DEF Woken
<1> QED
  BY <1>1, <1>2, <1>3 DEF WakeInv

\* Only a hart between two handlers is called, and then with its wake-up.
LEMMA FiresIdle ==
    ASSUME WakeInv, NEW h \in Harts, NEW event, Fires(h, event)
    PROVE  booted /\ handler[h] = "idle" /\ ~waking[h] /\ sched[h] = WakeFor(h)
BY DEF WakeInv, Fires, RankFree, Woken

LEMMA DispatchWakes ==
    ASSUME WakeInv, NEW h \in Harts, Dispatch(h)
    PROVE  WakeInv'
<1>1. WakeTypeOK
  BY DEF WakeInv
<1>2. booted /\ handler[h] = "idle" /\ ~waking[h] /\ sched[h] = WakeFor(h)
  BY FiresIdle DEF Dispatch, StartupEvent, TickEvent, WakeInactive, PollInactive, WakeBlocked
<1>3. booted' = booted
  BY DEF Dispatch, StartupEvent, TickEvent, WakeInactive, PollInactive, WakeBlocked
<1>4. status[h] \in {"INACTIVE", "ACTIVE", "BLOCKED_SYSCALL", "COMPLETED"}
  BY <1>1 DEF WakeTypeOK
<1>5. CASE StartupEvent(h)
  <2>1. /\ "startup" \in sched[h] /\ UNCHANGED <<status, waking>>
        /\ sched' = [sched EXCEPT ![h] = sched[h] \ {"startup"}]
        /\ handler' = [handler EXCEPT ![h] = "boot"]
    BY <1>5 DEF StartupEvent, Fires
  <2>2. status[h] = "INACTIVE" /\ sched[h] = {"startup"}
    BY <1>2, <1>4, <2>1 DEF WakeFor
  <2>3. sched'[h] = {} /\ handler'[h] = "boot" /\ WakeTypeOK'
    BY <1>1, <2>1, <2>2 DEF WakeTypeOK
  <2>4. \A g \in Harts : g # h => UNCHANGED WakeVars(g)
    BY <1>1, <2>1 DEF WakeTypeOK, WakeVars
  <2>5. Woken(h)' /\ ~waking'[h]
    BY <1>2, <2>1, <2>2, <2>3 DEF Woken
  <2> QED
    BY <1>2, <1>3, <2>3, <2>4, <2>5, WakeFrame
<1>6. CASE TickEvent(h)
  <2>1. /\ "tick" \in sched[h] /\ UNCHANGED <<status, sched, waking>>
        /\ handler' = [handler EXCEPT ![h] = "fetch"]
    BY <1>6 DEF TickEvent, Fires, BeginFetch
  <2>2. status[h] = "ACTIVE" /\ sched[h] = {"tick"}
    BY <1>2, <1>4, <2>1 DEF WakeFor
  <2>3. handler'[h] = "fetch" /\ WakeTypeOK'
    BY <1>1, <2>1 DEF WakeTypeOK
  <2>4. \A g \in Harts : g # h => UNCHANGED WakeVars(g)
    BY <1>1, <2>1 DEF WakeTypeOK, WakeVars
  <2>5. Woken(h)' /\ ~waking'[h]
    BY <1>2, <2>1, <2>2, <2>3 DEF Woken
  <2> QED
    BY <1>2, <1>3, <2>3, <2>4, <2>5, WakeFrame
<1>7. CASE WakeInactive(h)
  <2>1. /\ "monitor" \in sched[h] /\ status[h] = "INACTIVE" /\ UNCHANGED <<status, sched>>
        /\ handler' = [handler EXCEPT ![h] = "boot"]
        /\ waking' = [waking EXCEPT ![h] = TRUE]
    BY <1>7 DEF WakeInactive, Fires
  <2>2. h # Boot /\ sched[h] = {"monitor"}
    BY <1>2, <2>1 DEF WakeFor
  <2>3. handler'[h] = "boot" /\ waking'[h] = TRUE /\ WakeTypeOK'
    BY <1>1, <2>1 DEF WakeTypeOK
  <2>4. \A g \in Harts : g # h => UNCHANGED WakeVars(g)
    BY <1>1, <2>1 DEF WakeTypeOK, WakeVars
  <2>5. Woken(h)'
    BY <2>1, <2>2, <2>3 DEF Woken
  <2> QED
    BY <1>2, <1>3, <2>2, <2>3, <2>4, <2>5, WakeFrame
<1>8. CASE PollInactive(h)
  <2>1. /\ "monitor" \in sched[h] /\ status[h] = "INACTIVE" /\ UNCHANGED <<status, sched, waking>>
        /\ handler' = [handler EXCEPT ![h] = "polled"]
    BY <1>8 DEF PollInactive, Fires
  <2>2. sched[h] = {"monitor"} /\ h # Boot
    BY <1>2, <2>1 DEF WakeFor
  <2>3. handler'[h] = "polled" /\ WakeTypeOK'
    BY <1>1, <2>1 DEF WakeTypeOK
  <2>4. \A g \in Harts : g # h => UNCHANGED WakeVars(g)
    BY <1>1, <2>1 DEF WakeTypeOK, WakeVars
  <2>5. Woken(h)' /\ ~waking'[h]
    BY <1>2, <2>1, <2>2, <2>3 DEF Woken
  <2> QED
    BY <1>2, <1>3, <2>3, <2>4, <2>5, WakeFrame
<1>9. CASE WakeBlocked(h)
  <2>1. /\ status[h] = "BLOCKED_SYSCALL" /\ UNCHANGED <<handler, waking>>
        /\ status' = [status EXCEPT ![h] = "ACTIVE"]
        /\ sched' = [sched EXCEPT ![h] = (sched[h] \ {"monitor"}) \union {"tick"}]
    BY <1>9 DEF WakeBlocked, Resume
  <2>2. sched[h] = {"monitor"}
    BY <1>2, <2>1 DEF WakeFor
  <2>3. status'[h] = "ACTIVE" /\ sched'[h] = {"tick"} /\ WakeTypeOK'
    BY <1>1, <2>1, <2>2 DEF WakeTypeOK
  <2>4. \A g \in Harts : g # h => UNCHANGED WakeVars(g)
    BY <1>1, <2>1 DEF WakeTypeOK, WakeVars
  <2>5. Woken(h)' /\ ~waking'[h]
    BY <1>2, <2>1, <2>3 DEF Woken, WakeFor
  <2> QED
    BY <1>2, <1>3, <2>3, <2>4, <2>5, WakeFrame
<1> QED
  BY <1>5, <1>6, <1>7, <1>8, <1>9 DEF Dispatch

LEMMA HandlerWakes ==
    ASSUME WakeInv, NEW h \in Harts, HandlerStep(h)
    PROVE  WakeInv'
<1>1. WakeTypeOK
  BY DEF WakeInv
<1>2. booted' = booted
  BY DEF HandlerStep, Front, InitCPUState, FirstEventAssertion, FetchSyscall, FetchInstruction,
         FetchMismatch, Execute, CheckProcess
<1>3. handler[h] # "idle"
  BY DEF HandlerStep, Front, InitCPUState, FirstEventAssertion, FetchSyscall, FetchInstruction,
         FetchMismatch, Execute, CheckProcess, AtHead
<1>4. booted /\ Woken(h) /\ (waking[h] => h # Boot) /\ waking[h] \in BOOLEAN
  BY <1>3 DEF WakeInv, WakeTypeOK
\* What is left to show of a step that says what becomes of h.
<1>5. ASSUME NEW st \in {"INACTIVE", "ACTIVE", "BLOCKED_SYSCALL", "COMPLETED"},
             NEW ev \in SUBSET {"startup", "tick", "monitor"},
             NEW at \in {"boot", "fetch", "execute", "idle", "failed"},
             NEW wk \in BOOLEAN, wk => waking[h],
             status' = [status EXCEPT ![h] = st], sched' = [sched EXCEPT ![h] = ev],
             handler' = [handler EXCEPT ![h] = at], waking' = [waking EXCEPT ![h] = wk],
             Woken(h)'
      PROVE  WakeInv'
  <2>1. WakeTypeOK' /\ waking'[h] = wk
    BY <1>1, <1>5 DEF WakeTypeOK
  <2>2. \A g \in Harts : g # h => UNCHANGED WakeVars(g)
    BY <1>1, <1>5 DEF WakeTypeOK, WakeVars
  <2> QED
    BY <1>2, <1>4, <1>5, <2>1, <2>2, WakeFrame
<1>6. /\ status = [status EXCEPT ![h] = status[h]] /\ sched = [sched EXCEPT ![h] = sched[h]]
      /\ waking = [waking EXCEPT ![h] = waking[h]]
      /\ status[h] \in {"INACTIVE", "ACTIVE", "BLOCKED_SYSCALL", "COMPLETED"}
      /\ sched[h] \in SUBSET {"startup", "tick", "monitor"}
  BY <1>1 DEF WakeTypeOK
<1>7. CASE Front(h)
  BY <1>7, WakeUnchanged DEF Front, cpuVars
<1>8. CASE InitCPUState(h)
  <2>1. handler[h] = "boot" /\ waking' = waking
        /\ status' = [status EXCEPT ![h] = "ACTIVE"]
        /\ sched' = [sched EXCEPT ![h] = sched[h] \union {"tick"}]
        /\ handler' = [handler EXCEPT ![h] = "fetch"]
    BY <1>8 DEF InitCPUState, AtHead, BeginFetch
  <2>2. sched[h] = IF waking[h] THEN {"monitor"} ELSE {}
    BY <1>4, <2>1 DEF Woken
  <2>3. /\ status'[h] = "ACTIVE" /\ handler'[h] = "fetch" /\ waking'[h] = waking[h]
        /\ sched'[h] = {"tick"} \union (IF waking[h] THEN {"monitor"} ELSE {})
    BY <1>1, <2>1, <2>2 DEF WakeTypeOK
  <2>4. Woken(h)'
    BY <2>3 DEF Woken
  <2> QED
    BY <1>4, <1>5, <1>6, <2>1, <2>4
<1>9. CASE FirstEventAssertion(h)
  <2>1. handler' = [handler EXCEPT ![h] = "failed"] /\ UNCHANGED <<status, sched, waking>>
    BY <1>9 DEF FirstEventAssertion
  <2>2. Woken(h)'
    BY <1>1, <2>1 DEF Woken, WakeTypeOK
  <2> QED
    BY <1>4, <1>5, <1>6, <2>1, <2>2
<1>10. CASE FetchSyscall(h)
  <2>1. /\ handler[h] = "fetch" /\ waking' = waking /\ HandleSyscallApi(h)
        /\ handler' = [handler EXCEPT ![h] = "execute"]
    BY <1>10 DEF FetchSyscall, AtHead
  <2>2. status[h] = "ACTIVE" /\ sched[h] \subseteq {"tick", "monitor"}
    BY <1>4, <2>1 DEF Woken
  <2>3. /\ status' = [status EXCEPT ![h] = "BLOCKED_SYSCALL"]
        /\ sched' = [sched EXCEPT ![h] = (sched[h] \ {"tick"}) \union {"monitor"}]
    BY <2>1, <2>2 DEF HandleSyscallApi
  <2>4. (sched[h] \ {"tick"}) \union {"monitor"} = {"monitor"}
    BY <2>2
  <2>5. /\ status'[h] = "BLOCKED_SYSCALL" /\ sched'[h] = {"monitor"}
        /\ handler'[h] = "execute" /\ waking'[h] = waking[h]
    BY <1>1, <2>1, <2>3, <2>4 DEF WakeTypeOK
  <2>6. Woken(h)'
    BY <2>5 DEF Woken, WakeFor
  <2> QED
    BY <1>4, <1>5, <1>6, <2>1, <2>3, <2>4, <2>6
<1>11. CASE FetchInstruction(h)
  <2>1. /\ handler[h] = "fetch" /\ waking' = waking
        /\ IF First(h).last THEN LastInstruction(h) ELSE UNCHANGED <<status, sched, completed>>
    BY <1>11 DEF FetchInstruction, AtHead
  <2>2. /\ status[h] = "ACTIVE"
        /\ sched[h] = {"tick"} \union (IF waking[h] THEN {"monitor"} ELSE {})
    BY <1>4, <2>1 DEF Woken
  <2>3. CASE ~First(h).last
    <3>1. PICK at \in {"fetch", "execute"} : handler' = [handler EXCEPT ![h] = at]
      BY <1>11 DEF FetchInstruction
    <3>2. UNCHANGED <<status, sched>>
      BY <2>1, <2>3
    <3>3. handler'[h] = at
      BY <1>1, <3>1 DEF WakeTypeOK
    <3>4. Woken(h)'
      BY <1>4, <2>1, <2>2, <3>1, <3>2, <3>3 DEF Woken, WakeFor
    <3> QED
      BY <1>4, <1>5, <1>6, <2>1, <3>1, <3>2, <3>4
  <2>4. CASE First(h).last
    <3>1. handler' = [handler EXCEPT ![h] = "execute"]
      BY <1>11, <2>4 DEF FetchInstruction
    <3>2. CASE h = Boot
      <4>1. /\ status' = [status EXCEPT ![h] = "COMPLETED"]
            /\ sched' = [sched EXCEPT ![h] = sched[h] \ {"tick"}]
        BY <2>1, <2>4, <3>2 DEF LastInstruction
      <4>2. sched[h] \ {"tick"} = {}
        BY <1>4, <2>2, <3>2
      <4>3. status'[h] = "COMPLETED" /\ sched'[h] = {} /\ handler'[h] = "execute" /\ ~waking'[h]
        BY <1>1, <1>4, <2>1, <3>1, <3>2, <4>1, <4>2 DEF WakeTypeOK
      <4>4. Woken(h)'
        BY <4>3 DEF Woken, WakeFor
      <4> QED
        BY <1>4, <1>5, <1>6, <2>1, <3>1, <4>1, <4>2, <4>4
    <3>3. CASE h # Boot
      <4>1. /\ status' = [status EXCEPT ![h] = "INACTIVE"]
            /\ sched' = [sched EXCEPT ![h] = (sched[h] \ {"tick"}) \union {"monitor"}]
        BY <2>1, <2>4, <3>3 DEF LastInstruction
      <4>2. (sched[h] \ {"tick"}) \union {"monitor"} = {"monitor"}
        BY <2>2
      <4>3. /\ status'[h] = "INACTIVE" /\ sched'[h] = {"monitor"}
            /\ handler'[h] = "execute" /\ waking'[h] = waking[h]
        BY <1>1, <2>1, <3>1, <4>1, <4>2 DEF WakeTypeOK
      <4>4. Woken(h)'
        BY <3>3, <4>3 DEF Woken, WakeFor
      <4> QED
        BY <1>4, <1>5, <1>6, <2>1, <3>1, <4>1, <4>2, <4>4
    <3> QED
      BY <3>2, <3>3
  <2> QED
    BY <2>3, <2>4
<1>12. CASE FetchMismatch(h)
  <2>1. /\ handler[h] = "fetch" /\ UNCHANGED <<status, sched, waking>>
        /\ handler' = [handler EXCEPT ![h] = "execute"]
    BY <1>12 DEF FetchMismatch, AtHead
  <2>2. handler'[h] = "execute"
    BY <1>1, <2>1 DEF WakeTypeOK
  <2>3. Woken(h)'
    BY <1>4, <2>1, <2>2 DEF Woken, WakeFor
  <2> QED
    BY <1>4, <1>5, <1>6, <2>1, <2>3
<1>13. CASE Execute(h)
  <2>1. /\ handler[h] = "execute"
        /\ handler' = [handler EXCEPT ![h] = "idle"]
        /\ waking' = [waking EXCEPT ![h] = FALSE]
        /\ IF waking[h] THEN Resume(h) ELSE UNCHANGED <<status, sched>>
    BY <1>13 DEF Execute
  <2>2. handler'[h] = "idle" /\ waking'[h] = FALSE
    BY <1>1, <2>1 DEF WakeTypeOK
  <2>3. CASE waking[h]
    <3>1. /\ status' = [status EXCEPT ![h] = "ACTIVE"]
          /\ sched' = [sched EXCEPT ![h] = (sched[h] \ {"monitor"}) \union {"tick"}]
      BY <2>1, <2>3 DEF Resume
    <3>2. (sched[h] \ {"monitor"}) \union {"tick"} = {"tick"}
      BY <1>4, <2>1, <2>3 DEF Woken
    <3>3. status'[h] = "ACTIVE" /\ sched'[h] = {"tick"}
      BY <1>1, <3>1, <3>2 DEF WakeTypeOK
    <3>4. Woken(h)'
      BY <2>2, <3>3 DEF Woken, WakeFor
    <3> QED
      BY <1>5, <2>1, <2>3, <3>1, <3>2, <3>4
  <2>4. CASE ~waking[h]
    <3>1. UNCHANGED <<status, sched>> /\ sched[h] = WakeFor(h)
      BY <1>4, <2>1, <2>4 DEF Woken
    <3>2. Woken(h)'
      BY <2>2, <3>1 DEF Woken, WakeFor
    <3> QED
      BY <1>5, <1>6, <2>1, <3>1, <3>2
  <2> QED
    BY <2>3, <2>4
<1>14. CASE CheckProcess(h)
  <2>1. /\ handler[h] = "polled" /\ waking' = waking
        /\ handler' = [handler EXCEPT ![h] = "idle"]
        /\ IF completed
           THEN /\ status' = [status EXCEPT ![h] = "COMPLETED"]
                /\ sched' = [sched EXCEPT ![h] = sched[h] \ {"monitor"}]
           ELSE UNCHANGED <<status, sched>>
    BY <1>14 DEF CheckProcess
  <2>2. status[h] = "INACTIVE" /\ ~waking[h] /\ sched[h] = {"monitor"}
    BY <1>4, <2>1 DEF Woken
  <2>3. handler'[h] = "idle" /\ ~waking'[h]
    BY <1>1, <2>1, <2>2 DEF WakeTypeOK
  <2>4. CASE completed
    <3>1. sched[h] \ {"monitor"} = {}
      BY <2>2
    <3>2. status'[h] = "COMPLETED" /\ sched'[h] = {}
      BY <1>1, <2>1, <2>4, <3>1 DEF WakeTypeOK
    <3>3. Woken(h)'
      BY <2>3, <3>2 DEF Woken, WakeFor
    <3> QED
      BY <1>4, <1>5, <1>6, <2>1, <2>4, <3>1, <3>3
  <2>5. CASE ~completed
    <3>1. h # Boot
      BY <1>4, <2>1 DEF Woken
    <3>2. Woken(h)'
      BY <2>1, <2>2, <2>3, <2>5, <3>1 DEF Woken, WakeFor
    <3> QED
      BY <1>4, <1>5, <1>6, <2>1, <2>5, <3>2
  <2> QED
    BY <2>4, <2>5
<1> QED
  BY <1>7, <1>8, <1>9, <1>10, <1>11, <1>12, <1>13, <1>14 DEF HandlerStep

LEMMA WakeStep == WakeInv /\ [PipelineNext]_pipelineVars => WakeInv'
<1> SUFFICES ASSUME WakeInv, [PipelineNext]_pipelineVars PROVE WakeInv'
  OBVIOUS
<1>1. ASSUME NEW h \in Harts, RegisterISS(h) \/ GuestStep(h) \/ TransportStep(h)
      PROVE  WakeInv'
  <2>1. UNCHANGED <<booted, cpuVars>>
    BY <1>1 DEF RegisterISS, GuestStep, ThreadInitialize, ExecuteInstruction, Syscall,
                SyscallReturn, ThreadExit, TransportStep
  <2> QED
    BY <2>1, WakeUnchanged DEF cpuVars
<1>2. CASE UNCHANGED pipelineVars
  BY <1>2, WakeUnchanged DEF pipelineVars, cpuVars
<1> QED
  BY <1>1, <1>2, BootWakes, DispatchWakes, HandlerWakes DEF PipelineNext

\* Between two handlers a hart has exactly the wake-up its status calls for: ticks,
\* polls, its startup, or nothing any more.
THEOREM OneWake == PipelineSpec => []OneWakeSource
<1>1. WakeInv => OneWakeSource
  BY DEF WakeInv, OneWakeSource, Between, Woken, WakeFor
<1> QED
  BY <1>1, WakeStart, WakeStep, PTL DEF PipelineSpec

------------------------------------------------------------------------------
(* The pipeline keeps its types and the contract of the channel *)

\* The vcpu of hart h is at an instruction of its program.
AtInstruction(h) ==
    /\ life[h] \in DOMAIN program[h]
    /\ ip[h] \in DOMAIN program[h][life[h]]

GuestOK ==
    /\ program \in Programs
    /\ \A h \in Harts :
          /\ vcpu[h] \in {"created", "running", "syscall", "kernel"} => AtInstruction(h)
          /\ ~booted => vcpu[h] = "absent" /\ ip[h] = 1

\* PipelineTypeOK without the channel's part.
CpuTypeOK ==
    /\ vcpu \in [Harts -> {"absent", "created", "running", "syscall", "kernel", "exiting", "dead"}]
    /\ life \in [Harts -> Nat] /\ ip \in [Harts -> Nat] /\ instCount \in [Harts -> Nat]
    /\ lastInst \in [Harts -> Inst]
    /\ booted \in BOOLEAN
    /\ fetchPc \in [Harts -> Nat] /\ fetchEnd \in [Harts -> Nat] /\ nextPc \in [Harts -> Nat]
    /\ instBuffer \in [Harts -> Seq(Inst)]
    /\ instret \in [Harts -> Nat]
    /\ completed \in BOOLEAN
    /\ lastTag \in [Harts -> {"none", "insn", "sys"}]

\* The events that the plugin forces out: each is the last of its message.
Forced(data) == data.last \/ data.tag = "sys"
ForcedEnds(m) == \A i \in 1 .. Len(m) : Forced(m[i].data) => i = Len(m)
Unforced(m) == \A i \in 1 .. Len(m) : ~Forced(m[i].data)

BatchesFor(h) ==
    /\ ForcedEnds(subBuffer[h])
    /\ \A i \in 1 .. Len(queue[h]) : ForcedEnds(queue[h][i])
    /\ ForcedEnds(pubBuffer[h])
    /\ ~flushing[h] => Unforced(pubBuffer[h])

\* So a hart that has stopped at such an event has drained its buffer.
DrainedFor(h) ==
    handler[h] \notin {"boot", "failed"} /\ status[h] # "ACTIVE" => subBuffer[h] = <<>>

PipeInv ==
    /\ Payload = EventData
    /\ WakeInv /\ TypeInv /\ CpuTypeOK /\ GuestOK
    /\ \A h \in Harts : BatchesFor(h) /\ DrainedFor(h)

------------------------------------------------------------------------------
LEMMA PipeStart == Payload = EventData /\ PipelineInit => PipeInv
<1> SUFFICES ASSUME Payload = EventData, PipelineInit PROVE PipeInv
  OBVIOUS
<1>1. WakeInv /\ TypeInv
  BY WakeStart, TypeInit DEF PipelineInit
<1>2. CpuTypeOK
  <2>1. NullInst \in Inst /\ <<>> \in Seq(Inst)
    BY DEF NullInst, Inst
  <2> QED
    BY <2>1 DEF PipelineInit, CpuTypeOK
<1>3. GuestOK
  BY DEF PipelineInit, GuestOK
<1>4. ASSUME NEW h \in Harts PROVE BatchesFor(h) /\ DrainedFor(h)
  <2>1. subBuffer[h] = <<>> /\ queue[h] = <<>> /\ pubBuffer[h] = <<>> /\ Len(<<>>) = 0
    BY EmptySeq DEF PipelineInit, Init
  <2>2. BatchesFor(h)
    BY <2>1 DEF BatchesFor, ForcedEnds, Unforced
  <2> QED
    BY <2>1, <2>2 DEF DrainedFor
<1> QED
  BY <1>1, <1>2, <1>3, <1>4 DEF PipeInv

\* The instruction that a vcpu is at.
LEMMA InsnTyped ==
    ASSUME PipeInv, NEW h \in Harts, vcpu[h] \in {"created", "running", "syscall", "kernel"}
    PROVE  /\ Insn(h) \in Instruction
           /\ Insn(h).call = "exit" <=> ip[h] = Len(program[h][life[h]])
           /\ \A g \in Spawned(Insn(h)) : Insn(h).spawn[g] \in DOMAIN program[g]
           /\ Insn(h).call # "exit" => ip[h] + 1 \in DOMAIN program[h][life[h]]
<1>1. AtInstruction(h) /\ WellFormed(program)
  BY ProgramsAssumption DEF PipeInv, GuestOK
<1>2. /\ program[h] \in Seq(Seq(Instruction))
      /\ life[h] \in DOMAIN program[h] /\ ip[h] \in DOMAIN program[h][life[h]]
  BY <1>1 DEF WellFormed, AtInstruction
<1>3. program[h][life[h]] \in Seq(Instruction)
  BY <1>2, ElementOfSeq
<1>4. Insn(h) \in Instruction
  BY <1>2, <1>3, ElementOfSeq DEF Insn
<1>5. /\ Insn(h).call = "exit" <=> ip[h] = Len(program[h][life[h]])
      /\ \A g \in Spawned(Insn(h)) : Insn(h).spawn[g] \in DOMAIN program[g]
  BY <1>1, <1>2 DEF WellFormed, Insn
<1>6. Insn(h).call # "exit" => ip[h] + 1 \in DOMAIN program[h][life[h]]
  BY <1>2, <1>3, <1>5, LenProperties
<1> QED
  BY <1>4, <1>5, <1>6

\* What the plugin completes an instruction to is one.
LEMMA PreviousTyped ==
    ASSUME PipeInv, NEW h \in Harts, NEW inst \in Instruction
    PROVE  Previous(h, inst) \in Inst
<1>1. lastInst[h] \in Inst /\ inst.pc \in Nat /\ inst.len \in Nat
  BY DEF PipeInv, CpuTypeOK, Instruction
<1> DEFINE jumps == lastInst[h].redirect \/ lastInst[h].pc # inst.pc + inst.len
<1>2. jumps \in BOOLEAN
  OBVIOUS
<1>3. Previous(h, inst) = [lastInst[h] EXCEPT !.target = inst.pc, !.redirect = jumps]
  BY DEF Previous
<1> HIDE DEF jumps
<1> QED
  BY <1>1, <1>2, <1>3 DEF Inst

\* What a callback of the plugin does to the channel.
LEMMA GuestPublishes ==
    ASSUME PipeInv, NEW h \in Harts, GuestStep(h)
    PROVE  \/ UNCHANGED channelVars
           \/ NewPublisher(h)
           \/ \E data \in EventData, force \in BOOLEAN :
                 (Forced(data) => force) /\ Publish(h, data, force)
<1>1. \A inst \in Inst, last \in BOOLEAN :
         InsnEvent(inst, last) \in EventData /\ (Forced(InsnEvent(inst, last)) => last)
  BY DEF InsnEvent, EventData, Forced
<1>2. CASE ThreadInitialize(h)
  BY <1>2 DEF ThreadInitialize
<1>3. CASE ExecuteInstruction(h)
  <2>1. Insn(h) \in Instruction
    BY <1>3, InsnTyped DEF ExecuteInstruction, Callback
  <2>2. Previous(h, Insn(h)) \in Inst
    BY <2>1, PreviousTyped
  <2>3. \/ UNCHANGED channelVars
        \/ Publish(h, InsnEvent(Previous(h, Insn(h)), FALSE), FALSE)
    BY <1>3 DEF ExecuteInstruction
  <2> QED
    BY <1>1, <2>2, <2>3
<1>4. CASE Syscall(h)
  <2>1. SyscallEvent \in EventData
    BY DEF SyscallEvent, EventData, NullInst, Inst
  <2>2. UNCHANGED channelVars \/ Publish(h, SyscallEvent, TRUE)
    BY <1>4 DEF Syscall
  <2> QED
    BY <2>1, <2>2
<1>5. CASE SyscallReturn(h)
  BY <1>5 DEF SyscallReturn
<1>6. CASE ThreadExit(h)
  <2>1. lastInst[h] \in Inst
    BY DEF PipeInv, CpuTypeOK
  <2>2. Publish(h, InsnEvent(lastInst[h], TRUE), TRUE)
    BY <1>6 DEF ThreadExit
  <2> QED
    BY <1>1, <2>1, <2>2
<1> QED
  BY <1>2, <1>3, <1>4, <1>5, <1>6 DEF GuestStep

\* What the simulated hart does to it: tryTake is called with a drained buffer only.
LEMMA HartReceives ==
    ASSUME PipeInv, NEW h \in Harts, Dispatch(h) \/ HandlerStep(h)
    PROVE  UNCHANGED channelVars \/ Take(h) \/ PopFront(h)
<1>1. CASE WakeInactive(h) \/ WakeBlocked(h)
  <2>1. Fires(h, "monitor") /\ status[h] # "ACTIVE" /\ TryTake(h)
    BY <1>1 DEF WakeInactive, WakeBlocked
  <2>2. handler[h] = "idle"
    BY <2>1, FiresIdle DEF PipeInv
  <2>3. subBuffer[h] = <<>>
    BY <2>1, <2>2 DEF PipeInv, DrainedFor
  <2> QED
    BY <2>1, <2>3 DEF TryTake, Take
<1>2. CASE Front(h) \/ FetchSyscall(h) \/ FetchInstruction(h)
  BY <1>2 DEF Front, FetchSyscall, FetchInstruction
<1>3. CASE \/ StartupEvent(h) \/ TickEvent(h) \/ PollInactive(h) \/ InitCPUState(h)
           \/ FirstEventAssertion(h) \/ FetchMismatch(h) \/ Execute(h) \/ CheckProcess(h)
  BY <1>3 DEF StartupEvent, TickEvent, PollInactive, InitCPUState, FirstEventAssertion,
              FetchMismatch, Execute, CheckProcess
<1> QED
  BY <1>1, <1>2, <1>3 DEF Dispatch, HandlerStep

\* All that happens to the channel of hart h.
Traffic(h) ==
    \/ NewSubscriber(h) \/ Subscribed(h) \/ Link(h) \/ NewPublisher(h) \/ PublisherReady(h)
    \/ Flush(h) \/ Take(h) \/ PopFront(h)
    \/ \E data \in EventData, force \in BOOLEAN :
          (Forced(data) => force) /\ Publish(h, data, force)

LEMMA PipelineTraffic ==
    ASSUME PipeInv, [PipelineNext]_pipelineVars
    PROVE  UNCHANGED channelVars \/ \E h \in Harts : Traffic(h)
<1>1. CASE UNCHANGED pipelineVars
  BY <1>1 DEF pipelineVars
<1>2. CASE BootSystem
  BY <1>2 DEF BootSystem
<1>3. ASSUME NEW h \in Harts, RegisterISS(h) \/ TransportStep(h)
      PROVE  Traffic(h)
  BY <1>3 DEF RegisterISS, TransportStep, Traffic
<1>4. ASSUME NEW h \in Harts, GuestStep(h)
      PROVE  UNCHANGED channelVars \/ Traffic(h)
  BY <1>4, GuestPublishes DEF Traffic
<1>5. ASSUME NEW h \in Harts, Dispatch(h) \/ HandlerStep(h)
      PROVE  UNCHANGED channelVars \/ Traffic(h)
  BY <1>5, HartReceives DEF Traffic
<1> QED
  BY <1>1, <1>2, <1>3, <1>4, <1>5 DEF PipelineNext

\* The contract: every step of the pipeline is one of the channel.
LEMMA ContractStep ==
    ASSUME PipeInv, [PipelineNext]_pipelineVars
    PROVE  [ChannelNext]_channelVars
<1>1. Payload = EventData
  BY DEF PipeInv
<1>2. ASSUME NEW h \in Harts, Traffic(h) PROVE ChannelNext
  BY <1>1, <1>2
     DEF Traffic, ChannelNext, ChannelStep, SubscriberStep, RouDiStep, PublisherStep, PublishAny
<1> QED
  BY <1>2, PipelineTraffic

------------------------------------------------------------------------------
(* Forced events stay at the end of their messages *)

LEMMA BatchesFrame ==
    ASSUME NEW h, BatchesFor(h),
           subBuffer'[h] = subBuffer[h], queue'[h] = queue[h],
           pubBuffer'[h] = pubBuffer[h], flushing'[h] = flushing[h]
    PROVE  BatchesFor(h)'
BY DEF BatchesFor

\* popFront leaves the rest of a message, of which nothing is left after a forced
\* event.
LEMMA ForcedTail ==
    ASSUME NEW m \in Message, m # <<>>, ForcedEnds(m)
    PROVE  /\ ForcedEnds(Tail(m))
           /\ Forced(Head(m).data) => Tail(m) = <<>>
<1>1. /\ Head(m) = m[1] /\ Len(m) \in Nat \ {0} /\ Len(Tail(m)) = Len(m) - 1
      /\ \A i \in 1 .. Len(Tail(m)) : Tail(m)[i] = m[i + 1]
      /\ Tail(m) \in Seq(Event)
  BY EmptySeq, HeadTailProperties DEF Message
<1>2. ASSUME NEW i \in 1 .. Len(Tail(m)), Forced(Tail(m)[i].data)
      PROVE  i = Len(Tail(m))
  <2>1. i + 1 \in 1 .. Len(m) /\ Forced(m[i + 1].data)
    BY <1>1, <1>2
  <2>2. i + 1 = Len(m) /\ i \in Int
    BY <2>1 DEF ForcedEnds
  <2>3. Len(m) \in Int /\ Len(Tail(m)) = Len(m) - 1
    BY <1>1
  <2> QED
    BY <2>2, <2>3
<1>3. ASSUME Forced(Head(m).data) PROVE Tail(m) = <<>>
  <2>1. 1 \in 1 .. Len(m) /\ Forced(m[1].data)
    BY <1>1, <1>3
  <2>2. Len(m) = 1
    BY <2>1 DEF ForcedEnds
  <2>3. Len(Tail(m)) = 0
    BY <1>1, <2>2
  <2> QED
    BY <1>1, <2>3, EmptySeq
<1> QED
  BY <1>2, <1>3 DEF ForcedEnds

\* An event joins a message without forced ones.
LEMMA ForcedAppend ==
    ASSUME NEW m \in Message, NEW e \in Event, Unforced(m)
    PROVE  /\ ForcedEnds(Append(m, e))
           /\ ~Forced(e.data) => Unforced(Append(m, e))
<1> DEFINE m1 == Append(m, e)
<1>1. /\ Len(m1) = Len(m) + 1 /\ Len(m) \in Nat
      /\ \A i \in 1 .. Len(m) : m1[i] = m[i]
      /\ m1[Len(m) + 1] = e
  BY AppendProperties, LenProperties DEF Message
<1> HIDE DEF m1
<1>2. \A i \in 1 .. Len(m1) : i # Len(m1) => ~Forced(m1[i].data)
  BY <1>1 DEF Unforced
<1>3. m1[Len(m1)] = e
  BY <1>1
<1> QED
  BY <1>2, <1>3 DEF ForcedEnds, Unforced, m1

\* What happens to the channel of one hart leaves the other channels alone.
LEMMA TrafficAlone ==
    ASSUME TypeOK, NEW h \in Harts, Traffic(h), NEW g \in Harts, g # h
    PROVE  /\ subBuffer'[g] = subBuffer[g] /\ queue'[g] = queue[g] /\ seen'[g] = seen[g]
           /\ pubBuffer'[g] = pubBuffer[g] /\ flushing'[g] = flushing[g]
<1>1. /\ DOMAIN subBuffer = Harts /\ DOMAIN queue = Harts /\ DOMAIN seen = Harts
      /\ DOMAIN pubBuffer = Harts /\ DOMAIN flushing = Harts
  BY DEF TypeOK
<1>2. CASE NewSubscriber(h) \/ Subscribed(h)
  BY <1>2 DEF NewSubscriber, Subscribed, pubVars
<1>3. CASE Link(h) \/ NewPublisher(h) \/ PublisherReady(h)
  BY <1>3 DEF Link, NewPublisher, PublisherReady, pubVars, subVars
<1>4. CASE Flush(h)
  BY <1>1, <1>4 DEF Flush, Deliver, subVars
<1>5. CASE Take(h)
  BY <1>1, <1>5 DEF Take, TakeMessage, pubVars
<1>6. CASE PopFront(h)
  BY <1>1, <1>6 DEF PopFront, pubVars
<1>7. ASSUME NEW data, NEW force, Publish(h, data, force)
      PROVE  /\ UNCHANGED <<subBuffer, queue, seen>>
             /\ pubBuffer'[g] = pubBuffer[g] /\ flushing'[g] = flushing[g]
  BY <1>1, <1>7 DEF Publish, subVars
<1> QED
  BY <1>2, <1>3, <1>4, <1>5, <1>6, <1>7 DEF Traffic

LEMMA BatchesStep ==
    ASSUME PipeInv, NEW h \in Harts, Traffic(h)
    PROVE  \A g \in Harts : BatchesFor(g)'
<1>t. TypeOK /\ \A g \in Harts : BatchesFor(g)
  BY DEF PipeInv, TypeInv
<1>m. /\ subBuffer[h] \in Message /\ queue[h] \in Seq(Message) /\ pubBuffer[h] \in Message
      /\ nextId[h] \in Nat
  BY <1>t DEF TypeOK
<1>1. ASSUME NEW g \in Harts, g # h PROVE BatchesFor(g)'
  <2>1. /\ subBuffer'[g] = subBuffer[g] /\ queue'[g] = queue[g]
        /\ pubBuffer'[g] = pubBuffer[g] /\ flushing'[g] = flushing[g]
    BY <1>1, <1>t, TrafficAlone
  <2> QED
    BY <1>t, <2>1, BatchesFrame
<1>2. CASE \/ NewSubscriber(h) \/ Subscribed(h) \/ Link(h) \/ NewPublisher(h)
           \/ PublisherReady(h)
  <2>1. UNCHANGED <<subBuffer, queue, pubBuffer, flushing>>
    BY <1>2 DEF NewSubscriber, Subscribed, Link, NewPublisher, PublisherReady, pubVars, subVars
  <2> QED
    BY <1>t, <1>1, <2>1, BatchesFrame
<1>3. CASE Flush(h)
  <2>1. /\ subBuffer'[h] = subBuffer[h] /\ pubBuffer'[h] = <<>> /\ ~flushing'[h]
        /\ queue'[h] = queue[h] \/ queue'[h] = Append(queue[h], pubBuffer[h])
    BY <1>3, <1>t DEF Flush, Deliver, TypeOK, subVars
  <2>2. \A i \in 1 .. Len(queue'[h]) : ForcedEnds(queue'[h][i])
    <3>1. CASE queue'[h] = queue[h]
      BY <1>t, <3>1 DEF BatchesFor
    <3>2. CASE queue'[h] = Append(queue[h], pubBuffer[h])
      <4>1. /\ Len(queue'[h]) = Len(queue[h]) + 1 /\ Len(queue[h]) \in Nat
            /\ \A i \in 1 .. Len(queue[h]) : queue'[h][i] = queue[h][i]
            /\ queue'[h][Len(queue[h]) + 1] = pubBuffer[h]
        BY <1>m, <3>2, AppendProperties, LenProperties
      <4>2. \A i \in 1 .. Len(queue[h]) : ForcedEnds(queue[h][i])
        BY <1>t DEF BatchesFor
      <4>3. ForcedEnds(pubBuffer[h])
        BY <1>t DEF BatchesFor
      <4>4. ASSUME NEW i \in 1 .. Len(queue'[h]) PROVE ForcedEnds(queue'[h][i])
        <5>1. CASE i \in 1 .. Len(queue[h])
          BY <4>1, <4>2, <5>1
        <5>2. CASE i = Len(queue[h]) + 1
          BY <4>1, <4>3, <5>2
        <5> QED
          BY <4>1, <5>1, <5>2
      <4> QED
        BY <4>4
    <3> QED
      BY <2>1, <3>1, <3>2
  <2>3. BatchesFor(h)'
    <3>1. Len(<<>>) = 0
      BY EmptySeq
    <3>2. ForcedEnds(<<>>) /\ Unforced(<<>>)
      BY <3>1 DEF ForcedEnds, Unforced
    <3> QED
      BY <1>t, <2>1, <2>2, <3>2 DEF BatchesFor
  <2> QED
    BY <1>1, <2>3
<1>4. CASE Take(h)
  <2>1. /\ queue[h] # <<>> /\ subBuffer'[h] = Head(queue[h]) /\ queue'[h] = Tail(queue[h])
        /\ pubBuffer'[h] = pubBuffer[h] /\ flushing'[h] = flushing[h]
    BY <1>4, <1>t DEF Take, TakeMessage, TypeOK, pubVars
  <2>2. /\ Head(queue[h]) = queue[h][1] /\ Len(queue[h]) \in Nat \ {0}
        /\ Len(Tail(queue[h])) = Len(queue[h]) - 1
        /\ \A i \in 1 .. Len(Tail(queue[h])) : Tail(queue[h])[i] = queue[h][i + 1]
    BY <1>m, <2>1, EmptySeq, HeadTailProperties
  <2>3. \A i \in 1 .. Len(queue[h]) : ForcedEnds(queue[h][i])
    BY <1>t DEF BatchesFor
  <2>4. ForcedEnds(Head(queue[h]))
    BY <2>2, <2>3
  <2>5. ASSUME NEW i \in 1 .. Len(Tail(queue[h])) PROVE ForcedEnds(Tail(queue[h])[i])
    <3>1. i + 1 \in 1 .. Len(queue[h])
      BY <2>2
    <3> QED
      BY <2>2, <2>3, <3>1
  <2>6. BatchesFor(h)'
    BY <1>t, <2>1, <2>4, <2>5 DEF BatchesFor
  <2> QED
    BY <1>1, <2>6
<1>5. CASE PopFront(h)
  <2>1. /\ subBuffer[h] # <<>> /\ subBuffer'[h] = Tail(subBuffer[h])
        /\ queue'[h] = queue[h] /\ pubBuffer'[h] = pubBuffer[h] /\ flushing'[h] = flushing[h]
    BY <1>5, <1>t DEF PopFront, TypeOK, pubVars
  <2>2. ForcedEnds(Tail(subBuffer[h]))
    BY <1>t, <1>m, <2>1, ForcedTail DEF BatchesFor
  <2>3. BatchesFor(h)'
    BY <1>t, <2>1, <2>2 DEF BatchesFor
  <2> QED
    BY <1>1, <2>3
<1>6. ASSUME NEW data \in EventData, NEW force \in BOOLEAN,
             Forced(data) => force, Publish(h, data, force)
      PROVE  \A g \in Harts : BatchesFor(g)'
  <2> DEFINE e == [id |-> nextId[h], data |-> data]
             full == Len(Append(pubBuffer[h], e)) = BatchSize \/ force
  <2>1. /\ ~flushing[h] /\ subBuffer'[h] = subBuffer[h] /\ queue'[h] = queue[h]
        /\ pubBuffer'[h] = Append(pubBuffer[h], e)
    BY <1>6, <1>t DEF Publish, TypeOK, subVars
  <2>2. e \in Event /\ e.data = data
    BY <1>m DEF PipeInv, Event
  <2>3. flushing' = [flushing EXCEPT ![h] = full]
    BY <1>6 DEF Publish
  <2> HIDE DEF e, full
  <2>4. flushing'[h] = full
    BY <1>t, <2>3 DEF TypeOK
  <2>5. Forced(data) => full
    BY <1>6 DEF full
  <2>6. /\ ForcedEnds(Append(pubBuffer[h], e))
        /\ ~Forced(data) => Unforced(Append(pubBuffer[h], e))
    BY <1>t, <1>m, <2>1, <2>2, ForcedAppend DEF BatchesFor
  <2>7. BatchesFor(h)'
    BY <1>t, <2>1, <2>4, <2>5, <2>6 DEF BatchesFor
  <2> QED
    BY <1>1, <2>7
<1> QED
  BY <1>2, <1>3, <1>4, <1>5, <1>6 DEF Traffic

------------------------------------------------------------------------------
(* A hart that has stopped has drained its buffer *)

LEMMA DrainedFrame ==
    ASSUME NEW h, DrainedFor(h), subBuffer'[h] = subBuffer[h],
           handler'[h] = handler[h], status'[h] = status[h]
    PROVE  DrainedFor(h)'
BY DEF DrainedFor

\* While hart h fetches it is active; its handler runs in a booted system.
LEMMA Fetching ==
    ASSUME WakeInv, NEW h \in Harts, handler[h] # "idle"
    PROVE  booted /\ Woken(h) /\ (handler[h] = "fetch" => status[h] = "ACTIVE")
BY DEF WakeInv, Woken

LEMMA HartDrains ==
    ASSUME PipeInv, NEW h \in Harts, Dispatch(h) \/ HandlerStep(h)
    PROVE  DrainedFor(h)'
<1>t. /\ TypeOK /\ WakeInv /\ WakeTypeOK /\ BatchesFor(h) /\ DrainedFor(h)
      /\ subBuffer[h] \in Message
  BY DEF PipeInv, TypeInv, TypeOK, WakeInv
<1>1. CASE StartupEvent(h) \/ WakeInactive(h)
  <2>1. handler'[h] = "boot"
    BY <1>1, <1>t DEF StartupEvent, WakeInactive, WakeTypeOK
  <2> QED
    BY <2>1 DEF DrainedFor
<1>2. CASE TickEvent(h)
  <2>1. handler[h] = "idle" /\ "tick" \in sched[h] /\ sched[h] = WakeFor(h)
    BY <1>2, <1>t, FiresIdle DEF TickEvent, Fires
  <2>2. status[h] = "ACTIVE"
    BY <2>1, <1>t DEF WakeFor, WakeTypeOK
  <2>3. status'[h] = "ACTIVE"
    BY <1>2, <2>2 DEF TickEvent
  <2> QED
    BY <2>3 DEF DrainedFor
<1>3. CASE PollInactive(h)
  <2>1. handler[h] = "idle"
    BY <1>3, <1>t, FiresIdle DEF PollInactive
  <2>2. subBuffer' = subBuffer /\ status' = status
    BY <1>3 DEF PollInactive, channelVars
  <2> QED
    BY <1>t, <2>1, <2>2 DEF DrainedFor
<1>4. CASE WakeBlocked(h) \/ InitCPUState(h)
  <2>1. status'[h] = "ACTIVE"
    BY <1>4, <1>t DEF WakeBlocked, Resume, InitCPUState, WakeTypeOK
  <2> QED
    BY <2>1 DEF DrainedFor
<1>5. CASE Front(h)
  <2>1. handler'[h] \in {"boot", "fetch"} /\ handler' = handler /\ status' = status
    BY <1>5 DEF Front, cpuVars
  <2>2. handler[h] = "fetch" => status[h] = "ACTIVE"
    BY <1>5, <1>t, Fetching DEF Front
  <2> QED
    BY <2>1, <2>2 DEF DrainedFor
<1>6. CASE FirstEventAssertion(h)
  <2>1. handler'[h] = "failed"
    BY <1>6, <1>t DEF FirstEventAssertion, WakeTypeOK
  <2> QED
    BY <2>1 DEF DrainedFor
<1>7. CASE FetchSyscall(h)
  <2>1. /\ subBuffer[h] # <<>> /\ Forced(Head(subBuffer[h]).data)
        /\ subBuffer'[h] = Tail(subBuffer[h])
    BY <1>7, <1>t DEF FetchSyscall, AtHead, First, PopFront, TypeOK, Forced
  <2>2. subBuffer'[h] = <<>>
    BY <1>t, <2>1, ForcedTail DEF BatchesFor
  <2> QED
    BY <2>2 DEF DrainedFor
<1>8. CASE FetchInstruction(h)
  <2>1. /\ handler[h] = "fetch" /\ subBuffer[h] # <<>>
        /\ subBuffer'[h] = Tail(subBuffer[h])
        /\ ~Head(subBuffer[h]).data.last => status' = status
    BY <1>8, <1>t DEF FetchInstruction, AtHead, First, PopFront, TypeOK
  <2>2. CASE Head(subBuffer[h]).data.last
    <3>1. subBuffer'[h] = <<>>
      BY <1>t, <2>1, <2>2, ForcedTail DEF BatchesFor, Forced
    <3> QED
      BY <3>1 DEF DrainedFor
  <2>3. CASE ~Head(subBuffer[h]).data.last
    <3>1. status[h] = "ACTIVE"
      BY <1>t, <2>1, Fetching
    <3> QED
      BY <2>1, <2>3, <3>1 DEF DrainedFor
  <2> QED
    BY <2>2, <2>3
<1>9. CASE FetchMismatch(h)
  <2>1. handler[h] = "fetch" /\ status' = status
    BY <1>9 DEF FetchMismatch, AtHead
  <2>2. status[h] = "ACTIVE"
    BY <1>t, <2>1, Fetching
  <2> QED
    BY <2>1, <2>2 DEF DrainedFor
<1>10. CASE Execute(h)
  <2>1. /\ handler[h] = "execute" /\ subBuffer' = subBuffer
        /\ status' = status \/ status'[h] = "ACTIVE"
    BY <1>10, <1>t DEF Execute, Resume, WakeTypeOK, channelVars
  <2> QED
    BY <1>t, <2>1 DEF DrainedFor
<1>11. CASE CheckProcess(h)
  <2>1. handler[h] = "polled" /\ subBuffer' = subBuffer
    BY <1>11 DEF CheckProcess, channelVars
  <2>2. status[h] = "INACTIVE"
    BY <1>t, <2>1, Fetching DEF Woken
  <2>3. subBuffer[h] = <<>>
    BY <1>t, <2>1, <2>2 DEF DrainedFor
  <2> QED
    BY <2>1, <2>3 DEF DrainedFor
<1> QED
  BY <1>1, <1>2, <1>3, <1>4, <1>5, <1>6, <1>7, <1>8, <1>9, <1>10, <1>11
     DEF Dispatch, HandlerStep

\* A simulated hart's step leaves the other harts alone.
LEMMA HartAlone ==
    ASSUME PipeInv, NEW h \in Harts, Dispatch(h) \/ HandlerStep(h), NEW g \in Harts, g # h
    PROVE  /\ subBuffer'[g] = subBuffer[g] /\ handler'[g] = handler[g] /\ status'[g] = status[g]
           /\ queue'[g] = queue[g] /\ seen'[g] = seen[g] /\ lastTag'[g] = lastTag[g]
           /\ UNCHANGED <<pub, sub, linked, pubBuffer, flushing, nextId, program, guestVars, booted>>
<1>t. /\ DOMAIN subBuffer = Harts /\ DOMAIN queue = Harts /\ DOMAIN seen = Harts
      /\ DOMAIN handler = Harts /\ DOMAIN status = Harts /\ DOMAIN lastTag = Harts
  BY DEF PipeInv, TypeInv, WakeInv, TypeOK, WakeTypeOK, CpuTypeOK
<1>1. /\ subBuffer'[g] = subBuffer[g] /\ queue'[g] = queue[g] /\ seen'[g] = seen[g]
      /\ UNCHANGED <<pub, sub, linked, pubBuffer, flushing, nextId>>
  <2>1. CASE UNCHANGED channelVars
    BY <2>1 DEF channelVars
  <2>2. CASE Take(h)
    BY <1>t, <2>2 DEF Take, TakeMessage, pubVars
  <2>3. CASE PopFront(h)
    BY <1>t, <2>3 DEF PopFront, pubVars
  <2> QED
    BY <2>1, <2>2, <2>3, HartReceives
<1> DEFINE Alone == /\ handler'[g] = handler[g] /\ status'[g] = status[g] /\ lastTag'[g] = lastTag[g]
                    /\ UNCHANGED <<program, guestVars, booted>>
<1> SUFFICES Alone
  BY <1>1
<1>2. CASE StartupEvent(h) \/ TickEvent(h)
  BY <1>t, <1>2 DEF StartupEvent, TickEvent, BeginFetch
<1>3. CASE WakeInactive(h) \/ PollInactive(h)
  BY <1>t, <1>3 DEF WakeInactive, PollInactive
<1>4. CASE WakeBlocked(h)
  BY <1>t, <1>4 DEF WakeBlocked, Resume
<1>5. CASE Front(h)
  BY <1>5 DEF Front, cpuVars
<1>6. CASE InitCPUState(h)
  BY <1>t, <1>6 DEF InitCPUState, BeginFetch
<1>7. CASE FirstEventAssertion(h) \/ FetchMismatch(h)
  BY <1>t, <1>7 DEF FirstEventAssertion, FetchMismatch
<1>8. CASE FetchSyscall(h)
  BY <1>t, <1>8 DEF FetchSyscall, HandleSyscallApi
<1>9. CASE FetchInstruction(h)
  <2>1. PICK at : handler' = [handler EXCEPT ![h] = at]
    BY <1>9 DEF FetchInstruction
  <2>2. status' = status \/ \E st : status' = [status EXCEPT ![h] = st]
    BY <1>9 DEF FetchInstruction, LastInstruction
  <2>3. lastTag' = [lastTag EXCEPT ![h] = "insn"] /\ UNCHANGED <<program, guestVars, booted>>
    BY <1>9 DEF FetchInstruction
  <2>4. handler'[g] = handler[g] /\ lastTag'[g] = lastTag[g]
    BY <1>t, <2>1, <2>3
  <2>5. status'[g] = status[g]
    BY <1>t, <2>2
  <2> QED
    BY <2>3, <2>4, <2>5
<1>10. CASE Execute(h)
  BY <1>t, <1>10 DEF Execute, Resume
<1>11. CASE CheckProcess(h)
  BY <1>t, <1>11 DEF CheckProcess
<1> HIDE DEF Alone
<1> QED
  BY <1>2, <1>3, <1>4, <1>5, <1>6, <1>7, <1>8, <1>9, <1>10, <1>11 DEF Dispatch, HandlerStep

\* Neither the guest nor the transport touches what the simulated hart holds.
LEMMA OutsideAlone ==
    ASSUME NEW h \in Harts, RegisterISS(h) \/ GuestStep(h) \/ TransportStep(h)
    PROVE  UNCHANGED <<subBuffer, seen, program, booted, cpuVars>>
BY DEF RegisterISS, GuestStep, ThreadInitialize, ExecuteInstruction, Syscall, SyscallReturn,
       ThreadExit, TransportStep, NewSubscriber, NewPublisher, Publish, Subscribed, Link,
       PublisherReady, Flush, channelVars, subVars

LEMMA DrainedStep ==
    ASSUME PipeInv, [PipelineNext]_pipelineVars, NEW g \in Harts
    PROVE  DrainedFor(g)'
<1>1. DrainedFor(g)
  BY DEF PipeInv
<1>2. CASE UNCHANGED pipelineVars \/ BootSystem
  BY <1>1, <1>2, DrainedFrame DEF pipelineVars, cpuVars, channelVars, BootSystem
<1>3. ASSUME NEW h \in Harts, RegisterISS(h) \/ GuestStep(h) \/ TransportStep(h)
      PROVE  DrainedFor(g)'
  BY <1>1, <1>3, OutsideAlone, DrainedFrame DEF cpuVars
<1>4. ASSUME NEW h \in Harts, Dispatch(h) \/ HandlerStep(h)
      PROVE  DrainedFor(g)'
  <2>1. CASE g = h
    BY <1>4, <2>1, HartDrains
  <2>2. CASE g # h
    BY <1>1, <1>4, <2>2, HartAlone, DrainedFrame
  <2> QED
    BY <2>1, <2>2
<1> QED
  BY <1>2, <1>3, <1>4 DEF PipelineNext

------------------------------------------------------------------------------
(* Types, and where the vcpus are in their programs *)

\* A thread of a program has a first instruction.
LEMMA ThreadStart ==
    ASSUME program \in Programs, NEW h \in Harts, NEW k \in DOMAIN program[h]
    PROVE  1 \in DOMAIN program[h][k]
<1>1. WellFormed(program)
  BY ProgramsAssumption
<1>2. program[h] \in Seq(Seq(Instruction)) /\ program[h][k] # <<>>
  BY <1>1 DEF WellFormed
<1>3. program[h][k] \in Seq(Instruction)
  BY <1>2, ElementOfSeq
<1> QED
  BY <1>2, <1>3, EmptySeq, LenProperties

\* A step of the guest keeps the types, and leaves every vcpu at an instruction.
LEMMA GuestTypes ==
    ASSUME PipeInv, NEW h \in Harts, GuestStep(h)
    PROVE  CpuTypeOK' /\ GuestOK'
<1>1. CpuTypeOK /\ GuestOK
  BY DEF PipeInv
<1>2. UNCHANGED <<program, booted, cpuVars>>
  BY OutsideAlone
\* It is enough that the guest's variables keep their types.
<1>3. ASSUME vcpu' \in [Harts -> {"absent", "created", "running", "syscall", "kernel", "exiting", "dead"}],
             life' \in [Harts -> Nat], ip' \in [Harts -> Nat], instCount' \in [Harts -> Nat],
             lastInst' \in [Harts -> Inst]
      PROVE  CpuTypeOK'
  BY <1>1, <1>2, <1>3 DEF CpuTypeOK, cpuVars, fetchVars
\* ... and that vcpus which have not ended stay in their programs.
<1>4. ASSUME \A g \in Harts : vcpu'[g] \in {"created", "running", "syscall", "kernel"} => AtInstruction(g)'
      PROVE  GuestOK'
  <2>1. vcpu[h] # "absent"
    BY DEF GuestStep, ThreadInitialize, ExecuteInstruction, Syscall, SyscallReturn, ThreadExit,
           Callback
  <2> QED
    BY <1>1, <1>2, <1>4, <2>1 DEF GuestOK
<1>5. CASE ThreadInitialize(h)
  <2>1. /\ vcpu[h] = "created" /\ vcpu' = [vcpu EXCEPT ![h] = "running"]
        /\ UNCHANGED <<life, ip, instCount, lastInst>>
    BY <1>5 DEF ThreadInitialize
  <2>2. \A g \in Harts : vcpu'[g] \in {"created", "running", "syscall", "kernel"} => AtInstruction(g)'
    BY <1>1, <1>2, <2>1 DEF GuestOK, AtInstruction, CpuTypeOK
  <2> QED
    BY <1>1, <1>3, <1>4, <2>1, <2>2 DEF CpuTypeOK
<1>6. CASE ExecuteInstruction(h)
  <2> DEFINE inst == Insn(h)
             base == IF Executed(h) THEN Previous(h, inst) ELSE lastInst[h]
             done == [base EXCEPT !.uid = Uid(h), !.pc = inst.pc, !.len = inst.len]
  <2>1. /\ vcpu[h] = "running" /\ lastInst' = [lastInst EXCEPT ![h] = done]
        /\ instCount' = [instCount EXCEPT ![h] = @ + 1] /\ UNCHANGED life
        /\ \/ inst.call = "none" /\ ip' = [ip EXCEPT ![h] = @ + 1] /\ UNCHANGED vcpu
           \/ vcpu' = [vcpu EXCEPT ![h] = "syscall"] /\ UNCHANGED ip
    BY <1>6 DEF ExecuteInstruction, Callback
  <2>2. inst \in Instruction /\ (inst.call # "exit" => ip[h] + 1 \in DOMAIN program[h][life[h]])
    BY <2>1, InsnTyped
  <2>3. done \in Inst
    <3>1. base \in Inst
      BY <1>1, <2>2, PreviousTyped DEF CpuTypeOK
    <3>2. Uid(h) \in Nat /\ inst.pc \in Nat /\ inst.len \in Nat
      BY <1>1, <2>2 DEF CpuTypeOK, Uid, Instruction
    <3> HIDE DEF base, inst
    <3> QED
      BY <3>1, <3>2 DEF Inst
  <2> HIDE DEF inst, done
  <2>4. \A g \in Harts : vcpu'[g] \in {"created", "running", "syscall", "kernel"} => AtInstruction(g)'
    <3>1. ASSUME NEW g \in Harts, g # h,
                 vcpu'[g] \in {"created", "running", "syscall", "kernel"}
          PROVE  AtInstruction(g)'
      BY <1>1, <1>2, <2>1, <3>1 DEF GuestOK, AtInstruction, CpuTypeOK
    <3>2. AtInstruction(h)'
      <4>1. AtInstruction(h)
        BY <1>1, <2>1 DEF GuestOK
      <4>2. ip'[h] \in {ip[h], ip[h] + 1} /\ (ip'[h] # ip[h] => inst.call = "none")
        BY <1>1, <2>1 DEF CpuTypeOK
      <4> QED
        BY <1>2, <2>1, <2>2, <4>1, <4>2 DEF AtInstruction
    <3> QED
      BY <3>1, <3>2
  <2>5. instCount' \in [Harts -> Nat] /\ lastInst' \in [Harts -> Inst] /\ life' \in [Harts -> Nat]
    BY <1>1, <2>1, <2>3 DEF CpuTypeOK
  <2>6. ip' \in [Harts -> Nat]
    <3>1. ip' = [ip EXCEPT ![h] = ip[h] + 1] \/ ip' = ip
      BY <2>1
    <3>2. ip \in [Harts -> Nat] /\ ip[h] + 1 \in Nat
      BY <1>1 DEF CpuTypeOK
    <3> QED
      BY <3>1, <3>2
  <2>7. vcpu' \in [Harts -> {"absent", "created", "running", "syscall", "kernel", "exiting", "dead"}]
    BY <1>1, <2>1 DEF CpuTypeOK
  <2> QED
    BY <1>3, <1>4, <2>4, <2>5, <2>6, <2>7
<1>7. CASE Syscall(h)
  <2>1. /\ vcpu[h] = "syscall" /\ vcpu' = [vcpu EXCEPT ![h] = "kernel"]
        /\ UNCHANGED <<life, ip, instCount, lastInst>>
    BY <1>7 DEF Syscall, Callback
  <2>2. \A g \in Harts : vcpu'[g] \in {"created", "running", "syscall", "kernel"} => AtInstruction(g)'
    BY <1>1, <1>2, <2>1 DEF GuestOK, AtInstruction, CpuTypeOK
  <2> QED
    BY <1>1, <1>3, <1>4, <2>1, <2>2 DEF CpuTypeOK
<1>8. CASE SyscallReturn(h)
  <2> DEFINE inst == Insn(h)
  <2>1. /\ vcpu[h] = "kernel" /\ UNCHANGED <<instCount, lastInst>>
        /\ vcpu' = [g \in Harts |->
                      IF g \in Spawned(inst) THEN "created"
                      ELSE IF g # h THEN vcpu[g]
                      ELSE IF inst.call = "exit" THEN "exiting" ELSE "running"]
        /\ life' = [g \in Harts |-> IF g \in Spawned(inst) THEN inst.spawn[g] ELSE life[g]]
        /\ ip' = [g \in Harts |-> IF g \in Spawned(inst) THEN 1
                                  ELSE IF g = h THEN ip[g] + 1 ELSE ip[g]]
    BY <1>8 DEF SyscallReturn, Callback
  <2>2. /\ inst \in Instruction
        /\ \A g \in Spawned(inst) : inst.spawn[g] \in DOMAIN program[g]
        /\ inst.call # "exit" => ip[h] + 1 \in DOMAIN program[h][life[h]]
    BY <2>1, InsnTyped
  <2>3. \A g \in Harts : inst.spawn[g] \in Nat
    BY <2>2 DEF Instruction
  <2> HIDE DEF inst
  <2>4. ASSUME NEW g \in Harts, vcpu'[g] \in {"created", "running", "syscall", "kernel"}
        PROVE  AtInstruction(g)'
    <3>1. CASE g \in Spawned(inst)
      <4>1. life'[g] = inst.spawn[g] /\ ip'[g] = 1
        BY <2>1, <3>1
      <4>2. inst.spawn[g] \in DOMAIN program[g]
        BY <2>2, <3>1
      <4>3. 1 \in DOMAIN program[g][inst.spawn[g]]
        BY <1>1, <4>2, ThreadStart DEF GuestOK
      <4> QED
        BY <1>2, <4>1, <4>2, <4>3 DEF AtInstruction
    <3>2. CASE g \notin Spawned(inst) /\ g = h
      BY <1>1, <1>2, <2>1, <2>2, <2>4, <3>2 DEF GuestOK, AtInstruction
    <3>3. CASE g \notin Spawned(inst) /\ g # h
      BY <1>1, <1>2, <2>1, <2>4, <3>3 DEF GuestOK, AtInstruction
    <3> QED
      BY <3>1, <3>2, <3>3
  <2>5. life' \in [Harts -> Nat] /\ ip' \in [Harts -> Nat]
    <3>1. \A g \in Harts : life[g] \in Nat /\ ip[g] \in Nat
      BY <1>1 DEF CpuTypeOK
    <3>2. life' \in [Harts -> Nat]
      BY <2>1, <2>3, <3>1
    <3>3. ip' \in [Harts -> Nat]
      BY <2>1, <3>1
    <3> QED
      BY <3>2, <3>3
  <2>6. vcpu' \in [Harts -> {"absent", "created", "running", "syscall", "kernel", "exiting", "dead"}]
    BY <1>1, <2>1 DEF CpuTypeOK
  <2> QED
    BY <1>1, <1>3, <1>4, <2>1, <2>4, <2>5, <2>6 DEF CpuTypeOK
<1>9. CASE ThreadExit(h)
  <2>1. /\ vcpu' = [vcpu EXCEPT ![h] = "dead"]
        /\ UNCHANGED <<life, ip, instCount, lastInst>>
    BY <1>9 DEF ThreadExit, Callback
  <2>2. \A g \in Harts : vcpu'[g] \in {"created", "running", "syscall", "kernel"} => AtInstruction(g)'
    BY <1>1, <1>2, <2>1 DEF GuestOK, AtInstruction, CpuTypeOK
  <2> QED
    BY <1>1, <1>3, <1>4, <2>1, <2>2 DEF CpuTypeOK
<1> QED
  BY <1>5, <1>6, <1>7, <1>8, <1>9 DEF GuestStep

\* The event at the front of the buffer.
LEMMA FirstTyped ==
    ASSUME PipeInv, NEW h \in Harts, subBuffer[h] # <<>>
    PROVE  First(h) \in EventData /\ First(h).inst \in Inst /\ Head(subBuffer[h]) \in Event
<1>1. Head(subBuffer[h]) \in Event
  BY HeadTailProperties DEF PipeInv, TypeInv, TypeOK, Message
<1> QED
  BY <1>1 DEF PipeInv, Event, First, EventData

LEMMA HartTypes ==
    ASSUME PipeInv, NEW h \in Harts, Dispatch(h) \/ HandlerStep(h)
    PROVE  CpuTypeOK' /\ GuestOK'
<1>1. CpuTypeOK /\ GuestOK
  BY DEF PipeInv
<1>2. CASE \/ StartupEvent(h) \/ WakeInactive(h) \/ PollInactive(h) \/ WakeBlocked(h) \/ Front(h)
           \/ FirstEventAssertion(h) \/ FetchMismatch(h) \/ CheckProcess(h)
  <2>1. UNCHANGED <<program, guestVars, booted, fetchVars, completed, lastTag>>
    BY <1>2 DEF StartupEvent, WakeInactive, PollInactive, WakeBlocked, Front, FirstEventAssertion,
                FetchMismatch, CheckProcess, cpuVars
  <2> QED
    BY <1>1, <2>1 DEF CpuTypeOK, GuestOK, AtInstruction, guestVars, fetchVars
<1>3. ASSUME NEW pc \in Nat, BeginFetch(h, pc)
      PROVE  fetchPc' \in [Harts -> Nat] /\ fetchEnd' \in [Harts -> Nat]
  BY <1>1, <1>3, FetchAssumption DEF BeginFetch, CpuTypeOK
<1>4. CASE TickEvent(h)
  <2>1. BeginFetch(h, nextPc[h]) /\ nextPc[h] \in Nat
        /\ UNCHANGED <<program, guestVars, booted, nextPc, instBuffer, instret, completed, lastTag>>
    BY <1>1, <1>4 DEF TickEvent, CpuTypeOK
  <2> QED
    BY <1>1, <1>3, <2>1 DEF CpuTypeOK, GuestOK, AtInstruction, guestVars
<1>5. CASE InitCPUState(h)
  <2>1. /\ BeginFetch(h, First(h).inst.pc) /\ subBuffer[h] # <<>>
        /\ nextPc' = [nextPc EXCEPT ![h] = First(h).inst.pc]
        /\ UNCHANGED <<program, guestVars, booted, instBuffer, instret, completed, lastTag>>
    BY <1>5 DEF InitCPUState, AtHead
  <2>2. First(h).inst.pc \in Nat
    BY <2>1, FirstTyped DEF Inst
  <2> QED
    BY <1>1, <1>3, <2>1, <2>2 DEF CpuTypeOK, GuestOK, AtInstruction, guestVars
<1>6. CASE FetchSyscall(h)
  <2>1. lastTag' = [lastTag EXCEPT ![h] = "sys"]
        /\ UNCHANGED <<program, guestVars, booted, fetchVars, completed>>
    BY <1>6 DEF FetchSyscall
  <2> QED
    BY <1>1, <2>1 DEF CpuTypeOK, GuestOK, AtInstruction, guestVars, fetchVars
<1>7. CASE FetchInstruction(h)
  <2>1. /\ subBuffer[h] # <<>>
        /\ lastTag' = [lastTag EXCEPT ![h] = "insn"]
        /\ instBuffer' = [instBuffer EXCEPT ![h] = Append(@, First(h).inst)]
        /\ fetchPc' = [fetchPc EXCEPT ![h] = @ + First(h).inst.len]
        /\ completed' \in {TRUE, completed}
        /\ UNCHANGED <<program, guestVars, booted, fetchEnd, nextPc, instret>>
    BY <1>7 DEF FetchInstruction, AtHead, LastInstruction
  <2>2. First(h).inst \in Inst /\ First(h).inst.len \in Nat
    BY <2>1, FirstTyped DEF Inst
  <2>3. Append(instBuffer[h], First(h).inst) \in Seq(Inst)
    BY <1>1, <2>2, AppendProperties DEF CpuTypeOK
  <2>4. /\ fetchPc' \in [Harts -> Nat] /\ instBuffer' \in [Harts -> Seq(Inst)]
        /\ lastTag' \in [Harts -> {"none", "insn", "sys"}]
    BY <1>1, <2>1, <2>2, <2>3 DEF CpuTypeOK
  <2>5. completed' \in BOOLEAN
    BY <1>1, <2>1 DEF CpuTypeOK
  <2> QED
    BY <1>1, <2>1, <2>4, <2>5 DEF CpuTypeOK, GuestOK, AtInstruction, guestVars
<1>8. CASE Execute(h)
  <2>1. Retire(h) /\ UNCHANGED <<program, guestVars, booted, fetchPc, fetchEnd, completed, lastTag>>
    BY <1>8 DEF Execute
  <2>2. /\ instBuffer' \in [Harts -> Seq(Inst)] /\ instret' \in [Harts -> Nat]
        /\ nextPc' \in [Harts -> Nat]
    <3>1. CASE instBuffer[h] = <<>>
      BY <1>1, <2>1, <3>1 DEF Retire, CpuTypeOK
    <3>2. CASE instBuffer[h] # <<>>
      <4> DEFINE inst == Head(instBuffer[h])
                 next == IF inst.redirect THEN inst.target ELSE inst.pc + inst.len
      <4>1. /\ instret' = [instret EXCEPT ![h] = @ + 1]
            /\ instBuffer' = [instBuffer EXCEPT ![h] = Tail(instBuffer[h])]
            /\ nextPc' = [nextPc EXCEPT ![h] = next]
        BY <2>1, <3>2 DEF Retire
      <4>2. inst \in Inst /\ Tail(instBuffer[h]) \in Seq(Inst)
        BY <1>1, <3>2, HeadTailProperties DEF CpuTypeOK
      <4>3. next \in Nat
        BY <4>2 DEF Inst
      <4> HIDE DEF next
      <4> QED
        BY <1>1, <4>1, <4>2, <4>3 DEF CpuTypeOK
    <3> QED
      BY <3>1, <3>2
  <2> QED
    BY <1>1, <2>1, <2>2 DEF CpuTypeOK, GuestOK, AtInstruction, guestVars
<1> QED
  BY <1>2, <1>4, <1>5, <1>6, <1>7, <1>8 DEF Dispatch, HandlerStep

LEMMA PipeStep == PipeInv /\ [PipelineNext]_pipelineVars => PipeInv'
<1> SUFFICES ASSUME PipeInv, [PipelineNext]_pipelineVars PROVE PipeInv'
  OBVIOUS
<1>1. WakeInv'
  BY WakeStep DEF PipeInv
<1>2. TypeInv'
  BY ContractStep, TypeStep DEF PipeInv
<1>3. CpuTypeOK' /\ GuestOK'
  <2>0. CpuTypeOK /\ GuestOK
    BY DEF PipeInv
  <2>1. ASSUME UNCHANGED <<program, guestVars, booted, cpuVars>> PROVE CpuTypeOK' /\ GuestOK'
    BY <2>0, <2>1 DEF CpuTypeOK, GuestOK, AtInstruction, guestVars, cpuVars, fetchVars
  <2>2. CASE BootSystem
    <3>1. /\ vcpu' = [vcpu EXCEPT ![Boot] = "created"] /\ life' = [life EXCEPT ![Boot] = 1]
          /\ booted' = TRUE
          /\ UNCHANGED <<program, ip, instCount, lastInst, fetchVars, completed, lastTag>>
      BY <2>2 DEF BootSystem
    <3>2. CpuTypeOK'
      BY <2>0, <3>1, BootAssumption DEF CpuTypeOK, fetchVars
    <3>3. AtInstruction(Boot)'
      <4>1. ip[Boot] = 1 /\ life'[Boot] = 1
        BY <2>0, <2>2, <3>1, BootAssumption DEF BootSystem, GuestOK, CpuTypeOK
      <4>2. 1 \in DOMAIN program[Boot]
        <5>1. program[Boot] \in Seq(Seq(Instruction)) /\ program[Boot] # <<>>
          BY <2>0, ProgramsAssumption, BootAssumption DEF GuestOK, WellFormed
        <5> QED
          BY <5>1, EmptySeq, LenProperties
      <4>3. 1 \in DOMAIN program[Boot][1]
        BY <2>0, <4>2, BootAssumption, ThreadStart DEF GuestOK
      <4> QED
        BY <3>1, <4>1, <4>2, <4>3 DEF AtInstruction
    <3>4. \A g \in Harts : vcpu'[g] \in {"created", "running", "syscall", "kernel"} => g = Boot
      BY <2>0, <2>2, <3>1 DEF BootSystem, GuestOK, CpuTypeOK
    <3> QED
      BY <2>0, <3>1, <3>2, <3>3, <3>4 DEF GuestOK
  <2>3. CASE UNCHANGED pipelineVars
    BY <2>1, <2>3 DEF pipelineVars
  <2>4. ASSUME NEW h \in Harts, RegisterISS(h) \/ TransportStep(h)
        PROVE  CpuTypeOK' /\ GuestOK'
    BY <2>1, <2>4 DEF RegisterISS, TransportStep
  <2> QED
    BY <2>2, <2>3, <2>4, GuestTypes, HartTypes DEF PipelineNext
<1>4. ASSUME NEW g \in Harts PROVE BatchesFor(g)' /\ DrainedFor(g)'
  <2>1. CASE UNCHANGED channelVars
    BY <2>1, BatchesFrame, DrainedStep DEF PipeInv, channelVars
  <2> QED
    BY <2>1, BatchesStep, DrainedStep, PipelineTraffic
<1>5. (Payload = EventData)'
  BY DEF PipeInv, EventData, Inst
<1> QED
  BY <1>1, <1>2, <1>3, <1>4, <1>5 DEF PipeInv

\* Every variable of the pipeline keeps its shape, whatever programs of the shape
\* that is assumed run, in whatever ranks, and with any batches and queue.
THEOREM PipelineTypeCorrect ==
    ASSUME Payload = EventData
    PROVE  PipelineSpec => []PipelineTypeOK
<1>1. PipeInv => PipelineTypeOK
  BY DEF PipeInv, TypeInv, WakeInv, WakeTypeOK, CpuTypeOK, PipelineTypeOK
<1>2. PipelineInit => PipeInv
  BY PipeStart
<1> QED
  BY <1>1, <1>2, PipeStep, PTL DEF PipelineSpec

\* QemuISS and the plugin use the channel as its contract says, so that what is proved
\* of the channel holds of the channels of the pipeline.
THEOREM PipelineContract ==
    ASSUME Payload = EventData
    PROVE  PipelineSpec => ChannelSpec
<1>1. PipelineInit => PipeInv /\ Init
  BY PipeStart DEF PipelineInit
<1>2. PipeInv /\ [PipelineNext]_pipelineVars => [ChannelNext]_channelVars
  BY ContractStep
<1> QED
  BY <1>1, <1>2, PipeStep, PTL DEF PipelineSpec, ChannelSpec

\* So the simulated harts receive what the emulated harts published, in order and
\* exactly once.
COROLLARY PipelineStream ==
    ASSUME Payload = EventData
    PROVE  PipelineSpec => []StreamIntact /\ ImplementsStream
BY PipelineContract, StreamStaysIntact, Refinement, PTL

------------------------------------------------------------------------------
(* Without what the events carry, the channels of the pipeline are a channel of *)
(* their own: erasing commutes with what is done to messages and queues.        *)

\* Applying a function to every element commutes with the operations on sequences.
Applied(f, s) == [i \in DOMAIN s |-> f[s[i]]]

LEMMA AppliedSeq ==
    ASSUME NEW f, NEW S, NEW s \in Seq(S)
    PROVE  /\ Applied(f, s) \in Seq({f[e] : e \in S})
           /\ Len(Applied(f, s)) = Len(s)
<1> DEFINE t == Applied(f, s)
           T == {f[e] : e \in S}
<1>1. Len(s) \in Nat /\ DOMAIN s = 1 .. Len(s) /\ \A i \in 1 .. Len(s) : s[i] \in S
  BY LenProperties, ElementOfSeq
<1>2. t \in [1 .. Len(s) -> T]
  BY <1>1 DEF Applied
<1> HIDE DEF T
<1>3. t \in Seq(T)
  BY <1>1, <1>2, IsASeq
<1>4. Len(t) = Len(s)
  BY <1>1, <1>2, <1>3, LenProperties
<1> QED
  BY <1>3, <1>4 DEF T

LEMMA AppliedAppend ==
    ASSUME NEW f, NEW S, NEW s \in Seq(S), NEW e \in S
    PROVE  Applied(f, Append(s, e)) = Append(Applied(f, s), f[e])
<1> DEFINE T == {f[x] : x \in S}
           s1 == Append(s, e)
           a == Applied(f, s1)
           b == Append(Applied(f, s), f[e])
<1>1. /\ s1 \in Seq(S) /\ Len(s1) = Len(s) + 1 /\ Len(s) \in Nat
      /\ \A i \in 1 .. Len(s) : s1[i] = s[i]
      /\ s1[Len(s) + 1] = e
  BY AppendProperties, LenProperties
<1> HIDE DEF s1
<1>2. DOMAIN s1 = 1 .. Len(s) + 1 /\ DOMAIN s = 1 .. Len(s)
  BY <1>1, LenProperties
<1>3. Applied(f, s) \in Seq(T) /\ Len(Applied(f, s)) = Len(s)
  BY AppliedSeq
<1>e. f[e] \in T
  OBVIOUS
<1> HIDE DEF T
<1>4. /\ b \in Seq(T) /\ Len(b) = Len(s) + 1 /\ b[Len(s) + 1] = f[e]
      /\ \A i \in 1 .. Len(s) : b[i] = Applied(f, s)[i]
  BY <1>3, <1>e, AppendProperties
<1>5. \A i \in 1 .. Len(s) : b[i] = f[s[i]]
  BY <1>2, <1>4 DEF Applied
<1>6. a \in Seq(T) /\ Len(a) = Len(s) + 1
  BY <1>1, AppliedSeq DEF T
<1>7. \A i \in 1 .. Len(s) + 1 : a[i] = f[s1[i]]
  BY <1>2 DEF Applied
<1> HIDE DEF a, b
<1>8. \A i \in 1 .. Len(a) : a[i] = b[i]
  BY <1>1, <1>4, <1>5, <1>6, <1>7
<1>9. a = b
  BY <1>4, <1>6, <1>8, SeqEqual
<1> QED
  BY <1>9 DEF a, b, s1

LEMMA AppliedTail ==
    ASSUME NEW f, NEW S, NEW s \in Seq(S), s # <<>>
    PROVE  /\ Head(Applied(f, s)) = f[Head(s)]
           /\ Applied(f, Tail(s)) = Tail(Applied(f, s))
<1> DEFINE T == {f[x] : x \in S}
           s1 == Tail(s)
           t == Applied(f, s)
           a == Applied(f, s1)
           b == Tail(t)
<1>1. /\ s1 \in Seq(S) /\ Len(s1) = Len(s) - 1 /\ Len(s) \in Nat \ {0} /\ Head(s) = s[1]
      /\ \A i \in 1 .. Len(s1) : s1[i] = s[i + 1]
  BY EmptySeq, HeadTailProperties
<1> HIDE DEF s1
<1>2. DOMAIN s1 = 1 .. Len(s1) /\ DOMAIN s = 1 .. Len(s)
  BY <1>1, LenProperties
<1>3. t \in Seq(T) /\ t # <<>> /\ Len(t) = Len(s)
  <2>1. t \in Seq(T) /\ Len(t) = Len(s)
    BY AppliedSeq
  <2> HIDE DEF T, t
  <2>2. t # <<>>
    BY <1>1, <2>1, EmptySeq
  <2> QED
    BY <2>1, <2>2
<1>4. \A i \in 1 .. Len(s) : t[i] = f[s[i]]
  BY <1>2 DEF Applied
<1>5. a \in Seq(T) /\ Len(a) = Len(s1)
  BY <1>1, AppliedSeq
<1>6. \A i \in 1 .. Len(s1) : a[i] = f[s1[i]]
  BY <1>2 DEF Applied
<1> HIDE DEF t
<1>7. /\ b \in Seq(T) /\ Len(b) = Len(s) - 1 /\ Head(t) = t[1]
      /\ \A i \in 1 .. Len(b) : b[i] = t[i + 1]
  BY <1>3, HeadTailProperties
<1> HIDE DEF a, b
<1>8. ASSUME NEW i \in 1 .. Len(a) PROVE a[i] = b[i]
  <2>1. i + 1 \in 1 .. Len(s) /\ i \in 1 .. Len(s1) /\ i \in 1 .. Len(b)
    BY <1>1, <1>5, <1>7
  <2>2. a[i] = f[s1[i]] /\ s1[i] = s[i + 1]
    BY <1>1, <1>6, <2>1
  <2>3. b[i] = t[i + 1] /\ t[i + 1] = f[s[i + 1]]
    BY <1>4, <1>7, <2>1
  <2> QED
    BY <2>2, <2>3
<1>9. a = b
  BY <1>1, <1>5, <1>7, <1>8, SeqEqual
<1>10. Head(t) = f[Head(s)]
  BY <1>1, <1>4, <1>7
<1> QED
  BY <1>9, <1>10 DEF t, a, b, s1

\* Erasing events, messages and queues is applying such functions.
EraseEvent == [e \in Event |-> [id |-> e.id, data |-> "event"]]
EraseMessage == [m \in Message |-> Erase(m)]
EraseQueue(q) == [i \in DOMAIN q |-> Erase(q[i])]

LEMMA EraseApplied ==
    /\ \A m \in Message : Erase(m) = Applied(EraseEvent, m)
    /\ \A q \in Seq(Message) : EraseQueue(q) = Applied(EraseMessage, q)
<1>1. ASSUME NEW m \in Message PROVE Erase(m) = Applied(EraseEvent, m)
  <2>1. \A i \in DOMAIN m : m[i] \in Event
    BY ElementOfSeq, LenProperties DEF Message
  <2> QED
    BY <2>1 DEF Erase, Applied, EraseEvent
<1>2. ASSUME NEW q \in Seq(Message) PROVE EraseQueue(q) = Applied(EraseMessage, q)
  <2>1. \A i \in DOMAIN q : q[i] \in Message
    BY ElementOfSeq, LenProperties
  <2> QED
    BY <2>1 DEF EraseQueue, Applied, EraseMessage
<1> QED
  BY <1>1, <1>2

\* What erasing does to the operations on a message ...
LEMMA EraseOfMessage ==
    ASSUME NEW m \in Message
    PROVE  /\ Len(Erase(m)) = Len(m)
           /\ Erase(m) = <<>> <=> m = <<>>
           /\ \A e \in Event : Erase(Append(m, e)) = Append(Erase(m), [id |-> e.id, data |-> "event"])
           /\ m # <<>> => /\ Head(Erase(m)).id = Head(m).id
                          /\ Erase(Tail(m)) = Tail(Erase(m))
<1>1. m \in Seq(Event) /\ \A e \in Event : EraseEvent[e] = [id |-> e.id, data |-> "event"]
  BY DEF EraseEvent, Message
<1>2. Erase(m) = Applied(EraseEvent, m)
  BY EraseApplied
<1>3. Len(Erase(m)) = Len(m) /\ (Erase(m) = <<>> <=> m = <<>>)
  <2>1. Erase(m) \in Seq({EraseEvent[e] : e \in Event}) /\ Len(Erase(m)) = Len(m)
    BY <1>1, <1>2, AppliedSeq
  <2> QED
    BY <1>1, <2>1, EmptySeq
<1>4. ASSUME NEW e \in Event
      PROVE  Erase(Append(m, e)) = Append(Erase(m), [id |-> e.id, data |-> "event"])
  <2>1. Append(m, e) \in Message
    BY <1>1, AppendProperties DEF Message
  <2>2. Applied(EraseEvent, Append(m, e)) = Append(Applied(EraseEvent, m), EraseEvent[e])
    BY <1>1, AppliedAppend
  <2> QED
    BY <1>1, <1>2, <2>1, <2>2, EraseApplied
<1>5. ASSUME m # <<>>
      PROVE  Head(Erase(m)).id = Head(m).id /\ Erase(Tail(m)) = Tail(Erase(m))
  <2>1. Head(m) \in Event /\ Tail(m) \in Message
    BY <1>1, <1>5, HeadTailProperties DEF Message
  <2>2. /\ Head(Applied(EraseEvent, m)) = EraseEvent[Head(m)]
        /\ Applied(EraseEvent, Tail(m)) = Tail(Applied(EraseEvent, m))
    BY <1>1, <1>5, AppliedTail
  <2>3. EraseEvent[Head(m)].id = Head(m).id
    BY <2>1 DEF EraseEvent
  <2>4. Head(Erase(m)).id = Head(m).id
    BY <1>2, <2>2, <2>3
  <2>5. Erase(Tail(m)) = Tail(Erase(m))
    BY <1>2, <2>1, <2>2, EraseApplied
  <2> QED
    BY <2>4, <2>5
<1> QED
  BY <1>3, <1>4, <1>5

\* ... and on a queue.
LEMMA EraseOfQueue ==
    ASSUME NEW q \in Seq(Message)
    PROVE  /\ Len(EraseQueue(q)) = Len(q)
           /\ EraseQueue(q) = <<>> <=> q = <<>>
           /\ \A m \in Message : EraseQueue(Append(q, m)) = Append(EraseQueue(q), Erase(m))
           /\ q # <<>> => /\ Head(EraseQueue(q)) = Erase(Head(q))
                          /\ EraseQueue(Tail(q)) = Tail(EraseQueue(q))
<1>1. \A m \in Message : EraseMessage[m] = Erase(m)
  BY DEF EraseMessage
<1>2. EraseQueue(q) = Applied(EraseMessage, q)
  BY EraseApplied
<1>3. Len(EraseQueue(q)) = Len(q) /\ (EraseQueue(q) = <<>> <=> q = <<>>)
  <2>1. EraseQueue(q) \in Seq({EraseMessage[m] : m \in Message}) /\ Len(EraseQueue(q)) = Len(q)
    BY <1>1, <1>2, AppliedSeq
  <2> QED
    BY <1>1, <2>1, EmptySeq
<1>4. ASSUME NEW m \in Message
      PROVE  EraseQueue(Append(q, m)) = Append(EraseQueue(q), Erase(m))
  <2>1. Append(q, m) \in Seq(Message)
    BY AppendProperties
  <2>2. Applied(EraseMessage, Append(q, m)) = Append(Applied(EraseMessage, q), EraseMessage[m])
    BY <1>1, AppliedAppend
  <2> QED
    BY <1>1, <1>2, <2>1, <2>2, EraseApplied
<1>5. ASSUME q # <<>>
      PROVE  Head(EraseQueue(q)) = Erase(Head(q)) /\ EraseQueue(Tail(q)) = Tail(EraseQueue(q))
  <2>1. Head(q) \in Message /\ Tail(q) \in Seq(Message)
    BY <1>5, HeadTailProperties
  <2>2. /\ Head(Applied(EraseMessage, q)) = EraseMessage[Head(q)]
        /\ Applied(EraseMessage, Tail(q)) = Tail(Applied(EraseMessage, q))
    BY <1>1, <1>5, AppliedTail
  <2> QED
    BY <1>1, <1>2, <2>1, <2>2, EraseApplied
<1> QED
  BY <1>3, <1>4, <1>5

\* The three variables of the channel below.
PubErased == [h \in Harts |-> Erase(pubBuffer[h])]
SubErased == [h \in Harts |-> Erase(subBuffer[h])]
QueueErased == [h \in Harts |-> EraseQueue(queue[h])]

LEMMA ChannelStart == Init => Channel!Init
<1> SUFFICES ASSUME Init PROVE Channel!Init
  OBVIOUS
<1>1. Erase(<<>>) = <<>> /\ EraseQueue(<<>>) = <<>>
  <2>1. <<>> \in Message /\ <<>> \in Seq(Message)
    BY EmptySeq DEF Message
  <2> QED
    BY <2>1, EraseOfMessage, EraseOfQueue
<1>2. /\ PubErased = [h \in Harts |-> <<>>] /\ SubErased = [h \in Harts |-> <<>>]
      /\ QueueErased = [h \in Harts |-> <<>>]
  BY <1>1 DEF Init, PubErased, SubErased, QueueErased
<1> QED
  BY <1>2 DEF Init, Channel!Init, PubErased, SubErased, QueueErased, EraseQueue

\* Every step on the channels of the pipeline is one without what the events carry.
LEMMA ErasedStep ==
    ASSUME TypeOK, [ChannelNext]_channelVars
    PROVE  [Channel!ChannelNext]_(Channel!channelVars)
<1>u. ASSUME UNCHANGED <<pubBuffer, subBuffer, queue>>
      PROVE  UNCHANGED <<PubErased, SubErased, QueueErased>>
  BY <1>u DEF PubErased, SubErased, QueueErased
<1>1. CASE UNCHANGED channelVars
  BY <1>1, <1>u DEF channelVars, Channel!channelVars, PubErased, SubErased, QueueErased, EraseQueue
<1>2. ASSUME NEW h \in Harts, ChannelStep(h) \/ PublishAny(h)
      PROVE  Channel!ChannelStep(h) \/ Channel!PublishAny(h)
  <2>t. /\ pubBuffer[h] \in Message /\ subBuffer[h] \in Message /\ queue[h] \in Seq(Message)
        /\ nextId[h] \in Nat
    BY DEF TypeOK
  <2>e. /\ PubErased[h] = Erase(pubBuffer[h]) /\ SubErased[h] = Erase(subBuffer[h])
        /\ QueueErased[h] = EraseQueue(queue[h])
    BY DEF PubErased, SubErased, QueueErased
  <2>1. ASSUME \/ NewSubscriber(h) \/ Subscribed(h) \/ Unsubscribe(h) \/ RouDiStep(h)
               \/ NewPublisher(h) \/ Shutdown(h) \/ PublisherReady(h) \/ StopOffer(h)
        PROVE  Channel!ChannelStep(h)
    <3>1. UNCHANGED <<pubBuffer, subBuffer, queue>>
      BY <2>1 DEF NewSubscriber, Subscribed, Unsubscribe, RouDiStep, Link, Unlink, NewPublisher,
                  Shutdown, PublisherReady, StopOffer, pubVars, subVars
    <3>2. UNCHANGED <<PubErased, SubErased, QueueErased>>
      BY <1>u, <3>1
    <3> QED
      BY <2>1, <3>2
         DEF NewSubscriber, Subscribed, Unsubscribe, RouDiStep, Link, Unlink, NewPublisher,
             Shutdown, PublisherReady, StopOffer, pubVars, subVars,
             Channel!NewSubscriber, Channel!Subscribed, Channel!Unsubscribe, Channel!RouDiStep,
             Channel!Link, Channel!Unlink, Channel!NewPublisher, Channel!Shutdown,
             Channel!PublisherReady, Channel!StopOffer, Channel!PublisherStep, Channel!pubVars,
             Channel!subVars, Channel!ChannelStep, PubErased, SubErased, QueueErased, EraseQueue
  <2>2. ASSUME Take(h) PROVE Channel!Take(h)
    <3>1. /\ sub[h] = "subscribed" /\ subBuffer[h] = <<>> /\ queue[h] # <<>>
          /\ subBuffer' = [subBuffer EXCEPT ![h] = Head(queue[h])]
          /\ queue' = [queue EXCEPT ![h] = Tail(queue[h])]
          /\ UNCHANGED <<pub, pubBuffer, flushing, nextId, sub, linked, seen>>
      BY <2>2 DEF Take, TakeMessage, pubVars
    <3>2. /\ Erase(subBuffer[h]) = <<>> /\ EraseQueue(queue[h]) # <<>>
          /\ Head(EraseQueue(queue[h])) = Erase(Head(queue[h]))
          /\ EraseQueue(Tail(queue[h])) = Tail(EraseQueue(queue[h]))
      BY <2>t, <3>1, EraseOfMessage, EraseOfQueue
    <3>3. SubErased' = [SubErased EXCEPT ![h] = Erase(Head(queue[h]))]
      BY <3>1 DEF TypeOK, SubErased
    <3>4. QueueErased' = [QueueErased EXCEPT ![h] = EraseQueue(Tail(queue[h]))]
      BY <3>1 DEF TypeOK, QueueErased
    <3>5. /\ SubErased[h] = <<>> /\ QueueErased[h] # <<>>
          /\ SubErased' = [SubErased EXCEPT ![h] = Head(QueueErased[h])]
          /\ QueueErased' = [QueueErased EXCEPT ![h] = Tail(QueueErased[h])]
          /\ PubErased' = PubErased
      BY <2>e, <3>1, <3>2, <3>3, <3>4 DEF PubErased
    <3> QED
      BY <3>1, <3>5
         DEF Channel!Take, Channel!TakeMessage, Channel!pubVars, PubErased, SubErased, QueueErased,
             EraseQueue
  <2>3. ASSUME PopFront(h) PROVE Channel!PopFront(h)
    <3>1. /\ sub[h] = "subscribed" /\ subBuffer[h] # <<>>
          /\ seen' = [seen EXCEPT ![h] = Head(subBuffer[h]).id]
          /\ subBuffer' = [subBuffer EXCEPT ![h] = Tail(subBuffer[h])]
          /\ UNCHANGED <<pub, pubBuffer, flushing, nextId, sub, linked, queue>>
      BY <2>3 DEF PopFront, pubVars
    <3>2. /\ Erase(subBuffer[h]) # <<>> /\ Head(Erase(subBuffer[h])).id = Head(subBuffer[h]).id
          /\ Erase(Tail(subBuffer[h])) = Tail(Erase(subBuffer[h]))
      BY <2>t, <3>1, EraseOfMessage
    <3>3. SubErased' = [SubErased EXCEPT ![h] = Erase(Tail(subBuffer[h]))]
      BY <3>1 DEF TypeOK, SubErased
    <3>4. /\ SubErased[h] # <<>> /\ seen' = [seen EXCEPT ![h] = Head(SubErased[h]).id]
          /\ SubErased' = [SubErased EXCEPT ![h] = Tail(SubErased[h])]
          /\ PubErased' = PubErased /\ QueueErased' = QueueErased
      BY <2>e, <3>1, <3>2, <3>3 DEF PubErased, QueueErased
    <3> QED
      BY <3>1, <3>4
         DEF Channel!PopFront, Channel!pubVars, PubErased, SubErased, QueueErased, EraseQueue
  <2>4. ASSUME Flush(h) PROVE Channel!Flush(h)
    <3>1. /\ flushing[h] /\ Deliver(h)
          /\ pubBuffer' = [pubBuffer EXCEPT ![h] = <<>>]
          /\ flushing' = [flushing EXCEPT ![h] = FALSE]
          /\ UNCHANGED <<pub, nextId, sub, subBuffer, seen, linked>>
      BY <2>4 DEF Flush, subVars
    <3>2. Len(QueueErased[h]) = Len(queue[h])
      BY <2>t, <2>e, EraseOfQueue
    <3>3. IF linked[h]
          THEN /\ Len(QueueErased[h]) < QueueCapacity
               /\ QueueErased' = [QueueErased EXCEPT ![h] = Append(QueueErased[h], PubErased[h])]
          ELSE QueueErased' = QueueErased
      <4>1. CASE linked[h]
        <5>1. Len(queue[h]) < QueueCapacity
              /\ queue' = [queue EXCEPT ![h] = Append(queue[h], pubBuffer[h])]
          BY <3>1, <4>1 DEF Deliver
        <5>2. QueueErased' = [QueueErased EXCEPT ![h] = EraseQueue(Append(queue[h], pubBuffer[h]))]
          BY <5>1 DEF TypeOK, QueueErased
        <5>3. EraseQueue(Append(queue[h], pubBuffer[h])) = Append(QueueErased[h], PubErased[h])
          BY <2>t, <2>e, EraseOfQueue
        <5> QED
          BY <3>2, <4>1, <5>1, <5>2, <5>3
      <4>2. CASE ~linked[h]
        BY <3>1, <4>2 DEF Deliver, QueueErased
      <4> QED
        BY <4>1, <4>2
    <3>4. PubErased' = [PubErased EXCEPT ![h] = <<>>] /\ SubErased' = SubErased
      <4>1. Erase(<<>>) = <<>>
        BY EmptySeq, EraseOfMessage DEF Message
      <4>2. PubErased' = [PubErased EXCEPT ![h] = Erase(<<>>)]
        BY <3>1 DEF TypeOK, PubErased
      <4> QED
        BY <3>1, <4>1, <4>2 DEF SubErased
    <3> QED
      BY <3>1, <3>3, <3>4
         DEF Channel!Flush, Channel!Deliver, Channel!subVars, PubErased, SubErased, QueueErased,
             EraseQueue
  <2>5. ASSUME PublishAny(h) PROVE Channel!PublishAny(h)
    <3>1. PICK data \in Payload, force \in BOOLEAN : Publish(h, data, force)
      BY <2>5 DEF PublishAny
    <3> DEFINE e == [id |-> nextId[h], data |-> data]
               erased == [id |-> nextId[h], data |-> "event"]
    <3>2. e \in Event /\ e.id = nextId[h]
      BY <2>t DEF Event
    <3>3. Append(pubBuffer[h], e) \in Message
      BY <2>t, <3>2, AppendProperties DEF Message
    <3>4. /\ pub[h] = "open" /\ ~flushing[h]
          /\ nextId' = [nextId EXCEPT ![h] = @ + 1]
          /\ pubBuffer' = [pubBuffer EXCEPT ![h] = Append(pubBuffer[h], e)]
          /\ flushing' = [flushing EXCEPT ![h] = Len(Append(pubBuffer[h], e)) = BatchSize \/ force]
          /\ UNCHANGED <<pub, sub, subBuffer, seen, linked, queue>>
      BY <3>1 DEF Publish, subVars
    <3> HIDE DEF e
    <3>5. Erase(Append(pubBuffer[h], e)) = Append(PubErased[h], erased)
      BY <2>t, <2>e, <3>2, EraseOfMessage
    <3>6. Len(Append(pubBuffer[h], e)) = Len(Append(PubErased[h], erased))
      BY <3>3, <3>5, EraseOfMessage
    <3>7. PubErased' = [PubErased EXCEPT ![h] = Append(PubErased[h], erased)]
      BY <3>4, <3>5 DEF TypeOK, PubErased
    <3>8. SubErased' = SubErased /\ QueueErased' = QueueErased
      BY <3>4 DEF SubErased, QueueErased
    <3>9. flushing' = [flushing EXCEPT ![h] = Len(Append(PubErased[h], erased)) = BatchSize \/ force]
      BY <3>4, <3>6
    <3>10. Channel!Publish(h, "event", force)
      BY <3>4, <3>7, <3>8, <3>9
         DEF Channel!Publish, Channel!subVars, PubErased, SubErased, QueueErased, EraseQueue
    <3> QED
      BY <3>10 DEF Channel!PublishAny
  <2> QED
    BY <1>2, <2>1, <2>2, <2>3, <2>4, <2>5
       DEF ChannelStep, SubscriberStep, PublisherStep, Channel!ChannelStep, Channel!SubscriberStep,
           Channel!PublisherStep
<1> QED
  BY <1>1, <1>2 DEF ChannelNext, Channel!ChannelNext

\* The pipeline meets the contract of its channels for every program, batch size and
\* capacity of the queue: a step of the plugin, of QEMU or of a simulated hart is a
\* step of the channel's own specification, in which events carry nothing.
THEOREM PipelineMeetsChannel ==
    ASSUME Payload = EventData
    PROVE  PipelineSpec => MeetsChannel
<1>1. Init => Channel!Init
  BY ChannelStart
<1>2. TypeOK /\ [ChannelNext]_channelVars => [Channel!ChannelNext]_(Channel!channelVars)
  BY ErasedStep
<1>3. PipelineSpec => ChannelSpec
  BY PipelineContract
<1>4. ChannelSpec => []TypeOK
  BY TypeCorrect
<1> QED
  BY <1>1, <1>2, <1>3, <1>4, PTL DEF ChannelSpec, MeetsChannel, Channel!ChannelSpec

------------------------------------------------------------------------------
(* CompletedDrained, for a guest that joins its threads and one rank. The boot  *)
(* hart's last event is the last of all that any hart publishes, and no hart is *)
(* between its poll and its look at the process when that event is consumed.    *)

\* The events on their way through hart h's channel.
Elements(m) == {m[i] : i \in 1 .. Len(m)}
InFlight(h) == Elements(subBuffer[h]) \union Elements(pubBuffer[h])
                  \union UNION {Elements(queue[h][i]) : i \in 1 .. Len(queue[h])}

JoinedGuests == \A p \in Programs : Joined(p)
OneRank == \A g, h \in Harts : Rank[g] = Rank[h]

\* Every other hart's thread has exited or is still waited for.
Joining ==
    /\ vcpu[Boot] # "absent" => life[Boot] = 1
    /\ vcpu[Boot] \in {"exiting", "dead"} => ip[Boot] = Len(program[Boot][1]) + 1
    /\ \A g \in Harts \ {Boot} :
          vcpu[g] = "absent" \/ Exited(g) \/ Waits(program[Boot][1], g, ip[Boot])

\* A vcpu without a thread, or whose thread has ended, has nothing left to flush.
Quiet(h) ==
    /\ vcpu[h] \in {"absent", "created"} => ~flushing[h]
    /\ vcpu[h] \in {"absent", "created", "dead"} /\ ~flushing[h] => pubBuffer[h] = <<>>

\* An event of the boot hart that is marked as the last is the last.
LastMarked == \A e \in InFlight(Boot) :
    e.data.last => vcpu[Boot] = "dead" /\ e.id = nextId[Boot] - 1

OneHandler == \A g, h \in Harts : handler[g] # "idle" /\ handler[h] # "idle" => g = h

Finished ==
    /\ completed => vcpu[Boot] = "dead" /\ seen[Boot] = nextId[Boot] - 1
    /\ \A h \in Harts : status[h] = "COMPLETED" => completed
    /\ \A h \in Harts \ {Boot} :
          completed /\ (status[h] = "COMPLETED" \/ handler[h] = "polled") =>
              queue[h] = <<>> /\ subBuffer[h] = <<>>

CompletionInv ==
    /\ JoinedGuests /\ OneRank
    /\ PipeInv /\ WindowInv
    /\ \A h \in Harts : sub[h] # "gone" /\ Quiet(h)
    /\ Joining /\ LastMarked /\ OneHandler /\ Finished

------------------------------------------------------------------------------
(* What is on its way *)

LEMMA ElementsAppend ==
    ASSUME NEW S, NEW m \in Seq(S), NEW e \in S
    PROVE  Elements(Append(m, e)) = Elements(m) \union {e}
<1>1. /\ Len(Append(m, e)) = Len(m) + 1 /\ Len(m) \in Nat
      /\ \A i \in 1 .. Len(m) : Append(m, e)[i] = m[i]
      /\ Append(m, e)[Len(m) + 1] = e
  BY AppendProperties, LenProperties
<1>2. 1 .. Len(m) + 1 = 1 .. Len(m) \union {Len(m) + 1}
  BY <1>1
<1> QED
  BY <1>1, <1>2 DEF Elements

LEMMA ElementsTail ==
    ASSUME NEW S, NEW m \in Seq(S), m # <<>>
    PROVE  Head(m) \in Elements(m) /\ Elements(Tail(m)) \subseteq Elements(m)
<1>1. /\ Len(m) \in Nat \ {0} /\ Len(Tail(m)) = Len(m) - 1 /\ Head(m) = m[1]
      /\ \A i \in 1 .. Len(Tail(m)) : Tail(m)[i] = m[i + 1]
  BY EmptySeq, HeadTailProperties
<1>2. 1 \in 1 .. Len(m) /\ \A i \in 1 .. Len(Tail(m)) : i + 1 \in 1 .. Len(m)
  BY <1>1
<1> QED
  BY <1>1, <1>2 DEF Elements

LEMMA ElementsEmpty == Elements(<<>>) = {}
BY EmptySeq DEF Elements

\* An event is on its way when it is in one of the buffers or in a message.
LEMMA InFlightOf ==
    ASSUME NEW h, NEW e
    PROVE  e \in InFlight(h) <=> \/ e \in Elements(subBuffer[h]) \/ e \in Elements(pubBuffer[h])
                                 \/ \E m \in Elements(queue[h]) : e \in Elements(m)
<1>1. e \in UNION {Elements(queue[h][i]) : i \in 1 .. Len(queue[h])}
        <=> \E i \in 1 .. Len(queue[h]) : e \in Elements(queue[h][i])
  OBVIOUS
<1>2. Elements(queue[h]) = {queue[h][i] : i \in 1 .. Len(queue[h])}
  BY DEF Elements
<1>3. (\E m \in Elements(queue[h]) : e \in Elements(m))
        <=> \E i \in 1 .. Len(queue[h]) : e \in Elements(queue[h][i])
  BY <1>2
<1> QED
  BY <1>1, <1>3 DEF InFlight

\* Only publishing puts an event on its way.
LEMMA FlightFrame ==
    ASSUME NEW h, subBuffer'[h] = subBuffer[h], queue'[h] = queue[h], pubBuffer'[h] = pubBuffer[h]
    PROVE  InFlight(h)' = InFlight(h)
BY DEF InFlight

LEMMA FlightMoves ==
    ASSUME TypeOK, NEW h \in Harts, Take(h) \/ PopFront(h) \/ Flush(h)
    PROVE  \A g \in Harts : InFlight(g)' \subseteq InFlight(g)
<1>1. ASSUME NEW g \in Harts, g # h PROVE InFlight(g)' \subseteq InFlight(g)
  <2>1. subBuffer'[g] = subBuffer[g] /\ queue'[g] = queue[g] /\ pubBuffer'[g] = pubBuffer[g]
    BY <1>1 DEF TypeOK, Take, TakeMessage, PopFront, Flush, Deliver, pubVars, subVars
  <2> QED
    BY <2>1, FlightFrame
<1>m. /\ subBuffer[h] \in Seq(Event) /\ queue[h] \in Seq(Message) /\ pubBuffer[h] \in Message
      /\ pubBuffer[h] \in Seq(Event)
  BY DEF TypeOK, Message
<1>2. CASE Take(h)
  <2>1. /\ queue[h] # <<>> /\ subBuffer'[h] = Head(queue[h]) /\ queue'[h] = Tail(queue[h])
        /\ pubBuffer'[h] = pubBuffer[h]
    BY <1>2 DEF Take, TakeMessage, TypeOK, pubVars
  <2>2. Head(queue[h]) \in Elements(queue[h]) /\ Elements(Tail(queue[h])) \subseteq Elements(queue[h])
    BY <1>m, <2>1, ElementsTail
  <2>3. ASSUME NEW e \in InFlight(h)' PROVE e \in InFlight(h)
    <3>1. \/ e \in Elements(Head(queue[h])) \/ e \in Elements(pubBuffer[h])
          \/ \E m \in Elements(Tail(queue[h])) : e \in Elements(m)
      BY <2>1, <2>3 DEF InFlight, Elements
    <3> QED
      BY <2>2, <3>1, InFlightOf
  <2> QED
    BY <1>1, <2>3
<1>3. CASE PopFront(h)
  <2>1. /\ subBuffer[h] # <<>> /\ subBuffer'[h] = Tail(subBuffer[h])
        /\ queue'[h] = queue[h] /\ pubBuffer'[h] = pubBuffer[h]
    BY <1>3 DEF PopFront, TypeOK, pubVars
  <2>2. Elements(Tail(subBuffer[h])) \subseteq Elements(subBuffer[h])
    BY <1>m, <2>1, ElementsTail
  <2>3. InFlight(h)' \subseteq InFlight(h)
    BY <2>1, <2>2 DEF InFlight
  <2> QED
    BY <1>1, <2>3
<1>4. CASE Flush(h)
  <2>1. /\ subBuffer'[h] = subBuffer[h] /\ pubBuffer'[h] = <<>>
        /\ queue'[h] = queue[h] \/ queue'[h] = Append(queue[h], pubBuffer[h])
    BY <1>4 DEF Flush, Deliver, TypeOK, subVars
  <2>2. Elements(queue'[h]) \subseteq Elements(queue[h]) \union {pubBuffer[h]}
    <3>1. CASE queue'[h] = queue[h]
      BY <3>1
    <3>2. CASE queue'[h] = Append(queue[h], pubBuffer[h])
      BY <1>m, <3>2, ElementsAppend
    <3> QED
      BY <2>1, <3>1, <3>2
  <2>3. ASSUME NEW e \in InFlight(h)' PROVE e \in InFlight(h)
    <3>1. \/ e \in Elements(subBuffer[h])
          \/ \E m \in Elements(queue'[h]) : e \in Elements(m)
      BY <2>1, <2>3, ElementsEmpty DEF InFlight, Elements
    <3> QED
      BY <2>2, <3>1, InFlightOf
  <2> QED
    BY <1>1, <2>3
<1> QED
  BY <1>2, <1>3, <1>4

LEMMA FlightPublish ==
    ASSUME TypeOK, NEW h \in Harts, NEW data \in Payload, NEW force, Publish(h, data, force)
    PROVE  /\ InFlight(h)' = InFlight(h) \union {[id |-> nextId[h], data |-> data]}
           /\ \A g \in Harts : g # h => InFlight(g)' = InFlight(g)
           /\ nextId'[h] = nextId[h] + 1
           /\ \A g \in Harts : g # h => nextId'[g] = nextId[g]
<1> DEFINE e == [id |-> nextId[h], data |-> data]
<1>1. /\ pubBuffer' = [pubBuffer EXCEPT ![h] = Append(pubBuffer[h], e)]
      /\ nextId' = [nextId EXCEPT ![h] = @ + 1]
      /\ UNCHANGED <<subBuffer, queue>>
  BY DEF Publish, subVars
<1>2. e \in Event /\ pubBuffer[h] \in Seq(Event)
  BY DEF TypeOK, Event, Message
<1>3. pubBuffer'[h] = Append(pubBuffer[h], e)
  BY <1>1 DEF TypeOK
<1> HIDE DEF e
<1>4. Elements(pubBuffer'[h]) = Elements(pubBuffer[h]) \union {e}
  BY <1>2, <1>3, ElementsAppend
<1>5. InFlight(h)' = InFlight(h) \union {e}
  BY <1>1, <1>4 DEF InFlight, Elements
<1>6. \A g \in Harts : g # h => InFlight(g)' = InFlight(g)
  BY <1>1, FlightFrame DEF TypeOK
<1>7. nextId'[h] = nextId[h] + 1 /\ \A g \in Harts : g # h => nextId'[g] = nextId[g]
  BY <1>1 DEF TypeOK
<1> QED
  BY <1>5, <1>6, <1>7 DEF e

------------------------------------------------------------------------------
(* Which steps touch what *)

\* A simulated hart's step leaves the emulated process and its end of the channels
\* alone, and puts nothing on its way.
LEMMA HartKeeps ==
    ASSUME PipeInv, NEW h \in Harts, Dispatch(h) \/ HandlerStep(h)
    PROVE  /\ UNCHANGED <<pub, sub, linked, pubBuffer, flushing, nextId, program, guestVars, booted>>
           /\ \A g \in Harts : InFlight(g)' \subseteq InFlight(g)
<1>1. UNCHANGED <<program, guestVars, booted>>
  BY DEF Dispatch, StartupEvent, TickEvent, WakeInactive, PollInactive, WakeBlocked, HandlerStep,
         Front, InitCPUState, FirstEventAssertion, FetchSyscall, FetchInstruction, FetchMismatch,
         Execute, CheckProcess
<1>2. CASE UNCHANGED channelVars
  <2>1. UNCHANGED <<pub, sub, linked, pubBuffer, flushing, nextId, subBuffer, queue>>
    BY <1>2 DEF channelVars
  <2> QED
    BY <1>1, <2>1, FlightFrame
<1>3. CASE Take(h) \/ PopFront(h)
  <2>1. UNCHANGED <<pub, sub, linked, pubBuffer, flushing, nextId>>
    BY <1>3 DEF Take, TakeMessage, PopFront, pubVars
  <2>2. \A g \in Harts : InFlight(g)' \subseteq InFlight(g)
    BY <1>3, FlightMoves DEF PipeInv, TypeInv
  <2> QED
    BY <1>1, <2>1, <2>2
<1> QED
  BY <1>2, <1>3, HartReceives

\* Nor do the steps of the transport, and they only end flushes.
LEMMA TransportKeeps ==
    ASSUME PipeInv, NEW h \in Harts, RegisterISS(h) \/ TransportStep(h)
    PROVE  /\ UNCHANGED <<nextId, program, guestVars, booted>>
           /\ \A g \in Harts : /\ InFlight(g)' \subseteq InFlight(g)
                               /\ \/ pubBuffer'[g] = pubBuffer[g] /\ flushing'[g] = flushing[g]
                                     /\ queue'[g] = queue[g]
                                  \/ pubBuffer'[g] = <<>> /\ flushing[g] /\ ~flushing'[g]
<1>1. UNCHANGED <<program, guestVars, booted>>
  BY DEF RegisterISS, TransportStep
<1>2. CASE Flush(h)
  <2>1. TypeOK
    BY DEF PipeInv, TypeInv
  <2>2. \A g \in Harts : InFlight(g)' \subseteq InFlight(g)
    BY <1>2, <2>1, FlightMoves
  <2>3. nextId' = nextId /\ pubBuffer'[h] = <<>> /\ flushing[h] /\ ~flushing'[h]
    BY <1>2, <2>1 DEF Flush, TypeOK
  <2>4. \A g \in Harts : g # h => /\ pubBuffer'[g] = pubBuffer[g] /\ flushing'[g] = flushing[g]
                                  /\ queue'[g] = queue[g]
    BY <1>2, <2>1 DEF Flush, Deliver, TypeOK
  <2> QED
    BY <1>1, <2>2, <2>3, <2>4
<1>3. CASE NewSubscriber(h) \/ Subscribed(h) \/ Link(h) \/ PublisherReady(h)
  <2>1. UNCHANGED <<nextId, pubBuffer, flushing, subBuffer, queue>>
    BY <1>3 DEF NewSubscriber, Subscribed, Link, PublisherReady, pubVars, subVars
  <2> QED
    BY <1>1, <2>1, FlightFrame
<1> QED
  BY <1>2, <1>3 DEF RegisterISS, TransportStep

\* Threads are started by the boot hart only, and never on the boot hart.
LEMMA BootSpawns ==
    ASSUME PipeInv, JoinedGuests, Joining, NEW h \in Harts, vcpu[h] = "kernel"
    PROVE  /\ h # Boot => Spawned(Insn(h)) = {}
           /\ Boot \notin Spawned(Insn(h))
           /\ h = Boot => \A g \in Spawned(Insn(h)) : Waits(program[Boot][1], g, ip[Boot] + 1)
<1>1. AtInstruction(h) /\ Joined(program)
  BY DEF PipeInv, GuestOK, JoinedGuests
<1>2. CASE h = Boot
  <2>1. life[h] = 1
    BY <1>2 DEF Joining
  <2> QED
    BY <1>1, <1>2, <2>1 DEF Joined, Insn, AtInstruction
<1>3. CASE h # Boot
  BY <1>1, <1>3 DEF Joined, Insn, AtInstruction
<1> QED
  BY <1>2, <1>3

\* What a step of the guest does to the vcpus and to their channels.
LEMMA GuestMoves ==
    ASSUME PipeInv, JoinedGuests, Joining, NEW h \in Harts, GuestStep(h)
    PROVE  /\ vcpu[h] \notin {"absent", "dead"}
           /\ \A g \in Harts \ {h} :
                 /\ UNCHANGED <<pubBuffer[g], flushing[g], nextId[g]>> /\ InFlight(g)' = InFlight(g)
                 /\ \/ vcpu'[g] = vcpu[g]
                    \/ /\ g # Boot /\ h = Boot /\ vcpu'[g] = "created"
                       /\ vcpu[g] = "absent" \/ Exited(g)
           /\ \/ /\ vcpu'[h] # "dead" /\ vcpu'[h] # "created" /\ vcpu'[h] # "absent"
                 /\ UNCHANGED <<pubBuffer[h], flushing[h], nextId[h]>> /\ InFlight(h)' = InFlight(h)
              \/ \E e \in Event : /\ InFlight(h)' = InFlight(h) \union {e}
                                  /\ nextId'[h] = nextId[h] + 1 /\ e.id = nextId[h]
                                  /\ \/ ~e.data.last /\ vcpu'[h] \in {"running", "syscall", "kernel"}
                                     \/ vcpu'[h] = "dead" /\ flushing'[h]
<1>t. TypeOK /\ CpuTypeOK /\ Payload = EventData
  BY DEF PipeInv, TypeInv
<1>1. vcpu[h] \notin {"absent", "dead"}
  BY DEF GuestStep, ThreadInitialize, ExecuteInstruction, Syscall, SyscallReturn, ThreadExit,
         Callback
<1> DEFINE Alone(g) == UNCHANGED <<pubBuffer[g], flushing[g], nextId[g]>> /\ InFlight(g)' = InFlight(g)
           Elsewhere == \A g \in Harts \ {h} : Alone(g)
\* A step that is silent ...
<1>2. ASSUME UNCHANGED <<pubBuffer, flushing, nextId, subBuffer, queue>>
      PROVE  Elsewhere /\ Alone(h)
  BY <1>2, FlightFrame
\* ... and one that publishes.
<1>3. ASSUME NEW data \in EventData, NEW force \in BOOLEAN, Publish(h, data, force)
      PROVE  /\ Elsewhere
             /\ \E e \in Event : /\ InFlight(h)' = InFlight(h) \union {e}
                                 /\ nextId'[h] = nextId[h] + 1 /\ e.id = nextId[h]
                                 /\ e.data = data
             /\ force => flushing'[h]
  <2>1. /\ InFlight(h)' = InFlight(h) \union {[id |-> nextId[h], data |-> data]}
        /\ \A g \in Harts : g # h => InFlight(g)' = InFlight(g)
        /\ nextId'[h] = nextId[h] + 1
        /\ \A g \in Harts : g # h => nextId'[g] = nextId[g]
    BY <1>t, <1>3, FlightPublish
  <2>2. [id |-> nextId[h], data |-> data] \in Event
    BY <1>t DEF Event, TypeOK
  <2>3. \A g \in Harts : g # h => pubBuffer'[g] = pubBuffer[g] /\ flushing'[g] = flushing[g]
    BY <1>t, <1>3 DEF Publish, TypeOK
  <2>4. force => flushing'[h]
    <3> DEFINE full == Len(Append(pubBuffer[h], [id |-> nextId[h], data |-> data])) = BatchSize
    <3>1. flushing' = [flushing EXCEPT ![h] = full \/ force]
      BY <1>3 DEF Publish
    <3> HIDE DEF full
    <3> QED
      BY <1>t, <3>1 DEF TypeOK
  <2> QED
    BY <2>1, <2>2, <2>3, <2>4
<1>4. CASE ThreadInitialize(h)
  <2>1. /\ UNCHANGED <<pubBuffer, flushing, nextId, subBuffer, queue>>
        /\ vcpu' = [vcpu EXCEPT ![h] = "running"]
    BY <1>4 DEF ThreadInitialize, NewPublisher, channelVars, subVars
  <2>2. vcpu'[h] = "running" /\ \A g \in Harts \ {h} : vcpu'[g] = vcpu[g]
    BY <1>t, <2>1 DEF CpuTypeOK
  <2> QED
    BY <1>1, <1>2, <2>1, <2>2
<1>5. CASE ExecuteInstruction(h)
  <2>1. /\ vcpu[h] = "running"
        /\ vcpu' = vcpu \/ vcpu' = [vcpu EXCEPT ![h] = "syscall"]
        /\ \/ UNCHANGED channelVars
           \/ Publish(h, InsnEvent(Previous(h, Insn(h)), FALSE), FALSE)
    BY <1>5 DEF ExecuteInstruction, Callback
  <2>2. vcpu'[h] \in {"running", "syscall"} /\ \A g \in Harts \ {h} : vcpu'[g] = vcpu[g]
    BY <1>t, <2>1 DEF CpuTypeOK
  <2>3. InsnEvent(Previous(h, Insn(h)), FALSE) \in EventData
    <3>1. Insn(h) \in Instruction
      BY <2>1, InsnTyped
    <3>2. Previous(h, Insn(h)) \in Inst
      BY <3>1, PreviousTyped
    <3> QED
      BY <3>2 DEF InsnEvent, EventData
  <2>4. ~InsnEvent(Previous(h, Insn(h)), FALSE).last
    BY DEF InsnEvent
  <2>5. CASE UNCHANGED channelVars
    BY <1>1, <1>2, <2>2, <2>5 DEF channelVars
  <2>6. CASE Publish(h, InsnEvent(Previous(h, Insn(h)), FALSE), FALSE)
    <3>1. PICK d \in EventData : Publish(h, d, FALSE) /\ ~d.last
      BY <2>3, <2>4, <2>6
    <3>2. /\ Elsewhere
          /\ \E e \in Event : /\ InFlight(h)' = InFlight(h) \union {e}
                              /\ nextId'[h] = nextId[h] + 1 /\ e.id = nextId[h]
                              /\ e.data = d
      BY <1>3, <3>1
    <3> QED
      BY <1>1, <2>2, <3>1, <3>2
  <2> QED
    BY <2>1, <2>5, <2>6
<1>6. CASE Syscall(h)
  <2>1. /\ vcpu' = [vcpu EXCEPT ![h] = "kernel"]
        /\ UNCHANGED channelVars \/ Publish(h, SyscallEvent, TRUE)
    BY <1>6 DEF Syscall
  <2>2. vcpu'[h] = "kernel" /\ \A g \in Harts \ {h} : vcpu'[g] = vcpu[g]
    BY <1>t, <2>1 DEF CpuTypeOK
  <2>3. SyscallEvent \in EventData /\ ~SyscallEvent.last
    BY DEF SyscallEvent, EventData, NullInst, Inst
  <2>4. CASE UNCHANGED channelVars
    BY <1>1, <1>2, <2>2, <2>4 DEF channelVars
  <2>5. CASE Publish(h, SyscallEvent, TRUE)
    BY <1>1, <1>3, <2>2, <2>3, <2>5
  <2> QED
    BY <2>1, <2>4, <2>5
<1>7. CASE SyscallReturn(h)
  <2> DEFINE inst == Insn(h)
  <2>1. /\ vcpu[h] = "kernel" /\ UNCHANGED channelVars
        /\ \A g \in Spawned(inst) : vcpu[g] = "absent" \/ Exited(g)
        /\ vcpu' = [g \in Harts |->
                     IF g \in Spawned(inst) THEN "created"
                     ELSE IF g # h THEN vcpu[g]
                     ELSE IF inst.call = "exit" THEN "exiting" ELSE "running"]
    BY <1>7 DEF SyscallReturn, Callback
  <2>2. (h # Boot => Spawned(inst) = {}) /\ Boot \notin Spawned(inst)
    BY <2>1, BootSpawns
  <2> HIDE DEF inst
  <2>3. h \notin Spawned(inst)
    BY <2>2
  <2>4. vcpu'[h] \in {"exiting", "running"}
    BY <2>1, <2>3
  <2>5. ASSUME NEW g \in Harts \ {h}
        PROVE  \/ vcpu'[g] = vcpu[g]
               \/ /\ g # Boot /\ h = Boot /\ vcpu'[g] = "created"
                  /\ vcpu[g] = "absent" \/ Exited(g)
    BY <2>1, <2>2, <2>5
  <2>6. Elsewhere /\ Alone(h)
    BY <1>2, <2>1 DEF channelVars
  <2> QED
    BY <1>1, <2>4, <2>5, <2>6
<1>8. CASE ThreadExit(h)
  <2>1. /\ vcpu' = [vcpu EXCEPT ![h] = "dead"] /\ Publish(h, InsnEvent(lastInst[h], TRUE), TRUE)
    BY <1>8 DEF ThreadExit
  <2>2. vcpu'[h] = "dead" /\ \A g \in Harts \ {h} : vcpu'[g] = vcpu[g]
    BY <1>t, <2>1 DEF CpuTypeOK
  <2>3. InsnEvent(lastInst[h], TRUE) \in EventData
    BY <1>t DEF InsnEvent, EventData, CpuTypeOK
  <2> QED
    BY <1>1, <1>3, <2>1, <2>2, <2>3
<1> QED
  BY <1>4, <1>5, <1>6, <1>7, <1>8 DEF GuestStep

------------------------------------------------------------------------------
(* The steps *)

LEMMA CompletionStart ==
    ASSUME JoinedGuests, OneRank, Payload = EventData, PipelineInit
    PROVE  CompletionInv
<1>1. PipeInv /\ WindowInv
  BY PipeStart, WindowInit DEF PipelineInit
<1>2. \A h \in Harts : /\ subBuffer[h] = <<>> /\ queue[h] = <<>> /\ pubBuffer[h] = <<>>
                       /\ sub[h] = "none" /\ ~flushing[h] /\ vcpu[h] = "absent"
                       /\ handler[h] = "idle" /\ status[h] = "INACTIVE"
  BY DEF PipelineInit, Init
<1>3. InFlight(Boot) = {}
  <2>1. Len(<<>>) = 0
    BY EmptySeq
  <2> QED
    BY <1>2, <2>1, BootAssumption DEF InFlight, Elements
<1>4. completed = FALSE
  BY DEF PipelineInit
<1>5. Quiet(Boot) /\ \A h \in Harts : sub[h] # "gone" /\ Quiet(h)
  BY <1>2, BootAssumption DEF Quiet
<1>6. Joining /\ LastMarked /\ OneHandler /\ Finished
  BY <1>2, <1>3, <1>4, BootAssumption DEF Joining, LastMarked, OneHandler, Finished
<1> QED
  BY <1>1, <1>5, <1>6 DEF CompletionInv

\* Nobody unsubscribes.
LEMMA StaysSubscribed ==
    ASSUME PipeInv, [PipelineNext]_pipelineVars, NEW g \in Harts, sub[g] # "gone"
    PROVE  sub'[g] # "gone"
<1>1. TypeOK
  BY DEF PipeInv, TypeInv
<1>2. ASSUME NEW h \in Harts, Traffic(h) PROVE sub'[g] # "gone"
  BY <1>1, <1>2
     DEF Traffic, TypeOK, NewSubscriber, Subscribed, Link, NewPublisher, PublisherReady, Flush,
         Take, TakeMessage, PopFront, Publish, subVars
<1> QED
  BY <1>2, PipelineTraffic DEF channelVars

\* A handler runs alone on its rank's thread, and here there is one.
LEMMA OneHandlerStep ==
    ASSUME PipeInv, OneRank, OneHandler, [PipelineNext]_pipelineVars
    PROVE  OneHandler'
<1>1. CASE handler' = handler
  BY <1>1 DEF OneHandler
<1>2. ASSUME NEW h \in Harts, Dispatch(h) \/ HandlerStep(h)
      PROVE  OneHandler'
  <2>1. \A g \in Harts : g # h => handler[g] = "idle"
    <3>1. CASE Dispatch(h)
      <4>1. RankFree(h)
        BY <3>1 DEF Dispatch, StartupEvent, TickEvent, WakeInactive, PollInactive, WakeBlocked, Fires
      <4> QED
        BY <4>1 DEF RankFree, OneRank
    <3>2. CASE HandlerStep(h)
      <4>1. handler[h] # "idle"
        BY <3>2 DEF HandlerStep, Front, InitCPUState, FirstEventAssertion, FetchSyscall,
                    FetchInstruction, FetchMismatch, Execute, CheckProcess, AtHead
      <4> QED
        BY <4>1 DEF OneHandler
    <3> QED
      BY <1>2, <3>1, <3>2
  <2>2. \A g \in Harts : g # h => handler'[g] = "idle"
    BY <1>2, <2>1, HartAlone
  <2> QED
    BY <2>2 DEF OneHandler
<1>3. ASSUME NEW h \in Harts, RegisterISS(h) \/ GuestStep(h) \/ TransportStep(h)
      PROVE  OneHandler'
  BY <1>1, <1>3, OutsideAlone DEF cpuVars
<1>4. CASE BootSystem \/ UNCHANGED pipelineVars
  BY <1>1, <1>4 DEF BootSystem, pipelineVars, cpuVars
<1> QED
  BY <1>2, <1>3, <1>4 DEF PipelineNext

\* bootSystem comes first: no hart has a thread yet.
LEMMA BootFirst ==
    ASSUME PipeInv, BootSystem
    PROVE  /\ \A g \in Harts : vcpu[g] = "absent"
           /\ vcpu'[Boot] = "created" /\ life'[Boot] = 1
           /\ \A g \in Harts \ {Boot} : vcpu'[g] = "absent"
           /\ UNCHANGED <<channelVars, program, completed, status, handler>>
BY BootAssumption DEF PipeInv, GuestOK, CpuTypeOK, BootSystem

LEMMA QuietStep ==
    ASSUME PipeInv, JoinedGuests, Joining, [PipelineNext]_pipelineVars, NEW g \in Harts,
           \A h \in Harts : Quiet(h)
    PROVE  Quiet(g)'
<1>1. Quiet(g)
  OBVIOUS
<1>2. ASSUME vcpu'[g] = vcpu[g], pubBuffer'[g] = pubBuffer[g], flushing'[g] = flushing[g]
      PROVE  Quiet(g)'
  BY <1>1, <1>2 DEF Quiet
<1>3. ASSUME NEW h \in Harts, Dispatch(h) \/ HandlerStep(h) PROVE Quiet(g)'
  BY <1>2, <1>3, HartKeeps DEF guestVars
<1>4. ASSUME NEW h \in Harts, RegisterISS(h) \/ TransportStep(h) PROVE Quiet(g)'
  <2>1. vcpu'[g] = vcpu[g]
    BY <1>4, TransportKeeps DEF guestVars
  <2>2. \/ pubBuffer'[g] = pubBuffer[g] /\ flushing'[g] = flushing[g]
        \/ pubBuffer'[g] = <<>> /\ flushing[g] /\ ~flushing'[g]
    BY <1>4, TransportKeeps
  <2> QED
    BY <1>1, <1>2, <2>1, <2>2 DEF Quiet
<1>5. CASE BootSystem
  BY <1>1, <1>5, BootFirst DEF Quiet, channelVars
<1>6. CASE UNCHANGED pipelineVars
  BY <1>2, <1>6 DEF pipelineVars, channelVars, guestVars
<1>7. ASSUME NEW h \in Harts, GuestStep(h) PROVE Quiet(g)'
  <2>1. CASE g = h
    <3>1. CASE UNCHANGED <<pubBuffer[g], flushing[g]>> /\ vcpu'[g] \notin {"dead", "created", "absent"}
      BY <3>1 DEF Quiet
    <3>2. CASE vcpu'[g] \in {"running", "syscall", "kernel"}
      BY <3>2 DEF Quiet
    <3>3. CASE vcpu'[g] = "dead" /\ flushing'[g]
      BY <3>3 DEF Quiet
    <3> QED
      BY <1>7, <2>1, <3>1, <3>2, <3>3, GuestMoves
  <2>2. CASE g # h
    <3>1. UNCHANGED <<pubBuffer[g], flushing[g]>>
      BY <1>7, <2>2, GuestMoves
    <3>2. \/ vcpu'[g] = vcpu[g]
          \/ vcpu'[g] = "created" /\ (vcpu[g] = "absent" \/ Exited(g))
      BY <1>7, <2>2, GuestMoves
    <3> QED
      BY <1>1, <1>2, <3>1, <3>2 DEF Quiet, Exited
  <2> QED
    BY <2>1, <2>2
<1> QED
  BY <1>3, <1>4, <1>5, <1>6, <1>7 DEF PipelineNext

\* A thread that waits at i still waits after an instruction that is no call, and
\* after a call that does not wait for g.
LEMMA WaitsOn ==
    ASSUME NEW t, NEW g, NEW i \in Nat, DOMAIN t \subseteq Nat, Waits(t, g, i),
           t[i].call = "none" \/ g \notin t[i].join
    PROVE  Waits(t, g, i + 1)
<1>1. PICK j \in DOMAIN t : j >= i /\ t[j].call # "none" /\ g \in t[j].join
  BY DEF Waits
<1>2. j # i /\ j \in Nat
  BY <1>1
<1>3. j >= i + 1
  BY <1>1, <1>2
<1> QED
  BY <1>1, <1>3 DEF Waits

LEMMA JoiningStep ==
    ASSUME PipeInv, JoinedGuests, Joining, [PipelineNext]_pipelineVars
    PROVE  Joining'
<1>t. TypeOK /\ CpuTypeOK /\ GuestOK
  BY DEF PipeInv, TypeInv
<1> DEFINE t == program[Boot][1]
<1>0. DOMAIN t \subseteq Nat
  <2>1. program[Boot] \in Seq(Seq(Instruction)) /\ 1 \in DOMAIN program[Boot]
    <3>1. program[Boot] \in Seq(Seq(Instruction)) /\ program[Boot] # <<>>
      BY <1>t, ProgramsAssumption, BootAssumption DEF GuestOK, WellFormed
    <3> QED
      BY <3>1, EmptySeq, LenProperties
  <2>2. t \in Seq(Instruction)
    BY <2>1, ElementOfSeq
  <2> QED
    BY <2>2, LenProperties
\* A step that leaves the vcpus alone, and only ends flushes.
<1>1. ASSUME UNCHANGED <<program, guestVars>>, \A g \in Harts : flushing'[g] => flushing[g]
      PROVE  Joining'
  BY <1>1 DEF Joining, Exited, guestVars
<1>2. ASSUME NEW h \in Harts, Dispatch(h) \/ HandlerStep(h) PROVE Joining'
  BY <1>1, <1>2, HartKeeps
<1>3. ASSUME NEW h \in Harts, RegisterISS(h) \/ TransportStep(h) PROVE Joining'
  <2>1. UNCHANGED <<program, guestVars>>
    BY <1>3, TransportKeeps
  <2>2. \A g \in Harts : flushing'[g] => flushing[g]
    BY <1>3, TransportKeeps
  <2> QED
    BY <1>1, <2>1, <2>2
<1>4. CASE BootSystem
  BY <1>4, BootFirst DEF Joining
<1>5. CASE UNCHANGED pipelineVars
  BY <1>1, <1>5 DEF pipelineVars, channelVars
<1>6. ASSUME NEW h \in Harts, GuestStep(h) PROVE Joining'
  <2>1. program' = program
    BY <1>6, OutsideAlone
  <2>2. /\ vcpu[h] \notin {"absent", "dead"}
        /\ \A g \in Harts \ {h} :
              /\ flushing'[g] = flushing[g]
              /\ \/ vcpu'[g] = vcpu[g]
                 \/ /\ g # Boot /\ h = Boot /\ vcpu'[g] = "created"
                    /\ vcpu[g] = "absent" \/ Exited(g)
    BY <1>6, GuestMoves
  <2>3. CASE h # Boot
    <3>1. vcpu'[Boot] = vcpu[Boot] /\ \A g \in Harts \ {h} : vcpu'[g] = vcpu[g]
      BY <2>2, <2>3, BootAssumption
    <3>2. life'[Boot] = life[Boot] /\ ip'[Boot] = ip[Boot]
      <4>1. CASE SyscallReturn(h)
        <5>1. vcpu[h] = "kernel"
          BY <4>1 DEF SyscallReturn, Callback
        <5>2. Boot \notin Spawned(Insn(h))
          BY <5>1, BootSpawns
        <5> QED
          BY <2>3, <4>1, <5>2, BootAssumption DEF SyscallReturn
      <4>2. CASE ExecuteInstruction(h)
        BY <1>t, <2>3, <4>2, BootAssumption DEF ExecuteInstruction, CpuTypeOK
      <4>3. CASE ThreadInitialize(h) \/ Syscall(h) \/ ThreadExit(h)
        BY <4>3 DEF ThreadInitialize, Syscall, ThreadExit
      <4> QED
        BY <1>6, <4>1, <4>2, <4>3 DEF GuestStep
    <3>3. Waits(t, h, ip[Boot])
      BY <2>2, <2>3 DEF Joining, Exited
    <3>4. ASSUME NEW g \in Harts \ {Boot}
          PROVE  vcpu'[g] = "absent" \/ Exited(g)' \/ Waits(t, g, ip[Boot])
      <4>1. CASE g = h
        BY <3>3, <4>1
      <4>2. CASE g # h
        BY <2>2, <3>1, <4>2 DEF Joining, Exited
      <4> QED
        BY <4>1, <4>2
    <3> QED
      BY <2>1, <3>1, <3>2, <3>4 DEF Joining
  <2>4. CASE h = Boot
    <3>0. life[Boot] = 1 /\ ip[Boot] \in Nat
      BY <1>t, <2>2, <2>4, BootAssumption DEF Joining, CpuTypeOK
    <3>1. CASE ExecuteInstruction(Boot)
      <4>1. /\ vcpu[Boot] = "running" /\ UNCHANGED life
            /\ \/ Insn(Boot).call = "none" /\ ip' = [ip EXCEPT ![Boot] = ip[Boot] + 1] /\ UNCHANGED vcpu
               \/ vcpu' = [vcpu EXCEPT ![Boot] = "syscall"] /\ UNCHANGED ip
        BY <3>1 DEF ExecuteInstruction, Callback
      <4>2. /\ vcpu'[Boot] \in {"running", "syscall"}
            /\ \/ Insn(Boot).call = "none" /\ ip'[Boot] = ip[Boot] + 1
               \/ ip'[Boot] = ip[Boot]
        BY <1>t, <4>1, BootAssumption DEF CpuTypeOK
      <4>3. Insn(Boot) = t[ip[Boot]]
        BY <3>0 DEF Insn
      <4>4. ASSUME NEW g \in Harts \ {Boot}
            PROVE  vcpu'[g] = "absent" \/ Exited(g)' \/ Waits(t, g, ip'[Boot])
        <5>1. vcpu'[g] = vcpu[g] /\ flushing'[g] = flushing[g]
          BY <1>t, <2>2, <2>4, <4>1 DEF CpuTypeOK
        <5>2. CASE Waits(t, g, ip[Boot])
          BY <1>0, <3>0, <4>2, <4>3, <5>2, WaitsOn
        <5> QED
          BY <5>1, <5>2 DEF Joining, Exited
      <4> QED
        BY <2>1, <3>0, <4>1, <4>2, <4>4 DEF Joining
    <3>2. CASE SyscallReturn(Boot)
      <4> DEFINE inst == Insn(Boot)
      <4>1. /\ vcpu[Boot] = "kernel" /\ UNCHANGED flushing
            /\ \A g \in inst.join : Exited(g)
            /\ vcpu' = [g \in Harts |->
                         IF g \in Spawned(inst) THEN "created"
                         ELSE IF g # Boot THEN vcpu[g]
                         ELSE IF inst.call = "exit" THEN "exiting" ELSE "running"]
            /\ life' = [g \in Harts |-> IF g \in Spawned(inst) THEN inst.spawn[g] ELSE life[g]]
            /\ ip' = [g \in Harts |-> IF g \in Spawned(inst) THEN 1
                                      ELSE IF g = Boot THEN ip[g] + 1 ELSE ip[g]]
        BY <3>2 DEF SyscallReturn, Callback, channelVars
      <4>2. /\ Boot \notin Spawned(inst)
            /\ \A g \in Spawned(inst) : Waits(t, g, ip[Boot] + 1)
        BY <4>1, BootSpawns, BootAssumption
      <4>3. inst = t[ip[Boot]] /\ (inst.call = "exit" => ip[Boot] = Len(t))
        BY <3>0, <4>1, InsnTyped, BootAssumption DEF Insn
      <4> HIDE DEF inst
      <4>4. life'[Boot] = 1 /\ ip'[Boot] = ip[Boot] + 1
        BY <3>0, <4>1, <4>2, BootAssumption
      <4>5. /\ vcpu'[Boot] \in {"exiting", "running"}
            /\ vcpu'[Boot] = "exiting" => inst.call = "exit"
        BY <4>1, <4>2, BootAssumption
      <4>6. ASSUME NEW g \in Harts \ {Boot}
            PROVE  vcpu'[g] = "absent" \/ Exited(g)' \/ Waits(t, g, ip[Boot] + 1)
        <5>1. CASE g \in Spawned(inst)
          BY <4>2, <5>1
        <5>2. CASE g \notin Spawned(inst)
          <6>1. vcpu'[g] = vcpu[g] /\ flushing'[g] = flushing[g]
            BY <4>1, <5>2
          <6>2. CASE g \in inst.join
            BY <4>1, <6>1, <6>2 DEF Exited
          <6>3. CASE g \notin inst.join
            <7>1. CASE Waits(t, g, ip[Boot])
              BY <1>0, <3>0, <4>3, <6>3, <7>1, WaitsOn
            <7> QED
              BY <6>1, <7>1 DEF Joining, Exited
          <6> QED
            BY <6>2, <6>3
        <5> QED
          BY <5>1, <5>2
      <4> QED
        BY <2>1, <4>3, <4>4, <4>5, <4>6 DEF Joining
    <3>3. CASE ThreadInitialize(Boot) \/ Syscall(Boot) \/ ThreadExit(Boot)
      <4>1. /\ UNCHANGED <<life, ip>>
            /\ \/ vcpu' = [vcpu EXCEPT ![Boot] = "running"] \/ vcpu' = [vcpu EXCEPT ![Boot] = "kernel"]
               \/ vcpu[Boot] = "exiting" /\ vcpu' = [vcpu EXCEPT ![Boot] = "dead"]
        BY <3>3 DEF ThreadInitialize, Syscall, ThreadExit, Callback
      <4>2. vcpu'[Boot] \in {"running", "kernel"} \/ (vcpu[Boot] = "exiting" /\ vcpu'[Boot] = "dead")
        BY <1>t, <4>1, BootAssumption DEF CpuTypeOK
      <4>3. \A g \in Harts \ {Boot} : vcpu'[g] = vcpu[g] /\ flushing'[g] = flushing[g]
        BY <1>t, <2>2, <2>4, <4>1 DEF CpuTypeOK
      <4> QED
        BY <2>1, <3>0, <4>1, <4>2, <4>3 DEF Joining, Exited
    <3> QED
      BY <1>6, <2>4, <3>1, <3>2, <3>3 DEF GuestStep
  <2> QED
    BY <2>3, <2>4
<1> QED
  BY <1>2, <1>3, <1>4, <1>5, <1>6 DEF PipelineNext

LEMMA LastMarkedStep ==
    ASSUME PipeInv, JoinedGuests, Joining, LastMarked, [PipelineNext]_pipelineVars
    PROVE  LastMarked'
<1>t. TypeOK /\ nextId[Boot] \in Nat
  BY BootAssumption DEF PipeInv, TypeInv, TypeOK
<1>1. ASSUME InFlight(Boot)' \subseteq InFlight(Boot), nextId'[Boot] = nextId[Boot],
             vcpu'[Boot] = vcpu[Boot]
      PROVE  LastMarked'
  BY <1>1 DEF LastMarked
<1>2. ASSUME NEW h \in Harts, Dispatch(h) \/ HandlerStep(h) PROVE LastMarked'
  BY <1>1, <1>2, HartKeeps, BootAssumption DEF guestVars
<1>3. ASSUME NEW h \in Harts, RegisterISS(h) \/ TransportStep(h) PROVE LastMarked'
  BY <1>1, <1>3, TransportKeeps, BootAssumption DEF guestVars
<1>4. CASE BootSystem
  <2>1. vcpu[Boot] = "absent" /\ InFlight(Boot)' = InFlight(Boot)
    BY <1>4, BootFirst, FlightFrame, BootAssumption DEF channelVars
  <2> QED
    BY <2>1 DEF LastMarked
<1>5. CASE UNCHANGED pipelineVars
  <2>1. InFlight(Boot)' = InFlight(Boot)
    BY <1>5, FlightFrame DEF pipelineVars, channelVars
  <2> QED
    BY <1>1, <1>5, <2>1 DEF pipelineVars, channelVars, guestVars
<1>6. ASSUME NEW h \in Harts, GuestStep(h) PROVE LastMarked'
  <2>1. CASE h # Boot
    <3>1. InFlight(Boot)' = InFlight(Boot) /\ nextId'[Boot] = nextId[Boot] /\ vcpu'[Boot] = vcpu[Boot]
      BY <1>6, <2>1, GuestMoves, BootAssumption
    <3> QED
      BY <1>1, <3>1
  <2>2. CASE h = Boot
    <3>1. \A e \in InFlight(Boot) : ~e.data.last
      BY <1>6, <2>2, GuestMoves DEF LastMarked
    <3>2. CASE InFlight(Boot)' = InFlight(Boot)
      BY <3>1, <3>2 DEF LastMarked
    <3>3. ASSUME NEW e \in Event, InFlight(Boot)' = InFlight(Boot) \union {e},
                 nextId'[Boot] = nextId[Boot] + 1, e.id = nextId[Boot],
                 ~e.data.last \/ vcpu'[Boot] = "dead"
          PROVE  LastMarked'
      <4>1. e.id = nextId'[Boot] - 1
        BY <1>t, <3>3
      <4> QED
        BY <3>1, <3>3, <4>1 DEF LastMarked
    <3>4. \/ InFlight(Boot)' = InFlight(Boot)
          \/ \E e \in Event : /\ InFlight(Boot)' = InFlight(Boot) \union {e}
                              /\ nextId'[Boot] = nextId[Boot] + 1 /\ e.id = nextId[Boot]
                              /\ ~e.data.last \/ vcpu'[Boot] = "dead"
      BY <1>6, <2>2, GuestMoves
    <3> QED
      BY <3>2, <3>3, <3>4
  <2> QED
    BY <2>1, <2>2
<1> QED
  BY <1>2, <1>3, <1>4, <1>5, <1>6 DEF PipelineNext

\* The process completes with the last event of the boot hart.
LEMMA Completes ==
    ASSUME PipeInv, [PipelineNext]_pipelineVars, completed' # completed
    PROVE  FetchInstruction(Boot) /\ First(Boot).last
<1>1. CASE BootSystem \/ UNCHANGED pipelineVars
  BY <1>1 DEF BootSystem, pipelineVars, cpuVars
<1>2. ASSUME NEW h \in Harts, RegisterISS(h) \/ GuestStep(h) \/ TransportStep(h) PROVE FALSE
  BY <1>2, OutsideAlone DEF cpuVars
<1>3. ASSUME NEW h \in Harts, Dispatch(h) \/ HandlerStep(h) PROVE FetchInstruction(h)
  BY <1>3
     DEF Dispatch, StartupEvent, TickEvent, WakeInactive, PollInactive, WakeBlocked, HandlerStep,
         Front, InitCPUState, FirstEventAssertion, FetchSyscall, FetchMismatch, Execute,
         CheckProcess, cpuVars
<1>4. ASSUME NEW h \in Harts, FetchInstruction(h) PROVE h = Boot /\ First(h).last
  BY <1>4 DEF FetchInstruction, LastInstruction
<1> QED
  BY <1>1, <1>2, <1>3, <1>4 DEF PipelineNext

\* Once the boot hart's thread has ended no thread runs, and nothing is left to flush.
LEMMA NobodyRuns ==
    ASSUME PipeInv, Joining, vcpu[Boot] = "dead", NEW h \in Harts, Quiet(h)
    PROVE  /\ vcpu[h] \in {"absent", "dead"} /\ ~GuestStep(h)
           /\ h # Boot => ~flushing[h] /\ pubBuffer[h] = <<>>
<1> DEFINE t == program[Boot][1]
<1>1. ~Waits(t, h, ip[Boot])
  <2>1. ip[Boot] = Len(t) + 1
    BY DEF Joining
  <2>2. t \in Seq(Instruction)
    <3>1. program[Boot] \in Seq(Seq(Instruction)) /\ program[Boot] # <<>>
      BY ProgramsAssumption, BootAssumption DEF PipeInv, GuestOK, WellFormed
    <3>2. 1 \in DOMAIN program[Boot]
      BY <3>1, EmptySeq, LenProperties
    <3> QED
      BY <3>1, <3>2, ElementOfSeq
  <2>3. DOMAIN t = 1 .. Len(t) /\ Len(t) \in Nat
    BY <2>2, LenProperties
  <2> QED
    BY <2>1, <2>3 DEF Waits
<1>2. h # Boot => vcpu[h] = "absent" \/ Exited(h)
  BY <1>1 DEF Joining
<1>3. vcpu[h] \in {"absent", "dead"}
  BY <1>2 DEF Exited
<1>4. ~GuestStep(h)
  BY <1>3 DEF GuestStep, ThreadInitialize, ExecuteInstruction, Syscall, SyscallReturn, ThreadExit,
              Callback
<1>5. h # Boot => ~flushing[h] /\ pubBuffer[h] = <<>>
  BY <1>2 DEF Quiet, Exited
<1> QED
  BY <1>3, <1>4, <1>5

\* Where a hart's status or handler can come to tell that it has finished.
LEMMA Finishes ==
    ASSUME PipeInv, NEW h \in Harts, Dispatch(h) \/ HandlerStep(h)
    PROVE  /\ status'[h] = "COMPLETED" =>
                 \/ status[h] = "COMPLETED"
                 \/ handler[h] = "polled" /\ completed
                 \/ h = Boot /\ completed'
           /\ handler'[h] = "polled" =>
                 handler[h] = "polled" \/ (queue[h] = <<>> /\ subBuffer[h] = <<>>)
<1>t. WakeInv /\ WakeTypeOK /\ DrainedFor(h)
  BY DEF PipeInv, WakeInv
<1>1. CASE StartupEvent(h) \/ TickEvent(h) \/ WakeInactive(h)
  BY <1>1, <1>t DEF StartupEvent, TickEvent, WakeInactive, BeginFetch, WakeTypeOK
<1>2. CASE PollInactive(h)
  <2>1. queue[h] = <<>> /\ status' = status /\ status[h] = "INACTIVE"
    BY <1>2 DEF PollInactive
  <2>2. handler[h] = "idle"
    BY <1>2, <1>t, FiresIdle DEF PollInactive
  <2>3. subBuffer[h] = <<>>
    BY <1>t, <2>1, <2>2 DEF DrainedFor
  <2> QED
    BY <2>1, <2>3
<1>3. CASE WakeBlocked(h) \/ Front(h)
  BY <1>3, <1>t DEF WakeBlocked, Front, Resume, WakeTypeOK, cpuVars
<1>4. CASE InitCPUState(h) \/ FirstEventAssertion(h) \/ FetchMismatch(h)
  BY <1>4, <1>t DEF InitCPUState, FirstEventAssertion, FetchMismatch, BeginFetch, WakeTypeOK
<1>5. CASE FetchSyscall(h)
  BY <1>5, <1>t DEF FetchSyscall, HandleSyscallApi, WakeTypeOK
<1>6. CASE FetchInstruction(h)
  <2>1. PICK at \in {"fetch", "execute"} : handler' = [handler EXCEPT ![h] = at]
    BY <1>6 DEF FetchInstruction
  <2>2. handler'[h] # "polled"
    BY <1>t, <2>1 DEF WakeTypeOK
  <2>3. \/ status' = status \/ status' = [status EXCEPT ![h] = "INACTIVE"]
        \/ h = Boot /\ completed'
    BY <1>6 DEF FetchInstruction, LastInstruction
  <2> QED
    BY <1>t, <2>2, <2>3 DEF WakeTypeOK
<1>7. CASE Execute(h)
  BY <1>7, <1>t DEF Execute, Resume, WakeTypeOK
<1>8. CASE CheckProcess(h)
  BY <1>8, <1>t DEF CheckProcess, WakeTypeOK
<1> QED
  BY <1>1, <1>2, <1>3, <1>4, <1>5, <1>6, <1>7, <1>8 DEF Dispatch, HandlerStep

\* The boot hart keeps its last event: nothing follows it.
LEMMA LastKept ==
    ASSUME CompletionInv, [PipelineNext]_pipelineVars, completed
    PROVE  vcpu'[Boot] = "dead" /\ seen'[Boot] = nextId'[Boot] - 1
<1>1. vcpu[Boot] = "dead" /\ seen[Boot] = nextId[Boot] - 1 /\ Boot \in Harts
  BY BootAssumption DEF CompletionInv, Finished
<1>2. TypeOK /\ PipeInv /\ Joining /\ \A h \in Harts : Quiet(h)
  BY DEF CompletionInv, PipeInv, TypeInv
<1>3. seen[Boot] + 1 = nextId[Boot]
  BY <1>1, <1>2 DEF TypeOK
<1>4. ASSUME NEW h \in Harts, GuestStep(h) PROVE FALSE
  BY <1>1, <1>2, <1>4, NobodyRuns
<1>5. ASSUME NEW h \in Harts, RegisterISS(h) \/ TransportStep(h)
      PROVE  UNCHANGED <<vcpu, seen, nextId>>
  BY <1>2, <1>5, TransportKeeps, OutsideAlone DEF guestVars
<1>6. ASSUME NEW h \in Harts, Dispatch(h) \/ HandlerStep(h)
      PROVE  vcpu' = vcpu /\ nextId' = nextId /\ seen'[Boot] = seen[Boot]
  <2>1. vcpu' = vcpu /\ nextId' = nextId
    BY <1>2, <1>6, HartKeeps DEF guestVars
  <2>2. CASE h # Boot
    BY <1>1, <1>2, <1>6, <2>1, <2>2, HartAlone
  <2>3. CASE h = Boot
    <3>1. ~PopFront(Boot)
      <4>1. subBuffer[Boot] # <<>> => seen[Boot] + 1 < nextId[Boot]
        BY <1>1, HeldPublished DEF CompletionInv
      <4> QED
        BY <1>1, <1>2, <1>3, <4>1 DEF PopFront, TypeOK
    <3>2. UNCHANGED channelVars \/ Take(Boot)
      BY <1>2, <1>6, <2>3, <3>1, HartReceives
    <3>3. seen' = seen
      BY <3>2 DEF channelVars, Take, TakeMessage
    <3> QED
      BY <2>1, <3>3
  <2> QED
    BY <2>2, <2>3
<1>7. CASE BootSystem
  BY <1>1, <1>2, <1>7, BootFirst
<1>8. CASE UNCHANGED pipelineVars
  BY <1>8, <1>1 DEF pipelineVars, channelVars, guestVars
<1> QED
  BY <1>1, <1>4, <1>5, <1>6, <1>7, <1>8 DEF PipelineNext

LEMMA FinishedStep ==
    ASSUME CompletionInv, [PipelineNext]_pipelineVars
    PROVE  Finished'
<1>t. /\ PipeInv /\ TypeOK /\ Joining /\ LastMarked /\ OneHandler /\ Finished
      /\ JoinedGuests /\ Boot \in Harts /\ \A h \in Harts : Quiet(h)
  BY BootAssumption DEF CompletionInv, PipeInv, TypeInv
<1>1. completed' => vcpu'[Boot] = "dead" /\ seen'[Boot] = nextId'[Boot] - 1
  <2>1. CASE completed' = completed
    BY <2>1, LastKept
  <2>2. CASE completed' # completed
    <3>1. FetchInstruction(Boot) /\ First(Boot).last
      BY <1>t, <2>2, Completes
    <3>2. /\ subBuffer[Boot] # <<>> /\ seen'[Boot] = Head(subBuffer[Boot]).id
          /\ Head(subBuffer[Boot]).data.last
      BY <1>t, <3>1 DEF FetchInstruction, AtHead, First, PopFront, TypeOK
    <3>3. Head(subBuffer[Boot]) \in InFlight(Boot)
      <4>1. subBuffer[Boot] \in Seq(Event)
        BY <1>t DEF TypeOK, Message
      <4> QED
        BY <3>2, <4>1, ElementsTail DEF InFlight
    <3>4. vcpu[Boot] = "dead" /\ seen'[Boot] = nextId[Boot] - 1
      BY <1>t, <3>2, <3>3 DEF LastMarked
    <3>5. HandlerStep(Boot)
      BY <3>1 DEF HandlerStep
    <3>6. vcpu' = vcpu /\ nextId' = nextId
      BY <1>t, <3>5, HartKeeps DEF guestVars
    <3> QED
      BY <3>4, <3>6
  <2> QED
    BY <2>1, <2>2
\* completed is never taken back.
<1>2. completed => completed'
  <2>1. CASE completed' = completed
    BY <2>1
  <2>2. CASE completed' # completed
    BY <1>t, <2>2, Completes DEF FetchInstruction, LastInstruction
  <2> QED
    BY <2>1, <2>2
\* Neither bootSystem nor the emulated process finishes a hart.
<1>3. ASSUME UNCHANGED <<completed, status, handler>>
      PROVE  /\ \A g \in Harts : status'[g] = "COMPLETED" => completed'
             /\ \A g \in Harts \ {Boot} :
                   completed' /\ (status'[g] = "COMPLETED" \/ handler'[g] = "polled") =>
                       queue[g] = <<>> /\ subBuffer[g] = <<>>
  BY <1>t, <1>3 DEF Finished
<1>4. ASSUME NEW h \in Harts, RegisterISS(h) \/ TransportStep(h) PROVE Finished'
  <2>1. UNCHANGED <<completed, status, handler, subBuffer>>
    BY <1>4, OutsideAlone DEF cpuVars
  <2>2. ASSUME NEW g \in Harts \ {Boot}, completed,
               status[g] = "COMPLETED" \/ handler[g] = "polled"
        PROVE  queue'[g] = <<>>
    <3>1. ~flushing[g]
      BY <1>t, <2>2, NobodyRuns DEF Finished
    <3>2. queue'[g] = queue[g]
      BY <1>t, <1>4, <3>1, TransportKeeps
    <3> QED
      BY <1>t, <2>2, <3>2 DEF Finished
  <2> QED
    BY <1>1, <1>3, <2>1, <2>2 DEF Finished
<1>5. ASSUME NEW h \in Harts, GuestStep(h) PROVE Finished'
  <2>1. UNCHANGED <<completed, status, handler, subBuffer>>
    BY <1>5, OutsideAlone DEF cpuVars
  <2>2. ~completed
    BY <1>t, <1>5, NobodyRuns DEF Finished
  <2> QED
    BY <1>1, <1>3, <2>1, <2>2 DEF Finished
<1>6. CASE BootSystem
  <2>1. UNCHANGED <<completed, status, handler, subBuffer, queue>>
    BY <1>t, <1>6, BootFirst DEF channelVars
  <2> QED
    BY <1>1, <1>3, <2>1 DEF Finished
<1>7. CASE UNCHANGED pipelineVars
  <2>1. UNCHANGED <<completed, status, handler, subBuffer, queue>>
    BY <1>7 DEF pipelineVars, cpuVars, channelVars
  <2> QED
    BY <1>1, <1>3, <2>1 DEF Finished
<1>8. ASSUME NEW h \in Harts, Dispatch(h) \/ HandlerStep(h) PROVE Finished'
  <2>1. ASSUME NEW g \in Harts, status'[g] = "COMPLETED" PROVE completed'
    <3>1. CASE g = h
      BY <1>t, <1>2, <1>8, <2>1, <3>1, Finishes DEF Finished
    <3>2. CASE g # h
      BY <1>t, <1>2, <1>8, <2>1, <3>2, HartAlone DEF Finished
    <3> QED
      BY <3>1, <3>2
  <2>2. ASSUME NEW g \in Harts \ {Boot}, completed',
               status'[g] = "COMPLETED" \/ handler'[g] = "polled"
        PROVE  queue'[g] = <<>> /\ subBuffer'[g] = <<>>
    <3>1. CASE ~completed
      <4>1. FetchInstruction(Boot)
        BY <1>t, <2>2, <3>1, Completes
      <4>2. handler[Boot] = "fetch" /\ HandlerStep(Boot)
        BY <4>1 DEF FetchInstruction, AtHead, HandlerStep
      <4>3. handler[g] = "idle" /\ status[g] # "COMPLETED"
        BY <1>t, <3>1, <4>2 DEF OneHandler, Finished
      <4>4. handler'[g] = handler[g] /\ status'[g] = status[g]
        BY <1>t, <4>2, HartAlone
      <4> QED
        BY <2>2, <4>3, <4>4
    <3>2. CASE completed /\ g # h
      <4>1. /\ status'[g] = status[g] /\ handler'[g] = handler[g]
            /\ queue'[g] = queue[g] /\ subBuffer'[g] = subBuffer[g]
        BY <1>t, <1>8, <3>2, HartAlone
      <4> QED
        BY <1>t, <2>2, <3>2, <4>1 DEF Finished
    <3>3. CASE completed /\ g = h
      <4>1. queue[g] = <<>> /\ subBuffer[g] = <<>>
        BY <1>t, <1>8, <2>2, <3>3, Finishes DEF Finished
      <4>2. UNCHANGED channelVars
        BY <1>t, <1>8, <3>3, <4>1, HartReceives DEF Take, TakeMessage, PopFront
      <4> QED
        BY <4>1, <4>2 DEF channelVars
    <3> QED
      BY <3>1, <3>2, <3>3
  <2> QED
    BY <1>1, <2>1, <2>2 DEF Finished
<1> QED
  BY <1>4, <1>5, <1>6, <1>7, <1>8 DEF PipelineNext

LEMMA CompletionStep == CompletionInv /\ [PipelineNext]_pipelineVars => CompletionInv'
<1> SUFFICES ASSUME CompletionInv, [PipelineNext]_pipelineVars PROVE CompletionInv'
  OBVIOUS
<1>1. /\ PipeInv /\ WindowInv /\ JoinedGuests /\ OneRank /\ Joining /\ LastMarked /\ OneHandler
      /\ \A h \in Harts : sub[h] # "gone" /\ Quiet(h)
  BY DEF CompletionInv
<1>2. PipeInv' /\ WindowInv'
  BY <1>1, PipeStep, ContractStep, WindowStep
<1>3. JoinedGuests' /\ OneRank'
  BY <1>1 DEF JoinedGuests, Joined, Waits, Spawned, OneRank
<1>4. \A h \in Harts : sub'[h] # "gone" /\ Quiet(h)'
  BY <1>1, StaysSubscribed, QuietStep
<1>5. Joining' /\ LastMarked' /\ OneHandler' /\ Finished'
  BY <1>1, JoiningStep, LastMarkedStep, OneHandlerStep, FinishedStep
<1> QED
  BY <1>2, <1>3, <1>4, <1>5 DEF CompletionInv

\* A completed hart has drained its channel: nobody publishes any more.
LEMMA DrainedWhenCompleted == CompletionInv => CompletedDrained
<1> SUFFICES ASSUME CompletionInv, NEW h \in Harts, status[h] = "COMPLETED"
             PROVE  seen[h] = nextId[h] - 1
  BY DEF CompletedDrained
<1>1. completed /\ (h # Boot => queue[h] = <<>> /\ subBuffer[h] = <<>>)
  BY DEF CompletionInv, Finished
<1>2. CASE h = Boot
  BY <1>1, <1>2 DEF CompletionInv, Finished
<1>3. CASE h # Boot
  <2>1. pubBuffer[h] = <<>>
    BY <1>1, <1>3, NobodyRuns DEF CompletionInv, Finished
  <2>2. Intact(seen[h], <<>>, <<>>, <<>>, nextId[h])
    BY <1>1, <1>3, <2>1 DEF CompletionInv, WindowInv, IntactInv, StreamIntact, StreamIntactFor
  <2>3. nextId[h] = seen[h] + 1 /\ seen[h] \in Int
    <3>1. seen[h] \in Int /\ Len(<<>>) = 0
      BY EmptySeq DEF CompletionInv, PipeInv, TypeInv, TypeOK
    <3> QED
      BY <2>2, <3>1 DEF Intact, Start
  <2> QED
    BY <2>3
<1> QED
  BY <1>2, <1>3

\* A hart that has completed has consumed everything that was published for it, when the
\* guest's first thread waits for all others and one rank simulates the process: then no
\* hart is between its poll and its look at the process when that completes.
THEOREM CompletedAreDrained ==
    ASSUME Payload = EventData,
           \A p \in Programs : Joined(p),
           \A g, h \in Harts : Rank[g] = Rank[h]
    PROVE  PipelineSpec => []CompletedDrained
<1>1. PipelineInit => CompletionInv
  BY CompletionStart DEF JoinedGuests, OneRank
<1>2. CompletionInv => CompletedDrained
  BY DrainedWhenCompleted
<1> QED
  BY <1>1, <1>2, CompletionStep, PTL DEF PipelineSpec

------------------------------------------------------------------------------
(* RetireInOrder, for a guest that uses every vcpu once: the events on their   *)
(* way through a channel continue the numbering of what has been fetched.      *)

SpawnsOnce == \A p \in Programs : SpawnedOnce(p)

\* A vcpu gets its thread from the one call there is that starts it.
Spawning == \A g, h \in Harts : \A k \in DOMAIN program[h] : \A i \in DOMAIN program[h][k] :
    Starts(program, h, k, i, g) /\ vcpu[g] # "absent" =>
        vcpu[h] # "absent" /\ life[h] = k /\ ip[h] > i

\* The plugin counts what the vcpu executes, and keeps the last of it.
Counting(h) ==
    /\ vcpu[h] \in {"absent", "created"} => instCount[h] = 0
    /\ vcpu[h] \in {"syscall", "kernel", "exiting", "dead"} => instCount[h] # 0
    /\ instCount[h] # 0 => lastInst[h].uid = instCount[h] - 1

\* How many instructions of the vcpu have been published.
Published(h) == IF instCount[h] = 0 \/ vcpu[h] = "dead" THEN instCount[h] ELSE instCount[h] - 1

\* u[n] instructions are published before event n.
Counts(h, u) ==
    /\ seen[h] < nextId[h]
    /\ u[seen[h] + 1] = instret[h] + Len(instBuffer[h])
    /\ \A e \in InFlight(h) :
          /\ e.id < nextId[h]
          /\ IF e.data.tag = "insn" THEN e.data.inst.uid = u[e.id] /\ u[e.id + 1] = u[e.id] + 1
                                    ELSE u[e.id + 1] = u[e.id]
    /\ u[nextId[h]] = Published(h)

\* The fetched instructions are the next ones to retire.
Buffered(h) == \A i \in 1 .. Len(instBuffer[h]) : instBuffer[h][i].uid = instret[h] + i - 1

OrderInv ==
    /\ SpawnsOnce
    /\ PipeInv /\ WindowInv /\ Spawning
    /\ \A h \in Harts : /\ sub[h] # "gone" /\ Counting(h) /\ Buffered(h)
                        /\ \E u \in [Int -> Int] : Counts(h, u)

------------------------------------------------------------------------------
\* What a step of the guest leaves alone of another hart, and how it starts a thread there.
LEMMA GuestFrame ==
    ASSUME PipeInv, NEW h \in Harts, GuestStep(h), NEW g \in Harts, g # h
    PROVE  /\ InFlight(g)' = InFlight(g)
           /\ UNCHANGED <<nextId[g], instCount[g], lastInst[g]>>
           /\ \/ UNCHANGED <<vcpu[g], life[g], ip[g]>>
              \/ /\ vcpu[h] = "kernel" /\ g \in Spawned(Insn(h))
                 /\ vcpu[g] = "absent" \/ Exited(g)
                 /\ vcpu'[g] = "created" /\ life'[g] = Insn(h).spawn[g] /\ ip'[g] = 1
<1>t. TypeOK /\ CpuTypeOK /\ Payload = EventData
  BY DEF PipeInv, TypeInv
<1>1. InFlight(g)' = InFlight(g) /\ nextId'[g] = nextId[g]
  <2>1. CASE UNCHANGED channelVars \/ NewPublisher(h)
    <3>1. UNCHANGED <<subBuffer, queue, pubBuffer, nextId>>
      BY <2>1 DEF channelVars, NewPublisher, subVars
    <3> QED
      BY <3>1, FlightFrame
  <2>2. ASSUME NEW data \in EventData, NEW force \in BOOLEAN, Publish(h, data, force)
        PROVE  InFlight(g)' = InFlight(g) /\ nextId'[g] = nextId[g]
    BY <1>t, <2>2, FlightPublish
  <2> QED
    BY <2>1, <2>2, GuestPublishes
<1>2. CASE ThreadInitialize(h) \/ Syscall(h) \/ ThreadExit(h)
  BY <1>t, <1>1, <1>2 DEF ThreadInitialize, Syscall, ThreadExit, CpuTypeOK
<1>3. CASE ExecuteInstruction(h)
  <2>1. PICK inst : lastInst' = [lastInst EXCEPT ![h] = inst]
    BY <1>3 DEF ExecuteInstruction
  <2>2. /\ instCount' = [instCount EXCEPT ![h] = @ + 1] /\ life' = life
        /\ ip' = ip \/ ip' = [ip EXCEPT ![h] = @ + 1]
        /\ vcpu' = vcpu \/ vcpu' = [vcpu EXCEPT ![h] = "syscall"]
    BY <1>3 DEF ExecuteInstruction
  <2> QED
    BY <1>t, <1>1, <2>1, <2>2 DEF CpuTypeOK
<1>4. CASE SyscallReturn(h)
  <2> DEFINE inst == Insn(h)
  <2>1. /\ vcpu[h] = "kernel" /\ UNCHANGED <<instCount, lastInst>>
        /\ \A x \in Spawned(inst) : vcpu[x] = "absent" \/ Exited(x)
        /\ vcpu' = [x \in Harts |->
                     IF x \in Spawned(inst) THEN "created"
                     ELSE IF x # h THEN vcpu[x]
                     ELSE IF inst.call = "exit" THEN "exiting" ELSE "running"]
        /\ life' = [x \in Harts |-> IF x \in Spawned(inst) THEN inst.spawn[x] ELSE life[x]]
        /\ ip' = [x \in Harts |-> IF x \in Spawned(inst) THEN 1
                                  ELSE IF x = h THEN ip[x] + 1 ELSE ip[x]]
    BY <1>4 DEF SyscallReturn, Callback
  <2> HIDE DEF inst
  <2>2. CASE g \in Spawned(inst)
    BY <1>1, <2>1, <2>2 DEF inst
  <2>3. CASE g \notin Spawned(inst)
    BY <1>1, <2>1, <2>3
  <2> QED
    BY <2>2, <2>3
<1> QED
  BY <1>2, <1>3, <1>4 DEF GuestStep

\* A call starts its threads on vcpus that have had none.
LEMMA SpawnFresh ==
    ASSUME PipeInv, SpawnsOnce, Spawning, NEW h \in Harts, vcpu[h] = "kernel",
           NEW g \in Spawned(Insn(h))
    PROVE  vcpu[g] = "absent" /\ g # h /\ g # Boot
<1>1. program \in Programs /\ AtInstruction(h) /\ g \in Harts
  BY DEF PipeInv, GuestOK, Spawned
<1>2. Starts(program, h, life[h], ip[h], g)
  BY <1>1 DEF AtInstruction, Starts, Insn
<1>3. vcpu[g] = "absent"
  <2>1. ip[h] \in Nat
    BY DEF PipeInv, CpuTypeOK
  <2>2. ASSUME vcpu[g] # "absent" PROVE ip[h] > ip[h]
    BY <1>1, <1>2, <2>2 DEF Spawning, AtInstruction
  <2> QED
    BY <2>1, <2>2
<1>4. g # Boot
  BY <1>1, <1>2 DEF SpawnsOnce, SpawnedOnce, AtInstruction
<1> QED
  BY <1>3, <1>4

\* No two calls start a thread on the same vcpu.
LEMMA StartsOnce ==
    ASSUME PipeInv, SpawnsOnce, NEW g \in Harts, NEW h1 \in Harts, NEW h2 \in Harts,
           NEW k1, NEW k2, NEW i1, NEW i2,
           Starts(program, h1, k1, i1, g), Starts(program, h2, k2, i2, g)
    PROVE  h1 = h2 /\ k1 = k2 /\ i1 = i2 /\ g # Boot
BY DEF PipeInv, GuestOK, SpawnsOnce, SpawnedOnce, Starts

LEMMA SpawningStep ==
    ASSUME PipeInv, SpawnsOnce, Spawning, [PipelineNext]_pipelineVars
    PROVE  Spawning'
<1>t. CpuTypeOK /\ GuestOK /\ program' = program
  BY DEF PipeInv, PipelineNext, pipelineVars, BootSystem, RegisterISS, GuestStep, ThreadInitialize,
         ExecuteInstruction, Syscall, SyscallReturn, ThreadExit, TransportStep, Dispatch,
         StartupEvent, TickEvent, WakeInactive, PollInactive, WakeBlocked, HandlerStep, Front,
         InitCPUState, FirstEventAssertion, FetchSyscall, FetchInstruction, FetchMismatch, Execute,
         CheckProcess
<1> SUFFICES ASSUME NEW g \in Harts, NEW f \in Harts,
                    NEW k \in DOMAIN program[f], NEW i \in DOMAIN program[f][k],
                    Starts(program, f, k, i, g), vcpu'[g] # "absent"
             PROVE  vcpu'[f] # "absent" /\ life'[f] = k /\ ip'[f] > i
  BY <1>t DEF Spawning, Starts
<1>1. vcpu[g] # "absent" => vcpu[f] # "absent" /\ life[f] = k /\ ip[f] > i
  BY DEF Spawning
<1>2. CASE UNCHANGED <<vcpu, life, ip>>
  BY <1>1, <1>2
<1>3. CASE BootSystem
  BY <1>3, BootFirst, StartsOnce DEF PipeInv
<1>4. ASSUME NEW h \in Harts, GuestStep(h)
      PROVE  vcpu'[f] # "absent" /\ life'[f] = k /\ ip'[f] > i
  <2>i. ip[f] \in Nat /\ ip[h] \in Nat /\ i \in Nat
    <3>1. program[f] \in Seq(Seq(Instruction))
      BY <1>t, ProgramsAssumption DEF GuestOK, WellFormed
    <3>2. program[f][k] \in Seq(Instruction)
      BY <3>1, ElementOfSeq
    <3>3. DOMAIN program[f][k] = 1 .. Len(program[f][k]) /\ Len(program[f][k]) \in Nat
      BY <3>2, LenProperties
    <3>4. i \in Nat
      BY <3>3
    <3> QED
      BY <1>t, <3>4 DEF CpuTypeOK
  <2>1. vcpu[h] # "absent"
    BY <1>4 DEF GuestStep, ThreadInitialize, ExecuteInstruction, Syscall, SyscallReturn, ThreadExit,
                Callback
\* A thread that has made the call goes on from there ...
  <2>2. ASSUME vcpu[f] # "absent", life[f] = k, ip[f] > i
        PROVE  vcpu'[f] # "absent" /\ life'[f] = k /\ ip'[f] > i
    <3>1. CASE f # h
      <4>1. ~(vcpu[h] = "kernel" /\ f \in Spawned(Insn(h)))
        BY <2>2, SpawnFresh
      <4> QED
        BY <1>4, <2>2, <3>1, <4>1, GuestFrame
    <3>2. CASE f = h
      <4>1. CASE ThreadInitialize(h) \/ Syscall(h) \/ ThreadExit(h)
        BY <1>t, <2>2, <3>2, <4>1 DEF ThreadInitialize, Syscall, ThreadExit, CpuTypeOK
      <4>2. CASE ExecuteInstruction(h)
        <5>1. /\ life' = life
              /\ ip' = ip \/ ip' = [ip EXCEPT ![h] = @ + 1]
              /\ vcpu' = vcpu \/ vcpu' = [vcpu EXCEPT ![h] = "syscall"]
          BY <4>2 DEF ExecuteInstruction
        <5>2. vcpu'[h] # "absent" /\ life'[h] = k
          BY <1>t, <2>2, <3>2, <5>1 DEF CpuTypeOK
        <5>3. ip'[h] = ip[h] \/ ip'[h] = ip[h] + 1
          BY <1>t, <5>1 DEF CpuTypeOK
        <5>4. ip'[h] > i
          BY <2>i, <2>2, <3>2, <5>3
        <5> QED
          BY <3>2, <5>2, <5>4
      <4>3. CASE SyscallReturn(h)
        <5>1. vcpu[h] = "kernel"
          BY <4>3 DEF SyscallReturn, Callback
        <5>2. h \notin Spawned(Insn(h))
          BY <5>1, SpawnFresh
        <5>3. vcpu'[h] # "absent" /\ life'[h] = life[h] /\ ip'[h] = ip[h] + 1
          BY <4>3, <5>2 DEF SyscallReturn
        <5> QED
          BY <2>i, <2>2, <3>2, <5>3
      <4> QED
        BY <1>4, <4>1, <4>2, <4>3 DEF GuestStep
    <3> QED
      BY <3>1, <3>2
\* ... and a new thread has just been started by this one.
  <2>3. CASE vcpu[g] = "absent"
    <3>1. g # h
      BY <2>1, <2>3
    <3>2. vcpu[h] = "kernel" /\ g \in Spawned(Insn(h))
      BY <1>4, <2>3, <3>1, GuestFrame
    <3>3. Starts(program, h, life[h], ip[h], g)
      BY <1>t, <3>2 DEF GuestOK, AtInstruction, Starts, Insn
    <3>4. f = h /\ k = life[h] /\ i = ip[h]
      BY <3>3, StartsOnce
    <3>5. SyscallReturn(h)
      BY <1>4, <3>2 DEF GuestStep, ThreadInitialize, ExecuteInstruction, Syscall, ThreadExit, Callback
    <3>6. h \notin Spawned(Insn(h))
      BY <3>2, SpawnFresh
    <3>7. vcpu'[h] # "absent" /\ life'[h] = life[h] /\ ip'[h] = ip[h] + 1
      BY <3>5, <3>6 DEF SyscallReturn
    <3> QED
      BY <2>i, <3>4, <3>7
  <2> QED
    BY <1>1, <2>2, <2>3
<1>5. ASSUME NEW h \in Harts, Dispatch(h) \/ HandlerStep(h) PROVE UNCHANGED <<vcpu, life, ip>>
  BY <1>5, HartKeeps DEF guestVars
<1>6. ASSUME NEW h \in Harts, RegisterISS(h) \/ TransportStep(h) PROVE UNCHANGED <<vcpu, life, ip>>
  BY <1>6, TransportKeeps DEF guestVars
<1>7. CASE UNCHANGED pipelineVars
  BY <1>2, <1>7 DEF pipelineVars, guestVars
<1> QED
  BY <1>2, <1>3, <1>4, <1>5, <1>6, <1>7 DEF PipelineNext

------------------------------------------------------------------------------
\* What is on its way are events.
LEMMA FlightTyped ==
    ASSUME TypeOK, NEW h \in Harts
    PROVE  InFlight(h) \subseteq Event
<1>1. /\ subBuffer[h] \in Seq(Event) /\ pubBuffer[h] \in Seq(Event) /\ queue[h] \in Seq(Message)
  BY DEF TypeOK, Message
<1>2. \A i \in 1 .. Len(queue[h]) : queue[h][i] \in Seq(Event)
  BY <1>1, ElementOfSeq DEF Message
<1>3. \A m \in Seq(Event) : Elements(m) \subseteq Event
  BY ElementOfSeq DEF Elements
<1> QED
  BY <1>1, <1>2, <1>3 DEF InFlight

\* Publishing the next instruction, or a system call, continues the numbering.
LEMMA CountsPublish ==
    ASSUME TypeOK, CpuTypeOK, NEW h \in Harts, NEW u \in [Int -> Int], Counts(h, u),
           NEW data \in Payload, NEW force, Publish(h, data, force),
           UNCHANGED <<instret, instBuffer>>,
           data.tag = "insn" => data.inst.uid = Published(h) /\ Published(h)' = Published(h) + 1,
           data.tag # "insn" => Published(h)' = Published(h)
    PROVE  \E v \in [Int -> Int] : Counts(h, v)'
<1> DEFINE e == [id |-> nextId[h], data |-> data]
<1>1. nextId[h] \in Int /\ seen[h] \in Int /\ instret[h] \in Nat
  BY DEF TypeOK, CpuTypeOK
<1>2. Published(h) \in Int /\ Published(h)' \in Int
  <2>1. Published(h) \in Int
    BY DEF Published, CpuTypeOK
  <2> QED
    BY <2>1
<1>3. PICK v \in [Int -> Int] : v = [u EXCEPT ![nextId[h] + 1] = Published(h)']
  BY <1>1, <1>2
<1>4. /\ v[nextId[h] + 1] = Published(h)'
      /\ \A j \in Int : j # nextId[h] + 1 => v[j] = u[j]
  BY <1>1, <1>3
<1>5. InFlight(h)' = InFlight(h) \union {e} /\ nextId'[h] = nextId[h] + 1 /\ seen' = seen
  BY FlightPublish DEF Publish, subVars
<1>l. seen[h] < nextId[h]
  BY DEF Counts
<1>6. u[seen[h] + 1] = instret[h] + Len(instBuffer[h]) /\ u[nextId[h]] = Published(h)
  BY DEF Counts
<1>7. v[nextId[h]] = u[nextId[h]] /\ v[seen[h] + 1] = u[seen[h] + 1]
  <2>1. /\ nextId[h] # nextId[h] + 1 /\ seen[h] + 1 # nextId[h] + 1 /\ seen[h] + 1 \in Int
    BY <1>1, <1>l
  <2> QED
    BY <1>1, <1>4, <2>1
<1>8. ASSUME NEW x \in InFlight(h)
      PROVE  /\ x.id < nextId[h] + 1
             /\ IF x.data.tag = "insn" THEN x.data.inst.uid = v[x.id] /\ v[x.id + 1] = v[x.id] + 1
                                       ELSE v[x.id + 1] = v[x.id]
  <2>1. x.id \in Int
    BY <1>8, FlightTyped DEF Event
  <2>2. /\ x.id < nextId[h]
        /\ IF x.data.tag = "insn" THEN x.data.inst.uid = u[x.id] /\ u[x.id + 1] = u[x.id] + 1
                                  ELSE u[x.id + 1] = u[x.id]
    BY <1>8 DEF Counts
  <2>3. /\ x.id < nextId[h] + 1 /\ x.id + 1 \in Int
        /\ x.id # nextId[h] + 1 /\ x.id + 1 # nextId[h] + 1
    BY <1>1, <2>1, <2>2
  <2>4. v[x.id] = u[x.id] /\ v[x.id + 1] = u[x.id + 1]
    BY <1>4, <2>1, <2>3
  <2> QED
    BY <2>2, <2>3, <2>4
<1>9. /\ e.id < nextId[h] + 1
      /\ IF e.data.tag = "insn" THEN e.data.inst.uid = v[e.id] /\ v[e.id + 1] = v[e.id] + 1
                                ELSE v[e.id + 1] = v[e.id]
  <2>1. e.id = nextId[h] /\ e.data = data /\ nextId[h] < nextId[h] + 1
    BY <1>1
  <2> HIDE DEF e
  <2>2. v[e.id] = Published(h) /\ v[e.id + 1] = Published(h)'
    BY <1>4, <1>6, <1>7, <2>1
  <2> QED
    BY <2>1, <2>2
<1> HIDE DEF e
<1>10. seen'[h] < nextId'[h]
  BY <1>1, <1>5, <1>l
<1>11. v[seen'[h] + 1] = instret'[h] + Len(instBuffer'[h])
  BY <1>5, <1>6, <1>7
<1>12. v[nextId'[h]] = Published(h)'
  BY <1>4, <1>5
<1>13. Counts(h, v)'
  BY <1>5, <1>8, <1>9, <1>10, <1>11, <1>12 DEF Counts
<1> QED
  BY <1>13

\* The event that is popped is the next one.
LEMMA HeadFollows ==
    ASSUME WindowInv, NEW h \in Harts, sub[h] # "gone", subBuffer[h] # <<>>
    PROVE  /\ Head(subBuffer[h]) \in InFlight(h) /\ Head(subBuffer[h]) \in Event
           /\ Head(subBuffer[h]).id = seen[h] + 1 /\ seen[h] \in Int
<1>1. subBuffer[h] \in Seq(Event) /\ seen[h] \in Int
  BY DEF WindowInv, IntactInv, TypeInv, TypeOK, Message
<1>2. Numbered(subBuffer[h], seen[h] + 1)
  BY DEF WindowInv, IntactInv, StreamIntact, StreamIntactFor, Intact
<1>3. 1 \in 1 .. Len(subBuffer[h]) /\ Head(subBuffer[h]) = subBuffer[h][1]
  BY <1>1, EmptySeq, LenProperties, HeadTailProperties
<1>4. subBuffer[h][1].id = seen[h] + 1
  BY <1>1, <1>2, <1>3 DEF Numbered
<1>5. Head(subBuffer[h]) \in InFlight(h) /\ Head(subBuffer[h]) \in Event
  BY <1>1, <1>3, ElementOfSeq DEF InFlight, Elements
<1> QED
  BY <1>1, <1>3, <1>4, <1>5

\* What is popped moves from the channel to the instruction buffer, if it is an instruction.
LEMMA CountsPop ==
    ASSUME PipeInv, WindowInv, NEW h \in Harts, sub[h] # "gone",
           NEW u \in [Int -> Int], Counts(h, u), PopFront(h), UNCHANGED <<vcpu, instCount>>,
           instret' = instret,
           instBuffer'[h] = IF First(h).tag = "insn" THEN Append(instBuffer[h], First(h).inst)
                                                     ELSE instBuffer[h]
    PROVE  /\ Counts(h, u)'
           /\ First(h).tag = "insn" => First(h).inst.uid = instret[h] + Len(instBuffer[h])
<1> DEFINE e == Head(subBuffer[h])
<1>1. subBuffer[h] # <<>> /\ TypeOK /\ CpuTypeOK
  BY DEF PopFront, PipeInv, TypeInv
<1>2. e \in InFlight(h) /\ e.id = seen[h] + 1 /\ seen[h] \in Int
  BY <1>1, HeadFollows
<1>3. seen'[h] = seen[h] + 1 /\ nextId' = nextId
  BY <1>1, <1>2 DEF PopFront, TypeOK, pubVars
<1>4. InFlight(h)' \subseteq InFlight(h)
  BY <1>1, FlightMoves
<1>5. Published(h)' = Published(h)
  BY DEF Published
<1>6. /\ e.id < nextId[h]
      /\ IF e.data.tag = "insn" THEN e.data.inst.uid = u[e.id] /\ u[e.id + 1] = u[e.id] + 1
                                ELSE u[e.id + 1] = u[e.id]
  BY <1>2 DEF Counts
<1>7. u[seen[h] + 1] = instret[h] + Len(instBuffer[h])
  BY DEF Counts
<1>8. First(h) = e.data
  BY DEF First
<1>9. instBuffer[h] \in Seq(Inst) /\ instret[h] \in Nat
  BY <1>1 DEF CpuTypeOK
<1> HIDE DEF e
<1>10. u[seen'[h] + 1] = instret'[h] + Len(instBuffer'[h])
  <2>1. CASE e.data.tag = "insn"
    <3>1. instBuffer'[h] = Append(instBuffer[h], e.data.inst)
      BY <1>8, <2>1
    <3>2. e.data.inst \in Inst
      <4>1. e.data \in EventData
        BY <1>1, HeadFollows DEF Event, PipeInv, e
      <4> QED
        BY <4>1 DEF EventData
    <3>3. Len(instBuffer'[h]) = Len(instBuffer[h]) + 1
      BY <1>9, <3>1, <3>2, AppendProperties
    <3>4. u[e.id + 1] = u[e.id] + 1 /\ Len(instBuffer[h]) \in Nat
      BY <1>6, <1>9, <2>1, LenProperties
    <3>5. u[e.id] = instret[h] + Len(instBuffer[h]) /\ u[seen'[h] + 1] = u[e.id + 1]
      BY <1>2, <1>3, <1>7
    <3>6. \A a, b \in Nat : (a + b) + 1 = a + (b + 1)
      OBVIOUS
    <3>7. u[e.id + 1] = instret[h] + (Len(instBuffer[h]) + 1)
      BY <1>9, <3>4, <3>5, <3>6, Zenon
    <3> QED
      BY <1>3, <3>3, <3>5, <3>7
  <2>2. CASE e.data.tag # "insn"
    BY <1>2, <1>3, <1>6, <1>7, <1>8, <2>2
  <2> QED
    BY <2>1, <2>2
<1>11. First(h).tag = "insn" => First(h).inst.uid = instret[h] + Len(instBuffer[h])
  BY <1>2, <1>6, <1>7, <1>8
<1>12. seen'[h] < nextId'[h]
  BY <1>2, <1>3, <1>6
<1>13. \A x \in InFlight(h)' :
          /\ x.id < nextId'[h]
          /\ IF x.data.tag = "insn" THEN x.data.inst.uid = u[x.id] /\ u[x.id + 1] = u[x.id] + 1
                                    ELSE u[x.id + 1] = u[x.id]
  BY <1>3, <1>4 DEF Counts
<1>14. u[nextId'[h]] = Published(h)'
  BY <1>3, <1>5 DEF Counts
<1>15. Counts(h, u)'
  BY <1>10, <1>12, <1>13, <1>14 DEF Counts
<1> QED
  BY <1>11, <1>15

\* Nothing else the simulated hart or the transport does touches the numbering.
LEMMA CountsFrame ==
    ASSUME NEW h, NEW u, Counts(h, u), InFlight(h)' \subseteq InFlight(h),
           UNCHANGED <<seen[h], nextId[h], Published(h)>>,
           instret'[h] + Len(instBuffer'[h]) = instret[h] + Len(instBuffer[h])
    PROVE  Counts(h, u)'
BY DEF Counts

\* The callbacks of the plugin number the instructions they publish.
LEMMA GuestCounts ==
    ASSUME OrderInv, NEW h \in Harts, GuestStep(h)
    PROVE  Counting(h)' /\ \E v \in [Int -> Int] : Counts(h, v)'
<1>t. /\ TypeOK /\ CpuTypeOK /\ PipeInv /\ Payload = EventData /\ SpawnsOnce /\ Spawning
      /\ Counting(h)
  BY DEF OrderInv, PipeInv, TypeInv
<1>u. PICK u \in [Int -> Int] : Counts(h, u)
  BY DEF OrderInv
<1>a. UNCHANGED <<seen, instret, instBuffer, subBuffer>>
  BY OutsideAlone DEF cpuVars, fetchVars
<1>s. ASSUME UNCHANGED channelVars \/ NewPublisher(h), Published(h)' = Published(h)
      PROVE  \E v \in [Int -> Int] : Counts(h, v)'
  <2>1. UNCHANGED <<subBuffer, queue, pubBuffer, nextId>>
    BY <1>s DEF channelVars, NewPublisher, subVars
  <2>2. InFlight(h)' \subseteq InFlight(h)
    BY <2>1, FlightFrame
  <2>3. Counts(h, u)'
    BY <1>u, <1>a, <1>s, <2>1, <2>2, CountsFrame
  <2> QED
    BY <2>3
<1>1. CASE ThreadInitialize(h)
  <2>1. /\ vcpu[h] = "created" /\ vcpu'[h] = "running" /\ UNCHANGED <<instCount, lastInst>>
        /\ UNCHANGED channelVars \/ NewPublisher(h)
    BY <1>1, <1>t DEF ThreadInitialize, CpuTypeOK
  <2>2. instCount[h] = 0
    BY <1>t, <2>1 DEF Counting
  <2>3. Counting(h)' /\ Published(h)' = Published(h)
    BY <2>1, <2>2 DEF Counting, Published
  <2> QED
    BY <1>s, <2>1, <2>3
<1>2. CASE ExecuteInstruction(h)
  <2> DEFINE inst == Insn(h)
             base == IF Executed(h) THEN Previous(h, inst) ELSE lastInst[h]
  <2>1. /\ vcpu[h] = "running" /\ vcpu'[h] \in {"running", "syscall"}
        /\ instCount'[h] = instCount[h] + 1
    BY <1>2, <1>t DEF ExecuteInstruction, Callback, CpuTypeOK
  <2>2. inst \in Instruction
    BY <1>t, <2>1, InsnTyped
  <2>3. base \in Inst
    BY <1>t, <2>2, PreviousTyped DEF CpuTypeOK
  <2>4. base.uid = lastInst[h].uid
    <3>1. lastInst[h] \in Inst
      BY <1>t DEF CpuTypeOK
    <3> QED
      BY <3>1 DEF Previous, Inst
  <2>5. /\ lastInst' = [lastInst EXCEPT ![h] =
               [base EXCEPT !.uid = Uid(h), !.pc = inst.pc, !.len = inst.len]]
        /\ IF Executed(h) THEN Publish(h, InsnEvent(base, FALSE), FALSE)
                          ELSE UNCHANGED channelVars
    BY <1>2 DEF ExecuteInstruction
  <2> HIDE DEF base, inst
  <2>6. lastInst'[h].uid = instCount[h]
    <3>1. lastInst'[h] = [base EXCEPT !.uid = Uid(h), !.pc = inst.pc, !.len = inst.len]
      BY <1>t, <2>5 DEF CpuTypeOK
    <3> QED
      BY <2>3, <3>1 DEF Inst, Uid
  <2>7. instCount[h] \in Nat
    BY <1>t DEF CpuTypeOK
  <2>8. Counting(h)' /\ Published(h)' = instCount[h]
    BY <2>1, <2>6, <2>7 DEF Counting, Published
  <2>9. CASE ~Executed(h)
    <3>1. Published(h)' = Published(h)
      BY <2>8, <2>9 DEF Executed, Published
    <3> QED
      BY <1>s, <2>5, <2>8, <2>9, <3>1
  <2>10. CASE Executed(h)
    <3>1. /\ Published(h) = instCount[h] - 1 /\ base.uid = Published(h)
          /\ Published(h)' = Published(h) + 1
      BY <1>t, <2>1, <2>4, <2>7, <2>8, <2>10 DEF Executed, Published, Counting
    <3>2. /\ InsnEvent(base, FALSE) \in Payload
          /\ InsnEvent(base, FALSE).tag = "insn" /\ InsnEvent(base, FALSE).inst = base
      BY <1>t, <2>3 DEF InsnEvent, EventData
    <3>3. \E v \in [Int -> Int] : Counts(h, v)'
      BY <1>t, <1>u, <1>a, <2>5, <2>10, <3>1, <3>2, CountsPublish
    <3> QED
      BY <2>8, <3>3
  <2> QED
    BY <2>9, <2>10
<1>3. CASE Syscall(h)
  <2>1. /\ vcpu[h] = "syscall" /\ vcpu'[h] = "kernel" /\ UNCHANGED <<instCount, lastInst>>
        /\ UNCHANGED channelVars \/ Publish(h, SyscallEvent, TRUE)
    BY <1>3, <1>t DEF Syscall, Callback, CpuTypeOK
  <2>2. Counting(h)' /\ Published(h)' = Published(h)
    BY <1>t, <2>1 DEF Counting, Published
  <2>3. SyscallEvent \in Payload /\ SyscallEvent.tag # "insn"
    BY <1>t DEF SyscallEvent, EventData, NullInst, Inst
  <2>4. CASE Publish(h, SyscallEvent, TRUE)
    BY <1>t, <1>u, <1>a, <2>2, <2>3, <2>4, CountsPublish
  <2> QED
    BY <1>s, <2>1, <2>2, <2>4
<1>4. CASE SyscallReturn(h)
  <2>1. /\ vcpu[h] = "kernel" /\ UNCHANGED <<instCount, lastInst, channelVars>>
    BY <1>4 DEF SyscallReturn, Callback
  <2>2. h \notin Spawned(Insn(h))
    BY <1>t, <2>1, SpawnFresh
  <2>3. vcpu'[h] \in {"exiting", "running"}
    BY <1>4, <2>2 DEF SyscallReturn
  <2>4. Counting(h)' /\ Published(h)' = Published(h)
    BY <1>t, <2>1, <2>3 DEF Counting, Published
  <2> QED
    BY <1>s, <2>1, <2>4
<1>5. CASE ThreadExit(h)
  <2>1. /\ vcpu[h] = "exiting" /\ vcpu'[h] = "dead" /\ UNCHANGED <<instCount, lastInst>>
        /\ Publish(h, InsnEvent(lastInst[h], TRUE), TRUE)
    BY <1>5, <1>t DEF ThreadExit, Callback, CpuTypeOK
  <2>2. instCount[h] \in Nat /\ lastInst[h] \in Inst
    BY <1>t DEF CpuTypeOK
  <2>3. /\ Counting(h)' /\ Published(h)' = Published(h) + 1 /\ lastInst[h].uid = Published(h)
    BY <1>t, <2>1, <2>2 DEF Counting, Published
  <2>4. /\ InsnEvent(lastInst[h], TRUE) \in Payload
        /\ InsnEvent(lastInst[h], TRUE).tag = "insn" /\ InsnEvent(lastInst[h], TRUE).inst = lastInst[h]
    BY <1>t, <2>2 DEF InsnEvent, EventData
  <2> QED
    BY <1>t, <1>u, <1>a, <2>1, <2>3, <2>4, CountsPublish
<1> QED
  BY <1>1, <1>2, <1>3, <1>4, <1>5 DEF GuestStep

\* A simulated hart's step leaves what the others have fetched alone.
LEMMA FetchAlone ==
    ASSUME PipeInv, NEW h \in Harts, Dispatch(h) \/ HandlerStep(h), NEW g \in Harts, g # h
    PROVE  UNCHANGED <<instBuffer[g], instret[g], nextPc[g], fetchPc[g], fetchEnd[g], waking[g]>>
<1>1. /\ DOMAIN instBuffer = Harts /\ DOMAIN instret = Harts /\ DOMAIN nextPc = Harts
      /\ DOMAIN fetchPc = Harts /\ DOMAIN fetchEnd = Harts /\ DOMAIN waking = Harts
  BY DEF PipeInv, WakeInv, CpuTypeOK, WakeTypeOK
<1> USE <1>1
<1>2. CASE StartupEvent(h) \/ TickEvent(h) \/ WakeInactive(h) \/ PollInactive(h) \/ WakeBlocked(h)
  <2>1. CASE StartupEvent(h) \/ TickEvent(h)
    BY <2>1 DEF StartupEvent, TickEvent, BeginFetch, fetchVars
  <2>2. CASE WakeInactive(h) \/ PollInactive(h)
    BY <2>2 DEF WakeInactive, PollInactive, fetchVars
  <2>3. CASE WakeBlocked(h)
    BY <2>3 DEF WakeBlocked, fetchVars
  <2> QED
    BY <1>2, <2>1, <2>2, <2>3
<1>3. CASE \/ Front(h) \/ InitCPUState(h) \/ FirstEventAssertion(h) \/ FetchSyscall(h)
           \/ FetchMismatch(h) \/ CheckProcess(h)
  <2>1. CASE Front(h)
    BY <2>1 DEF Front, cpuVars, fetchVars
  <2>2. CASE InitCPUState(h)
    BY <2>2 DEF InitCPUState, BeginFetch
  <2>3. CASE FirstEventAssertion(h) \/ FetchSyscall(h)
    BY <2>3 DEF FirstEventAssertion, FetchSyscall, fetchVars
  <2>4. CASE FetchMismatch(h) \/ CheckProcess(h)
    BY <2>4 DEF FetchMismatch, CheckProcess, fetchVars
  <2> QED
    BY <1>3, <2>1, <2>2, <2>3, <2>4
<1>4. CASE FetchInstruction(h)
  BY <1>4 DEF FetchInstruction
<1>5. CASE Execute(h)
  <2>1. CASE instBuffer[h] = <<>>
    BY <1>5, <2>1 DEF Execute, Retire
  <2>2. CASE instBuffer[h] # <<>>
    <3>1. PICK pc : nextPc' = [nextPc EXCEPT ![h] = pc]
      BY <1>5, <2>2 DEF Execute, Retire
    <3>2. /\ instret' = [instret EXCEPT ![h] = @ + 1]
          /\ instBuffer' = [instBuffer EXCEPT ![h] = Tail(@)]
          /\ waking' = [waking EXCEPT ![h] = FALSE] /\ UNCHANGED <<fetchPc, fetchEnd>>
      BY <1>5, <2>2 DEF Execute, Retire
    <3> QED
      BY <3>1, <3>2
  <2> QED
    BY <2>1, <2>2
<1> QED
  BY <1>2, <1>3, <1>4, <1>5 DEF Dispatch, HandlerStep

\* What fetching and retiring do to the instruction buffer.
LEMMA BufferMoves ==
    ASSUME PipeInv, NEW h \in Harts, Dispatch(h) \/ HandlerStep(h)
    PROVE  \/ /\ UNCHANGED <<instBuffer, instret>>
              /\ UNCHANGED channelVars \/ Take(h) \/ FetchSyscall(h)
           \/ FetchInstruction(h)
           \/ /\ Execute(h) /\ UNCHANGED channelVars /\ instBuffer[h] # <<>>
              /\ instret'[h] = instret[h] + 1 /\ instBuffer'[h] = Tail(instBuffer[h])
<1>1. CpuTypeOK
  BY DEF PipeInv
<1>2. CASE Execute(h)
  <2>1. CASE instBuffer[h] = <<>>
    BY <1>2, <2>1 DEF Execute, Retire
  <2>2. CASE instBuffer[h] # <<>>
    BY <1>1, <1>2, <2>2 DEF Execute, Retire, CpuTypeOK
  <2> QED
    BY <2>1, <2>2
<1>3. CASE WakeInactive(h) \/ WakeBlocked(h) \/ Front(h)
  <2>1. ~PopFront(h) \/ subBuffer[h] # <<>>
    BY DEF PopFront
  <2>2. UNCHANGED <<instBuffer, instret>>
    BY <1>3 DEF WakeInactive, WakeBlocked, Front, fetchVars, cpuVars
  <2>3. TryTake(h) \/ Take(h)
    BY <1>3 DEF WakeInactive, WakeBlocked, Front
  <2>4. seen' = seen
    BY <2>3 DEF TryTake, Take, TakeMessage
  <2>5. ~Take(h) => subBuffer[h] = <<>>
    <3>1. CASE Front(h)
      BY <3>1 DEF Front
    <3>2. CASE WakeInactive(h) \/ WakeBlocked(h)
      <4>1. status[h] # "ACTIVE" /\ handler[h] = "idle"
        BY <3>2, FiresIdle DEF WakeInactive, WakeBlocked, PipeInv
      <4> QED
        BY <4>1 DEF PipeInv, DrainedFor
    <3> QED
      BY <1>3, <3>1, <3>2
  <2>6. Take(h)
    BY <2>3, <2>5 DEF Take, TryTake
  <2> QED
    BY <2>2, <2>6
<1>4. CASE FetchSyscall(h)
  BY <1>4 DEF FetchSyscall, fetchVars
<1>5. CASE \/ StartupEvent(h) \/ TickEvent(h) \/ PollInactive(h) \/ InitCPUState(h)
           \/ FirstEventAssertion(h) \/ FetchMismatch(h) \/ CheckProcess(h)
  BY <1>5 DEF StartupEvent, TickEvent, PollInactive, InitCPUState, FirstEventAssertion,
              FetchMismatch, CheckProcess, fetchVars
<1> QED
  BY <1>2, <1>3, <1>4, <1>5 DEF Dispatch, HandlerStep

\* An instruction that is appended to a buffer of n becomes its last.
LEMMA AppendedInst ==
    ASSUME NEW m \in Seq(Inst), NEW e \in Inst, NEW n \in Nat, n = Len(m)
    PROVE  /\ Len(Append(m, e)) = n + 1 /\ Append(m, e)[n + 1] = e
           /\ \A i \in 1 .. n : Append(m, e)[i] = m[i]
BY AppendProperties, LenProperties

\* Fetching takes the next instructions, and retiring takes the oldest of them.
LEMMA HartCounts ==
    ASSUME OrderInv, NEW h \in Harts, Dispatch(h) \/ HandlerStep(h)
    PROVE  Buffered(h)' /\ \E u \in [Int -> Int] : Counts(h, u)'
<1>t. TypeOK /\ CpuTypeOK /\ PipeInv /\ WindowInv /\ sub[h] # "gone" /\ Buffered(h)
  BY DEF OrderInv, PipeInv, TypeInv
<1>u. PICK u \in [Int -> Int] : Counts(h, u)
  BY DEF OrderInv
<1>g. UNCHANGED <<nextId, vcpu, instCount>> /\ InFlight(h)' \subseteq InFlight(h)
  BY <1>t, HartKeeps DEF guestVars
<1>p. Published(h)' = Published(h)
  BY <1>g DEF Published
<1>b. instBuffer[h] \in Seq(Inst) /\ instret[h] \in Nat /\ Len(instBuffer[h]) \in Nat
  BY <1>t, LenProperties DEF CpuTypeOK
<1>r. instret[h] \in Nat /\ Len(instBuffer[h]) \in Nat
  BY <1>b
<1>1. ASSUME UNCHANGED <<instBuffer, instret>>, UNCHANGED channelVars \/ Take(h)
      PROVE  Buffered(h)' /\ Counts(h, u)'
  <2>1. seen' = seen
    BY <1>1 DEF channelVars, Take, TakeMessage
  <2>2. Counts(h, u)'
    BY <1>u, <1>g, <1>p, <1>1, <2>1, CountsFrame
  <2> QED
    BY <1>t, <1>1, <2>2 DEF Buffered
<1>2. ASSUME UNCHANGED <<instBuffer, instret>>, FetchSyscall(h)
      PROVE  Buffered(h)' /\ Counts(h, u)'
  <2>1. PopFront(h) /\ First(h).tag # "insn"
    BY <1>2 DEF FetchSyscall
  <2>2. Counts(h, u)'
    BY <1>t, <1>u, <1>g, <1>2, <2>1, CountsPop
  <2> QED
    BY <1>t, <1>2, <2>2 DEF Buffered
<1>3. CASE FetchInstruction(h)
  <2>1. /\ PopFront(h) /\ First(h).tag = "insn" /\ instret' = instret
        /\ instBuffer'[h] = Append(instBuffer[h], First(h).inst)
    BY <1>t, <1>3 DEF FetchInstruction, CpuTypeOK
  <2>2. Counts(h, u)' /\ First(h).inst.uid = instret[h] + Len(instBuffer[h])
    BY <1>t, <1>u, <1>g, <2>1, CountsPop
  <2>3. First(h).inst \in Inst
    <3>1. subBuffer[h] # <<>>
      BY <2>1 DEF PopFront
    <3>2. First(h) \in EventData
      BY <1>t, <3>1, HeadFollows DEF Event, PipeInv, First
    <3> QED
      BY <3>2 DEF EventData
  <2>4. PICK n \in Nat : n = Len(instBuffer[h])
    BY <1>b
  <2>5. /\ Len(instBuffer'[h]) = n + 1 /\ instBuffer'[h][n + 1] = First(h).inst
        /\ \A i \in 1 .. n : instBuffer'[h][i] = instBuffer[h][i]
    <3>1. PICK m \in Seq(Inst) : m = instBuffer[h]
      BY <1>b
    <3>2. PICK e \in Inst : e = First(h).inst
      BY <2>3
    <3>3. n = Len(m)
      BY <2>4, <3>1
    <3>4. /\ Len(Append(m, e)) = n + 1 /\ Append(m, e)[n + 1] = e
          /\ \A i \in 1 .. n : Append(m, e)[i] = m[i]
      BY <3>3, AppendedInst
    <3>5. instBuffer'[h] = Append(m, e)
      BY <2>1, <3>1, <3>2
    <3> QED
      BY <3>1, <3>2, <3>4, <3>5
  <2>6. ASSUME NEW i \in 1 .. n + 1 PROVE instBuffer'[h][i].uid = instret[h] + i - 1
    <3>1. CASE i \in 1 .. n
      BY <1>t, <2>4, <2>5, <3>1 DEF Buffered
    <3>2. CASE i = n + 1
      <4>1. instBuffer'[h][i].uid = instret[h] + n
        BY <2>2, <2>4, <2>5, <3>2
      <4>2. instret[h] + n = instret[h] + i - 1
        BY <1>r, <3>2
      <4> QED
        BY <4>1, <4>2
    <3>3. i \in 1 .. n \/ i = n + 1
      OBVIOUS
    <3> QED
      BY <3>1, <3>2, <3>3
  <2>7. Buffered(h)'
    BY <2>1, <2>5, <2>6 DEF Buffered
  <2> QED
    BY <2>2, <2>7
<1>4. ASSUME UNCHANGED channelVars, instBuffer[h] # <<>>, instret'[h] = instret[h] + 1,
             instBuffer'[h] = Tail(instBuffer[h])
      PROVE  Buffered(h)' /\ Counts(h, u)'
  <2>1. /\ Len(Tail(instBuffer[h])) = Len(instBuffer[h]) - 1
        /\ \A i \in 1 .. Len(Tail(instBuffer[h])) : Tail(instBuffer[h])[i] = instBuffer[h][i + 1]
    BY <1>b, <1>4, HeadTailProperties
  <2>2. instret'[h] + Len(instBuffer'[h]) = instret[h] + Len(instBuffer[h])
    <3>1. \A a, b \in Nat : (a + 1) + (b - 1) = a + b
      OBVIOUS
    <3>2. instret'[h] = instret[h] + 1 /\ Len(instBuffer'[h]) = Len(instBuffer[h]) - 1
      BY <1>4, <2>1
    <3> QED
      BY <1>r, <3>1, <3>2, Zenon
  <2>3. seen' = seen
    BY <1>4 DEF channelVars
  <2>4. Counts(h, u)'
    BY <1>u, <1>g, <1>p, <2>2, <2>3, CountsFrame
  <2>5. ASSUME NEW i \in 1 .. Len(instBuffer'[h])
        PROVE  instBuffer'[h][i].uid = instret'[h] + i - 1
    <3>1. i \in 1 .. Len(instBuffer[h]) - 1
      BY <1>4, <2>1, <2>5
    <3>2. i + 1 \in 1 .. Len(instBuffer[h]) /\ i \in Int
      BY <1>b, <3>1
    <3>3. instBuffer'[h][i] = instBuffer[h][i + 1]
      BY <1>4, <2>1, <3>1
    <3>4. instBuffer[h][i + 1].uid = instret[h] + (i + 1) - 1
      BY <1>t, <3>2 DEF Buffered
    <3>5. \A a, j \in Int : a + (j + 1) - 1 = (a + 1) + j - 1
      OBVIOUS
    <3>6. instret[h] \in Int
      BY <1>r
    <3> QED
      BY <1>4, <3>2, <3>3, <3>4, <3>5, <3>6, Zenon
  <2> QED
    BY <2>4, <2>5 DEF Buffered
<1> QED
  BY <1>t, <1>1, <1>2, <1>3, <1>4, BufferMoves

LEMMA OrderStart ==
    ASSUME SpawnsOnce, Payload = EventData, PipelineInit
    PROVE  OrderInv
<1>1. PipeInv /\ WindowInv
  BY PipeStart, WindowInit DEF PipelineInit
<1>2. Spawning /\ \A h \in Harts : sub[h] # "gone" /\ Counting(h)
  BY DEF PipelineInit, Init, Spawning, Counting
<1>3. ASSUME NEW h \in Harts PROVE Buffered(h) /\ \E u \in [Int -> Int] : Counts(h, u)
  <2> DEFINE u == [n \in Int |-> 0]
  <2>1. /\ subBuffer[h] = <<>> /\ queue[h] = <<>> /\ pubBuffer[h] = <<>> /\ Len(<<>>) = 0
        /\ instBuffer[h] = <<>> /\ instret[h] = 0 /\ instCount[h] = 0 /\ seen[h] = -1 /\ nextId[h] = 0
    BY EmptySeq DEF PipelineInit, Init
  <2>2. InFlight(h) = {} /\ Buffered(h)
    BY <2>1, ElementsEmpty DEF InFlight, Buffered
  <2>3. Published(h) = 0
    BY <2>1 DEF Published
  <2>4. u \in [Int -> Int] /\ u[0] = 0
    OBVIOUS
  <2> HIDE DEF u
  <2>5. Counts(h, u)
    BY <2>1, <2>2, <2>3, <2>4 DEF Counts
  <2> QED
    BY <2>2, <2>4, <2>5
<1> QED
  BY <1>1, <1>2, <1>3 DEF OrderInv

LEMMA OrderStep ==
    ASSUME OrderInv, [PipelineNext]_pipelineVars
    PROVE  OrderInv'
<1>t. PipeInv /\ WindowInv /\ SpawnsOnce /\ Spawning
  BY DEF OrderInv
<1>1. PipeInv' /\ WindowInv' /\ SpawnsOnce' /\ Spawning'
  BY <1>t, PipeStep, ContractStep, WindowStep, SpawningStep DEF SpawnsOnce, SpawnedOnce, Starts, Spawned
<1> SUFFICES ASSUME NEW g \in Harts
             PROVE  Counting(g)' /\ Buffered(g)' /\ \E u \in [Int -> Int] : Counts(g, u)'
  BY <1>t, <1>1, StaysSubscribed DEF OrderInv
<1>g. Counting(g) /\ Buffered(g)
  BY DEF OrderInv
<1>u. PICK u \in [Int -> Int] : Counts(g, u)
  BY DEF OrderInv
<1>2. ASSUME UNCHANGED <<vcpu[g], instCount[g], lastInst[g]>>
      PROVE  Counting(g)' /\ Published(g)' = Published(g)
  BY <1>g, <1>2 DEF Counting, Published
<1>3. ASSUME UNCHANGED <<instBuffer[g], instret[g], seen[g], nextId[g]>>,
             InFlight(g)' \subseteq InFlight(g), Published(g)' = Published(g)
      PROVE  Buffered(g)' /\ \E v \in [Int -> Int] : Counts(g, v)'
  <2>1. Counts(g, u)'
    BY <1>u, <1>3, CountsFrame
  <2> QED
    BY <1>g, <1>3, <2>1 DEF Buffered
<1>4. ASSUME NEW h \in Harts, RegisterISS(h) \/ TransportStep(h)
      PROVE  Counting(g)' /\ Buffered(g)' /\ \E v \in [Int -> Int] : Counts(g, v)'
  <2>1. UNCHANGED <<instBuffer, instret, seen>>
    BY <1>4, OutsideAlone DEF cpuVars, fetchVars
  <2>2. UNCHANGED <<nextId, vcpu, instCount, lastInst>> /\ InFlight(g)' \subseteq InFlight(g)
    BY <1>t, <1>4, TransportKeeps DEF guestVars
  <2> QED
    BY <1>2, <1>3, <2>1, <2>2
<1>5. ASSUME NEW h \in Harts, GuestStep(h)
      PROVE  Counting(g)' /\ Buffered(g)' /\ \E v \in [Int -> Int] : Counts(g, v)'
  <2>1. UNCHANGED <<instBuffer, instret, seen>>
    BY <1>5, OutsideAlone DEF cpuVars, fetchVars
  <2>2. CASE g = h
    BY <1>g, <1>5, <2>1, <2>2, GuestCounts DEF Buffered
  <2>3. CASE g # h
    <3>1. /\ UNCHANGED <<nextId[g], instCount[g], lastInst[g]>> /\ InFlight(g)' = InFlight(g)
          /\ \/ vcpu'[g] = vcpu[g]
             \/ vcpu[h] = "kernel" /\ g \in Spawned(Insn(h)) /\ vcpu'[g] = "created"
      BY <1>t, <1>5, <2>3, GuestFrame
    <3>2. CASE vcpu'[g] = vcpu[g]
      BY <1>2, <1>3, <2>1, <3>1, <3>2
    <3>3. CASE vcpu[h] = "kernel" /\ g \in Spawned(Insn(h)) /\ vcpu'[g] = "created"
      <4>1. vcpu[g] = "absent"
        BY <1>t, <3>3, SpawnFresh
      <4>2. instCount[g] = 0
        BY <1>g, <4>1 DEF Counting
      <4>3. Counting(g)' /\ Published(g)' = Published(g)
        BY <3>1, <3>3, <4>2 DEF Counting, Published
      <4> QED
        BY <1>3, <2>1, <3>1, <4>3
    <3> QED
      BY <3>1, <3>2, <3>3
  <2> QED
    BY <2>2, <2>3
<1>6. ASSUME NEW h \in Harts, Dispatch(h) \/ HandlerStep(h)
      PROVE  Counting(g)' /\ Buffered(g)' /\ \E v \in [Int -> Int] : Counts(g, v)'
  <2>1. UNCHANGED <<nextId, vcpu, instCount, lastInst>> /\ InFlight(g)' \subseteq InFlight(g)
    BY <1>t, <1>6, HartKeeps DEF guestVars
  <2>2. CASE g = h
    BY <1>2, <1>6, <2>1, <2>2, HartCounts
  <2>3. CASE g # h
    BY <1>t, <1>2, <1>3, <1>6, <2>1, <2>3, HartAlone, FetchAlone
  <2> QED
    BY <2>2, <2>3
<1>7. CASE BootSystem
  <2>1. /\ UNCHANGED <<channelVars, instCount, lastInst, instBuffer, instret>>
        /\ vcpu[g] = "absent" /\ vcpu'[g] \in {"absent", "created"}
    BY <1>t, <1>7, BootFirst DEF BootSystem, fetchVars
  <2>2. UNCHANGED <<seen, nextId>> /\ InFlight(g)' \subseteq InFlight(g)
    BY <2>1, FlightFrame DEF channelVars
  <2>3. instCount[g] = 0
    BY <1>g, <2>1 DEF Counting
  <2>4. Counting(g)' /\ Published(g)' = Published(g)
    BY <2>1, <2>3 DEF Counting, Published
  <2> QED
    BY <1>3, <2>1, <2>2, <2>4
<1>8. CASE UNCHANGED pipelineVars
  <2>1. UNCHANGED <<vcpu, instCount, lastInst, instBuffer, instret, seen, nextId>>
        /\ InFlight(g)' \subseteq InFlight(g)
    BY <1>8, FlightFrame DEF pipelineVars, channelVars, guestVars, cpuVars, fetchVars
  <2> QED
    BY <1>2, <1>3, <2>1
<1> QED
  BY <1>4, <1>5, <1>6, <1>7, <1>8 DEF PipelineNext

\* A hart retires the instructions in the order in which the emulated hart has executed
\* them, each once, for every guest that uses no vcpu twice: the uid of the instruction
\* that retires is the number of those that have.
THEOREM RetiresInOrder ==
    ASSUME Payload = EventData, \A p \in Programs : SpawnedOnce(p)
    PROVE  PipelineSpec => RetireInOrder
<1>1. PipelineInit => OrderInv
  BY OrderStart DEF SpawnsOnce
<1>2. OrderInv /\ [PipelineNext]_pipelineVars => OrderInv'
  BY OrderStep
<1>3. OrderInv /\ [PipelineNext]_pipelineVars =>
         [\A h \in Harts : instret'[h] # instret[h] => Head(instBuffer[h]).uid = instret[h]]_pipelineVars
  <2> SUFFICES ASSUME OrderInv, [PipelineNext]_pipelineVars,
                      NEW g \in Harts, instret'[g] # instret[g]
               PROVE  Head(instBuffer[g]).uid = instret[g]
    OBVIOUS
  <2>t. PipeInv /\ CpuTypeOK /\ Buffered(g)
    BY DEF OrderInv, PipeInv
  <2>1. ASSUME NEW h \in Harts, Dispatch(h) \/ HandlerStep(h)
        PROVE  instBuffer[g] # <<>>
    <3>1. g = h
      BY <2>t, <2>1, FetchAlone
    <3> QED
      BY <2>t, <2>1, <3>1, BufferMoves DEF FetchInstruction
  <2>2. ASSUME NEW h \in Harts, RegisterISS(h) \/ GuestStep(h) \/ TransportStep(h)
        PROVE  FALSE
    BY <2>2, OutsideAlone DEF cpuVars, fetchVars
  <2>3. instBuffer[g] # <<>>
    BY <2>1, <2>2 DEF PipelineNext, BootSystem, pipelineVars, cpuVars, fetchVars
  <2>4. instBuffer[g] \in Seq(Inst) /\ instret[g] \in Nat
    BY <2>t DEF CpuTypeOK
  <2>5. 1 \in 1 .. Len(instBuffer[g]) /\ Head(instBuffer[g]) = instBuffer[g][1]
    BY <2>3, <2>4, EmptySeq, LenProperties, HeadTailProperties
  <2>6. instBuffer[g][1].uid = instret[g] + 1 - 1
    BY <2>t, <2>5 DEF Buffered
  <2> QED
    BY <2>4, <2>5, <2>6
<1> QED
  BY <1>1, <1>2, <1>3, PTL DEF PipelineSpec, RetireInOrder

------------------------------------------------------------------------------
(* BlockedOnSyscall and NextPcFollows, for steady guests: the events on their   *)
(* way continue, pc by pc, where the simulated hart has got to.                 *)

SteadyGuests == \A p \in Programs : Steady(p)

\* What the plugin keeps of the vcpu's thread.
Known(h) ==
    /\ instCount[h] = 0 => /\ vcpu[h] \in {"absent", "created", "running"} /\ nextId[h] = 0
                           /\ vcpu[h] = "running" => ip[h] = 1
    /\ instCount[h] = 1 => /\ \/ vcpu[h] = "running" /\ ip[h] = 2
                              \/ vcpu[h] \in {"syscall", "kernel"} /\ ip[h] = 1
                           /\ lastInst[h].pc = program[h][life[h]][1].pc
    /\ instCount[h] >= 2 => lastInst[h].redirect
    /\ vcpu[h] = "created" => ip[h] = 1
    /\ vcpu[h] \in {"syscall", "kernel"} => lastInst[h].len = Insn(h).len
    /\ vcpu[h] = "exiting" => ip[h] >= 3
    /\ vcpu[h] \in {"exiting", "dead"} => lastInst[h].len = FetchWidth

\* Event e in a stream in which the events of s begin threads and p[n] is the pc of
\* the next instruction from event n on.
Linked(e, s, p) ==
    IF e.data.tag = "insn"
    THEN /\ e.data.inst.pc = p[e.id]
         /\ e.id \in s => ~e.data.last /\ e.data.inst.len = FetchWidth
         /\ e.id + 1 \in s <=> e.data.last
         /\ ~e.data.last => e.data.inst.redirect /\ e.data.inst.target = p[e.id + 1]
    ELSE /\ e.id + 1 \in s <=> e.id \in s
         /\ p[e.id + 1] = p[e.id]

Continues(h, s, p) ==
    /\ seen[h] < nextId[h]
    /\ \A e \in InFlight(h) : e.id < nextId[h] /\ Linked(e, s, p)

\* The emulated end of the stream ...
Ends(h, s, p) ==
    /\ instCount[h] # 0 => p[nextId[h]] = lastInst[h].pc
    /\ nextId[h] \in s => /\ instCount[h] # 0 => lastInst[h].len = FetchWidth
                          /\ vcpu[h] = "running" => ip[h] \in {1, 2}
                          /\ vcpu[h] \in {"syscall", "kernel"} => ip[h] = 1
                          /\ vcpu[h] # "exiting"

\* ... and the simulated one. wakeUpMonitor starts with the first event of a thread.
LastOf(b) == b[Len(b)]
Expected(h) == IF instBuffer[h] = <<>> THEN nextPc[h] ELSE LastOf(instBuffer[h]).target
Starting(h) == waking[h] /\ handler[h] = "fetch"
Going(h) == status[h] \in {"ACTIVE", "BLOCKED_SYSCALL"}

Begins(h, s, p) ==
    /\ status[h] = "INACTIVE" => seen[h] + 1 \in s
    /\ Starting(h) => /\ seen[h] + 1 \in s /\ subBuffer[h] # <<>> /\ First(h).tag = "insn"
                      /\ fetchPc[h] = First(h).inst.pc /\ fetchEnd[h] = fetchPc[h] + FetchWidth
    /\ Going(h) /\ ~Starting(h) =>
          /\ p[seen[h] + 1] = Expected(h)
          /\ instBuffer[h] # <<>> => LastOf(instBuffer[h]).redirect

\* A hart that wakeUpMonitor starts has met no system call by then.
Tuned(h) ==
    /\ handler[h] = "boot" /\ ~waking[h] => h = Boot
    /\ h = Boot /\ status[h] = "INACTIVE" => instBuffer[h] = <<>>
    /\ waking[h] /\ handler[h] = "execute" => status[h] = "ACTIVE"
    /\ waking[h] \/ status[h] = "INACTIVE" => lastTag[h] # "sys"
    /\ lastTag[h] = "sys" /\ subBuffer[h] = <<>> => status[h] = "BLOCKED_SYSCALL"
    /\ Going(h) => nextId[h] # 0

Chained(h) == \E s \in SUBSET Int, p \in [Int -> Nat] :
    Continues(h, s, p) /\ Ends(h, s, p) /\ Begins(h, s, p)

SteadyInv ==
    /\ SteadyGuests
    /\ PipeInv /\ WindowInv
    /\ \A h \in Harts : sub[h] # "gone" /\ Known(h) /\ Tuned(h) /\ Chained(h)

------------------------------------------------------------------------------
\* Publishing the next event continues the stream.
LEMMA ContinuesPublish ==
    ASSUME TypeOK, NEW h \in Harts, NEW s, NEW p, Continues(h, s, p),
           NEW data \in Payload, NEW force, Publish(h, data, force),
           NEW t, NEW q,
           \A j \in Int : j <= nextId[h] => (j \in t <=> j \in s) /\ q[j] = p[j],
           NEW e, e = [id |-> nextId[h], data |-> data], Linked(e, t, q)
    PROVE  Continues(h, t, q)'
<1>1. nextId[h] \in Int /\ seen[h] \in Int
  BY DEF TypeOK
<1>2. InFlight(h)' = InFlight(h) \union {e} /\ nextId'[h] = nextId[h] + 1 /\ seen' = seen
  BY FlightPublish DEF Publish, subVars
<1>3. ASSUME NEW x \in InFlight(h)
      PROVE  x.id < nextId[h] + 1 /\ Linked(x, t, q)
  <2>1. x.id \in Int /\ x.id + 1 \in Int
    BY FlightTyped DEF Event
  <2>2. x.id < nextId[h] /\ Linked(x, s, p)
    BY DEF Continues
  <2>3. x.id <= nextId[h] /\ x.id + 1 <= nextId[h] /\ x.id < nextId[h] + 1
    BY <1>1, <2>1, <2>2
  <2>4. /\ x.id \in t <=> x.id \in s
        /\ x.id + 1 \in t <=> x.id + 1 \in s
        /\ q[x.id] = p[x.id] /\ q[x.id + 1] = p[x.id + 1]
    BY <2>1, <2>3
  <2> QED
    BY <2>2, <2>3, <2>4 DEF Linked
<1>4. e.id < nextId[h] + 1
  BY <1>1
<1>5. seen'[h] < nextId'[h]
  <2>1. seen[h] < nextId[h]
    BY DEF Continues
  <2> QED
    BY <1>1, <1>2, <2>1
<1>6. \A x \in InFlight(h)' : x.id < nextId'[h] /\ Linked(x, t, q)
  BY <1>2, <1>3, <1>4
<1> QED
  BY <1>5, <1>6 DEF Continues, Linked

\* Nothing that puts no event on its way breaks it.
LEMMA ContinuesFrame ==
    ASSUME NEW h, NEW s, NEW p, Continues(h, s, p), InFlight(h)' \subseteq InFlight(h),
           UNCHANGED <<seen[h], nextId[h]>>
    PROVE  Continues(h, s, p)'
BY DEF Continues, Linked

\* Popping goes on to what the event links to.
LEMMA ContinuesPop ==
    ASSUME PipeInv, WindowInv, NEW h \in Harts, sub[h] # "gone",
           NEW s, NEW p, Continues(h, s, p), PopFront(h)
    PROVE  /\ Continues(h, s, p)' /\ seen'[h] = seen[h] + 1 /\ seen[h] \in Int
           /\ Linked([id |-> seen[h] + 1, data |-> First(h)], s, p)
<1> DEFINE e == Head(subBuffer[h])
<1>1. subBuffer[h] # <<>> /\ TypeOK
  BY DEF PopFront, PipeInv, TypeInv
<1>2. e \in InFlight(h) /\ e \in Event /\ e.id = seen[h] + 1 /\ seen[h] \in Int
  BY <1>1, HeadFollows
<1>3. seen'[h] = seen[h] + 1 /\ nextId' = nextId
  BY <1>1, <1>2 DEF PopFront, TypeOK, pubVars
<1>4. InFlight(h)' \subseteq InFlight(h)
  BY <1>1, FlightMoves
<1>5. e.id < nextId[h] /\ Linked(e, s, p)
  BY <1>2 DEF Continues
<1>6. e = [id |-> seen[h] + 1, data |-> First(h)]
  BY <1>2 DEF First, Event
<1>7. seen'[h] < nextId'[h]
  BY <1>2, <1>3, <1>5
<1>8. Continues(h, s, p)'
  BY <1>3, <1>4, <1>7 DEF Continues, Linked
<1> QED
  BY <1>2, <1>3, <1>5, <1>6, <1>8

\* A steady thread: its first two instructions and its last.
LEMMA SteadyThread ==
    ASSUME PipeInv, SteadyGuests, NEW h \in Harts, AtInstruction(h)
    PROVE  LET t == program[h][life[h]]
           IN /\ t \in Seq(Instruction) /\ Len(t) \in Nat /\ Len(t) >= 2 /\ DOMAIN t = 1 .. Len(t)
              /\ t[1].len = FetchWidth /\ t[Len(t)].len = FetchWidth
              /\ t[1].pc # t[2].pc + t[2].len
<1> DEFINE t == program[h][life[h]]
<1>1. program \in Programs /\ WellFormed(program) /\ Steady(program)
  BY ProgramsAssumption DEF PipeInv, GuestOK, SteadyGuests
<1>2. life[h] \in DOMAIN program[h] /\ program[h] \in Seq(Seq(Instruction))
  BY <1>1 DEF AtInstruction, WellFormed
<1>3. t \in Seq(Instruction)
  BY <1>2, ElementOfSeq
<1>4. Len(t) \in Nat /\ DOMAIN t = 1 .. Len(t)
  BY <1>3, LenProperties
<1>5. /\ Len(t) >= 2 /\ t[1].len = FetchWidth /\ t[Len(t)].len = FetchWidth
      /\ t[1].pc # t[2].pc + t[2].len
  BY <1>1, <1>2 DEF Steady
<1> QED
  BY <1>3, <1>4, <1>5

\* What the emulated side does leaves the simulated end where it is.
LEMMA BeginsAlone ==
    ASSUME NEW h \in Harts, NEW s, NEW p, Begins(h, s, p), NEW t, NEW q,
           seen[h] + 1 \in t <=> seen[h] + 1 \in s,
           Going(h) => q[seen[h] + 1] = p[seen[h] + 1],
           UNCHANGED <<subBuffer[h], seen[h], status[h], waking[h], handler[h], fetchPc[h],
                       fetchEnd[h], nextPc[h], instBuffer[h]>>
    PROVE  Begins(h, t, q)'
BY DEF Begins, Starting, Going, Expected, First, LastOf

LEMMA TunedAlone ==
    ASSUME NEW h \in Harts, Tuned(h), nextId'[h] = 0 => nextId[h] = 0,
           UNCHANGED <<subBuffer[h], status[h], waking[h], handler[h], lastTag[h], instBuffer[h]>>
    PROVE  Tuned(h)'
BY DEF Tuned, Going

\* Data that continue the stream and lead on to pc, which begins a thread if fresh.
Leads(h, s, p, data, fresh, pc) ==
    IF data.tag = "insn"
    THEN /\ data.inst.pc = p[nextId[h]]
         /\ nextId[h] \in s => ~data.last /\ data.inst.len = FetchWidth
         /\ fresh <=> data.last
         /\ ~data.last => data.inst.redirect /\ data.inst.target = pc
    ELSE (fresh <=> nextId[h] \in s) /\ pc = p[nextId[h]]

\* The stream leads on to pc.
Onward(h, fresh, pc) == \E s \in SUBSET Int, p \in [Int -> Nat] :
    /\ Continues(h, s, p) /\ Begins(h, s, p)
    /\ nextId[h] \in s <=> fresh
    /\ p[nextId[h]] = pc

\* A callback that publishes the next event.
LEMMA ChainedPublish ==
    ASSUME PipeInv, NEW h \in Harts, NEW s \in SUBSET Int, NEW p \in [Int -> Nat],
           Continues(h, s, p), Begins(h, s, p), Tuned(h),
           NEW data \in Payload, NEW force, Publish(h, data, force),
           UNCHANGED cpuVars,
           NEW fresh \in BOOLEAN, NEW pc \in Nat,
           Leads(h, s, p, data, fresh, pc)
    PROVE  Tuned(h)' /\ nextId'[h] = nextId[h] + 1 /\ Onward(h, fresh, pc)'
<1>1. TypeOK /\ nextId[h] \in Nat /\ seen[h] \in Int
  BY DEF PipeInv, TypeInv, TypeOK
<1> PICK n \in Nat : n = nextId[h]
  BY <1>1
<1>2. PICK t \in SUBSET Int : t = IF fresh THEN s \union {n + 1} ELSE s \ {n + 1}
  <2>1. \A m \in Int : s \union {m} \in SUBSET Int /\ s \ {m} \in SUBSET Int
    BY Zenon
  <2>2. n + 1 \in Int
    OBVIOUS
  <2> QED
    BY <2>1, <2>2, Zenon
<1>3. PICK q \in [Int -> Nat] : q = [p EXCEPT ![n + 1] = pc]
  OBVIOUS
<1>4. PICK e : e = [id |-> n, data |-> data]
  OBVIOUS
<1>5. n + 1 \in t <=> fresh
  BY <1>2
<1>6. q[n + 1] = pc
  BY <1>3
<1>7. ASSUME NEW j \in Int, j <= n
      PROVE  (j \in t <=> j \in s) /\ q[j] = p[j]
  <2>1. j # n + 1
    BY <1>7
  <2> QED
    BY <1>2, <1>3, <2>1
<1>8. nextId'[h] = n + 1 /\ nextId'[h] # 0 /\ UNCHANGED <<subBuffer, seen>>
  <2>1. nextId'[h] = n + 1 /\ UNCHANGED <<subBuffer, seen>>
    BY <1>1 DEF Publish, TypeOK, subVars
  <2> QED
    BY <2>1
<1>9. Linked(e, t, q)
  <2>1. (n \in t <=> n \in s) /\ q[n] = p[n]
    BY <1>7
  <2>2. e.id = n /\ e.data = data
    BY <1>4
  <2>3. CASE data.tag = "insn"
    <3>1. /\ data.inst.pc = p[n]
          /\ n \in s => ~data.last /\ data.inst.len = FetchWidth
          /\ fresh <=> data.last
          /\ ~data.last => data.inst.redirect /\ data.inst.target = pc
      BY <2>3 DEF Leads
    <3> QED
      BY <1>5, <1>6, <2>1, <2>2, <2>3, <3>1 DEF Linked
  <2>4. CASE data.tag # "insn"
    <3>1. (fresh <=> n \in s) /\ pc = p[n]
      BY <2>4 DEF Leads
    <3> QED
      BY <1>5, <1>6, <2>1, <2>2, <2>4, <3>1 DEF Linked
  <2> QED
    BY <2>3, <2>4
<1>10. Continues(h, t, q)'
  BY <1>1, <1>4, <1>7, <1>9, ContinuesPublish
<1>11. seen[h] + 1 \in Int /\ seen[h] + 1 <= n
  <2>1. seen[h] < n
    BY DEF Continues
  <2> QED
    BY <1>1, <2>1
<1>12. (seen[h] + 1 \in t <=> seen[h] + 1 \in s) /\ q[seen[h] + 1] = p[seen[h] + 1]
  BY <1>7, <1>11
<1>13. /\ UNCHANGED <<subBuffer[h], seen[h], status[h], waking[h], handler[h], fetchPc[h]>>
       /\ UNCHANGED <<fetchEnd[h], nextPc[h], instBuffer[h], lastTag[h]>>
  BY <1>8 DEF cpuVars, fetchVars
<1>14. Begins(h, t, q)'
  BY <1>12, <1>13, BeginsAlone
<1>15. Tuned(h)'
  BY <1>8, <1>13, TunedAlone
<1> QED
  <2>1. Onward(h, fresh, pc)'
    BY <1>5, <1>6, <1>8, <1>10, <1>14 DEF Onward
  <2> QED
    BY <1>8, <1>15, <2>1

\* A callback that publishes nothing.
LEMMA ChainedSilent ==
    ASSUME PipeInv, NEW h \in Harts, NEW s, NEW p,
           Continues(h, s, p), Begins(h, s, p), Tuned(h),
           UNCHANGED channelVars \/ NewPublisher(h), UNCHANGED cpuVars
    PROVE  Tuned(h)' /\ Continues(h, s, p)' /\ Begins(h, s, p)' /\ nextId' = nextId
<1>1. UNCHANGED <<subBuffer, queue, pubBuffer, nextId, seen>>
  BY DEF channelVars, NewPublisher, subVars
<1>2. InFlight(h)' \subseteq InFlight(h)
  BY <1>1, FlightFrame
<1>3. Continues(h, s, p)'
  BY <1>1, <1>2, ContinuesFrame
<1>4. Begins(h, s, p)' /\ Tuned(h)'
  BY <1>1, BeginsAlone, TunedAlone DEF cpuVars, fetchVars
<1> QED
  BY <1>1, <1>3, <1>4

\* An instruction's callback: the previous one is known to jump to it.
LEMMA ExecuteChains ==
    ASSUME SteadyInv, NEW h \in Harts, ExecuteInstruction(h)
    PROVE  Known(h)' /\ Tuned(h)' /\ Chained(h)'
<1> DEFINE inst == Insn(h)
           base == IF Executed(h) THEN Previous(h, inst) ELSE lastInst[h]
           t == program[h][life[h]]
<1>t. /\ TypeOK /\ CpuTypeOK /\ PipeInv /\ Payload = EventData /\ SteadyGuests
      /\ Known(h) /\ Tuned(h)
  BY DEF SteadyInv, PipeInv, TypeInv
<1>c. PICK s \in SUBSET Int, p \in [Int -> Nat] :
         Continues(h, s, p) /\ Ends(h, s, p) /\ Begins(h, s, p)
  BY DEF SteadyInv, Chained
<1>1. /\ vcpu[h] = "running" /\ UNCHANGED <<program, life, cpuVars>>
      /\ instCount'[h] = instCount[h] + 1
      /\ \/ vcpu'[h] = "running" /\ ip'[h] = ip[h] + 1 /\ inst.call = "none"
         \/ vcpu'[h] = "syscall" /\ ip'[h] = ip[h] /\ inst.call # "none"
  BY <1>t DEF ExecuteInstruction, Callback, CpuTypeOK
<1>2. inst \in Instruction /\ AtInstruction(h) /\ ip[h] \in Nat /\ instCount[h] \in Nat
  BY <1>t, <1>1, InsnTyped DEF PipeInv, GuestOK, CpuTypeOK
<1>3. inst.pc \in Nat /\ inst.len \in Nat
  BY <1>2 DEF Instruction
<1>4. t[1].len = FetchWidth /\ t[1].pc # t[2].pc + t[2].len /\ inst = t[ip[h]]
  BY <1>t, <1>2, SteadyThread DEF Insn
<1>5. lastInst[h] \in Inst /\ base \in Inst
  BY <1>t, <1>2, PreviousTyped DEF CpuTypeOK
<1>6. /\ lastInst' = [lastInst EXCEPT ![h] =
               [base EXCEPT !.uid = Uid(h), !.pc = inst.pc, !.len = inst.len]]
      /\ IF Executed(h) THEN Publish(h, InsnEvent(base, FALSE), FALSE)
                        ELSE UNCHANGED channelVars
  BY DEF ExecuteInstruction
<1>7. Executed(h) => /\ base.pc = lastInst[h].pc /\ base.len = lastInst[h].len
                     /\ base.target = inst.pc
                     /\ base.redirect <=> \/ lastInst[h].redirect
                                          \/ lastInst[h].pc # inst.pc + inst.len
  <2> PICK r \in BOOLEAN : r <=> lastInst[h].redirect \/ lastInst[h].pc # inst.pc + inst.len
    BY Zenon
  <2> PICK b \in Inst : b = [lastInst[h] EXCEPT !.target = inst.pc, !.redirect = r]
    BY <1>3, <1>5 DEF Inst
  <2>1. b.pc = lastInst[h].pc /\ b.len = lastInst[h].len
    BY <1>5 DEF Inst
  <2>2. b.target = inst.pc
    BY <1>5 DEF Inst
  <2>3. b.redirect <=> r
    BY <1>5 DEF Inst
  <2>4. lastInst[h].redirect \in BOOLEAN
    BY <1>5 DEF Inst
  <2>5. Previous(h, inst) = b
    <3>1. r = (lastInst[h].redirect \/ lastInst[h].pc # inst.pc + inst.len)
      BY <2>4, Zenon
    <3> QED
      BY <3>1, Zenon DEF Previous
  <2>6. Executed(h) => base = b
    BY <2>5
  <2> HIDE DEF base, inst
  <2> QED
    BY <2>1, <2>2, <2>3, <2>6
<1> HIDE DEF base, inst, t
<1>8. /\ lastInst'[h].pc = inst.pc /\ lastInst'[h].len = inst.len
      /\ lastInst'[h].redirect = base.redirect
  <2>1. lastInst'[h] = [base EXCEPT !.uid = Uid(h), !.pc = inst.pc, !.len = inst.len]
    BY <1>t, <1>6 DEF CpuTypeOK
  <2> QED
    BY <1>5, <2>1 DEF Inst
\* Before it, a thread that has one instruction behind it is at its second.
<1>9. instCount[h] = 1 => ip[h] = 2 /\ lastInst[h].pc = t[1].pc
  BY <1>t, <1>1 DEF Known, t
<1>10. Executed(h) => base.redirect
  <2>1. CASE instCount[h] = 1
    BY <1>4, <1>7, <1>9, <2>1
  <2>2. CASE instCount[h] >= 2
    BY <1>t, <1>7, <2>2 DEF Known
  <2>3. Executed(h) => instCount[h] = 1 \/ instCount[h] >= 2
    BY <1>2 DEF Executed
  <2> QED
    BY <2>1, <2>2, <2>3
<1>11. Insn(h)' = Insn(h) \/ vcpu'[h] # "syscall"
  BY <1>1 DEF Insn
<1>12. Known(h)'
  <2>1. instCount'[h] # 0 /\ vcpu'[h] \in {"running", "syscall"}
    BY <1>1, <1>2
  <2>2. vcpu'[h] = "syscall" => lastInst'[h].len = Insn(h)'.len
    BY <1>8, <1>11 DEF inst
  <2>3. instCount'[h] >= 2 => lastInst'[h].redirect
    <3>1. instCount'[h] >= 2 => instCount[h] # 0
      BY <1>1, <1>2
    <3> QED
      BY <1>8, <1>10, <3>1 DEF Executed
  <2>4. instCount'[h] = 1 =>
           /\ \/ vcpu'[h] = "running" /\ ip'[h] = 2
              \/ vcpu'[h] \in {"syscall", "kernel"} /\ ip'[h] = 1
           /\ lastInst'[h].pc = (program[h][life[h]][1].pc)'
    <3>1. instCount'[h] = 1 => instCount[h] = 0
      BY <1>1, <1>2
    <3>2. instCount[h] = 0 => ip[h] = 1
      BY <1>t, <1>1 DEF Known
    <3>3. ip[h] = 1 => lastInst'[h].pc = t[1].pc /\ (ip'[h] = 2 \/ vcpu'[h] # "running")
      BY <1>1, <1>4, <1>8
    <3>4. (program[h][life[h]][1].pc)' = t[1].pc
      BY <1>1 DEF t
    <3> QED
      BY <1>1, <3>1, <3>2, <3>3, <3>4
  <2> QED
    BY <2>1, <2>2, <2>3, <2>4 DEF Known
\* After a thread's second instruction the stream is past its beginning.
<1>13. CASE Executed(h)
  <2>1. /\ InsnEvent(base, FALSE) \in Payload
        /\ InsnEvent(base, FALSE).tag = "insn" /\ InsnEvent(base, FALSE).inst = base
        /\ ~InsnEvent(base, FALSE).last
    BY <1>t, <1>5 DEF InsnEvent, EventData
  <2>2. /\ base.pc = p[nextId[h]] /\ base.redirect /\ base.target = inst.pc
        /\ nextId[h] \in s => base.len = FetchWidth
    BY <1>c, <1>7, <1>10, <1>13 DEF Ends, Executed
  <2>3. Publish(h, InsnEvent(base, FALSE), FALSE)
    BY <1>6, <1>13
  <2> PICK d \in Payload : d = InsnEvent(base, FALSE)
    BY <2>1
  <2> PICK fresh \in BOOLEAN : ~fresh
    OBVIOUS
  <2> PICK pc \in Nat : pc = inst.pc
    BY <1>3
  <2>4. Leads(h, s, p, d, fresh, pc)
    BY <2>1, <2>2, Zenon DEF Leads
  <2>5. Publish(h, d, FALSE) /\ UNCHANGED cpuVars
    BY <1>1, <2>3
  <2>6. PipeInv /\ Tuned(h) /\ Continues(h, s, p) /\ Begins(h, s, p)
    BY <1>t, <1>c
  <2>7. Tuned(h)' /\ Onward(h, fresh, pc)'
    BY <2>4, <2>5, <2>6, ChainedPublish
  <2>8. ASSUME NEW u, NEW q, ~(nextId'[h] \in u), q[nextId'[h]] = pc
        PROVE  Ends(h, u, q)'
    BY <1>8, <2>8 DEF Ends
  <2>9. Chained(h)'
    BY <2>7, <2>8 DEF Chained, Onward
  <2> QED
    BY <1>12, <2>7, <2>9
\* The first of all is only kept: nothing has been published, and nobody has fetched.
<1>14. CASE ~Executed(h)
  <2>1. instCount[h] = 0 /\ nextId[h] = 0 /\ ip[h] = 1 /\ ~Going(h)
    BY <1>t, <1>1, <1>14 DEF Executed, Known, Tuned
  <2> PICK q \in [Int -> Nat] : q = [p EXCEPT ![0] = inst.pc]
    BY <1>3
  <2>2. q[0] = inst.pc
    OBVIOUS
  <2>3. Continues(h, s, p)' /\ Begins(h, s, p)' /\ Tuned(h)' /\ nextId' = nextId
    BY <1>t, <1>c, <1>1, <1>6, <1>14, ChainedSilent
  <2>4. Continues(h, s, q)'
    <3>1. InFlight(h)' = {}
      <4>1. InFlight(h)' \subseteq InFlight(h)
        BY <1>6, <1>14, FlightFrame DEF channelVars
      <4>2. \A x \in InFlight(h) : x.id \in Nat /\ x.id < 0
        BY <1>t, <1>c, <2>1, FlightTyped DEF Event, Continues
      <4>3. InFlight(h) = {}
        BY <4>2
      <4> QED
        BY <4>1, <4>3
    <3> QED
      BY <2>3, <3>1 DEF Continues
  <2>5. Begins(h, s, q)'
    <3>1. ~Going(h)'
      BY <1>1, <2>1 DEF Going, cpuVars
    <3> QED
      BY <2>3, <3>1 DEF Begins
  <2>6. Ends(h, s, q)'
    <3>1. lastInst'[h].len = FetchWidth /\ lastInst'[h].pc = inst.pc
      BY <1>4, <1>8, <2>1
    <3>2. vcpu'[h] = "running" => ip'[h] \in {1, 2}
      BY <1>1, <2>1
    <3>3. vcpu'[h] \in {"syscall", "kernel"} => ip'[h] = 1
      BY <1>1, <2>1
    <3>4. vcpu'[h] # "exiting" /\ nextId'[h] = 0
      BY <1>1, <2>1, <2>3
    <3>5. instCount'[h] # 0 => q[nextId'[h]] = lastInst'[h].pc
      BY <2>2, <3>1, <3>4
    <3>6. vcpu'[h] # "exiting"
      BY <3>4
    <3> QED
      BY <3>1, <3>2, <3>3, <3>5, <3>6 DEF Ends
  <2> QED
    BY <1>12, <2>2, <2>3, <2>4, <2>5, <2>6 DEF Chained
<1> QED
  BY <1>13, <1>14

\* The other callbacks of a vcpu.
LEMMA GuestChains ==
    ASSUME SteadyInv, NEW h \in Harts, GuestStep(h)
    PROVE  Known(h)' /\ Tuned(h)' /\ Chained(h)'
<1>t. /\ TypeOK /\ CpuTypeOK /\ PipeInv /\ Payload = EventData /\ SteadyGuests
      /\ Known(h) /\ Tuned(h)
  BY DEF SteadyInv, PipeInv, TypeInv
<1>c. PICK s \in SUBSET Int, p \in [Int -> Nat] :
         Continues(h, s, p) /\ Ends(h, s, p) /\ Begins(h, s, p)
  BY DEF SteadyInv, Chained
<1>n. nextId[h] \in Nat /\ ip[h] \in Nat /\ instCount[h] \in Nat /\ lastInst[h] \in Inst
  BY <1>t DEF TypeOK, CpuTypeOK
<1>f. p[nextId[h]] \in Nat
  BY <1>n
<1>1. CASE ThreadInitialize(h)
  <2>1. /\ vcpu[h] = "created" /\ vcpu'[h] = "running"
        /\ UNCHANGED <<program, life, ip, instCount, lastInst>> /\ UNCHANGED cpuVars
        /\ UNCHANGED channelVars \/ NewPublisher(h)
    BY <1>1, <1>t DEF ThreadInitialize, CpuTypeOK
  <2>2. Tuned(h)' /\ Continues(h, s, p)' /\ Begins(h, s, p)' /\ nextId' = nextId
    BY <1>t, <1>c, <2>1, ChainedSilent
  <2>3. ip[h] = 1 /\ instCount[h] # 1
    BY <1>t, <2>1 DEF Known
  <2>4. Known(h)'
    BY <1>t, <2>1, <2>2, <2>3 DEF Known
  <2>5. Ends(h, s, p)'
    BY <1>c, <2>1, <2>2, <2>3 DEF Ends
  <2> QED
    BY <2>2, <2>4, <2>5 DEF Chained
<1>2. CASE Syscall(h)
  <2>1. /\ vcpu[h] = "syscall" /\ vcpu'[h] = "kernel"
        /\ UNCHANGED <<program, life, ip, instCount, lastInst>> /\ UNCHANGED cpuVars
        /\ \/ Publish(h, SyscallEvent, TRUE)
           \/ UNCHANGED channelVars
    BY <1>2, <1>t DEF Syscall, Callback, CpuTypeOK
  <2>2. instCount[h] # 0
    BY <1>t, <2>1 DEF Known
  <2>3. Known(h)'
    <3>1. Insn(h)' = Insn(h)
      BY <2>1 DEF Insn
    <3> QED
      BY <1>t, <2>1, <2>2, <3>1 DEF Known
  <2>4. CASE Publish(h, SyscallEvent, TRUE)
    <3>d. PICK d \in Payload : d = SyscallEvent
      <4>1. NullInst \in Inst
        BY DEF NullInst, Inst
      <4> QED
        BY <1>t, <4>1 DEF SyscallEvent, EventData
    <3>f. PICK fresh \in BOOLEAN : fresh <=> nextId[h] \in s
      BY Zenon
    <3>n. PICK pc \in Nat : pc = p[nextId[h]]
      BY <1>f
    <3>1. d.tag # "insn"
      BY <3>d DEF SyscallEvent
    <3>2. Leads(h, s, p, d, fresh, pc)
      BY <3>1, <3>f, <3>n, Zenon DEF Leads
    <3>3. PICK force \in {TRUE} : Publish(h, d, force) /\ UNCHANGED cpuVars
      BY <2>1, <2>4, <3>d
    <3>p. PipeInv /\ Tuned(h) /\ Continues(h, s, p) /\ Begins(h, s, p)
      BY <1>t, <1>c
    <3>4. Tuned(h)' /\ Onward(h, fresh, pc)'
      <4> HIDE <2>4
      <4> QED
        BY <3>2, <3>3, <3>p, ChainedPublish
    <3>5. lastInst[h].pc = pc
      BY <1>c, <2>2, <3>n DEF Ends
    <3>6. fresh => lastInst[h].len = FetchWidth /\ ip[h] = 1
      BY <1>c, <2>1, <2>2, <3>f DEF Ends
    <3>7. ASSUME NEW u, NEW q, nextId'[h] \in u <=> fresh, q[nextId'[h]] = pc
          PROVE  Ends(h, u, q)'
      BY <2>1, <3>5, <3>6, <3>7 DEF Ends
    <3>8. Chained(h)'
      BY <3>4, <3>7 DEF Chained, Onward
    <3> QED
      BY <2>3, <3>4, <3>8
  <2>5. CASE UNCHANGED channelVars
    <3>1. Tuned(h)' /\ Continues(h, s, p)' /\ Begins(h, s, p)' /\ nextId' = nextId
      BY <1>t, <1>c, <2>1, <2>5, ChainedSilent
    <3>2. Ends(h, s, p)'
      BY <1>c, <2>1, <3>1 DEF Ends
    <3> QED
      BY <2>3, <3>1, <3>2 DEF Chained
  <2> QED
    BY <2>1, <2>4, <2>5
\* Only a call behind the first instruction is an exit.
<1>3. CASE SyscallReturn(h)
  <2>0. vcpu[h] = "kernel" /\ h \notin Spawned(Insn(h))
    BY <1>3 DEF SyscallReturn, Callback, Exited
  <2>1. /\ UNCHANGED <<program, instCount, lastInst, channelVars>> /\ UNCHANGED cpuVars
        /\ life'[h] = life[h] /\ ip'[h] = ip[h] + 1
        /\ IF Insn(h).call = "exit" THEN vcpu'[h] = "exiting" ELSE vcpu'[h] = "running"
    BY <1>3, <1>t, <2>0 DEF SyscallReturn, CpuTypeOK
  <2>2. Tuned(h)' /\ Continues(h, s, p)' /\ Begins(h, s, p)' /\ nextId' = nextId
    BY <1>t, <1>c, <2>1, ChainedSilent
  <2>3. AtInstruction(h) /\ (Insn(h).call = "exit" <=> ip[h] = Len(program[h][life[h]]))
    BY <1>t, <2>0, InsnTyped DEF PipeInv, GuestOK
  <2>4. Insn(h).call = "exit" => ip[h] >= 2 /\ lastInst[h].len = FetchWidth
    <3>1. Len(program[h][life[h]]) >= 2
      BY <1>t, <2>3, SteadyThread
    <3>2. Insn(h).call = "exit" => Insn(h).len = FetchWidth
      BY <1>t, <2>3, SteadyThread DEF Insn
    <3> QED
      BY <1>t, <2>0, <2>3, <3>1, <3>2 DEF Known
  <2>5. instCount[h] # 0
    BY <1>t, <2>0 DEF Known
  <2>6. instCount[h] = 1 => ip[h] = 1 /\ Insn(h).call # "exit"
    BY <1>t, <2>0, <2>4 DEF Known
  <2>7. Known(h)'
    <3>1. Insn(h).call = "exit" => ip'[h] >= 3
      BY <1>n, <2>1, <2>4
    <3>2. instCount[h] = 1 => vcpu'[h] = "running" /\ ip'[h] = 2
      BY <2>1, <2>6
    <3>3. (program[h][life[h]][1].pc)' = program[h][life[h]][1].pc
      BY <2>1
    <3>4. vcpu'[h] \in {"exiting", "running"} /\ (vcpu'[h] = "exiting" => Insn(h).call = "exit")
      BY <2>1
    <3> QED
      BY <1>t, <2>1, <2>4, <2>5, <3>1, <3>2, <3>3, <3>4 DEF Known
  <2>8. Ends(h, s, p)'
    <3>1. nextId[h] \in s => ip[h] = 1 /\ Insn(h).call # "exit"
      BY <1>c, <2>0, <2>4 DEF Ends
    <3>2. nextId[h] \in s => ip'[h] = 2 /\ vcpu'[h] = "running"
      BY <2>1, <3>1
    <3> QED
      BY <1>c, <2>1, <2>2, <3>2 DEF Ends
  <2> QED
    BY <2>2, <2>7, <2>8 DEF Chained
<1>4. CASE ThreadExit(h)
  <2>1. /\ vcpu[h] = "exiting" /\ vcpu'[h] = "dead"
        /\ UNCHANGED <<program, life, ip, instCount, lastInst>> /\ UNCHANGED cpuVars
        /\ Publish(h, InsnEvent(lastInst[h], TRUE), TRUE)
    BY <1>4, <1>t DEF ThreadExit, Callback, CpuTypeOK
  <2>2. instCount[h] \notin {0, 1} /\ lastInst[h].len = FetchWidth
    BY <1>t, <2>1 DEF Known
  <2>3. nextId[h] \notin s /\ lastInst[h].pc = p[nextId[h]]
    BY <1>c, <2>1, <2>2 DEF Ends
  <2>4. Known(h)'
    BY <1>t, <2>1, <2>2 DEF Known
  <2> PICK d \in Payload : d = InsnEvent(lastInst[h], TRUE)
    BY <1>t, <1>n DEF InsnEvent, EventData
  <2> PICK fresh \in BOOLEAN : fresh
    OBVIOUS
  <2> PICK pc \in Nat : pc = p[nextId[h]]
    BY <1>f
  <2>5. d.tag = "insn" /\ d.last /\ d.inst = lastInst[h]
    BY DEF InsnEvent
  <2>6. Leads(h, s, p, d, fresh, pc)
    BY <2>3, <2>5, Zenon DEF Leads
  <2>7. Publish(h, d, TRUE)
    BY <2>1
  <2>8. Tuned(h)' /\ Onward(h, fresh, pc)'
    BY <1>t, <1>c, <2>1, <2>6, <2>7, ChainedPublish
  <2>9. ASSUME NEW u, NEW q, q[nextId'[h]] = pc
        PROVE  Ends(h, u, q)'
    BY <2>1, <2>2, <2>3, <2>9 DEF Ends
  <2>10. Chained(h)'
    BY <2>8, <2>9 DEF Chained, Onward
  <2> QED
    BY <2>4, <2>8, <2>10
<1> QED
  BY <1>1, <1>2, <1>3, <1>4, ExecuteChains DEF GuestStep

\* A callback of another vcpu does no more than to start a thread on this one.
LEMMA GuestChainsAlone ==
    ASSUME SteadyInv, NEW h \in Harts, GuestStep(h), NEW g \in Harts, g # h
    PROVE  Known(g)' /\ Tuned(g)' /\ Chained(g)'
<1>t. PipeInv /\ WindowInv /\ Known(g) /\ Tuned(g)
  BY DEF SteadyInv
<1>c. PICK s \in SUBSET Int, p \in [Int -> Nat] :
         Continues(g, s, p) /\ Ends(g, s, p) /\ Begins(g, s, p)
  BY DEF SteadyInv, Chained
<1>1. UNCHANGED <<cpuVars, subBuffer, seen, program>>
  BY OutsideAlone DEF GuestStep, ThreadInitialize, ExecuteInstruction, Syscall, SyscallReturn,
                      ThreadExit
<1>2. /\ InFlight(g)' = InFlight(g) /\ UNCHANGED <<nextId[g], instCount[g], lastInst[g]>>
      /\ \/ UNCHANGED <<vcpu[g], life[g], ip[g]>>
         \/ /\ vcpu[g] \in {"absent", "dead"}
            /\ vcpu'[g] = "created" /\ ip'[g] = 1
  BY <1>t, GuestFrame DEF Exited
<1>3. Continues(g, s, p)'
  BY <1>c, <1>1, <1>2, ContinuesFrame
<1>4. Begins(g, s, p)' /\ Tuned(g)'
  BY <1>t, <1>c, <1>1, <1>2, BeginsAlone, TunedAlone DEF cpuVars, fetchVars
<1>5. CASE UNCHANGED <<vcpu[g], life[g], ip[g]>>
  <2>1. Insn(g)' = Insn(g) /\ (program[g][life[g]][1].pc)' = program[g][life[g]][1].pc
    BY <1>1, <1>5 DEF Insn
  <2>2. Known(g)'
    BY <1>t, <1>2, <1>5, <2>1 DEF Known
  <2>3. Ends(g, s, p)'
    BY <1>c, <1>2, <1>5 DEF Ends
  <2> QED
    BY <1>3, <1>4, <2>2, <2>3 DEF Chained
<1>6. CASE vcpu[g] \in {"absent", "dead"} /\ vcpu'[g] = "created" /\ ip'[g] = 1
  <2>1. Known(g)'
    BY <1>t, <1>2, <1>6 DEF Known
  <2>2. Ends(g, s, p)'
    BY <1>c, <1>2, <1>6 DEF Ends
  <2> QED
    BY <1>3, <1>4, <2>1, <2>2 DEF Chained
<1> QED
  BY <1>2, <1>5, <1>6

\* The event at the head of the buffer is linked into the stream.
LEMMA HeadLinked ==
    ASSUME PipeInv, WindowInv, NEW h \in Harts, sub[h] # "gone",
           NEW s, NEW p, Continues(h, s, p), subBuffer[h] # <<>>
    PROVE  /\ Linked([id |-> seen[h] + 1, data |-> First(h)], s, p)
           /\ First(h) \in EventData /\ nextId[h] # 0 /\ seen[h] \in Int
<1> DEFINE e == Head(subBuffer[h])
<1>1. e \in InFlight(h) /\ e \in Event /\ e.id = seen[h] + 1 /\ seen[h] \in Int
  BY HeadFollows
<1>2. e.id \in Nat /\ e.data \in EventData /\ e = [id |-> e.id, data |-> e.data]
  BY <1>1 DEF Event, PipeInv
<1>3. e.id < nextId[h] /\ Linked(e, s, p)
  BY <1>1 DEF Continues
<1>4. nextId[h] # 0
  BY <1>2, <1>3
<1> QED
  BY <1>1, <1>2, <1>3, <1>4 DEF First

\* A message that is taken is not empty.
LEMMA TakenFull ==
    ASSUME WindowInv, NEW h \in Harts, sub[h] # "gone", TakeMessage(h)
    PROVE  subBuffer'[h] # <<>> /\ seen' = seen
<1>1. subBuffer \in [Harts -> Message] /\ queue[h] \in Seq(Message) /\ queue[h] # <<>>
  BY DEF WindowInv, IntactInv, TypeInv, TypeOK, TakeMessage
<1>2. 1 \in 1 .. Len(queue[h]) /\ Head(queue[h]) = queue[h][1]
  BY <1>1, EmptySeq, LenProperties, HeadTailProperties
<1>3. queue[h][1] # <<>>
  BY <1>2 DEF WindowInv, IntactInv, StreamIntact, StreamIntactFor, Intact
<1> QED
  BY <1>1, <1>2, <1>3 DEF TakeMessage

\* Retiring keeps what is expected after the buffered instructions.
LEMMA ExpectedKept ==
    ASSUME CpuTypeOK, NEW h \in Harts, Retire(h),
           instBuffer[h] # <<>> => LastOf(instBuffer[h]).redirect
    PROVE  /\ Expected(h)' = Expected(h)
           /\ instBuffer'[h] # <<>> => LastOf(instBuffer'[h]).redirect
           /\ instBuffer[h] = <<>> => instBuffer'[h] = <<>>
<1>1. instBuffer[h] \in Seq(Inst)
  BY DEF CpuTypeOK
<1>2. CASE instBuffer[h] = <<>>
  BY <1>2 DEF Retire, Expected
<1>3. CASE instBuffer[h] # <<>>
  <2> PICK b \in Seq(Inst) : b = instBuffer[h]
    BY <1>1
  <2>1. b # <<>> /\ LastOf(b).redirect
    BY <1>3
  <2>2. /\ instBuffer'[h] = Tail(b)
        /\ nextPc'[h] = IF Head(b).redirect THEN Head(b).target ELSE Head(b).pc + Head(b).len
    BY <1>3 DEF Retire, CpuTypeOK
  <2>3. CASE Tail(b) = <<>>
    <3>1. LastOf(b) = Head(b)
      <4>1. Len(Tail(b)) = Len(b) - 1 /\ Len(<<>>) = 0 /\ Len(b) \in Nat
        BY <2>1, HeadTailProperties, EmptySeq, LenProperties
      <4>2. Len(b) = 1
        <5>1. Len(Tail(b)) = 0
          BY <2>3, <4>1
        <5>2. \A n \in Nat : n - 1 = 0 => n = 1
          OBVIOUS
        <5> QED
          BY <4>1, <5>1, <5>2, Zenon
      <4> QED
        BY <2>1, <4>2, HeadTailProperties DEF LastOf
    <3> QED
      BY <2>1, <2>2, <2>3, <3>1, <1>3 DEF Expected
  <2>4. CASE Tail(b) # <<>>
    <3>1. LastOf(Tail(b)) = LastOf(b)
      <4>1. /\ Len(Tail(b)) = Len(b) - 1 /\ Len(b) \in Nat /\ Tail(b) \in Seq(Inst)
            /\ \A i \in 1 .. Len(Tail(b)) : Tail(b)[i] = b[i + 1]
        BY <2>1, HeadTailProperties, LenProperties
      <4>2. Len(Tail(b)) # 0 /\ Len(Tail(b)) \in Nat
        BY <2>4, <4>1, EmptySeq, LenProperties
      <4>3. Len(Tail(b)) \in 1 .. Len(Tail(b)) /\ Len(Tail(b)) + 1 = Len(b)
        <5>1. \A m, n \in Nat : m # 0 /\ m = n - 1 => m \in 1 .. m /\ m + 1 = n
          OBVIOUS
        <5> QED
          BY <4>1, <4>2, <5>1, Zenon
      <4> QED
        BY <4>1, <4>3 DEF LastOf
    <3> QED
      BY <2>1, <2>2, <2>4, <3>1, <1>3 DEF Expected
  <2> QED
    BY <1>3, <2>3, <2>4
<1> QED
  BY <1>2, <1>3

\* The first instruction of a thread that wakeUpMonitor starts fills its package.
LEMMA StartingFills ==
    ASSUME SteadyInv, NEW h \in Harts, FetchInstruction(h), waking[h]
    PROVE  ~First(h).last /\ handler'[h] = "execute"
<1>t. PipeInv /\ WindowInv /\ CpuTypeOK /\ WakeTypeOK /\ sub[h] # "gone"
  BY DEF SteadyInv, PipeInv, WakeInv
<1>c. PICK s \in SUBSET Int, p \in [Int -> Nat] : Continues(h, s, p) /\ Begins(h, s, p)
  BY DEF SteadyInv, Chained
<1>1. handler[h] = "fetch" /\ subBuffer[h] # <<>> /\ First(h).tag = "insn"
  BY DEF FetchInstruction, AtHead
<1>2. seen[h] + 1 \in s /\ fetchEnd[h] = fetchPc[h] + FetchWidth
  BY <1>c, <1>1 DEF Begins, Starting
<1>3. ~First(h).last /\ First(h).inst.len = FetchWidth
  BY <1>t, <1>c, <1>1, <1>2, HeadLinked DEF Linked
<1>4. fetchPc'[h] = fetchEnd[h]
  BY <1>t, <1>2, <1>3 DEF FetchInstruction, CpuTypeOK
<1>5. fetchEnd[h] \in Nat
  BY <1>t DEF CpuTypeOK
<1>6. fetchPc'[h] >= fetchEnd[h]
  BY <1>4, <1>5
<1>7. handler'[h] = IF First(h).last \/ fetchPc'[h] >= fetchEnd[h] THEN "execute" ELSE "fetch"
  BY <1>t DEF FetchInstruction, WakeTypeOK
<1> QED
  BY <1>3, <1>6, <1>7

\* A hart's own step keeps the chain: the cases of what its handlers do.
LEMMA HartContinues ==
    ASSUME SteadyInv, NEW h \in Harts, Dispatch(h) \/ HandlerStep(h),
           NEW s, NEW p, Continues(h, s, p), Begins(h, s, p)
    PROVE  Tuned(h)' /\ Continues(h, s, p)' /\ Begins(h, s, p)'
<1>t. /\ TypeOK /\ CpuTypeOK /\ WakeTypeOK /\ WakeInv /\ PipeInv /\ WindowInv
      /\ sub[h] # "gone" /\ Tuned(h)
  BY DEF SteadyInv, PipeInv, TypeInv, WakeInv
<1>h. nextId' = nextId /\ InFlight(h)' \subseteq InFlight(h)
  BY <1>t, HartKeeps
<1>s. seen'[h] = seen[h] => Continues(h, s, p)'
  BY <1>h, ContinuesFrame
<1> USE DEF Starting, Going
<1>1. CASE StartupEvent(h)
  <2>1. handler[h] = "idle" /\ ~waking[h] /\ status[h] = "INACTIVE" /\ h = Boot
    BY <1>1, <1>t, FiresIdle DEF StartupEvent, Fires, WakeFor, WakeTypeOK
  <2>2. /\ UNCHANGED <<subBuffer, seen, status, waking, fetchVars, lastTag>>
        /\ handler'[h] = "boot"
    BY <1>1, <1>t DEF StartupEvent, channelVars, WakeTypeOK
  <2> QED
    BY <1>t, <1>h, <1>s, <2>1, <2>2 DEF Tuned, Begins, fetchVars
<1>2. CASE TickEvent(h)
  <2>1. handler[h] = "idle" /\ ~waking[h] /\ status[h] = "ACTIVE"
    BY <1>2, <1>t, FiresIdle DEF TickEvent, Fires, WakeFor, WakeTypeOK
  <2>2. /\ UNCHANGED <<subBuffer, seen, status, waking, nextPc, instBuffer, lastTag>>
        /\ handler'[h] = "fetch"
    BY <1>2, <1>t DEF TickEvent, BeginFetch, channelVars, WakeTypeOK
  <2> QED
    BY <1>t, <1>h, <1>s, <2>1, <2>2 DEF Tuned, Begins, Expected
<1>3. CASE WakeInactive(h)
  <2>1. status[h] = "INACTIVE"
    BY <1>3 DEF WakeInactive
  <2>2. /\ UNCHANGED <<seen, status, fetchVars, lastTag>>
        /\ handler'[h] = "boot" /\ waking'[h]
    BY <1>3, <1>t DEF WakeInactive, TryTake, TakeMessage, WakeTypeOK
  <2> QED
    BY <1>t, <1>h, <1>s, <2>1, <2>2 DEF Tuned, Begins, fetchVars
<1>4. CASE PollInactive(h)
  <2>1. handler[h] = "idle" /\ ~waking[h] /\ status[h] = "INACTIVE"
    BY <1>4, <1>t, FiresIdle DEF PollInactive
  <2>2. /\ UNCHANGED <<subBuffer, seen, status, waking, fetchVars, lastTag>>
        /\ handler'[h] = "polled"
    BY <1>4, <1>t DEF PollInactive, channelVars, WakeTypeOK
  <2> QED
    BY <1>t, <1>h, <1>s, <2>1, <2>2 DEF Tuned, Begins, fetchVars
<1>5. CASE WakeBlocked(h)
  <2>1. handler[h] = "idle" /\ ~waking[h] /\ status[h] = "BLOCKED_SYSCALL"
    BY <1>5, <1>t, FiresIdle DEF WakeBlocked
  <2>2. /\ UNCHANGED <<seen, handler, waking, fetchVars, lastTag>>
        /\ status'[h] = "ACTIVE" /\ subBuffer'[h] # <<>>
    BY <1>5, <1>t, TakenFull DEF WakeBlocked, TryTake, Resume, WakeTypeOK
  <2> QED
    BY <1>t, <1>h, <1>s, <2>1, <2>2 DEF Tuned, Begins, fetchVars, Expected
<1>6. CASE Front(h)
  <2>1. /\ handler[h] \in {"boot", "fetch"} /\ subBuffer[h] = <<>>
        /\ UNCHANGED <<seen, cpuVars>>
    BY <1>6 DEF Front, Take, TakeMessage
  <2>2. IF handler[h] = "boot" THEN status[h] = "INACTIVE" ELSE status[h] = "ACTIVE"
    BY <1>t, <2>1, Fetching DEF Woken
  <2>3. lastTag[h] # "sys" /\ ~Starting(h)
    BY <1>t, <2>1, <2>2 DEF Tuned, Begins
  <2> QED
    BY <1>t, <1>h, <1>s, <2>1, <2>2, <2>3 DEF Tuned, Begins, cpuVars, fetchVars, Expected
<1>7. CASE InitCPUState(h)
  <2>1. handler[h] = "boot" /\ subBuffer[h] # <<>> /\ First(h).tag = "insn"
    BY <1>7 DEF InitCPUState, AtHead
  <2>2. status[h] = "INACTIVE"
    BY <1>t, <2>1, Fetching DEF Woken
  <2>3. /\ UNCHANGED <<subBuffer, seen, waking, instBuffer, lastTag>>
        /\ status'[h] = "ACTIVE" /\ handler'[h] = "fetch" /\ First(h)' = First(h)
        /\ nextPc'[h] = First(h).inst.pc /\ fetchPc'[h] = First(h).inst.pc
        /\ fetchEnd'[h] = fetchPc'[h] + FetchWidth
    BY <1>7, <1>t DEF InitCPUState, BeginFetch, channelVars, WakeTypeOK, CpuTypeOK, First
  <2>4. First(h).inst.pc = p[seen[h] + 1] /\ nextId[h] # 0
    BY <1>t, <2>1, HeadLinked DEF Linked
  <2>5. seen[h] + 1 \in s /\ lastTag[h] # "sys"
    BY <1>t, <2>2 DEF Begins, Tuned
  <2>6. ~waking[h] => instBuffer[h] = <<>>
    BY <1>t, <2>1, <2>2 DEF Tuned
  <2>7. Begins(h, s, p)'
    BY <2>1, <2>3, <2>4, <2>5, <2>6 DEF Begins, Expected
  <2>8. Tuned(h)'
    BY <1>h, <2>1, <2>3, <2>4, <2>5 DEF Tuned
  <2> QED
    BY <1>s, <2>3, <2>7, <2>8
<1>8. CASE FirstEventAssertion(h)
  <2>1. handler[h] = "boot" /\ status[h] = "INACTIVE"
    BY <1>8, <1>t, Fetching DEF FirstEventAssertion, AtHead, Woken
  <2>2. /\ UNCHANGED <<subBuffer, seen, status, waking, fetchVars, lastTag>>
        /\ handler'[h] = "failed"
    BY <1>8, <1>t DEF FirstEventAssertion, channelVars, WakeTypeOK
  <2> QED
    BY <1>t, <1>h, <1>s, <2>1, <2>2 DEF Tuned, Begins, fetchVars
<1>9. CASE FetchSyscall(h)
  <2>1. handler[h] = "fetch" /\ subBuffer[h] # <<>> /\ First(h).tag = "sys" /\ PopFront(h)
    BY <1>9 DEF FetchSyscall, AtHead
  <2>2. status[h] = "ACTIVE" /\ ~waking[h]
    BY <1>t, <2>1, Fetching DEF Begins
  <2>3. /\ UNCHANGED <<waking, fetchVars>>
        /\ status'[h] = "BLOCKED_SYSCALL" /\ handler'[h] = "execute"
    BY <1>9, <1>t, <2>2 DEF FetchSyscall, HandleSyscallApi, WakeTypeOK
  <2>4. /\ Continues(h, s, p)' /\ seen'[h] = seen[h] + 1 /\ seen[h] \in Int
        /\ Linked([id |-> seen[h] + 1, data |-> First(h)], s, p)
    BY <1>t, <2>1, ContinuesPop
  <2>5. p[seen'[h] + 1] = p[seen[h] + 1]
    BY <2>1, <2>4 DEF Linked
  <2>6. Begins(h, s, p)'
    BY <2>2, <2>3, <2>5 DEF Begins, Expected, fetchVars
  <2>7. Tuned(h)'
    BY <1>t, <1>h, <2>2, <2>3 DEF Tuned
  <2> QED
    BY <2>4, <2>6, <2>7
<1>10. CASE FetchMismatch(h)
  <2>1. /\ handler[h] = "fetch" /\ subBuffer[h] # <<>> /\ First(h).tag = "insn" /\ ~Fits(h)
    BY <1>10 DEF FetchMismatch, AtHead
  <2>2. ~waking[h]
    <3> SUFFICES ASSUME waking[h] PROVE FALSE
      OBVIOUS
    <3>1. /\ seen[h] + 1 \in s /\ fetchPc[h] = First(h).inst.pc
          /\ fetchEnd[h] = fetchPc[h] + FetchWidth
      BY <2>1 DEF Begins
    <3>2. First(h).inst.len = FetchWidth
      BY <1>t, <2>1, <3>1, HeadLinked DEF Linked
    <3>3. fetchPc[h] \in Nat
      BY <1>t DEF CpuTypeOK
    <3> QED
      BY <2>1, <3>1, <3>2, <3>3, FetchAssumption DEF Fits
  <2>3. /\ UNCHANGED <<subBuffer, seen, status, waking, fetchVars, lastTag>>
        /\ handler'[h] = "execute"
    BY <1>10, <1>t DEF FetchMismatch, channelVars, WakeTypeOK
  <2> QED
    BY <1>t, <1>h, <1>s, <2>1, <2>2, <2>3 DEF Tuned, Begins, fetchVars, Expected
<1>11. CASE FetchInstruction(h)
  <2> PICK inst : inst = First(h).inst
    OBVIOUS
  <2>1. handler[h] = "fetch" /\ subBuffer[h] # <<>> /\ First(h).tag = "insn" /\ PopFront(h)
    BY <1>11 DEF FetchInstruction, AtHead
  <2>2. status[h] = "ACTIVE"
    BY <1>t, <2>1, Fetching
  <2>3. /\ Continues(h, s, p)' /\ seen'[h] = seen[h] + 1 /\ seen[h] \in Int
        /\ Linked([id |-> seen[h] + 1, data |-> First(h)], s, p)
    BY <1>t, <2>1, ContinuesPop
  <2>4. /\ seen[h] + 1 \in s => ~First(h).last /\ inst.len = FetchWidth
        /\ seen'[h] + 1 \in s <=> First(h).last
        /\ ~First(h).last => inst.redirect /\ inst.target = p[seen'[h] + 1]
    BY <2>1, <2>3 DEF Linked
  <2>5. /\ instBuffer'[h] = Append(instBuffer[h], inst)
        /\ fetchPc'[h] = fetchPc[h] + inst.len
        /\ UNCHANGED <<waking, fetchEnd, nextPc>> /\ lastTag'[h] = "insn"
        /\ handler'[h] = IF First(h).last \/ fetchPc'[h] >= fetchEnd[h] THEN "execute" ELSE "fetch"
    BY <1>11, <1>t DEF FetchInstruction, WakeTypeOK, CpuTypeOK
  <2>6. instBuffer'[h] # <<>> /\ LastOf(instBuffer'[h]) = inst
    <3>1. instBuffer[h] \in Seq(Inst) /\ inst \in Inst
      BY <1>t, <2>1, HeadLinked DEF CpuTypeOK, EventData
    <3> QED
      BY <2>5, <3>1, AppendedInst, EmptySeq, LenProperties DEF LastOf
  <2>7. waking[h] => ~First(h).last /\ handler'[h] = "execute"
    BY <1>11, StartingFills
  <2>8. IF First(h).last
        THEN status'[h] = IF h = Boot THEN "COMPLETED" ELSE "INACTIVE"
        ELSE status' = status
    BY <1>11, <1>t DEF FetchInstruction, LastInstruction, WakeTypeOK
  <2>9. Begins(h, s, p)'
    BY <2>2, <2>4, <2>5, <2>6, <2>7, <2>8 DEF Begins, Expected
  <2>10. Tuned(h)'
    BY <1>t, <1>h, <2>2, <2>5, <2>7, <2>8 DEF Tuned
  <2> QED
    BY <2>3, <2>9, <2>10
<1>12. CASE Execute(h)
  <2>1. handler[h] = "execute" /\ Retire(h)
    BY <1>12 DEF Execute
  <2>2. /\ UNCHANGED <<subBuffer, seen, lastTag>> /\ status'[h] = status[h]
        /\ handler'[h] = "idle" /\ ~waking'[h]
    BY <1>12, <1>t, <2>1 DEF Execute, Resume, channelVars, WakeTypeOK, Tuned
  <2>3. Going(h) => /\ Expected(h)' = Expected(h)
                    /\ instBuffer'[h] # <<>> => LastOf(instBuffer'[h]).redirect
    BY <1>t, <2>1, ExpectedKept DEF Begins
  <2>4. instBuffer[h] = <<>> => instBuffer'[h] = <<>>
    BY <2>1 DEF Retire
  <2>5. Begins(h, s, p)'
    BY <2>1, <2>2, <2>3 DEF Begins
  <2>6. Tuned(h)'
    BY <1>t, <1>h, <2>2, <2>4 DEF Tuned
  <2> QED
    BY <1>s, <2>2, <2>5, <2>6
<1>13. CASE CheckProcess(h)
  <2>1. handler[h] = "polled" /\ status[h] = "INACTIVE" /\ ~waking[h]
    BY <1>13, <1>t, Fetching DEF CheckProcess, Woken
  <2>2. /\ UNCHANGED <<subBuffer, seen, waking, fetchVars, lastTag>>
        /\ handler'[h] = "idle" /\ status'[h] \in {"INACTIVE", "COMPLETED"}
    BY <1>13, <1>t, <2>1 DEF CheckProcess, channelVars, WakeTypeOK
  <2> QED
    BY <1>t, <1>h, <1>s, <2>1, <2>2 DEF Tuned, Begins, fetchVars
<1> QED
  BY <1>1, <1>2, <1>3, <1>4, <1>5, <1>6, <1>7, <1>8, <1>9, <1>10, <1>11, <1>12, <1>13
     DEF Dispatch, HandlerStep

\* The event that the hart will see next is the next one of the stream.
LEMMA UpcomingFollows ==
    ASSUME WindowInv, NEW h \in Harts, sub[h] # "gone", Upcoming(h) # <<>>
    PROVE  /\ Head(Upcoming(h)) \in InFlight(h)
           /\ Head(Upcoming(h)) \in Event /\ Head(Upcoming(h)).id = seen[h] + 1
<1>1. /\ subBuffer[h] \in Seq(Event) /\ queue[h] \in Seq(Message) /\ seen[h] \in Int
      /\ \A m \in Message : m \in Seq(Event)
  BY DEF WindowInv, IntactInv, TypeInv, TypeOK, Message
<1>2. StreamIntactFor(h)
  BY DEF WindowInv, IntactInv, StreamIntact
<1> DEFINE rest == IF queue[h] = <<>> THEN <<>> ELSE Head(queue[h])
<1>3. queue[h] # <<>> => /\ 1 \in 1 .. Len(queue[h]) /\ rest = queue[h][1] /\ rest \in Message
  BY <1>1, EmptySeq, LenProperties, HeadTailProperties
<1>4. rest \in Seq(Event)
  BY <1>1, <1>3
<1>5. Upcoming(h) = subBuffer[h] \o rest
  BY DEF Upcoming
<1> HIDE DEF rest
<1>6. CASE subBuffer[h] # <<>>
  <2>1. /\ Head(subBuffer[h]) \in InFlight(h) /\ Head(subBuffer[h]) \in Event
        /\ Head(subBuffer[h]).id = seen[h] + 1
    BY <1>6, HeadFollows
  <2>2. Len(subBuffer[h]) \in Nat /\ Len(subBuffer[h]) # 0 /\ Head(subBuffer[h]) = subBuffer[h][1]
    BY <1>1, <1>6, EmptySeq, LenProperties, HeadTailProperties
  <2>3. Upcoming(h) \in Seq(Event) /\ Upcoming(h)[1] = subBuffer[h][1]
    BY <1>1, <1>4, <1>5, <2>2, ConcatProperties, LenProperties
  <2>4. Head(Upcoming(h)) = subBuffer[h][1]
    BY <2>3, HeadTailProperties
  <2> QED
    BY <2>1, <2>2, <2>4
<1>7. CASE subBuffer[h] = <<>>
  <2>1. Upcoming(h) = rest
    BY <1>4, <1>5, <1>7, ConcatEmptySeq
  <2>2. queue[h] # <<>>
    BY <2>1 DEF rest
  <2>3. Len(subBuffer[h]) = 0
    BY <1>7, EmptySeq
  <2>4. Start(seen[h], subBuffer[h], queue[h], 1) = seen[h] + 1
    BY <1>1, <2>3 DEF Start
  <2>5. rest # <<>> /\ Numbered(rest, seen[h] + 1)
    BY <1>2, <1>3, <2>2, <2>4 DEF StreamIntactFor, Intact
  <2>6. 1 \in 1 .. Len(rest) /\ Head(rest) = rest[1] /\ rest[1] \in Event
    BY <1>4, <2>5, EmptySeq, LenProperties, HeadTailProperties, ElementOfSeq
  <2>7. rest[1].id = seen[h] + 1
    BY <1>1, <2>5, <2>6 DEF Numbered
  <2>8. rest[1] \in InFlight(h)
    <3>1. rest[1] \in Elements(rest) /\ rest \in Elements(queue[h])
      BY <1>3, <2>2, <2>6 DEF Elements
    <3> QED
      BY <3>1, InFlightOf
  <2> QED
    BY <2>1, <2>6, <2>7, <2>8
<1> QED
  BY <1>6, <1>7

LEMMA SteadyStart ==
    ASSUME SteadyGuests, Payload = EventData, PipelineInit
    PROVE  SteadyInv
<1>1. PipeInv /\ WindowInv
  BY PipeStart, WindowInit DEF PipelineInit
<1>2. ASSUME NEW h \in Harts
      PROVE  sub[h] # "gone" /\ Known(h) /\ Tuned(h) /\ Chained(h)
  <2>1. /\ subBuffer[h] = <<>> /\ queue[h] = <<>> /\ pubBuffer[h] = <<>> /\ Len(<<>>) = 0
        /\ sub[h] = "none" /\ instBuffer[h] = <<>> /\ instCount[h] = 0 /\ seen[h] = -1
        /\ nextId[h] = 0 /\ vcpu[h] = "absent" /\ status[h] = "INACTIVE" /\ handler[h] = "idle"
        /\ ~waking[h] /\ lastTag[h] = "none"
    BY EmptySeq DEF PipelineInit, Init
  <2>2. InFlight(h) = {}
    BY <2>1, ElementsEmpty DEF InFlight
  <2>3. Known(h) /\ Tuned(h)
    BY <2>1 DEF Known, Tuned, Going
  <2> PICK p \in [Int -> Nat] : p = [n \in Int |-> 0]
    OBVIOUS
  <2> PICK s \in SUBSET Int : s = {0}
    <3>1. \A m \in Int : {m} \in SUBSET Int
      BY Zenon
    <3>2. 0 \in Int
      OBVIOUS
    <3> QED
      BY <3>1, <3>2, Zenon
  <2>4. Continues(h, s, p)
    BY <2>1, <2>2 DEF Continues
  <2>5. Ends(h, s, p) /\ Begins(h, s, p)
    <3>1. seen[h] + 1 \in s
      BY <2>1
    <3> QED
      BY <2>1, <3>1 DEF Ends, Begins, Going, Starting
  <2> QED
    BY <2>1, <2>3, <2>4, <2>5 DEF Chained
<1> QED
  BY <1>1, <1>2 DEF SteadyInv

\* What decides about a vcpu's thread, and what stays with it.
GuestOf(h) == <<nextId[h], instCount[h], lastInst[h], vcpu[h], life[h], ip[h], program>>

LEMMA KnownAlone ==
    ASSUME NEW h, UNCHANGED GuestOf(h), Known(h)
    PROVE  Known(h)'
<1>1. Insn(h)' = Insn(h)
  BY DEF GuestOf, Insn
<1> QED
  BY <1>1 DEF GuestOf, Known

LEMMA EndsAlone ==
    ASSUME NEW h, UNCHANGED GuestOf(h), NEW s, NEW p, Ends(h, s, p)
    PROVE  Ends(h, s, p)'
BY DEF GuestOf, Ends

LEMMA SteadyStep ==
    ASSUME SteadyInv, [PipelineNext]_pipelineVars
    PROVE  SteadyInv'
<1>t. PipeInv /\ WindowInv /\ SteadyGuests
  BY DEF SteadyInv
<1>1. PipeInv' /\ WindowInv' /\ SteadyGuests'
  BY <1>t, PipeStep, ContractStep, WindowStep DEF SteadyGuests, Steady
<1> SUFFICES ASSUME NEW g \in Harts
             PROVE  Known(g)' /\ Tuned(g)' /\ Chained(g)'
  BY <1>t, <1>1, StaysSubscribed DEF SteadyInv
<1>g. sub[g] # "gone" /\ Known(g) /\ Tuned(g) /\ nextId[g] \in Nat
  BY DEF SteadyInv, PipeInv, TypeInv, TypeOK
<1>c. PICK s \in SUBSET Int, p \in [Int -> Nat] :
         Continues(g, s, p) /\ Ends(g, s, p) /\ Begins(g, s, p)
  BY DEF SteadyInv, Chained
<1>2. ASSUME UNCHANGED <<subBuffer[g], seen[g], status[g], waking[g], handler[g]>>,
             UNCHANGED <<fetchPc[g], fetchEnd[g], nextPc[g], instBuffer[g], lastTag[g]>>,
             InFlight(g)' \subseteq InFlight(g), nextId' = nextId
      PROVE  Tuned(g)' /\ Continues(g, s, p)' /\ Begins(g, s, p)'
  BY <1>c, <1>g, <1>2, ContinuesFrame, BeginsAlone, TunedAlone
<1>3. ASSUME UNCHANGED GuestOf(g), Tuned(g)', Continues(g, s, p)', Begins(g, s, p)'
      PROVE  Known(g)' /\ Tuned(g)' /\ Chained(g)'
  BY <1>c, <1>g, <1>3, KnownAlone, EndsAlone DEF Chained
<1>4. ASSUME NEW h \in Harts, RegisterISS(h) \/ TransportStep(h)
      PROVE  Known(g)' /\ Tuned(g)' /\ Chained(g)'
  <2>1. UNCHANGED <<subBuffer, seen, cpuVars>>
    BY <1>4, OutsideAlone
  <2>2. UNCHANGED <<nextId, program, guestVars>> /\ InFlight(g)' \subseteq InFlight(g)
    BY <1>t, <1>4, TransportKeeps
  <2>3. Tuned(g)' /\ Continues(g, s, p)' /\ Begins(g, s, p)'
    BY <1>2, <2>1, <2>2 DEF cpuVars, fetchVars
  <2> QED
    BY <1>3, <2>2, <2>3 DEF GuestOf, guestVars
<1>5. ASSUME NEW h \in Harts, GuestStep(h)
      PROVE  Known(g)' /\ Tuned(g)' /\ Chained(g)'
  BY <1>5, GuestChains, GuestChainsAlone
<1>6. ASSUME NEW h \in Harts, Dispatch(h) \/ HandlerStep(h)
      PROVE  Known(g)' /\ Tuned(g)' /\ Chained(g)'
  <2>1. UNCHANGED <<nextId, program, guestVars>> /\ InFlight(g)' \subseteq InFlight(g)
    BY <1>t, <1>6, HartKeeps
  <2>2. CASE g = h
    BY <1>c, <1>3, <1>6, <2>1, <2>2, HartContinues DEF GuestOf, guestVars
  <2>3. CASE g # h
    <3>1. Tuned(g)' /\ Continues(g, s, p)' /\ Begins(g, s, p)'
      BY <1>t, <1>2, <1>6, <2>1, <2>3, HartAlone, FetchAlone
    <3> QED
      BY <1>3, <2>1, <3>1 DEF GuestOf, guestVars
  <2> QED
    BY <2>2, <2>3
<1>7. CASE BootSystem
  <2>1. /\ UNCHANGED <<channelVars, program, ip, instCount, lastInst, status, handler, waking>>
        /\ UNCHANGED <<fetchVars, lastTag>> /\ vcpu[g] = "absent" /\ ip[g] = 1
        /\ vcpu'[g] \in {"absent", "created"}
    BY <1>t, <1>7, BootFirst DEF BootSystem, PipeInv, GuestOK
  <2>2. UNCHANGED <<subBuffer, seen, nextId>> /\ InFlight(g)' \subseteq InFlight(g)
    BY <2>1, FlightFrame DEF channelVars
  <2>3. Tuned(g)' /\ Continues(g, s, p)' /\ Begins(g, s, p)'
    BY <1>2, <2>1, <2>2 DEF fetchVars
  <2>4. Known(g)'
    BY <1>g, <2>1, <2>2 DEF Known
  <2>5. Ends(g, s, p)'
    BY <1>c, <2>1, <2>2 DEF Ends
  <2> QED
    BY <2>3, <2>4, <2>5 DEF Chained
<1>8. CASE UNCHANGED pipelineVars
  <2>1. UNCHANGED <<channelVars, program, guestVars, cpuVars>>
    BY <1>8 DEF pipelineVars
  <2>2. UNCHANGED <<subBuffer, seen, nextId>> /\ InFlight(g)' \subseteq InFlight(g)
    BY <2>1, FlightFrame DEF channelVars
  <2>3. Tuned(g)' /\ Continues(g, s, p)' /\ Begins(g, s, p)'
    BY <1>2, <2>1, <2>2 DEF cpuVars, fetchVars
  <2> QED
    BY <1>3, <2>1, <2>2, <2>3 DEF GuestOf, guestVars
<1> QED
  BY <1>4, <1>5, <1>6, <1>7, <1>8 DEF PipelineNext

\* A hart that has met a system call last, and received nothing since, is blocked, for
\* every guest whose threads are steady: wakeUpMonitor declares a hart active after the
\* tick it has made, but a thread's first package holds its first instruction alone.
THEOREM BlocksOnSyscall ==
    ASSUME Payload = EventData, \A p \in Programs : Steady(p)
    PROVE  PipelineSpec => []BlockedOnSyscall
<1>1. PipelineInit => SteadyInv
  BY SteadyStart DEF SteadyGuests
<1>2. SteadyInv /\ [PipelineNext]_pipelineVars => SteadyInv'
  BY SteadyStep
<1>3. SteadyInv => BlockedOnSyscall
  BY DEF SteadyInv, Tuned, BlockedOnSyscall
<1> QED
  BY <1>1, <1>2, <1>3, PTL DEF PipelineSpec

\* Fetching never gets stuck on a mismatch, for every guest whose threads are steady: what
\* the plugin says comes after each instruction is what the hart meets next.
THEOREM FollowsNextPc ==
    ASSUME Payload = EventData, \A p \in Programs : Steady(p)
    PROVE  PipelineSpec => []NextPcFollows
<1>1. PipelineInit => SteadyInv
  BY SteadyStart DEF SteadyGuests
<1>2. SteadyInv /\ [PipelineNext]_pipelineVars => SteadyInv'
  BY SteadyStep
<1>3. SteadyInv => NextPcFollows
  <2> SUFFICES ASSUME SteadyInv, NEW h \in Harts, Between(h), status[h] = "ACTIVE",
                      instBuffer[h] = <<>>, Upcoming(h) # <<>>,
                      Head(Upcoming(h)).data.tag = "insn"
               PROVE  Head(Upcoming(h)).data.inst.pc = nextPc[h]
    BY DEF NextPcFollows
  <2>1. PICK s \in SUBSET Int, p \in [Int -> Nat] : Continues(h, s, p) /\ Begins(h, s, p)
    BY DEF SteadyInv, Chained
  <2>2. p[seen[h] + 1] = nextPc[h]
    BY <2>1 DEF Begins, Between, Starting, Going, Expected
  <2>3. Head(Upcoming(h)) \in InFlight(h) /\ Head(Upcoming(h)).id = seen[h] + 1
    BY UpcomingFollows DEF SteadyInv
  <2>4. Linked(Head(Upcoming(h)), s, p)
    BY <2>1, <2>3 DEF Continues
  <2> QED
    BY <2>2, <2>3, <2>4 DEF Linked
<1> QED
  BY <1>1, <1>2, <1>3, PTL DEF PipelineSpec

------------------------------------------------------------------------------
(* RetiredAll, for guests that join, use every vcpu once, are steady and have   *)
(* an instruction of their own to exit with: nothing else is left in the        *)
(* instruction buffer when that one is fetched.                                 *)

ExitPc(h) == program[h][life[h]][Len(program[h][life[h]])].pc

\* The last event of a thread is the exit, which is as wide as a fetch.
Marked(e, x) == e.data.tag = "insn" =>
    IF e.data.last THEN e.data.inst.pc = x /\ e.data.inst.len = FetchWidth ELSE e.data.inst.pc # x

Leaves(h) ==
    /\ vcpu[h] = "absent" => InFlight(h) = {} /\ instBuffer[h] = <<>>
    /\ vcpu[h] \in {"syscall", "kernel"} => lastInst[h].pc = Insn(h).pc
    /\ vcpu[h] = "running" /\ instCount[h] # 0 => lastInst[h].pc # ExitPc(h)
    /\ vcpu[h] = "exiting" => lastInst[h].pc = ExitPc(h)
    /\ \A e \in InFlight(h) : Marked(e, ExitPc(h))

\* The buffered instructions follow one another, and none is x.
Following(b) == \A i \in 1 .. Len(b) - 1 : b[i].redirect /\ b[i].target = b[i + 1].pc
Without(b, x) == \A i \in 1 .. Len(b) : b[i].pc # x

\* While a hart goes on, the next pc is that of its oldest buffered instruction.
Queued(h) ==
    /\ Going(h) => /\ Without(instBuffer[h], ExitPc(h)) /\ Following(instBuffer[h])
                   /\ instBuffer[h] # <<>> => instBuffer[h][1].pc = nextPc[h]
    /\ ~Going(h) => \/ instBuffer[h] = <<>>
                    \/ handler[h] = "execute" /\ Tail(instBuffer[h]) = <<>>
    /\ Starting(h) => instBuffer[h] = <<>>
    /\ handler[h] = "fetch" => /\ fetchEnd[h] = nextPc[h] + FetchWidth /\ nextPc[h] <= fetchPc[h]
                               /\ instBuffer[h] = <<>> => fetchPc[h] = nextPc[h]

ExitingInv ==
    /\ CompletionInv /\ OrderInv /\ SteadyInv
    /\ \A p \in Programs : ExitsApart(p)
    /\ \A h \in Harts : Leaves(h) /\ Queued(h)

------------------------------------------------------------------------------
\* Only the exit has the pc of the exit.
LEMMA ExitPcs ==
    ASSUME PipeInv, \A p \in Programs : ExitsApart(p), NEW h \in Harts,
           vcpu[h] \in {"created", "running", "syscall", "kernel"}
    PROVE  Insn(h).call = "exit" <=> Insn(h).pc = ExitPc(h)
<1> DEFINE t == program[h][life[h]]
<1>1. program \in Programs /\ WellFormed(program) /\ AtInstruction(h) /\ ExitsApart(program)
  BY ProgramsAssumption DEF PipeInv, GuestOK
<1>2. life[h] \in DOMAIN program[h] /\ ip[h] \in DOMAIN t /\ program[h] \in Seq(Seq(Instruction))
  BY <1>1 DEF AtInstruction, WellFormed
<1>3. t \in Seq(Instruction)
  BY <1>2, ElementOfSeq
<1>4. Len(t) \in Nat /\ ip[h] \in 1 .. Len(t)
  BY <1>2, <1>3, LenProperties
<1>5. Insn(h).call = "exit" <=> ip[h] = Len(t)
  BY <1>1, InsnTyped
<1>6. Insn(h) = t[ip[h]] /\ ExitPc(h) = t[Len(t)].pc
  BY DEF Insn, ExitPc
<1>7. \A i \in 1 .. Len(t) - 1 : t[i].pc # t[Len(t)].pc
  BY <1>1, <1>2 DEF ExitsApart
<1> HIDE DEF t
<1>8. ip[h] # Len(t) => ip[h] \in 1 .. Len(t) - 1
  BY <1>4
<1> QED
  BY <1>5, <1>6, <1>7, <1>8

\* What is published keeps the events of the hart marked.
LEMMA MarkedPublish ==
    ASSUME TypeOK, NEW h \in Harts, NEW data \in Payload, NEW force, Publish(h, data, force),
           NEW x, \A e \in InFlight(h) : Marked(e, x),
           data.tag = "insn" =>
               IF data.last THEN data.inst.pc = x /\ data.inst.len = FetchWidth
                            ELSE data.inst.pc # x
    PROVE  \A e \in InFlight(h)' : Marked(e, x)
<1>1. InFlight(h)' = InFlight(h) \union {[id |-> nextId[h], data |-> data]}
  BY FlightPublish
<1>2. Marked([id |-> nextId[h], data |-> data], x)
  BY DEF Marked
<1> QED
  BY <1>1, <1>2

LEMMA LeavesFrame ==
    ASSUME NEW h, Leaves(h), UNCHANGED GuestOf(h), InFlight(h)' \subseteq InFlight(h),
           vcpu[h] = "absent" => instBuffer'[h] = <<>>
    PROVE  Leaves(h)'
<1>1. Insn(h)' = Insn(h) /\ ExitPc(h)' = ExitPc(h)
  BY DEF GuestOf, Insn, ExitPc
<1> QED
  BY <1>1 DEF GuestOf, Leaves, Marked

LEMMA QueuedFrame ==
    ASSUME NEW h, Queued(h), ExitPc(h)' = ExitPc(h) \/ instBuffer[h] = <<>>,
           UNCHANGED <<status[h], waking[h], handler[h], fetchPc[h], fetchEnd[h], nextPc[h],
                       instBuffer[h]>>
    PROVE  Queued(h)'
<1>1. \A x : Without(<<>>, x)
  BY EmptySeq DEF Without
<1> QED
  BY <1>1 DEF Queued, Going, Starting

LEMMA GuestLeaves ==
    ASSUME ExitingInv, NEW h \in Harts, GuestStep(h)
    PROVE  Leaves(h)' /\ ExitPc(h)' = ExitPc(h)
<1>t. /\ TypeOK /\ CpuTypeOK /\ PipeInv /\ Payload = EventData /\ SpawnsOnce /\ Spawning
      /\ Counting(h) /\ Leaves(h) /\ Known(h) /\ \A p \in Programs : ExitsApart(p)
  BY DEF ExitingInv, OrderInv, SteadyInv, PipeInv, TypeInv
<1>n. instCount[h] \in Nat /\ lastInst[h] \in Inst
  BY <1>t DEF CpuTypeOK
<1>s. ASSUME UNCHANGED channelVars \/ NewPublisher(h)
      PROVE  InFlight(h)' = InFlight(h)
  <2>1. UNCHANGED <<subBuffer, queue, pubBuffer>>
    BY <1>s DEF channelVars, NewPublisher, subVars
  <2> QED
    BY <2>1, FlightFrame
<1>1. CASE ThreadInitialize(h)
  <2>1. /\ vcpu[h] = "created" /\ vcpu'[h] = "running"
        /\ UNCHANGED <<program, life, ip, instCount, lastInst>>
        /\ UNCHANGED channelVars \/ NewPublisher(h)
    BY <1>1, <1>t DEF ThreadInitialize, CpuTypeOK
  <2>2. instCount[h] = 0 /\ ExitPc(h)' = ExitPc(h)
    BY <1>t, <2>1 DEF Counting, ExitPc
  <2> QED
    BY <1>t, <1>s, <2>1, <2>2 DEF Leaves, Marked
<1>2. CASE ExecuteInstruction(h)
  <2> DEFINE inst == Insn(h)
             base == IF Executed(h) THEN Previous(h, inst) ELSE lastInst[h]
  <2>1. /\ vcpu[h] = "running" /\ UNCHANGED <<program, life>>
        /\ instCount'[h] = instCount[h] + 1
        /\ \/ vcpu'[h] = "running" /\ ip'[h] = ip[h] + 1 /\ inst.call = "none"
           \/ vcpu'[h] = "syscall" /\ ip'[h] = ip[h]
    BY <1>2, <1>t DEF ExecuteInstruction, Callback, CpuTypeOK
  <2>2. inst \in Instruction /\ (inst.call = "exit" <=> inst.pc = ExitPc(h))
    BY <1>t, <2>1, InsnTyped, ExitPcs
  <2>3. base \in Inst
    BY <1>t, <1>n, <2>2, PreviousTyped
  <2>4. Executed(h) => base.pc = lastInst[h].pc
    BY <1>n DEF Previous, Inst
  <2>5. /\ lastInst' = [lastInst EXCEPT ![h] =
                 [base EXCEPT !.uid = Uid(h), !.pc = inst.pc, !.len = inst.len]]
        /\ IF Executed(h) THEN Publish(h, InsnEvent(base, FALSE), FALSE)
                          ELSE UNCHANGED channelVars
    BY <1>2 DEF ExecuteInstruction
  <2> HIDE DEF base, inst
  <2>6. lastInst'[h].pc = inst.pc
    <3>1. lastInst'[h] = [base EXCEPT !.uid = Uid(h), !.pc = inst.pc, !.len = inst.len]
      BY <1>t, <2>5 DEF CpuTypeOK
    <3> QED
      BY <2>3, <3>1 DEF Inst
  <2>7. ExitPc(h)' = ExitPc(h)
    BY <2>1 DEF ExitPc
  <2>8. \A e \in InFlight(h)' : Marked(e, ExitPc(h))
    <3>1. CASE ~Executed(h)
      BY <1>t, <1>s, <2>5, <3>1 DEF Leaves
    <3>2. CASE Executed(h)
      <4> PICK x : x = ExitPc(h)
        OBVIOUS
      <4>1. \A e \in InFlight(h) : Marked(e, x)
        BY <1>t DEF Leaves
      <4>2. lastInst[h].pc # x
        BY <1>t, <2>1, <3>2 DEF Leaves, Executed
      <4> PICK d \in Payload : d = InsnEvent(base, FALSE)
        BY <1>t, <2>3 DEF InsnEvent, EventData
      <4>3. d.tag = "insn" /\ ~d.last /\ d.inst = base
        BY DEF InsnEvent
      <4>4. Publish(h, d, FALSE)
        BY <2>5, <3>2
      <4>5. \A e \in InFlight(h)' : Marked(e, x)
        BY <1>t, <2>4, <3>2, <4>1, <4>2, <4>3, <4>4, MarkedPublish
      <4> QED
        BY <4>5
    <3> QED
      BY <3>1, <3>2
  <2>9. vcpu'[h] = "running" => lastInst'[h].pc # ExitPc(h)
    BY <2>1, <2>2, <2>6
  <2>10. vcpu'[h] = "syscall" => lastInst'[h].pc = Insn(h)'.pc
    BY <2>1, <2>6 DEF inst, Insn
  <2>11. \A e \in InFlight(h)' : Marked(e, ExitPc(h))'
    BY <2>7, <2>8 DEF Marked
  <2> QED
    BY <2>1, <2>7, <2>9, <2>10, <2>11 DEF Leaves
<1>3. CASE Syscall(h)
  <2>1. /\ vcpu[h] = "syscall" /\ vcpu'[h] = "kernel"
        /\ UNCHANGED <<program, life, ip, instCount, lastInst>>
        /\ Publish(h, SyscallEvent, TRUE) \/ UNCHANGED channelVars
    BY <1>3, <1>t DEF Syscall, Callback, CpuTypeOK
  <2>2. ExitPc(h)' = ExitPc(h) /\ Insn(h)' = Insn(h)
    BY <2>1 DEF ExitPc, Insn
  <2>3. \A e \in InFlight(h)' : Marked(e, ExitPc(h))
    <3>1. CASE UNCHANGED channelVars
      BY <1>t, <1>s, <3>1 DEF Leaves
    <3>2. CASE Publish(h, SyscallEvent, TRUE)
      <4> PICK x : x = ExitPc(h)
        OBVIOUS
      <4>1. \A e \in InFlight(h) : Marked(e, x)
        BY <1>t DEF Leaves
      <4> PICK d \in Payload : d = SyscallEvent
        <5>1. NullInst \in Inst
          BY DEF NullInst, Inst
        <5> QED
          BY <1>t, <5>1 DEF SyscallEvent, EventData
      <4>2. d.tag # "insn"
        BY DEF SyscallEvent
      <4>3. Publish(h, d, TRUE)
        BY <3>2
      <4>4. \A e \in InFlight(h)' : Marked(e, x)
        BY <1>t, <4>1, <4>2, <4>3, MarkedPublish
      <4> QED
        BY <4>4
    <3> QED
      BY <2>1, <3>1, <3>2
  <2>4. \A e \in InFlight(h)' : Marked(e, ExitPc(h))'
    BY <2>2, <2>3 DEF Marked
  <2> QED
    BY <1>t, <2>1, <2>2, <2>4 DEF Leaves
<1>4. CASE SyscallReturn(h)
  <2>0. vcpu[h] = "kernel" /\ h \notin Spawned(Insn(h))
    BY <1>4 DEF SyscallReturn, Callback, Exited
  <2>1. /\ UNCHANGED <<program, instCount, lastInst, channelVars>> /\ life'[h] = life[h]
        /\ IF Insn(h).call = "exit" THEN vcpu'[h] = "exiting" ELSE vcpu'[h] = "running"
    BY <1>4, <1>t, <2>0 DEF SyscallReturn, CpuTypeOK
  <2>2. ExitPc(h)' = ExitPc(h) /\ (Insn(h).call = "exit" <=> Insn(h).pc = ExitPc(h))
    BY <1>t, <2>0, <2>1, ExitPcs DEF ExitPc
  <2>3. lastInst[h].pc = Insn(h).pc
    BY <1>t, <2>0 DEF Leaves
  <2> QED
    BY <1>t, <1>s, <2>1, <2>2, <2>3 DEF Leaves, Marked
<1>5. CASE ThreadExit(h)
  <2>1. /\ vcpu[h] = "exiting" /\ vcpu'[h] = "dead"
        /\ UNCHANGED <<program, life, ip, instCount, lastInst>>
        /\ Publish(h, InsnEvent(lastInst[h], TRUE), TRUE)
    BY <1>5, <1>t DEF ThreadExit, Callback, CpuTypeOK
  <2>2. ExitPc(h)' = ExitPc(h)
    BY <2>1 DEF ExitPc
  <2> PICK x : x = ExitPc(h)
    OBVIOUS
  <2>3. lastInst[h].len = FetchWidth /\ lastInst[h].pc = x
    BY <1>t, <2>1 DEF Known, Leaves
  <2>4. \A e \in InFlight(h) : Marked(e, x)
    BY <1>t DEF Leaves
  <2> PICK d \in Payload : d = InsnEvent(lastInst[h], TRUE)
    BY <1>t, <1>n DEF InsnEvent, EventData
  <2>5. d.tag = "insn" /\ d.last /\ d.inst = lastInst[h]
    BY DEF InsnEvent
  <2>6. Publish(h, d, TRUE)
    BY <2>1
  <2>7. \A e \in InFlight(h)' : Marked(e, x)
    BY <1>t, <2>3, <2>4, <2>5, <2>6, MarkedPublish
  <2>8. \A e \in InFlight(h)' : Marked(e, ExitPc(h))'
    BY <2>2, <2>7 DEF Marked
  <2> QED
    BY <2>1, <2>2, <2>8 DEF Leaves
<1> QED
  BY <1>1, <1>2, <1>3, <1>4, <1>5 DEF GuestStep

LEMMA GuestLeavesAlone ==
    ASSUME ExitingInv, NEW h \in Harts, GuestStep(h), NEW g \in Harts, g # h
    PROVE  Leaves(g)' /\ (ExitPc(g)' = ExitPc(g) \/ instBuffer[g] = <<>>)
<1>t. PipeInv /\ SpawnsOnce /\ Spawning /\ Leaves(g)
  BY DEF ExitingInv, OrderInv
<1>1. UNCHANGED <<instBuffer, program>>
  BY OutsideAlone DEF GuestStep, ThreadInitialize, ExecuteInstruction, Syscall, SyscallReturn,
                      ThreadExit, cpuVars, fetchVars
<1>2. /\ InFlight(g)' = InFlight(g) /\ UNCHANGED <<nextId[g], instCount[g], lastInst[g]>>
      /\ \/ UNCHANGED <<vcpu[g], life[g], ip[g]>>
         \/ vcpu[g] = "absent" /\ vcpu'[g] = "created"
  BY <1>t, GuestFrame, SpawnFresh
<1>3. CASE UNCHANGED <<vcpu[g], life[g], ip[g]>>
  <2>1. UNCHANGED GuestOf(g) /\ ExitPc(g)' = ExitPc(g)
    BY <1>1, <1>2, <1>3 DEF GuestOf, ExitPc
  <2>2. vcpu[g] = "absent" => instBuffer'[g] = <<>>
    BY <1>t, <1>1 DEF Leaves
  <2> QED
    BY <1>t, <1>2, <2>1, <2>2, LeavesFrame
<1>4. CASE vcpu[g] = "absent" /\ vcpu'[g] = "created"
  BY <1>t, <1>1, <1>2, <1>4 DEF Leaves
<1> QED
  BY <1>2, <1>3, <1>4

\* The instruction that joins the buffer follows the youngest, and is not x.
LEMMA FollowingAppend ==
    ASSUME NEW b \in Seq(Inst), NEW e \in Inst, Following(b),
           b # <<>> => LastOf(b).redirect /\ LastOf(b).target = e.pc
    PROVE  Following(Append(b, e))
<1> PICK n \in Nat : n = Len(b)
  BY LenProperties
<1>1. /\ Len(Append(b, e)) = n + 1 /\ Append(b, e)[n + 1] = e
      /\ \A i \in 1 .. n : Append(b, e)[i] = b[i]
  BY AppendedInst
<1> PICK c : c = Append(b, e)
  OBVIOUS
<1> SUFFICES ASSUME NEW i \in 1 .. n
             PROVE  c[i].redirect /\ c[i].target = c[i + 1].pc
  BY <1>1 DEF Following
<1>2. CASE i = n
  <2>1. b # <<>> /\ LastOf(b) = b[n] /\ c[i] = b[n] /\ c[i + 1] = e
    BY <1>1, <1>2, EmptySeq DEF LastOf
  <2> QED
    BY <2>1
<1>3. CASE i # n
  <2>1. i \in 1 .. Len(b) - 1 /\ i + 1 \in 1 .. n
    BY <1>3
  <2>2. c[i] = b[i] /\ c[i + 1] = b[i + 1]
    BY <1>1, <2>1
  <2> QED
    BY <2>1, <2>2 DEF Following
<1> QED
  BY <1>2, <1>3

LEMMA WithoutAppend ==
    ASSUME NEW b \in Seq(Inst), NEW e \in Inst, NEW x, Without(b, x), e.pc # x
    PROVE  Without(Append(b, e), x)
<1> PICK n \in Nat : n = Len(b)
  BY LenProperties
<1>1. /\ Len(Append(b, e)) = n + 1 /\ Append(b, e)[n + 1] = e
      /\ \A i \in 1 .. n : Append(b, e)[i] = b[i]
  BY AppendedInst
<1>2. \A i \in 1 .. n + 1 : i \in 1 .. n \/ i = n + 1
  OBVIOUS
<1> QED
  BY <1>1, <1>2 DEF Without

\* Appending leaves the oldest where it is.
LEMMA OldestAppend ==
    ASSUME NEW b \in Seq(Inst), NEW e \in Inst
    PROVE  /\ Append(b, e) # <<>> /\ Append(b, e)[1] = IF b = <<>> THEN e ELSE b[1]
           /\ b = <<>> => Tail(Append(b, e)) = <<>>
<1> PICK n \in Nat : n = Len(b)
  BY LenProperties
<1>1. /\ Len(Append(b, e)) = n + 1 /\ Append(b, e)[n + 1] = e
      /\ \A i \in 1 .. n : Append(b, e)[i] = b[i]
  BY AppendedInst
<1>2. Append(b, e) # <<>>
  BY <1>1, EmptySeq
<1>3. CASE b = <<>>
  <2>1. n = 0
    BY <1>3, EmptySeq
  <2>2. Append(b, e) \in Seq(Inst) /\ Len(Append(b, e)) = 1
    BY <1>1, <2>1, AppendProperties
  <2>3. Len(Tail(Append(b, e))) = 0 /\ Tail(Append(b, e)) \in Seq(Inst)
    BY <1>2, <2>2, HeadTailProperties
  <2> QED
    BY <1>1, <1>2, <1>3, <2>1, <2>3, EmptySeq
<1>4. CASE b # <<>>
  <2>1. 1 \in 1 .. n
    BY <1>4, EmptySeq
  <2> QED
    BY <1>1, <1>2, <1>4, <2>1
<1> QED
  BY <1>3, <1>4

\* Retiring goes on with the instruction that follows.
LEMMA FollowingTail ==
    ASSUME NEW b \in Seq(Inst), b # <<>>, Following(b), NEW x, Without(b, x)
    PROVE  /\ Following(Tail(b)) /\ Without(Tail(b), x) /\ Head(b) = b[1]
           /\ Tail(b) # <<>> => b[1].redirect /\ b[1].target = Tail(b)[1].pc
<1> PICK n \in Nat : n + 1 = Len(b)
  <2>1. Len(b) \in Nat /\ Len(b) # 0
    BY EmptySeq, LenProperties
  <2>2. \A m \in Nat : m # 0 => m - 1 \in Nat /\ (m - 1) + 1 = m
    OBVIOUS
  <2> QED
    BY <2>1, <2>2
<1> PICK c \in Seq(Inst) : c = Tail(b)
  BY HeadTailProperties
<1>1. Len(c) = n /\ (\A i \in 1 .. n : c[i] = b[i + 1]) /\ Head(b) = b[1]
  BY HeadTailProperties
<1>2. Following(c)
  <2> SUFFICES ASSUME NEW i \in 1 .. n - 1
               PROVE  c[i].redirect /\ c[i].target = c[i + 1].pc
    BY <1>1 DEF Following
  <2>1. i \in 1 .. n /\ i + 1 \in 1 .. n /\ i + 1 \in 1 .. Len(b) - 1
    OBVIOUS
  <2>2. c[i] = b[i + 1] /\ c[i + 1] = b[i + 1 + 1]
    BY <1>1, <2>1
  <2> QED
    BY <2>1, <2>2 DEF Following
<1>3. Without(c, x)
  <2> SUFFICES ASSUME NEW i \in 1 .. n PROVE c[i].pc # x
    BY <1>1 DEF Without
  <2>1. i + 1 \in 1 .. Len(b) /\ c[i] = b[i + 1]
    BY <1>1
  <2> QED
    BY <2>1 DEF Without
<1>4. c # <<>> => b[1].redirect /\ b[1].target = c[1].pc
  <2> SUFFICES ASSUME c # <<>> PROVE b[1].redirect /\ b[1].target = c[1].pc
    OBVIOUS
  <2>1. n # 0
    BY <1>1, EmptySeq
  <2>2. 1 \in 1 .. n /\ 1 \in 1 .. Len(b) - 1
    BY <2>1
  <2>3. c[1] = b[1 + 1]
    BY <1>1, <2>2
  <2> QED
    BY <2>2, <2>3 DEF Following
<1> QED
  BY <1>1, <1>2, <1>3, <1>4

\* The instruction fetched is the next one of the stream.
LEMMA FetchedNext ==
    ASSUME ExitingInv, NEW h \in Harts, FetchInstruction(h)
    PROVE  /\ status[h] = "ACTIVE" /\ First(h).inst \in Inst
           /\ First(h).inst.pc = fetchPc[h] /\ fetchPc[h] + First(h).inst.len <= fetchEnd[h]
           /\ IF First(h).last
              THEN First(h).inst.pc = ExitPc(h) /\ First(h).inst.len = FetchWidth
              ELSE First(h).inst.pc # ExitPc(h)
           /\ instBuffer[h] # <<>> => /\ LastOf(instBuffer[h]).redirect
                                      /\ LastOf(instBuffer[h]).target = First(h).inst.pc
<1>t. /\ PipeInv /\ WindowInv /\ WakeInv /\ sub[h] # "gone" /\ Queued(h) /\ Leaves(h)
  BY DEF ExitingInv, SteadyInv, PipeInv
<1>c. PICK s \in SUBSET Int, p \in [Int -> Nat] : Continues(h, s, p) /\ Begins(h, s, p)
  BY DEF ExitingInv, SteadyInv, Chained
<1>1. handler[h] = "fetch" /\ subBuffer[h] # <<>> /\ First(h).tag = "insn" /\ Fits(h)
  BY DEF FetchInstruction, AtHead
<1>2. status[h] = "ACTIVE"
  BY <1>t, <1>1, Fetching
<1>3. Linked([id |-> seen[h] + 1, data |-> First(h)], s, p) /\ First(h) \in EventData
  BY <1>t, <1>c, <1>1, HeadLinked
<1>4. First(h).inst.pc = p[seen[h] + 1]
  BY <1>1, <1>3 DEF Linked
<1>5. instBuffer[h] # <<>> => /\ LastOf(instBuffer[h]).redirect
                              /\ LastOf(instBuffer[h]).target = First(h).inst.pc
  BY <1>t, <1>c, <1>2, <1>4 DEF Queued, Begins, Going, Expected
<1>6. Head(subBuffer[h]) \in InFlight(h)
  BY <1>t, <1>1, HeadFollows
<1>7. Marked(Head(subBuffer[h]), ExitPc(h))
  BY <1>t, <1>6 DEF Leaves
<1> QED
  BY <1>1, <1>2, <1>3, <1>5, <1>7 DEF Fits, Marked, First, EventData

\* So the exit finds the buffer empty: it fits only as the first of a package.
LEMMA ExitAlone ==
    ASSUME ExitingInv, NEW h \in Harts, FetchInstruction(h), First(h).last
    PROVE  instBuffer[h] = <<>>
<1>1. Queued(h) /\ CpuTypeOK /\ handler[h] = "fetch"
  BY DEF ExitingInv, SteadyInv, PipeInv, FetchInstruction, AtHead
<1>2. /\ status[h] = "ACTIVE" /\ First(h).inst.pc = ExitPc(h) /\ First(h).inst.pc = fetchPc[h]
      /\ fetchPc[h] + FetchWidth <= fetchEnd[h]
  BY FetchedNext
<1>3. fetchEnd[h] = nextPc[h] + FetchWidth /\ nextPc[h] <= fetchPc[h]
  BY <1>1 DEF Queued
<1>4. fetchPc[h] \in Nat /\ nextPc[h] \in Nat
  BY <1>1 DEF CpuTypeOK
<1>5. nextPc[h] = ExitPc(h)
  <2>1. nextPc[h] = fetchPc[h]
    BY <1>2, <1>3, <1>4, FetchAssumption
  <2> QED
    BY <1>2, <2>1
<1> SUFFICES ASSUME instBuffer[h] # <<>> PROVE FALSE
  OBVIOUS
<1>6. instBuffer[h][1].pc = ExitPc(h) /\ Without(instBuffer[h], ExitPc(h))
  BY <1>1, <1>2, <1>5 DEF Queued, Going
<1>7. 1 \in 1 .. Len(instBuffer[h])
  <2>1. Len(instBuffer[h]) \in Nat /\ Len(instBuffer[h]) # 0
    BY <1>1, EmptySeq, LenProperties DEF CpuTypeOK
  <2> QED
    BY <2>1
<1> QED
  BY <1>6, <1>7 DEF Without

LEMMA HartQueues ==
    ASSUME ExitingInv, NEW h \in Harts, Dispatch(h) \/ HandlerStep(h)
    PROVE  Queued(h)'
<1>t. /\ CpuTypeOK /\ WakeTypeOK /\ WakeInv /\ PipeInv /\ Tuned(h) /\ Queued(h) /\ SteadyInv
      /\ instBuffer[h] \in Seq(Inst) /\ fetchPc[h] \in Nat /\ nextPc[h] \in Nat
  BY DEF ExitingInv, SteadyInv, PipeInv, WakeInv, CpuTypeOK
<1>x. ExitPc(h)' = ExitPc(h)
  BY <1>t, HartKeeps DEF ExitPc, guestVars
<1>e. \A x : Without(<<>>, x)
  BY EmptySeq DEF Without
<1>f. Following(<<>>)
  BY EmptySeq DEF Following
<1> USE DEF Starting, Going
\* A hart that no handler runs, or that has no thread.
<1>1. CASE StartupEvent(h) \/ WakeInactive(h) \/ PollInactive(h)
  <2>1. handler[h] = "idle" /\ status[h] = "INACTIVE"
    BY <1>1, <1>t, FiresIdle DEF StartupEvent, WakeInactive, PollInactive, Fires, WakeFor, WakeTypeOK
  <2>2. UNCHANGED <<status, instBuffer>> /\ handler'[h] \in {"boot", "polled"}
    BY <1>1, <1>t DEF StartupEvent, WakeInactive, PollInactive, WakeTypeOK, fetchVars
  <2> QED
    BY <1>t, <2>1, <2>2 DEF Queued
<1>2. CASE TickEvent(h)
  <2>1. handler[h] = "idle" /\ ~waking[h] /\ status[h] = "ACTIVE"
    BY <1>2, <1>t, FiresIdle DEF TickEvent, Fires, WakeFor, WakeTypeOK
  <2>2. /\ UNCHANGED <<status, waking, nextPc, instBuffer>> /\ handler'[h] = "fetch"
        /\ fetchPc'[h] = nextPc[h] /\ fetchEnd'[h] = nextPc[h] + FetchWidth
    BY <1>2, <1>t DEF TickEvent, BeginFetch, WakeTypeOK, CpuTypeOK
  <2>3. nextPc'[h] <= fetchPc'[h]
    BY <1>t, <2>2
  <2> QED
    BY <1>t, <1>x, <2>1, <2>2, <2>3 DEF Queued
<1>3. CASE WakeBlocked(h)
  <2>1. handler[h] = "idle" /\ status[h] = "BLOCKED_SYSCALL"
    BY <1>3, <1>t, FiresIdle DEF WakeBlocked
  <2>2. UNCHANGED <<handler, nextPc, instBuffer>> /\ status'[h] = "ACTIVE"
    BY <1>3, <1>t DEF WakeBlocked, Resume, WakeTypeOK, fetchVars
  <2> QED
    BY <1>t, <1>x, <2>1, <2>2 DEF Queued
<1>4. CASE Front(h)
  <2>1. UNCHANGED <<status[h], waking[h], handler[h], fetchPc[h], fetchEnd[h], nextPc[h],
                    instBuffer[h]>>
    BY <1>4 DEF Front, cpuVars, fetchVars
  <2> QED
    BY <1>t, <1>x, <2>1, QueuedFrame
<1>5. CASE InitCPUState(h)
  <2>1. handler[h] = "boot" /\ status[h] = "INACTIVE"
    BY <1>5, <1>t, Fetching DEF InitCPUState, AtHead, Woken
  <2>2. /\ instBuffer' = instBuffer /\ handler'[h] = "fetch" /\ fetchPc'[h] = nextPc'[h]
        /\ fetchEnd'[h] = nextPc'[h] + FetchWidth
    BY <1>5, <1>t DEF InitCPUState, BeginFetch, WakeTypeOK, CpuTypeOK
  <2>3. instBuffer'[h] = <<>>
    BY <1>t, <2>1, <2>2 DEF Queued
  <2>4. nextPc'[h] <= fetchPc'[h]
    <3>1. CpuTypeOK'
      BY <1>t, PipeStep DEF PipelineNext, PipeInv
    <3>2. nextPc'[h] \in Nat
      BY <3>1 DEF CpuTypeOK
    <3> QED
      BY <2>2, <3>2
  <2> QED
    BY <1>e, <1>f, <2>2, <2>3, <2>4 DEF Queued
<1>6. CASE FirstEventAssertion(h)
  <2>1. handler[h] = "boot" /\ status[h] = "INACTIVE"
    BY <1>6, <1>t, Fetching DEF FirstEventAssertion, AtHead, Woken
  <2>2. UNCHANGED <<status, instBuffer>> /\ handler'[h] = "failed"
    BY <1>6, <1>t DEF FirstEventAssertion, fetchVars, WakeTypeOK
  <2> QED
    BY <1>t, <2>1, <2>2 DEF Queued
<1>7. CASE FetchSyscall(h) \/ FetchMismatch(h)
  <2>1. handler[h] = "fetch"
    BY <1>7 DEF FetchSyscall, FetchMismatch, AtHead
  <2>2. status[h] = "ACTIVE"
    BY <1>t, <2>1, Fetching
  <2>3. /\ UNCHANGED fetchVars /\ handler'[h] = "execute"
        /\ status'[h] \in {"ACTIVE", "BLOCKED_SYSCALL"}
    BY <1>7, <1>t, <2>2 DEF FetchSyscall, FetchMismatch, HandleSyscallApi, WakeTypeOK
  <2> QED
    BY <1>t, <1>x, <2>2, <2>3 DEF Queued, fetchVars
<1>8. CASE FetchInstruction(h)
  <2> PICK b \in Seq(Inst) : b = instBuffer[h]
    BY <1>t
  <2> PICK e \in Inst : e = First(h).inst
    BY <1>8, FetchedNext
  <2>1. /\ handler[h] = "fetch" /\ status[h] = "ACTIVE" /\ e.pc = fetchPc[h]
        /\ b # <<>> => LastOf(b).redirect /\ LastOf(b).target = e.pc
    BY <1>8, FetchedNext DEF FetchInstruction, AtHead
  <2>2. /\ instBuffer'[h] = Append(b, e) /\ fetchPc'[h] = fetchPc[h] + e.len
        /\ UNCHANGED <<waking, fetchEnd, nextPc>>
    BY <1>8, <1>t DEF FetchInstruction, WakeTypeOK, CpuTypeOK
  <2>3. waking[h] => handler'[h] = "execute"
    BY <1>8, <1>t, StartingFills
  <2>4. /\ instBuffer'[h] # <<>> /\ instBuffer'[h][1] = IF b = <<>> THEN e ELSE b[1]
        /\ b = <<>> => Tail(instBuffer'[h]) = <<>>
    BY <2>2, OldestAppend
  <2>5. CASE First(h).last
    <3>1. b = <<>>
      BY <1>8, <2>5, ExitAlone
    <3>2. handler'[h] = "execute" /\ status'[h] \in {"COMPLETED", "INACTIVE"}
      BY <1>8, <1>t, <2>5 DEF FetchInstruction, LastInstruction, WakeTypeOK
    <3> QED
      BY <2>4, <3>1, <3>2 DEF Queued
  <2>6. CASE ~First(h).last
    <3>1. status' = status
      BY <1>8, <2>6 DEF FetchInstruction
    <3>2. Without(b, ExitPc(h)) /\ Following(b) /\ (b # <<>> => b[1].pc = nextPc[h])
      BY <1>t, <2>1 DEF Queued
    <3>3. e.pc # ExitPc(h)
      BY <1>8, <2>6, FetchedNext
    <3>4. Without(instBuffer'[h], ExitPc(h)') /\ Following(instBuffer'[h])
      BY <1>x, <2>1, <2>2, <3>2, <3>3, FollowingAppend, WithoutAppend
    <3>5. b = <<>> => e.pc = nextPc[h]
      BY <1>t, <2>1 DEF Queued
    <3>6. instBuffer'[h][1].pc = nextPc'[h]
      BY <2>2, <2>4, <3>2, <3>5
    <3>7. fetchEnd'[h] = nextPc'[h] + FetchWidth /\ nextPc'[h] <= fetchPc'[h]
      <4>1. fetchEnd[h] = nextPc[h] + FetchWidth /\ nextPc[h] <= fetchPc[h]
        BY <1>t, <2>1 DEF Queued
      <4>2. e.len \in Nat
        BY DEF Inst
      <4>3. nextPc[h] <= fetchPc[h] + e.len
        BY <1>t, <4>1, <4>2
      <4> QED
        BY <2>2, <4>1, <4>3
    <3> QED
      BY <2>1, <2>2, <2>3, <2>4, <3>1, <3>4, <3>6, <3>7 DEF Queued
  <2> QED
    BY <2>5, <2>6
<1>9. CASE Execute(h)
  <2> PICK b \in Seq(Inst) : b = instBuffer[h]
    BY <1>t
  <2>1. handler[h] = "execute" /\ Retire(h) /\ handler'[h] = "idle" /\ ~waking'[h]
    BY <1>9, <1>t DEF Execute, WakeTypeOK
  <2>2. status'[h] = status[h]
    BY <1>9, <1>t, <2>1 DEF Execute, Resume, WakeTypeOK, Tuned
  <2>3. CASE b = <<>>
    <3>1. UNCHANGED <<instBuffer, nextPc>>
      BY <2>1, <2>3 DEF Retire
    <3> QED
      BY <1>t, <1>x, <2>1, <2>2, <2>3, <3>1 DEF Queued
  <2>4. CASE b # <<>>
    <3>1. /\ instBuffer'[h] = Tail(b)
          /\ nextPc'[h] = IF Head(b).redirect THEN Head(b).target ELSE Head(b).pc + Head(b).len
      BY <1>t, <2>1, <2>4 DEF Retire, CpuTypeOK
    <3>2. CASE ~Going(h)
      <4>1. Tail(b) = <<>>
        BY <1>t, <2>4, <3>2 DEF Queued
      <4> QED
        BY <2>1, <2>2, <3>1, <3>2, <4>1 DEF Queued
    <3>3. CASE Going(h)
      <4>1. Without(b, ExitPc(h)) /\ Following(b)
        BY <1>t, <3>3 DEF Queued
      <4>2. /\ Following(Tail(b)) /\ Without(Tail(b), ExitPc(h)) /\ Head(b) = b[1]
            /\ Tail(b) # <<>> => b[1].redirect /\ b[1].target = Tail(b)[1].pc
        BY <2>4, <4>1, FollowingTail
      <4> QED
        BY <1>x, <2>1, <2>2, <3>1, <3>3, <4>2 DEF Queued
    <3> QED
      BY <3>2, <3>3
  <2> QED
    BY <2>3, <2>4
<1>10. CASE CheckProcess(h)
  <2>1. handler[h] = "polled" /\ status[h] = "INACTIVE"
    BY <1>10, <1>t, Fetching DEF CheckProcess, Woken
  <2>2. /\ instBuffer' = instBuffer
        /\ handler'[h] = "idle" /\ status'[h] \in {"INACTIVE", "COMPLETED"}
    BY <1>10, <1>t, <2>1 DEF CheckProcess, fetchVars, WakeTypeOK
  <2> QED
    BY <1>t, <2>1, <2>2 DEF Queued
<1> QED
  BY <1>1, <1>2, <1>3, <1>4, <1>5, <1>6, <1>7, <1>8, <1>9, <1>10 DEF Dispatch, HandlerStep

LEMMA ExitingStart ==
    ASSUME CompletionInv, OrderInv, SteadyInv, \A p \in Programs : ExitsApart(p), PipelineInit
    PROVE  ExitingInv
<1> SUFFICES ASSUME NEW h \in Harts PROVE Leaves(h) /\ Queued(h)
  BY DEF ExitingInv
<1>1. /\ subBuffer[h] = <<>> /\ queue[h] = <<>> /\ pubBuffer[h] = <<>> /\ Len(<<>>) = 0
      /\ instBuffer[h] = <<>> /\ vcpu[h] = "absent" /\ status[h] = "INACTIVE" /\ handler[h] = "idle"
  BY EmptySeq DEF PipelineInit, Init
<1>2. InFlight(h) = {}
  BY <1>1, ElementsEmpty DEF InFlight
<1> QED
  BY <1>1, <1>2 DEF Leaves, Queued, Going, Starting

LEMMA ExitingStep ==
    ASSUME ExitingInv, [PipelineNext]_pipelineVars
    PROVE  ExitingInv'
<1>t. PipeInv /\ WindowInv /\ CompletionInv /\ OrderInv /\ SteadyInv /\ CpuTypeOK
  BY DEF ExitingInv, SteadyInv, PipeInv
<1>1. CompletionInv' /\ OrderInv' /\ SteadyInv' /\ (\A p \in Programs : ExitsApart(p))'
  BY <1>t, CompletionStep, OrderStep, SteadyStep DEF ExitingInv, ExitsApart
<1> SUFFICES ASSUME NEW g \in Harts PROVE Leaves(g)' /\ Queued(g)'
  BY <1>1 DEF ExitingInv
<1>g. Leaves(g) /\ Queued(g) /\ sub[g] # "gone"
  BY DEF ExitingInv, SteadyInv
<1>2. ASSUME UNCHANGED GuestOf(g), InFlight(g)' \subseteq InFlight(g), UNCHANGED <<cpuVars>>
      PROVE  Leaves(g)' /\ Queued(g)'
  <2>1. UNCHANGED <<status[g], waking[g], handler[g], fetchPc[g], fetchEnd[g], nextPc[g],
                    instBuffer[g]>>
    BY <1>2 DEF cpuVars, fetchVars
  <2>2. ExitPc(g)' = ExitPc(g)
    BY <1>2 DEF GuestOf, ExitPc
  <2>3. vcpu[g] = "absent" => instBuffer'[g] = <<>>
    BY <1>g, <2>1 DEF Leaves
  <2> QED
    BY <1>g, <1>2, <2>1, <2>2, <2>3, LeavesFrame, QueuedFrame
<1>3. ASSUME NEW h \in Harts, RegisterISS(h) \/ TransportStep(h)
      PROVE  Leaves(g)' /\ Queued(g)'
  <2>1. UNCHANGED cpuVars
    BY <1>3, OutsideAlone
  <2>2. UNCHANGED <<nextId, program, guestVars>> /\ InFlight(g)' \subseteq InFlight(g)
    BY <1>t, <1>3, TransportKeeps
  <2> QED
    BY <1>2, <2>1, <2>2 DEF GuestOf, guestVars
<1>4. ASSUME NEW h \in Harts, GuestStep(h)
      PROVE  Leaves(g)' /\ Queued(g)'
  <2>1. Leaves(g)' /\ (ExitPc(g)' = ExitPc(g) \/ instBuffer[g] = <<>>)
    BY <1>4, GuestLeaves, GuestLeavesAlone
  <2>2. UNCHANGED cpuVars
    BY <1>4, OutsideAlone
  <2>3. UNCHANGED <<status[g], waking[g], handler[g], fetchPc[g], fetchEnd[g], nextPc[g],
                    instBuffer[g]>>
    BY <2>2 DEF cpuVars, fetchVars
  <2> QED
    BY <1>g, <2>1, <2>3, QueuedFrame
<1>5. ASSUME NEW h \in Harts, Dispatch(h) \/ HandlerStep(h)
      PROVE  Leaves(g)' /\ Queued(g)'
  <2>1. UNCHANGED <<nextId, program, guestVars>> /\ InFlight(g)' \subseteq InFlight(g)
    BY <1>t, <1>5, HartKeeps
  <2>2. UNCHANGED GuestOf(g) /\ ExitPc(g)' = ExitPc(g)
    BY <2>1 DEF GuestOf, guestVars, ExitPc
  <2>3. CASE g = h
    <3>1. vcpu[g] = "absent" => instBuffer'[g] = <<>>
      <4> SUFFICES ASSUME vcpu[g] = "absent" PROVE instBuffer'[g] = <<>>
        OBVIOUS
      <4>1. InFlight(g) = {} /\ instBuffer[g] = <<>>
        BY <1>g DEF Leaves
      <4>2. ~FetchInstruction(g)
        <5>1. FetchInstruction(g) => Head(subBuffer[g]) \in InFlight(g)
          BY <1>t, <1>g, HeadFollows DEF FetchInstruction, AtHead
        <5> QED
          BY <4>1, <5>1
      <4>3. UNCHANGED instBuffer
        BY <1>t, <1>5, <2>3, <4>1, <4>2, BufferMoves
      <4> QED
        BY <4>1, <4>3
    <3>2. Leaves(g)'
      BY <1>g, <2>1, <2>2, <3>1, LeavesFrame
    <3> QED
      BY <1>5, <2>3, <3>2, HartQueues
  <2>4. CASE g # h
    <3>1. UNCHANGED <<status[g], waking[g], handler[g], fetchPc[g], fetchEnd[g], nextPc[g],
                      instBuffer[g]>>
      BY <1>t, <1>5, <2>4, HartAlone, FetchAlone
    <3>2. vcpu[g] = "absent" => instBuffer'[g] = <<>>
      BY <1>g, <3>1 DEF Leaves
    <3> QED
      BY <1>g, <2>1, <2>2, <3>1, <3>2, LeavesFrame, QueuedFrame
  <2> QED
    BY <2>3, <2>4
\* The boot hart gets its thread when none has published anything.
<1>6. CASE BootSystem
  <2>1. vcpu[g] = "absent" /\ vcpu'[g] \in {"absent", "created"}
        /\ UNCHANGED <<channelVars, status, handler, waking, fetchVars>>
    BY <1>t, <1>6, BootFirst DEF BootSystem
  <2>2. InFlight(g)' = InFlight(g)
    BY <2>1, FlightFrame DEF channelVars
  <2>3. InFlight(g) = {} /\ instBuffer[g] = <<>>
    BY <1>g, <2>1 DEF Leaves
  <2>4. Queued(g)'
    BY <1>g, <2>1, <2>3, QueuedFrame DEF fetchVars
  <2> QED
    BY <2>1, <2>2, <2>3, <2>4 DEF Leaves, fetchVars
<1>7. CASE UNCHANGED pipelineVars
  <2>1. UNCHANGED <<channelVars, program, guestVars, cpuVars>>
    BY <1>7 DEF pipelineVars
  <2>2. InFlight(g)' \subseteq InFlight(g)
    BY <2>1, FlightFrame DEF channelVars
  <2> QED
    BY <1>2, <2>1, <2>2 DEF GuestOf, guestVars, channelVars
<1> QED
  BY <1>3, <1>4, <1>5, <1>6, <1>7 DEF PipelineNext

\* When a hart of the process is done it has retired exactly the instructions that the
\* emulated hart has executed, for every guest that joins its threads, uses every vcpu
\* once, is steady and has an instruction of its own to exit with, in one rank.
THEOREM RetiresAll ==
    ASSUME Payload = EventData,
           \A p \in Programs : Joined(p) /\ SpawnedOnce(p) /\ Steady(p) /\ ExitsApart(p),
           \A g, h \in Harts : Rank[g] = Rank[h]
    PROVE  PipelineSpec => []RetiredAll
<1>1. PipelineInit => ExitingInv
  BY CompletionStart, OrderStart, SteadyStart, ExitingStart
     DEF JoinedGuests, OneRank, SpawnsOnce, SteadyGuests
<1>2. ExitingInv /\ [PipelineNext]_pipelineVars => ExitingInv'
  BY ExitingStep
<1>3. ExitingInv => RetiredAll
  <2> SUFFICES ASSUME ExitingInv, NEW h \in Harts, Between(h), status[h] = "COMPLETED"
               PROVE  instret[h] = instCount[h]
    BY DEF RetiredAll
  <2>1. PipeInv /\ Joining /\ Quiet(h) /\ vcpu[Boot] = "dead"
    BY DEF ExitingInv, CompletionInv, Finished
  <2>2. vcpu[h] \in {"absent", "dead"}
    BY <2>1, NobodyRuns
  <2>3. Published(h) = instCount[h]
    BY <2>2 DEF ExitingInv, OrderInv, Counting, Published
  <2>4. seen[h] = nextId[h] - 1 /\ seen[h] \in Int /\ nextId[h] \in Nat /\ instret[h] \in Nat
    BY <2>1, DrainedWhenCompleted DEF ExitingInv, CompletedDrained, PipeInv, TypeInv, TypeOK, CpuTypeOK
  <2>5. instBuffer[h] = <<>>
    BY DEF ExitingInv, Queued, Between, Going
  <2>6. PICK u \in [Int -> Int] : Counts(h, u)
    BY DEF ExitingInv, OrderInv
  <2>7. u[seen[h] + 1] = instret[h] + Len(instBuffer[h]) /\ u[nextId[h]] = Published(h)
    BY <2>6 DEF Counts
  <2>8. Len(instBuffer[h]) = 0 /\ seen[h] + 1 = nextId[h]
    BY <2>4, <2>5, EmptySeq
  <2>9. u[nextId[h]] = instret[h]
    <3>1. \A a \in Nat, b \in {0} : a + b = a
      OBVIOUS
    <3>2. instret[h] + Len(instBuffer[h]) = instret[h]
      BY <2>4, <2>8, <3>1, Zenon
    <3> QED
      BY <2>7, <2>8, <3>2
  <2> QED
    BY <2>3, <2>7, <2>9
<1> QED
  BY <1>1, <1>2, <1>3, PTL DEF PipelineSpec
=============================================================================
