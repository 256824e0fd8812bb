----------------------------- MODULE ProcProofs -----------------------------
(***************************************************************************)
(* The safety properties of the process table, proved for every table      *)
(* size, every set of pids, and every number of cpus under round robin or  *)
(* one cpu under the stride scheduler.                                     *)
(***************************************************************************)
EXTENDS ProcInv, TLAPS

LEMMA SlotType ==
    /\ 0 \in Slot /\ Slot \subseteq Nat /\ Nobody \notin Slot
    /\ Slot \subseteq Chan /\ Ticks \in Chan /\ Device \in Chan
    /\ \A m \in Slot : m + 1 \in 0 .. NPROC
    /\ 0 \in 0 .. NPROC
    /\ \A c \in CPUS : c # Free
BY NProcAssumption, CpusAssumption
   DEF Slot, Nobody, Chan, Ticks, Device, Free

(***************************************************************************)
(* The disjuncts of Next, so that a proof can treat them one by one.       *)
(***************************************************************************)
Step(c, p) ==
    \/ AllocProc(c, p) \/ ForkFails(c, p) \/ ForkReturns(c, p)
    \/ ExitBegins(c, p) \/ Exits(c, p)
    \/ WaitBegins(c, p) \/ WaitResumes(c, p)
    \/ SyscallBegins(c, p) \/ SyscallReturns(c, p)
    \/ Sleep(c, p, Ticks) \/ Sleep(c, p, Device)
    \/ Wakeup(c, p, Device)
    \/ \E k \in KILLPIDS : Kill(c, p, k)
    \/ Tick(c, p) \/ DeviceInterrupt(c, p) \/ Fault(c, p)
    \/ TrapExits(c, p) \/ Yield(c, p)
    \/ Resume(c, p)
    \/ DispatchRR(c, p) \/ DispatchStride(c, p)

LEMMA NextCases ==
    ASSUME Next
    PROVE  \/ UserInit
           \/ \E c \in CPUS : ScanEnds(c) \/ IdleInterrupt(c)
           \/ \E c \in CPUS, p \in Slot : Step(c, p)
BY DEF Next, Scheduler, SystemCall, Trap, Step

\* Except for a dispatch, a step of p is taken by the cpu p is current on.
LEMMA StepOwner ==
    ASSUME NEW c \in CPUS, NEW p \in Slot, Step(c, p)
    PROVE  proc[c] = p \/ DispatchRR(c, p) \/ DispatchStride(c, p)
BY Zenon DEF Step, On, AllocProc, ForkFails, ForkReturns, ExitBegins, Exits,
       WaitBegins, WaitResumes, SyscallBegins, SyscallReturns, Sleep, Wakeup,
       Kill, Tick, DeviceInterrupt, Fault, TrapExits, Yield, Resume

LEMMA TypeStep == TypeOK /\ [Next]_vars => TypeOK'
<1>. SUFFICES ASSUME TypeOK, [Next]_vars PROVE TypeOK'
  OBVIOUS
<1>. USE SlotType
<1>w. \A ch : Woken(ch) \in [Slot -> ProcState]
  BY DEF Woken, TypeOK, ProcState
<1>s. ASSUME NEW c \in CPUS, ToScheduler(c)
      PROVE  proc' \in [CPUS -> Slot \cup {Nobody}] /\ lock' \in CPUS \cup {Free}
  BY <1>s DEF ToScheduler, TypeOK
<1>1. CASE UserInit
  BY <1>1 DEF UserInit, NewPid, TypeOK, ProcState, Place
<1>2. ASSUME NEW c \in CPUS, ScanEnds(c) PROVE TypeOK'
  BY <1>2 DEF ScanEnds, table, TypeOK
<1>3. ASSUME NEW c \in CPUS, IdleInterrupt(c) PROVE TypeOK'
  BY <1>3, <1>w DEF IdleInterrupt, control, TypeOK
<1>4. ASSUME NEW c \in CPUS, NEW p \in Slot, Step(c, p) PROVE TypeOK'
  <2>1. CASE AllocProc(c, p)
    BY <2>1 DEF AllocProc, NewPid, TypeOK, ProcState, Place
  <2>2. CASE ForkFails(c, p)
    BY Zenon, <2>2 DEF ForkFails, TypeOK, ProcState, Place
  <2>3. CASE ForkReturns(c, p)
    BY Zenon, <2>3 DEF ForkReturns, TypeOK, ProcState, Place
  <2>4. CASE ExitBegins(c, p)
    BY Zenon, <2>4 DEF ExitBegins, table, TypeOK, Place, Panics
  <2>5. CASE Exits(c, p)
    BY <2>5, <1>s DEF Exits, ExitWakes, Adopted, Kids, TypeOK, ProcState, Place
  <2>6. CASE WaitBegins(c, p) \/ WaitResumes(c, p)
    <3>1. WaitRound(c, p) /\ UNCHANGED <<nextpid, scan, trapped, child, panic>>
      BY <2>6 DEF WaitBegins, WaitResumes
    <3>2. ASSUME NEW z \in Slot, Reap(p, z)
          PROVE  /\ state' \in [Slot -> ProcState] /\ pid' \in [Slot -> Nat]
                 /\ parent' \in [Slot -> Slot \cup {Nobody}]
                 /\ killed' \in [Slot -> BOOLEAN]
      BY <3>2 DEF Reap, TypeOK, ProcState
    <3>3. /\ state' \in [Slot -> ProcState] /\ pid' \in [Slot -> Nat]
          /\ parent' \in [Slot -> Slot \cup {Nobody}]
          /\ killed' \in [Slot -> BOOLEAN]
      BY <3>1, <3>2 DEF WaitRound, TypeOK, ProcState
    <3>4. proc' \in [CPUS -> Slot \cup {Nobody}] /\ lock' \in CPUS \cup {Free}
      BY <3>1, <1>s DEF WaitRound, TypeOK
    <3>5. pc' \in [Slot -> Place] /\ chan' \in [Slot -> Chan \cup {NoChan}]
      BY <3>1 DEF WaitRound, TypeOK, Place
    <3>. QED  BY <3>1, <3>3, <3>4, <3>5 DEF TypeOK
  <2>7. CASE SyscallBegins(c, p) \/ SyscallReturns(c, p)
    BY <2>7 DEF SyscallBegins, SyscallReturns, table, TypeOK, Place
  <2>8. ASSUME NEW ch \in Chan, Sleep(c, p, ch) PROVE TypeOK'
    BY <2>8, <1>s DEF Sleep, TypeOK, ProcState
  <2>9. CASE Wakeup(c, p, Device)
    BY <2>9, <1>w DEF Wakeup, control, TypeOK
  <2>10. ASSUME NEW k \in KILLPIDS, Kill(c, p, k) PROVE TypeOK'
    BY <2>10 DEF Kill, Roused, control, TypeOK, ProcState
  <2>11. CASE Tick(c, p) \/ DeviceInterrupt(c, p)
    <3>1. state' \in [Slot -> ProcState]
      BY <2>11, <1>w DEF Tick, DeviceInterrupt, TypeOK
    <3>2. trapped' \in [CPUS -> BOOLEAN]
      BY Zenon, <2>11 DEF Tick, DeviceInterrupt, TypeOK
    <3>. QED  BY <2>11, <3>1, <3>2 DEF Tick, DeviceInterrupt, TypeOK
  <2>12. CASE Fault(c, p)
    BY <2>12 DEF Fault, control, TypeOK
  <2>13. CASE TrapExits(c, p)
    BY Zenon, <2>13 DEF TrapExits, table, TypeOK, Place, Panics
  <2>14. CASE Yield(c, p)
    BY <2>14, <1>s DEF Yield, TypeOK, ProcState
  <2>15. CASE Resume(c, p)
    BY <2>15 DEF Resume, TypeOK, Place
  <2>16. CASE DispatchRR(c, p) \/ DispatchStride(c, p)
    <3>1. SwitchTo(c, p) /\ scan' \in [CPUS -> 0 .. NPROC]
      BY <2>16 DEF DispatchRR, Onward, DispatchStride, TypeOK
    <3>2. panic' \in Panics
      BY Zenon, <3>1 DEF SwitchTo, Panics
    <3>. QED  BY Zenon, <3>1, <3>2 DEF SwitchTo, TypeOK, ProcState
  <2>. QED
    BY <1>4, <2>1, <2>2, <2>3, <2>4, <2>5, <2>6, <2>7, <2>8, <2>9, <2>10, <2>11,
       <2>12, <2>13, <2>14, <2>15, <2>16 DEF Step
<1>5. CASE UNCHANGED vars
  BY <1>5 DEF vars, table, control, TypeOK
<1>. QED  BY <1>1, <1>2, <1>3, <1>4, <1>5, NextCases

-----------------------------------------------------------------------------
(***************************************************************************)
(* SingleRunner.  A step either leaves proc and the RUNNING slots alone,   *)
(* or takes one process off its cpu, or puts one on an idle cpu.           *)
(***************************************************************************)
Supported == isRoundRobin \/ CPUS = {0}

\* A process that runs on a cpu is RUNNING, and init is there.
LEMMA CurrentRuns ==
    ASSUME Inv, NEW c \in CPUS, NEW p \in Slot, proc[c] = p
    PROVE  state[p] = "RUNNING" /\ state[0] \in Alive
BY SlotType DEF Inv, SingleRunner, InitInv

LEMMA SingleRunnerStep ==
    ASSUME Supported, Inv, Next
    PROVE  SingleRunner'
<1>. USE SlotType DEF Inv
<1>q. ASSUME proc' = proc,
             \A q \in Slot : state'[q] = "RUNNING" <=> state[q] = "RUNNING"
      PROVE  SingleRunner'
  BY <1>q DEF SingleRunner
<1>l. ASSUME NEW c \in CPUS, NEW p \in Slot, proc[c] = p, ToScheduler(c),
             state'[p] # "RUNNING",
             \A q \in Slot \ {p} : state'[q] = "RUNNING" <=> state[q] = "RUNNING"
      PROVE  SingleRunner'
  BY <1>l DEF SingleRunner, ToScheduler, TypeOK
<1>w. ASSUME NEW ch, NEW q \in Slot
      PROVE  Woken(ch)[q] = "RUNNING" <=> state[q] = "RUNNING"
  BY DEF Woken
<1>1. CASE UserInit
  BY <1>1, <1>q DEF UserInit, TypeOK
<1>2. ASSUME NEW c \in CPUS, ScanEnds(c) PROVE SingleRunner'
  BY <1>2, <1>q DEF ScanEnds, table
<1>3. ASSUME NEW c \in CPUS, IdleInterrupt(c) PROVE SingleRunner'
  BY <1>3, <1>q, <1>w DEF IdleInterrupt, control
<1>4. ASSUME NEW c \in CPUS, NEW p \in Slot, Step(c, p) PROVE SingleRunner'
  <2>1. CASE AllocProc(c, p)
    BY <2>1, <1>q DEF AllocProc, FirstUnused, TypeOK
  <2>2. CASE ForkFails(c, p) \/ ForkReturns(c, p)
    <3>1. child[p] \in Slot /\ state[child[p]] = "EMBRYO"
      BY <2>2 DEF ForkFails, ForkReturns, ForkInv, TypeOK
    <3>. QED  BY <2>2, <3>1, <1>q DEF ForkFails, ForkReturns, TypeOK
  <2>3. CASE ExitBegins(c, p) \/ TrapExits(c, p) \/ SyscallBegins(c, p)
             \/ SyscallReturns(c, p) \/ Fault(c, p) \/ Resume(c, p)
    BY Zenon, <2>3, <1>q DEF ExitBegins, TrapExits, SyscallBegins, SyscallReturns,
                      Fault, Resume, table, control
  <2>4. CASE Exits(c, p)
    <3>1. proc[c] = p /\ ToScheduler(c) /\ state'[p] # "RUNNING"
      BY <2>4 DEF Exits, ExitWakes, Adopted, Kids, On
    <3>2. \A q \in Slot \ {p} : state'[q] = "RUNNING" <=> state[q] = "RUNNING"
      BY <2>4 DEF Exits, ExitWakes, Adopted, Kids
    <3>. QED  BY <3>1, <3>2, <1>l
  <2>5. CASE WaitBegins(c, p) \/ WaitResumes(c, p)
    <3>1. WaitRound(c, p) /\ proc[c] = p
      BY <2>5 DEF WaitBegins, WaitResumes, On
    <3>2. CASE state' = [state EXCEPT ![p] = "SLEEPING"] /\ ToScheduler(c)
      <4>1. state'[p] # "RUNNING"
        BY <3>2 DEF TypeOK
      <4>2. \A q \in Slot \ {p} : state'[q] = state[q]
        BY <3>2 DEF TypeOK
      <4>. QED  BY <3>1, <3>2, <4>1, <4>2, <1>l
    <3>3. ASSUME NEW z \in Slot, Reap(p, z), proc' = proc PROVE SingleRunner'
      BY <3>3, <1>q DEF Reap, TypeOK
    <3>4. CASE UNCHANGED <<state, proc>>
      BY <3>4, <1>q
    <3>. QED  BY <3>1, <3>2, <3>3, <3>4 DEF WaitRound
  <2>6. ASSUME NEW ch \in Chan, Sleep(c, p, ch) PROVE SingleRunner'
    <3>1. proc[c] = p /\ ToScheduler(c) /\ state'[p] # "RUNNING"
      BY <2>6 DEF Sleep, On, TypeOK
    <3>2. \A q \in Slot \ {p} : state'[q] = state[q]
      BY <2>6 DEF Sleep, TypeOK
    <3>. QED  BY <3>1, <3>2, <1>l
  <2>7. CASE Wakeup(c, p, Device) \/ Tick(c, p) \/ DeviceInterrupt(c, p)
    BY <2>7, <1>q, <1>w DEF Wakeup, Tick, DeviceInterrupt, control
  <2>8. ASSUME NEW k \in KILLPIDS, Kill(c, p, k) PROVE SingleRunner'
    BY <2>8, <1>q DEF Kill, Roused, control, TypeOK
  <2>9. CASE Yield(c, p)
    <3>1. proc[c] = p /\ ToScheduler(c) /\ state'[p] # "RUNNING"
      BY <2>9 DEF Yield, TypeOK
    <3>2. \A q \in Slot \ {p} : state'[q] = state[q]
      BY <2>9 DEF Yield, TypeOK
    <3>. QED  BY <3>1, <3>2, <1>l
  <2>10. CASE DispatchRR(c, p) \/ DispatchStride(c, p)
    <3>1. proc[c] = Nobody /\ SwitchTo(c, p)
      BY <2>10 DEF DispatchRR, DispatchStride
    <3>2. \A d \in CPUS : proc[d] # p
      BY <2>10, <3>1 DEF DispatchRR, DispatchStride, Selectable, NextRunnable, SingleRunner,
                         Supported
    <3>3. proc' = [proc EXCEPT ![c] = p] /\ state' = [state EXCEPT ![p] = "RUNNING"]
      BY Zenon, <3>1 DEF SwitchTo
    <3>. QED  BY <3>1, <3>2, <3>3 DEF SingleRunner, TypeOK
  <2>. QED
    BY <1>4, <2>1, <2>2, <2>3, <2>4, <2>5, <2>6, <2>7, <2>8, <2>9, <2>10 DEF Step
<1>. QED  BY <1>1, <1>2, <1>3, <1>4, NextCases

-----------------------------------------------------------------------------
(***************************************************************************)
(* Slot 0.  No step takes init out of the living states.                   *)
(***************************************************************************)
LEMMA InitInvStep ==
    ASSUME Supported, Inv, Next
    PROVE  InitInv'
<1>. USE SlotType DEF Inv
<1>w. ASSUME NEW ch PROVE Woken(ch)[0] \in Alive <=> state[0] \in Alive
  BY DEF Woken, Alive
<1>1. CASE UserInit
  BY <1>1 DEF UserInit, InitInv, Alive, TypeOK
<1>2. ASSUME NEW c \in CPUS, ScanEnds(c) PROVE InitInv'
  BY <1>2 DEF ScanEnds, table, InitInv
<1>3. ASSUME NEW c \in CPUS, IdleInterrupt(c) PROVE InitInv'
  <2>1. proc' = proc
    BY <1>3 DEF IdleInterrupt, control
  <2>2. state[0] \in Alive => state'[0] \in Alive
    BY <1>3, <1>w DEF IdleInterrupt
  <2>3. (\A p \in Slot : state[p] = "UNUSED") => \A p \in Slot : state'[p] = "UNUSED"
    BY <1>3 DEF IdleInterrupt, Woken
  <2>. QED  BY <2>1, <2>2, <2>3 DEF InitInv
<1>4. ASSUME NEW c \in CPUS, NEW p \in Slot, Step(c, p), proc[c] = p PROVE InitInv'
  <2>. SUFFICES state'[0] \in Alive
    BY DEF InitInv
  <2>a. state[p] = "RUNNING" /\ state[0] \in Alive
    BY <1>4, CurrentRuns
  <2>1. CASE AllocProc(c, p)
    BY <2>1, <2>a DEF AllocProc, FirstUnused, Alive, TypeOK
  <2>2. CASE ForkFails(c, p) \/ ForkReturns(c, p)
    <3>1. child[p] \in Slot /\ state[child[p]] = "EMBRYO"
      BY <2>2 DEF ForkFails, ForkReturns, ForkInv, TypeOK
    <3>. QED  BY <2>2, <3>1, <2>a DEF ForkFails, ForkReturns, Alive, TypeOK
  <2>3. CASE UNCHANGED state
    BY <2>3, <2>a
  <2>4. CASE Exits(c, p)
    <3>1. p # 0
      BY <2>4 DEF Exits, ExitWakes, Adopted, Kids, PlaceInv
    <3>. QED  BY <2>4, <2>a, <3>1 DEF Exits, ExitWakes, Adopted, Kids, Alive
  <2>5. CASE WaitBegins(c, p) \/ WaitResumes(c, p)
    <3>1. WaitRound(c, p)
      BY <2>5 DEF WaitBegins, WaitResumes
    <3>2. ASSUME NEW z \in Slot, Reap(p, z) PROVE state'[0] \in Alive
      BY <3>2, <2>a DEF Reap, Alive, TypeOK
    <3>3. CASE state' = [state EXCEPT ![p] = "SLEEPING"]
      BY <3>3, <2>a DEF Alive, TypeOK
    <3>. QED  BY <3>1, <3>2, <3>3, <2>3 DEF WaitRound
  <2>6. ASSUME NEW ch \in Chan, Sleep(c, p, ch) PROVE state'[0] \in Alive
    BY <2>6, <2>a DEF Sleep, Alive, TypeOK
  <2>7. CASE Wakeup(c, p, Device) \/ Tick(c, p) \/ DeviceInterrupt(c, p)
    BY <2>7, <2>a, <1>w DEF Wakeup, Tick, DeviceInterrupt
  <2>8. ASSUME NEW k \in KILLPIDS, Kill(c, p, k) PROVE state'[0] \in Alive
    BY <2>8, <2>a DEF Kill, Roused, Alive, TypeOK
  <2>9. CASE Yield(c, p)
    BY <2>9, <2>a DEF Yield, Alive, TypeOK
  <2>10. CASE DispatchRR(c, p) \/ DispatchStride(c, p)
    BY <2>10, <1>4 DEF DispatchRR, DispatchStride
  <2>. QED
    BY Zenon, <1>4, <2>1, <2>2, <2>3, <2>4, <2>5, <2>6, <2>7, <2>8, <2>9, <2>10
       DEF Step, ExitBegins, TrapExits, SyscallBegins, SyscallReturns, Fault, Resume,
           table
<1>5. ASSUME NEW c \in CPUS, NEW p \in Slot, DispatchRR(c, p) \/ DispatchStride(c, p)
      PROVE  InitInv'
  <2>1. state' = [state EXCEPT ![p] = "RUNNING"]
    BY Zenon, <1>5 DEF DispatchRR, DispatchStride, SwitchTo
  <2>2. state[0] \in Alive
    BY <1>5 DEF DispatchRR, DispatchStride, Selectable, NextRunnable, InitInv, Supported
  <2>. QED  BY <2>1, <2>2 DEF InitInv, Alive, TypeOK
<1>. QED  BY <1>1, <1>2, <1>3, <1>4, <1>5, NextCases, StepOwner

-----------------------------------------------------------------------------
(***************************************************************************)
(* PlaceInv and NoBadSwitch.                                               *)
(***************************************************************************)
\* Whoever is dispatched is alive.
LEMMA DispatchedAlive ==
    ASSUME Supported, Inv, NEW c \in CPUS, NEW m \in Slot,
           DispatchRR(c, m) \/ DispatchStride(c, m)
    PROVE  state[m] \in Alive /\ state[0] \in Alive
BY SlotType
   DEF Inv, DispatchRR, DispatchStride, Selectable, NextRunnable, InitInv, Alive, Supported

LEMMA NoBadSwitchStep ==
    ASSUME Supported, Inv, Next
    PROVE  NoBadSwitch'
<1>. USE SlotType DEF Inv, NoBadSwitch
<1>1. ASSUME NEW c \in CPUS, NEW m \in Slot, DispatchRR(c, m) \/ DispatchStride(c, m)
      PROVE  panic' = "none"
  <2>1. state[m] # "UNUSED" /\ pc[m] # "zombie"
    BY Zenon, <1>1, DispatchedAlive DEF Alive, PlaceInv
  <2>. QED  BY Zenon, <1>1, <2>1 DEF DispatchRR, DispatchStride, SwitchTo
<1>2. CASE UserInit
  BY Zenon, <1>2 DEF UserInit
<1>3. ASSUME NEW c \in CPUS, ScanEnds(c) \/ IdleInterrupt(c) PROVE panic' = panic
  BY ZenonT(30), <1>3 DEF ScanEnds, IdleInterrupt
<1>4. ASSUME NEW c \in CPUS, NEW p \in Slot, Step(c, p) PROVE NoBadSwitch'
  BY Zenon, <1>1, <1>4 DEF Step, AllocProc, ForkFails, ForkReturns, ExitBegins, Exits,
       WaitBegins, WaitResumes, SyscallBegins, SyscallReturns, Sleep, Wakeup,
       Kill, Tick, DeviceInterrupt, Fault, TrapExits, Yield, Resume
<1>. QED  BY Zenon, <1>2, <1>3, <1>4, NextCases

LEMMA PlaceInvStep ==
    ASSUME Supported, Inv, Next
    PROVE  PlaceInv'
<1>. USE SlotType DEF Inv
<1>f. ASSUME pc' = pc, chan' = chan,
             \A q \in Slot : \/ state'[q] = state[q]
                             \/ state[q] \in Alive /\ state'[q] \in {"RUNNABLE", "RUNNING"}
      PROVE  PlaceInv'
  BY <1>f DEF PlaceInv, Alive
<1>w. ASSUME NEW ch, NEW q \in Slot
      PROVE  \/ Woken(ch)[q] = state[q]
             \/ state[q] \in Alive /\ Woken(ch)[q] \in {"RUNNABLE", "RUNNING"}
  BY DEF Woken, Alive
<1>1. CASE UserInit
  BY <1>1 DEF UserInit, PlaceInv, Alive, TypeOK
<1>2. ASSUME NEW c \in CPUS, ScanEnds(c) PROVE PlaceInv'
  BY <1>2, <1>f DEF ScanEnds, table
<1>3. ASSUME NEW c \in CPUS, IdleInterrupt(c) PROVE PlaceInv'
  BY <1>3, <1>f, <1>w DEF IdleInterrupt, control
<1>4. ASSUME NEW c \in CPUS, NEW p \in Slot, Step(c, p), proc[c] = p PROVE PlaceInv'
  <2>a. state[p] = "RUNNING" /\ state[0] \in Alive
    BY <1>4, CurrentRuns
  <2>1. CASE AllocProc(c, p)
    <3>1. PICK n \in Slot : /\ FirstUnused(n)
                            /\ state' = [state EXCEPT ![n] = "EMBRYO"]
                            /\ pc' = [pc EXCEPT ![p] = "fork", ![n] = "forkret"]
      BY Zenon, <2>1 DEF AllocProc
    <3>2. n # 0 /\ n # p
      BY <2>a, <3>1 DEF FirstUnused, Alive
    <3>. QED  BY <2>1, <2>a, <3>1, <3>2 DEF AllocProc, PlaceInv, Alive, TypeOK
  <2>2. CASE ForkFails(c, p) \/ ForkReturns(c, p)
    <3>1. PICK n \in Slot : n = child[p] /\ state[n] = "EMBRYO"
      BY Zenon, <2>2 DEF ForkFails, ForkReturns, ForkInv, TypeOK
    <3>2. n # p /\ pc[n] = "forkret"
      BY <2>a, <3>1 DEF PlaceInv
    <3>3. /\ pc' = [pc EXCEPT ![p] = "user"] /\ chan' = chan
          /\ \/ state' = [state EXCEPT ![n] = "UNUSED"]
             \/ state' = [state EXCEPT ![n] = "RUNNABLE"]
      BY <2>2, <3>1 DEF ForkFails, ForkReturns
    <3>. QED  BY <2>a, <3>2, <3>3 DEF PlaceInv, Alive, TypeOK
  <2>3. CASE ExitBegins(c, p) \/ TrapExits(c, p)
    <3>1. state' = state /\ chan' = chan
      BY Zenon, <2>3 DEF ExitBegins, TrapExits, table
    <3>2. pc' = pc \/ (p # 0 /\ pc' = [pc EXCEPT ![p] = "exit"])
      BY Zenon, <2>3 DEF ExitBegins, TrapExits
    <3>. QED  BY <2>a, <3>1, <3>2 DEF PlaceInv, Alive, TypeOK
  <2>4. CASE SyscallBegins(c, p) \/ SyscallReturns(c, p)
    BY <2>4, <2>a DEF SyscallBegins, SyscallReturns, table, PlaceInv, Alive, TypeOK
  <2>5. CASE Fault(c, p)
    BY <2>5, <1>f DEF Fault, control
  <2>6. CASE Resume(c, p)
    BY <2>6, <2>a DEF Resume, PlaceInv, Alive, TypeOK
  <2>7. CASE Exits(c, p)
    <3>1. p # 0
      BY <2>7 DEF Exits, ExitWakes, Adopted, Kids, PlaceInv
    <3>2. \A q \in Slot \ {p} :
             /\ pc'[q] = pc[q] /\ chan'[q] = chan[q]
             /\ \/ state'[q] = state[q]
                \/ state[q] = "SLEEPING" /\ state'[q] = "RUNNABLE"
      BY <2>7 DEF Exits, ExitWakes, Adopted, Kids, TypeOK
    <3>3. state'[p] = "ZOMBIE" /\ pc'[p] = "zombie"
      BY <2>7 DEF Exits, ExitWakes, Adopted, Kids, TypeOK
    <3>. QED  BY <3>1, <3>2, <3>3 DEF PlaceInv, Alive
  <2>8. CASE WaitBegins(c, p) \/ WaitResumes(c, p)
    <3>1. WaitRound(c, p)
      BY <2>8 DEF WaitBegins, WaitResumes
    <3>2. ASSUME NEW z \in Slot, Reap(p, z), pc' = [pc EXCEPT ![p] = "user"],
                 chan' = [chan EXCEPT ![p] = NoChan]
          PROVE  PlaceInv'
      BY <3>2, <2>a DEF Reap, PlaceInv, Alive, TypeOK
    <3>3. CASE /\ state' = state /\ pc' = [pc EXCEPT ![p] = "user"]
               /\ chan' = [chan EXCEPT ![p] = NoChan]
      BY <3>3, <2>a DEF PlaceInv, Alive, TypeOK
    <3>4. CASE /\ state' = [state EXCEPT ![p] = "SLEEPING"]
               /\ pc' = [pc EXCEPT ![p] = "wait"]
               /\ chan' = [chan EXCEPT ![p] = p]
      BY <3>4, <2>a DEF PlaceInv, Alive, TypeOK
    <3>. QED  BY <3>1, <3>2, <3>3, <3>4 DEF WaitRound
  <2>9. ASSUME NEW ch \in Chan, Sleep(c, p, ch) PROVE PlaceInv'
    BY <2>9, <2>a DEF Sleep, PlaceInv, Alive, TypeOK
  <2>10. CASE Wakeup(c, p, Device) \/ Tick(c, p) \/ DeviceInterrupt(c, p)
    BY <2>10, <1>f, <1>w DEF Wakeup, Tick, DeviceInterrupt, control
  <2>11. ASSUME NEW k \in KILLPIDS, Kill(c, p, k) PROVE PlaceInv'
    BY <2>11, <1>f DEF Kill, Roused, control, Alive, TypeOK
  <2>12. CASE Yield(c, p)
    BY <2>12, <2>a, <1>f DEF Yield, Alive, TypeOK
  <2>13. CASE DispatchRR(c, p) \/ DispatchStride(c, p)
    BY <2>13, <1>4 DEF DispatchRR, DispatchStride
  <2>. QED
    BY <1>4, <2>1, <2>2, <2>3, <2>4, <2>5, <2>6, <2>7, <2>8, <2>9, <2>10, <2>11,
       <2>12, <2>13 DEF Step
<1>5. ASSUME NEW c \in CPUS, NEW p \in Slot, DispatchRR(c, p) \/ DispatchStride(c, p)
      PROVE  PlaceInv'
  <2>1. /\ state' = [state EXCEPT ![p] = "RUNNING"]
        /\ pc' = pc /\ chan' = chan /\ state[p] \in Alive
    BY Zenon, <1>5, DispatchedAlive DEF DispatchRR, DispatchStride, SwitchTo
  <2>. QED  BY <2>1, <1>f DEF TypeOK
<1>. QED  BY <1>1, <1>2, <1>3, <1>4, <1>5, NextCases, StepOwner

-----------------------------------------------------------------------------
(***************************************************************************)
(* Most steps neither create nor end a process: no parent or child pointer *)
(* changes, no process enters or leaves forks(), and only live processes   *)
(* change state, among the live states.                                    *)
(***************************************************************************)
Quiet ==
    /\ parent' = parent /\ child' = child
    /\ pid' = pid /\ nextpid' = nextpid
    /\ \A q \in Slot : (pc'[q] = "fork") <=> (pc[q] = "fork")
    /\ \A q \in Slot : \/ state'[q] = state[q]
                       \/ state[q] \in Alive /\ state'[q] \in Alive

\* p frees its zombie child z.
Reaps(p, z) ==
    /\ state[p] = "RUNNING" /\ pc[p] # "fork"
    /\ Reap(p, z)
    /\ child' = child /\ nextpid' = nextpid
    /\ pc' = [pc EXCEPT ![p] = "user"]

\* The steps that are not quiet.
LEMMA LoudSteps ==
    ASSUME Supported, Inv, Next
    PROVE  \/ Quiet
           \/ UserInit
           \/ \E c \in CPUS, p \in Slot :
                 /\ proc[c] = p
                 /\ \/ AllocProc(c, p) \/ ForkFails(c, p) \/ ForkReturns(c, p)
                    \/ Exits(c, p)
                    \/ \E z \in Slot : Reaps(p, z)
<1>. USE SlotType DEF Inv
<1>w. ASSUME NEW ch, NEW q \in Slot
      PROVE  Woken(ch)[q] = state[q] \/ (state[q] \in Alive /\ Woken(ch)[q] \in Alive)
  BY DEF Woken, Alive
<1>2. ASSUME NEW c \in CPUS, ScanEnds(c) \/ IdleInterrupt(c) PROVE Quiet
  BY <1>2, <1>w DEF ScanEnds, IdleInterrupt, table, control, Quiet
<1>3. ASSUME NEW c \in CPUS, NEW p \in Slot, DispatchRR(c, p) \/ DispatchStride(c, p)
      PROVE  Quiet
  BY Zenon, <1>3, DispatchedAlive DEF DispatchRR, DispatchStride, SwitchTo, Quiet, Alive, TypeOK
<1>4. ASSUME NEW c \in CPUS, NEW p \in Slot, Step(c, p), proc[c] = p,
             ~AllocProc(c, p), ~ForkFails(c, p), ~ForkReturns(c, p), ~Exits(c, p),
             ~(\E z \in Slot : Reaps(p, z))
      PROVE  Quiet
  <2>a. state[p] = "RUNNING"
    BY <1>4, CurrentRuns
  <2>1. CASE ExitBegins(c, p) \/ TrapExits(c, p) \/ SyscallBegins(c, p) \/ SyscallReturns(c, p)
    BY Zenon, <2>1 DEF ExitBegins, TrapExits, SyscallBegins, SyscallReturns, table, Quiet, TypeOK
  <2>2. CASE Fault(c, p) \/ Resume(c, p)
    BY <2>2 DEF Fault, Resume, control, Quiet, TypeOK
  <2>3. CASE WaitBegins(c, p) \/ WaitResumes(c, p)
    <3>1. WaitRound(c, p) /\ child' = child /\ nextpid' = nextpid /\ pc[p] # "fork"
      BY <2>3 DEF WaitBegins, WaitResumes
    <3>2. CASE \E z \in Slot : Reap(p, z) /\ pc' = [pc EXCEPT ![p] = "user"]
      BY <1>4, <2>a, <3>1, <3>2 DEF Reaps
    <3>3. CASE /\ state' = state /\ pc' = [pc EXCEPT ![p] = "user"]
               /\ parent' = parent /\ pid' = pid
      BY <3>1, <3>3 DEF Quiet, TypeOK
    <3>4. CASE /\ state' = [state EXCEPT ![p] = "SLEEPING"]
               /\ pc' = [pc EXCEPT ![p] = "wait"]
               /\ parent' = parent /\ pid' = pid
      BY <2>a, <3>1, <3>4 DEF Quiet, TypeOK, Alive
    <3>. QED  BY <3>1, <3>2, <3>3, <3>4 DEF WaitRound
  <2>4. ASSUME NEW ch \in Chan, Sleep(c, p, ch) PROVE Quiet
    BY <2>4, <2>a DEF Sleep, Quiet, Alive, TypeOK
  <2>5. CASE Wakeup(c, p, Device) \/ Tick(c, p) \/ DeviceInterrupt(c, p)
    BY <2>5, <1>w DEF Wakeup, Tick, DeviceInterrupt, control, Quiet
  <2>6. ASSUME NEW k \in KILLPIDS, Kill(c, p, k) PROVE Quiet
    BY <2>6 DEF Kill, Roused, control, Quiet, Alive, TypeOK
  <2>7. CASE Yield(c, p)
    BY <2>7, <2>a DEF Yield, Quiet, Alive, TypeOK
  <2>. QED  BY <1>3, <1>4, <2>1, <2>2, <2>3, <2>4, <2>5, <2>6, <2>7 DEF Step
<1>. QED  BY <1>2, <1>3, <1>4, NextCases, StepOwner

-----------------------------------------------------------------------------
(***************************************************************************)
(* ForkInv, ParentInv and ParentAlive.                                   *)
(***************************************************************************)
LEMMA ForkInvStep ==
    ASSUME Supported, Inv, Next
    PROVE  ForkInv'
<1>. USE SlotType DEF Inv
<1>1. CASE Quiet
  <2>1. \A q \in Slot : (pc'[q] = "fork" <=> pc[q] = "fork") /\ child'[q] = child[q]
    BY Zenon, <1>1 DEF Quiet
  <2>2. \A q \in Slot : pc[q] = "fork" => child[q] \in Slot /\ state[child[q]] = "EMBRYO"
    BY DEF ForkInv, TypeOK
  <2>3. \A q \in Slot : state[q] = "EMBRYO" => state'[q] = "EMBRYO"
    BY <1>1 DEF Quiet, Alive
  <2>4. ASSUME NEW q \in Slot, pc'[q] = "fork"
        PROVE  child'[q] # Nobody /\ state'[child'[q]] = "EMBRYO"
    <3>1. PICK n \in Slot : n = child[q] /\ state[n] = "EMBRYO"
      BY Zenon, <2>1, <2>2, <2>4
    <3>. QED  BY <2>1, <2>3, <3>1
  <2>5. \A q, r \in Slot :
           pc'[q] = "fork" /\ pc'[r] = "fork" /\ child'[q] = child'[r] => q = r
    BY <2>1 DEF ForkInv
  <2>. QED  BY <2>4, <2>5 DEF ForkInv
<1>2. CASE UserInit
  BY <1>2 DEF UserInit, InitInv, PlaceInv, ForkInv, TypeOK, Alive
<1>3. ASSUME NEW c \in CPUS, NEW p \in Slot, proc[c] = p,
             \/ AllocProc(c, p) \/ ForkFails(c, p) \/ ForkReturns(c, p)
             \/ Exits(c, p)
             \/ \E z \in Slot : Reaps(p, z)
      PROVE  ForkInv'
  <2>a. state[p] = "RUNNING"
    BY <1>3, CurrentRuns
  <2>1. CASE AllocProc(c, p)
    <3>1. PICK n \in Slot : /\ FirstUnused(n)
                            /\ state' = [state EXCEPT ![n] = "EMBRYO"]
                            /\ child' = [child EXCEPT ![p] = n]
                            /\ pc' = [pc EXCEPT ![p] = "fork", ![n] = "forkret"]
      BY Zenon, <2>1 DEF AllocProc
    <3>2. state[n] = "UNUSED" /\ n # p
      BY <2>a, <3>1 DEF FirstUnused
    <3>3. \A q \in Slot : pc'[q] = "fork" => q = p \/ (pc[q] = "fork" /\ q # n)
      BY <3>1, <3>2 DEF TypeOK
    <3>4. \A q \in Slot : q # p => child'[q] = child[q]
      BY <3>1 DEF TypeOK
    <3>5. child'[p] = n /\ state'[n] = "EMBRYO"
      BY <3>1 DEF TypeOK
    <3>6. \A q \in Slot : q # n => state'[q] = state[q]
      BY <3>1 DEF TypeOK
    <3>7. \A q \in Slot : pc[q] = "fork" =>
             child[q] \in Slot /\ child[q] # n /\ state[child[q]] = "EMBRYO"
      BY <3>2 DEF ForkInv, TypeOK
    <3>8. ASSUME NEW q \in Slot, pc'[q] = "fork"
          PROVE  child'[q] # Nobody /\ state'[child'[q]] = "EMBRYO"
      <4>1. CASE q = p
        BY <4>1, <3>5
      <4>2. CASE q # p
        <5>1. PICK m \in Slot : m = child[q] /\ m # n /\ state[m] = "EMBRYO"
          BY Zenon, <3>3, <3>7, <3>8, <4>2
        <5>. QED  BY <3>4, <3>6, <4>2, <5>1
      <4>. QED  BY <4>1, <4>2
    <3>9. \A q, r \in Slot :
             pc'[q] = "fork" /\ pc'[r] = "fork" /\ child'[q] = child'[r] => q = r
      BY <3>3, <3>4, <3>5, <3>7 DEF ForkInv
    <3>. QED  BY <3>8, <3>9 DEF ForkInv
  <2>2. CASE ForkFails(c, p) \/ ForkReturns(c, p)
    <3>1. PICK n \in Slot : n = child[p] /\ state[n] = "EMBRYO" /\ pc[p] = "fork"
      BY Zenon, <2>2 DEF ForkFails, ForkReturns, ForkInv, TypeOK
    <3>2. /\ pc' = [pc EXCEPT ![p] = "user"]
          /\ child' = [child EXCEPT ![p] = Nobody]
          /\ \/ state' = [state EXCEPT ![n] = "UNUSED"]
             \/ state' = [state EXCEPT ![n] = "RUNNABLE"]
      BY <2>2, <3>1 DEF ForkFails, ForkReturns
    <3>3. \A q \in Slot : pc'[q] = "fork" => q # p /\ pc[q] = "fork" /\ child'[q] = child[q]
      BY <3>2 DEF TypeOK
    <3>4. \A q \in Slot : pc[q] = "fork" /\ q # p =>
             child[q] \in Slot /\ child[q] # n /\ state[child[q]] = "EMBRYO"
      BY <3>1 DEF ForkInv, TypeOK
    <3>5. \A q \in Slot : q # n => state'[q] = state[q]
      BY <3>2 DEF TypeOK
    <3>6. \A q, r \in Slot : pc[q] = "fork" /\ pc[r] = "fork" /\ child[q] = child[r] => q = r
      BY DEF ForkInv
    <3>7. ASSUME NEW q \in Slot, pc'[q] = "fork"
          PROVE  child'[q] # Nobody /\ state'[child'[q]] = "EMBRYO"
      <4>1. PICK m \in Slot : m = child[q] /\ m # n /\ state[m] = "EMBRYO"
        BY Zenon, <3>3, <3>4, <3>7
      <4>. QED  BY <3>3, <3>5, <3>7, <4>1
    <3>8. \A q, r \in Slot :
             pc'[q] = "fork" /\ pc'[r] = "fork" /\ child'[q] = child'[r] => q = r
      BY <3>3, <3>6
    <3>. QED  BY <3>7, <3>8 DEF ForkInv
  <2>3. CASE Exits(c, p)
    BY <2>3, <2>a DEF Exits, ExitWakes, Adopted, Kids, ForkInv, TypeOK
  <2>4. ASSUME NEW z \in Slot, Reaps(p, z) PROVE ForkInv'
    BY <2>4 DEF Reaps, Reap, ForkInv, TypeOK
  <2>. QED  BY <1>3, <2>1, <2>2, <2>3, <2>4
<1>. QED  BY <1>1, <1>2, <1>3, LoudSteps

LEMMA ParentInvStep ==
    ASSUME Supported, Inv, Next
    PROVE  ParentInv'
<1>. USE SlotType DEF Inv
<1>1. CASE Quiet
  BY <1>1 DEF Quiet, ParentInv, Alive
<1>2. CASE UserInit
  BY <1>2 DEF UserInit, ParentInv, TypeOK
<1>3. ASSUME NEW c \in CPUS, NEW p \in Slot, proc[c] = p,
             \/ AllocProc(c, p) \/ ForkFails(c, p) \/ ForkReturns(c, p)
             \/ Exits(c, p)
             \/ \E z \in Slot : Reaps(p, z)
      PROVE  ParentInv'
  <2>a. state[p] = "RUNNING" /\ state[0] \in Alive
    BY <1>3, CurrentRuns
  <2>1. CASE AllocProc(c, p)
    BY <2>1 DEF AllocProc, FirstUnused, ParentInv, TypeOK
  <2>2. CASE ForkFails(c, p) \/ ForkReturns(c, p)
    <3>1. PICK n \in Slot : n = child[p] /\ state[n] = "EMBRYO"
      BY Zenon, <2>2 DEF ForkFails, ForkReturns, ForkInv, TypeOK
    <3>2. n # p /\ n # 0
      BY <2>a, <3>1 DEF Alive
    <3>. QED  BY <2>2, <3>1, <3>2 DEF ForkFails, ForkReturns, ParentInv, TypeOK
  <2>3. CASE Exits(c, p)
    BY <2>3, <2>a DEF Exits, ExitWakes, Adopted, Kids, ParentInv
  <2>4. ASSUME NEW z \in Slot, Reaps(p, z) PROVE ParentInv'
    BY <2>4 DEF Reaps, Reap, ParentInv, TypeOK
  <2>. QED  BY <1>3, <2>1, <2>2, <2>3, <2>4
<1>. QED  BY <1>1, <1>2, <1>3, LoudSteps

LEMMA ParentAliveStep ==
    ASSUME Supported, Inv, Next
    PROVE  ParentAlive'
<1>. USE SlotType DEF Inv
<1>a. ASSUME NEW q \in Slot \ {0}, state[q] \notin {"UNUSED", "EMBRYO"}
      PROVE  parent[q] \in Slot /\ state[parent[q]] \in Alive
  BY <1>a DEF ParentAlive, Alive, TypeOK
\* It is enough that every process has a parent that was and is alive.
<1>f. ASSUME \A q \in Slot \ {0} : state'[q] \notin {"UNUSED", "EMBRYO"} =>
                \E r \in Slot : parent'[q] = r /\ state'[r] \in Alive
      PROVE  ParentAlive'
  BY <1>f DEF ParentAlive, Alive
<1>1. CASE Quiet
  <2>1. ASSUME NEW q \in Slot \ {0}, state'[q] \notin {"UNUSED", "EMBRYO"}
        PROVE  \E r \in Slot : parent'[q] = r /\ state'[r] \in Alive
    <3>1. state[q] \notin {"UNUSED", "EMBRYO"}
      BY <1>1, <2>1 DEF Quiet, Alive
    <3>2. PICK r \in Slot : parent[q] = r /\ state[r] \in Alive
      BY Zenon, <1>a, <3>1
    <3>. QED  BY <1>1, <3>2 DEF Quiet
  <2>. QED  BY <1>f, <2>1
<1>2. CASE UserInit
  BY <1>2 DEF UserInit, InitInv, ParentAlive, TypeOK, Alive
<1>3. ASSUME NEW c \in CPUS, NEW p \in Slot, proc[c] = p,
             \/ AllocProc(c, p) \/ ForkFails(c, p) \/ ForkReturns(c, p)
             \/ Exits(c, p)
             \/ \E z \in Slot : Reaps(p, z)
      PROVE  ParentAlive'
  <2>a. state[p] = "RUNNING" /\ state[0] \in Alive
    BY <1>3, CurrentRuns
  <2>1. ASSUME NEW n \in Slot, NEW s \in {"UNUSED", "EMBRYO"},
               state[n] \notin Alive, state' = [state EXCEPT ![n] = s],
               \A q \in Slot : q # n => parent'[q] = parent[q]
        PROVE  ParentAlive'
    <3>1. ASSUME NEW q \in Slot \ {0}, state'[q] \notin {"UNUSED", "EMBRYO"}
          PROVE  \E r \in Slot : parent'[q] = r /\ state'[r] \in Alive
      <4>1. q # n /\ state[q] = state'[q]
        BY <2>1, <3>1 DEF TypeOK
      <4>2. PICK r \in Slot : parent[q] = r /\ state[r] \in Alive
        BY Zenon, <1>a, <3>1, <4>1
      <4>. QED  BY <2>1, <4>1, <4>2 DEF TypeOK
    <3>. QED  BY <1>f, <3>1
  <2>2. CASE AllocProc(c, p)
    BY Zenon, <2>1, <2>2 DEF AllocProc, FirstUnused, Alive
  <2>3. CASE ForkFails(c, p)
    <3>1. PICK n \in Slot : n = child[p] /\ state[n] = "EMBRYO"
      BY Zenon, <2>3 DEF ForkFails, ForkInv, TypeOK
    <3>. QED  BY Zenon, <2>1, <2>3, <3>1 DEF ForkFails, Alive
  <2>4. CASE ForkReturns(c, p)
    <3>1. PICK n \in Slot : n = child[p] /\ state[n] = "EMBRYO"
      BY Zenon, <2>4 DEF ForkReturns, ForkInv, TypeOK
    <3>2. /\ state' = [state EXCEPT ![n] = "RUNNABLE"]
          /\ parent' = [parent EXCEPT ![n] = p]
      BY <2>4, <3>1 DEF ForkReturns
    <3>3. ASSUME NEW q \in Slot \ {0}, state'[q] \notin {"UNUSED", "EMBRYO"}
          PROVE  \E r \in Slot : parent'[q] = r /\ state'[r] \in Alive
      <4>1. CASE q = n
        BY <2>a, <3>1, <3>2, <4>1 DEF TypeOK, Alive
      <4>2. CASE q # n
        <5>1. state[q] = state'[q] /\ parent'[q] = parent[q]
          BY <3>2, <4>2 DEF TypeOK
        <5>2. PICK r \in Slot : parent[q] = r /\ state[r] \in Alive
          BY Zenon, <1>a, <3>3, <5>1
        <5>. QED  BY <3>1, <3>2, <5>1, <5>2 DEF TypeOK, Alive
      <4>. QED  BY <4>1, <4>2
    <3>. QED  BY <1>f, <3>3
  <2>5. CASE Exits(c, p)
    <3>1. p # 0
      BY <2>5 DEF Exits, ExitWakes, Adopted, Kids, PlaceInv
    <3>2. \A r \in Slot : r # p /\ state[r] \in Alive => state'[r] \in Alive
      BY <2>5 DEF Exits, ExitWakes, Adopted, Kids, Alive
    <3>3. \A q \in Slot : parent'[q] = IF parent[q] = p THEN 0 ELSE parent[q]
      BY <2>5 DEF Exits, ExitWakes, Adopted, Kids
    <3>4. ASSUME NEW q \in Slot \ {0}, state'[q] \notin {"UNUSED", "EMBRYO"}
          PROVE  \E r \in Slot : parent'[q] = r /\ state'[r] \in Alive
      <4>1. state[q] \notin {"UNUSED", "EMBRYO"}
        BY <2>5, <2>a, <3>4 DEF Exits, ExitWakes, Adopted, Kids
      <4>2. PICK r \in Slot : parent[q] = r /\ state[r] \in Alive
        BY Zenon, <1>a, <4>1
      <4>3. CASE r = p
        BY <2>a, <3>1, <3>2, <3>3, <4>2, <4>3
      <4>4. CASE r # p
        BY <3>2, <3>3, <4>2, <4>4
      <4>. QED  BY <4>3, <4>4
    <3>. QED  BY <1>f, <3>4
  <2>6. ASSUME NEW z \in Slot, Reaps(p, z) PROVE ParentAlive'
    BY Zenon, <2>1, <2>6 DEF Reaps, Reap, Alive, TypeOK
  <2>. QED  BY <1>3, <2>2, <2>3, <2>4, <2>5, <2>6
<1>. QED  BY <1>1, <1>2, <1>3, LoudSteps

-----------------------------------------------------------------------------
(***************************************************************************)
(* NoMissedExit.                                                           *)
(***************************************************************************)
InWait(q) == state[q] = "SLEEPING" /\ pc[q] = "wait"

LEMMA NoMissedExitStep ==
    ASSUME Supported, Inv, Next
    PROVE  NoMissedExit'
<1>. USE SlotType DEF Inv
<1>e. ASSUME NEW q \in Slot, InWait(q)
      PROVE  /\ \E k \in Slot : parent[k] = q
             /\ \A k \in Slot : parent[k] = q => state[k] # "ZOMBIE"
             /\ ~killed[q]
  BY ZenonT(30), <1>e DEF NoMissedExit, InWait, Kids
<1>i. ASSUME \A q \in Slot : InWait(q)' =>
                /\ \E k \in Slot : parent'[k] = q
                /\ \A k \in Slot : parent'[k] = q => state'[k] # "ZOMBIE"
                /\ ~killed'[q]
      PROVE  NoMissedExit'
  BY <1>i DEF NoMissedExit, InWait, Kids
\* Most steps create no zombie, move no child, put no one to sleep in wait()
\* and kill no one who stays asleep in it.
<1>f. ASSUME \A q \in Slot : parent'[q] = parent[q] \/ (parent[q] = Nobody /\ state'[q] # "ZOMBIE"),
             \A q \in Slot : state'[q] = "ZOMBIE" => state[q] = "ZOMBIE",
             \A q \in Slot : InWait(q)' => InWait(q) /\ killed'[q] = killed[q]
      PROVE  NoMissedExit'
  <2>1. ASSUME NEW q \in Slot, InWait(q)'
        PROVE  /\ \E k \in Slot : parent'[k] = q
               /\ \A k \in Slot : parent'[k] = q => state'[k] # "ZOMBIE"
               /\ ~killed'[q]
    <3>1. InWait(q) /\ killed'[q] = killed[q]
      BY <1>f, <2>1
    <3>2. PICK k \in Slot : parent[k] = q
      BY Zenon, <1>e, <3>1
    <3>3. parent'[k] = q
      BY <1>f, <3>2
    <3>4. \A j \in Slot : parent'[j] = q => state'[j] # "ZOMBIE"
      BY <1>e, <1>f, <3>1
    <3>. QED  BY <1>e, <3>1, <3>3, <3>4
  <2>. QED  BY <1>i, <2>1
<1>w. ASSUME NEW ch, state' = Woken(ch), pc' = pc, parent' = parent, killed' = killed
      PROVE  NoMissedExit'
  BY <1>w, <1>f DEF Woken, InWait
<1>1. CASE UserInit
  BY <1>1, <1>f DEF UserInit, InitInv, InWait, TypeOK, Alive
<1>2. ASSUME NEW c \in CPUS, ScanEnds(c) \/ IdleInterrupt(c) PROVE NoMissedExit'
  <2>1. CASE ScanEnds(c)
    BY <2>1, <1>f DEF ScanEnds, table, InWait
  <2>2. CASE IdleInterrupt(c)
    BY <2>2, <1>w DEF IdleInterrupt, control
  <2>. QED  BY <1>2, <2>1, <2>2
<1>3. ASSUME NEW c \in CPUS, NEW p \in Slot, DispatchRR(c, p) \/ DispatchStride(c, p)
      PROVE  NoMissedExit'
  BY ZenonT(30), <1>3, <1>f DEF DispatchRR, DispatchStride, SwitchTo, InWait, TypeOK
<1>4. ASSUME NEW c \in CPUS, NEW p \in Slot, Step(c, p), proc[c] = p PROVE NoMissedExit'
  <2>a. state[p] = "RUNNING" /\ state[0] \in Alive
    BY <1>4, CurrentRuns
  <2>1. CASE AllocProc(c, p)
    BY <2>1, <1>f DEF AllocProc, FirstUnused, InWait, TypeOK
  <2>2. CASE ForkFails(c, p) \/ ForkReturns(c, p)
    <3>1. PICK n \in Slot : n = child[p] /\ state[n] = "EMBRYO" /\ parent[n] = Nobody
      BY ZenonT(30), <2>2 DEF ForkFails, ForkReturns, ForkInv, ParentInv, TypeOK
    <3>. QED  BY <2>2, <3>1, <1>f DEF ForkFails, ForkReturns, InWait, TypeOK
  <2>3. CASE ExitBegins(c, p) \/ TrapExits(c, p) \/ SyscallBegins(c, p) \/ SyscallReturns(c, p)
    BY ZenonT(30), <2>3, <1>f DEF ExitBegins, TrapExits, SyscallBegins, SyscallReturns, table, InWait, TypeOK
  <2>4. CASE Fault(c, p) \/ Resume(c, p)
    BY <2>4, <2>a, <1>f DEF Fault, Resume, control, InWait, TypeOK
  <2>5. ASSUME NEW ch \in Chan, Sleep(c, p, ch) PROVE NoMissedExit'
    BY <2>5, <1>f DEF Sleep, InWait, TypeOK
  <2>6. CASE Wakeup(c, p, Device) \/ DeviceInterrupt(c, p)
    BY <2>6, <1>w DEF Wakeup, DeviceInterrupt, control
  <2>7. CASE Tick(c, p)
    BY <2>7, <1>w, <1>f DEF Tick, InWait
  <2>8. ASSUME NEW k \in KILLPIDS, Kill(c, p, k) PROVE NoMissedExit'
    BY ZenonT(30), <2>8, <1>f DEF Kill, Roused, control, InWait, TypeOK
  <2>9. CASE Yield(c, p)
    BY <2>9, <1>f DEF Yield, InWait, TypeOK
  <2>10. CASE WaitBegins(c, p) \/ WaitResumes(c, p)
    <3>1. WaitRound(c, p)
      BY <2>10 DEF WaitBegins, WaitResumes
    <3>2. ASSUME NEW z \in Slot, Reap(p, z), pc' = [pc EXCEPT ![p] = "user"]
          PROVE  NoMissedExit'
      <4>1. /\ parent[z] = p /\ state[z] = "ZOMBIE"
            /\ \A q \in Slot \ {z} : parent'[q] = parent[q] /\ state'[q] = state[q]
            /\ parent'[z] = Nobody /\ state'[z] = "UNUSED"
        BY <3>2 DEF Reap, Kids, TypeOK
      <4>2. \A q \in Slot : InWait(q)' => q # p /\ InWait(q) /\ killed'[q] = killed[q]
        BY ZenonT(30), <3>2, <4>1 DEF Reap, InWait, TypeOK
      <4>3. ASSUME NEW q \in Slot, InWait(q)'
            PROVE  /\ \E k \in Slot : parent'[k] = q
                   /\ \A k \in Slot : parent'[k] = q => state'[k] # "ZOMBIE"
                   /\ ~killed'[q]
        <5>1. q # p /\ InWait(q) /\ killed'[q] = killed[q]
          BY Zenon, <4>2, <4>3
        <5>2. PICK k \in Slot : parent[k] = q
          BY Zenon, <1>e, <5>1
        <5>3. parent'[k] = q
          BY <4>1, <5>1, <5>2
        <5>4. ASSUME NEW j \in Slot, parent'[j] = q PROVE state'[j] # "ZOMBIE"
          <6>1. CASE j = z
            BY <4>1, <6>1
          <6>2. CASE j # z
            <7>1. parent[j] = q /\ state'[j] = state[j]
              BY <4>1, <5>4, <6>2
            <7>2. \A i \in Slot : parent[i] = q => state[i] # "ZOMBIE"
              BY <1>e, <5>1
            <7>. QED  BY <7>1, <7>2
          <6>. QED  BY <6>1, <6>2
        <5>. QED  BY ZenonT(30), <1>e, <5>1, <5>3, <5>4
      <4>. QED  BY <1>i, <4>3
    <3>3. CASE /\ state' = state /\ parent' = parent /\ killed' = killed
               /\ pc' = [pc EXCEPT ![p] = "user"]
      BY <3>3, <1>f DEF InWait, TypeOK
    <3>4. CASE /\ \A k \in Kids(p) : state[k] # "ZOMBIE"
               /\ Kids(p) # {} /\ ~killed[p]
               /\ state' = [state EXCEPT ![p] = "SLEEPING"]
               /\ pc' = [pc EXCEPT ![p] = "wait"]
               /\ parent' = parent /\ killed' = killed
      BY <3>4, <2>a DEF NoMissedExit, Kids, TypeOK
    <3>. QED  BY <3>1, <3>2, <3>3, <3>4 DEF WaitRound
  <2>11. CASE Exits(c, p)
    <3>1. p # 0
      BY <2>11 DEF Exits, ExitWakes, Adopted, Kids, PlaceInv
    <3>2. \A q \in Slot : InWait(q)' => q # p /\ InWait(q) /\ killed'[q] = killed[q]
      BY <2>11 DEF Exits, ExitWakes, Adopted, Kids, InWait, TypeOK
    <3>3. \A q \in Slot : parent'[q] = IF parent[q] = p THEN 0 ELSE parent[q]
      BY <2>11 DEF Exits, ExitWakes, Adopted, Kids
    <3>4. \A q \in Slot : state'[q] = "ZOMBIE" => q = p \/ state[q] = "ZOMBIE"
      BY <2>11 DEF Exits, ExitWakes, Adopted, Kids
    \* The parent does not stay asleep, nor does init when it inherits a zombie.
    <3>5. \A q \in Slot : InWait(q)' => chan[q] = q
      BY <3>2 DEF InWait, PlaceInv
    <3>6. \A q \in Slot : InWait(q)' => q # parent[p]
      BY <2>11, <3>2, <3>5 DEF Exits, ExitWakes, Adopted, Kids, InWait
    <3>7. ASSUME InWait(0)', NEW k \in Slot, parent[k] = p PROVE state[k] # "ZOMBIE"
      BY <2>11, <3>1, <3>2, <3>5, <3>7 DEF Exits, ExitWakes, Adopted, Kids, InWait
    <3>8. ASSUME NEW q \in Slot, InWait(q)'
          PROVE  /\ Kids(q)' # {}
                 /\ \A k \in Kids(q)' : state'[k] # "ZOMBIE"
                 /\ ~killed'[q]
      <4>1. InWait(q) /\ q # p /\ killed'[q] = killed[q] /\ q # parent[p]
        BY Zenon, <3>2, <3>6, <3>8
      <4>2. PICK k \in Slot : parent[k] = q
        BY Zenon, <4>1 DEF NoMissedExit, InWait, Kids
      <4>3. parent'[k] = q
        BY Zenon, <3>3, <4>1, <4>2
      <4>4. ASSUME NEW j \in Slot, parent'[j] = q, state'[j] = "ZOMBIE" PROVE FALSE
        <5>1. CASE parent[j] = q
          BY Zenon, <3>4, <4>1, <4>4, <5>1 DEF NoMissedExit, InWait, Kids
        <5>2. CASE parent[j] # q
          <6>1. parent[j] = p /\ q = 0
            BY <3>3, <4>4, <5>2
          <6>2. j # p
            BY <6>1 DEF ParentInv
          <6>. QED  BY <3>4, <3>7, <3>8, <4>4, <6>1, <6>2
        <5>. QED  BY <5>1, <5>2
      <4>. QED  BY Zenon, <4>1, <4>2, <4>3, <4>4 DEF NoMissedExit, InWait, Kids
    <3>. QED  BY <3>8 DEF NoMissedExit, InWait
  <2>12. CASE DispatchRR(c, p) \/ DispatchStride(c, p)
    BY <2>12, <1>3
  <2>. QED
    BY <1>4, <2>1, <2>2, <2>3, <2>4, <2>5, <2>6, <2>7, <2>8, <2>9, <2>10, <2>11,
       <2>12 DEF Step
<1>. QED  BY <1>1, <1>2, <1>3, <1>4, NextCases, StepOwner

-----------------------------------------------------------------------------
(***************************************************************************)
(* EmbryoInv, PidInv and PidsUnique.                                       *)
(***************************************************************************)
LEMMA EmbryoInvStep ==
    ASSUME Supported, Inv, Next
    PROVE  EmbryoInv'
<1>. USE SlotType DEF Inv
\* It is enough that the owner of a slot that stays EMBRYO stays its owner.
<1>f. ASSUME \A n \in Slot : state'[n] = "EMBRYO" => state[n] = "EMBRYO",
             \A n, q \in Slot : pc[q] = "fork" /\ child[q] = n /\ state'[n] = "EMBRYO" =>
                pc'[q] = "fork" /\ child'[q] = n
      PROVE  EmbryoInv'
  BY <1>f DEF EmbryoInv
<1>1. CASE Quiet
  BY <1>1, <1>f DEF Quiet, Alive
<1>2. CASE UserInit
  BY <1>2, <1>f DEF UserInit, InitInv, PlaceInv, TypeOK, Alive
<1>3. ASSUME NEW c \in CPUS, NEW p \in Slot, proc[c] = p,
             \/ AllocProc(c, p) \/ ForkFails(c, p) \/ ForkReturns(c, p)
             \/ Exits(c, p)
             \/ \E z \in Slot : Reaps(p, z)
      PROVE  EmbryoInv'
  <2>a. state[p] = "RUNNING"
    BY <1>3, CurrentRuns
  <2>1. CASE AllocProc(c, p)
    <3>1. PICK n \in Slot : /\ FirstUnused(n)
                            /\ state' = [state EXCEPT ![n] = "EMBRYO"]
                            /\ child' = [child EXCEPT ![p] = n]
                            /\ pc' = [pc EXCEPT ![p] = "fork", ![n] = "forkret"]
      BY Zenon, <2>1 DEF AllocProc
    <3>2. state[n] = "UNUSED" /\ n # p /\ pc[n] # "fork" /\ pc[p] = "user"
      BY <2>1, <2>a, <3>1 DEF FirstUnused, PlaceInv, AllocProc
    <3>3. ASSUME NEW m \in Slot, state'[m] = "EMBRYO"
          PROVE  \E q \in Slot : pc'[q] = "fork" /\ child'[q] = m
      <4>1. CASE m = n
        BY <3>1, <3>2, <4>1 DEF TypeOK
      <4>2. CASE m # n
        <5>1. PICK q \in Slot : pc[q] = "fork" /\ child[q] = m
          BY <3>1, <3>3, <4>2 DEF EmbryoInv, TypeOK
        <5>. QED  BY <3>1, <3>2, <5>1 DEF TypeOK
      <4>. QED  BY <4>1, <4>2
    <3>. QED  BY <3>3 DEF EmbryoInv
  <2>2. CASE ForkFails(c, p) \/ ForkReturns(c, p)
    <3>1. PICK n \in Slot : n = child[p] /\ state[n] = "EMBRYO"
      BY Zenon, <2>2 DEF ForkFails, ForkReturns, ForkInv, TypeOK
    <3>2. /\ pc' = [pc EXCEPT ![p] = "user"]
          /\ child' = [child EXCEPT ![p] = Nobody]
          /\ \/ state' = [state EXCEPT ![n] = "UNUSED"]
             \/ state' = [state EXCEPT ![n] = "RUNNABLE"]
      BY <2>2, <3>1 DEF ForkFails, ForkReturns
    <3>. QED  BY <1>f, <3>1, <3>2 DEF TypeOK
  <2>3. CASE Exits(c, p)
    BY <1>f, <2>3 DEF Exits, TypeOK
  <2>4. ASSUME NEW z \in Slot, Reaps(p, z) PROVE EmbryoInv'
    BY <1>f, <2>4 DEF Reaps, Reap, TypeOK
  <2>. QED  BY <1>3, <2>1, <2>2, <2>3, <2>4
<1>. QED  BY <1>1, <1>2, <1>3, LoudSteps

LEMMA PidStep ==
    ASSUME Supported, Inv, Next
    PROVE  PidInv' /\ PidsUnique'
<1>. USE SlotType DEF Inv
<1>f. ASSUME pid' = pid, nextpid' = nextpid,
             \A q \in Slot : state'[q] # "UNUSED" => state[q] # "UNUSED"
      PROVE  PidInv' /\ PidsUnique'
  BY <1>f DEF PidInv, PidsUnique
<1>n. ASSUME NEW n \in Slot, NewPid(n),
             \A q \in Slot : q # n => state'[q] = state[q]
      PROVE  PidInv' /\ PidsUnique'
  <2>1. nextpid \in Nat /\ nextpid' = nextpid + 1 /\ pid'[n] = nextpid
    BY <1>n DEF NewPid, TypeOK
  <2>2. \A q \in Slot : q # n => pid'[q] = pid[q] /\ pid[q] \in Nat /\ pid[q] < nextpid
    BY <1>n DEF NewPid, TypeOK, PidInv
  <2>3. PidInv'
    BY <2>1, <2>2 DEF PidInv
  <2>4. PidsUnique'
    BY <1>n, <2>1, <2>2 DEF PidsUnique
  <2>. QED  BY <2>3, <2>4
<1>1. CASE Quiet
  BY <1>1, <1>f DEF Quiet, Alive
<1>2. CASE UserInit
  BY <1>2, <1>n DEF UserInit, TypeOK
<1>3. ASSUME NEW c \in CPUS, NEW p \in Slot, proc[c] = p,
             \/ AllocProc(c, p) \/ ForkFails(c, p) \/ ForkReturns(c, p)
             \/ Exits(c, p)
             \/ \E z \in Slot : Reaps(p, z)
      PROVE  PidInv' /\ PidsUnique'
  <2>a. state[p] = "RUNNING"
    BY <1>3, CurrentRuns
  <2>1. CASE AllocProc(c, p)
    BY SMTT(30), <1>n, <2>1 DEF AllocProc, TypeOK
  <2>2. CASE ForkFails(c, p) \/ ForkReturns(c, p)
    <3>1. PICK n \in Slot : n = child[p] /\ state[n] = "EMBRYO"
      BY Zenon, <2>2 DEF ForkFails, ForkReturns, ForkInv, TypeOK
    <3>. QED  BY <1>f, <2>2, <3>1 DEF ForkFails, ForkReturns, TypeOK
  <2>3. CASE Exits(c, p)
    BY <1>f, <2>3, <2>a DEF Exits
  <2>4. ASSUME NEW z \in Slot, Reaps(p, z) PROVE PidInv' /\ PidsUnique'
    <3>1. /\ nextpid' = nextpid
          /\ pid' = [pid EXCEPT ![z] = 0]
          /\ state' = [state EXCEPT ![z] = "UNUSED"]
      BY <2>4 DEF Reaps, Reap
    <3>2. nextpid \in Nat /\ 0 < nextpid
      BY DEF PidInv, TypeOK
    <3>3. PidInv'
      BY <3>1, <3>2 DEF PidInv, TypeOK
    <3>4. PidsUnique'
      BY SMTT(30), <3>1 DEF PidsUnique, TypeOK
    <3>. QED  BY <3>3, <3>4
  <2>. QED  BY <1>3, <2>1, <2>2, <2>3, <2>4
<1>. QED  BY <1>1, <1>2, <1>3, LoudSteps

-----------------------------------------------------------------------------
(***************************************************************************)
(* The theorems.                                                           *)
(***************************************************************************)
LEMMA InvInit == Init => Inv
BY SlotType
   DEF Init, Inv, TypeOK, SingleRunner, NoBadSwitch, InitInv, PlaceInv, ForkInv,
       ParentInv, ParentAlive, NoMissedExit, EmbryoInv, PidInv, PidsUnique, Alive,
       Kids, ProcState, Place, Panics

\* Under round robin on any number of cpus, and under stride on one, the
\* invariant of the process table holds.
THEOREM InvHolds == ASSUME Supported PROVE Spec => []Inv
<1>1. Inv /\ [Next]_vars => Inv'
  <2>1. ASSUME Inv, Next PROVE Inv'
    BY <2>1, TypeStep, SingleRunnerStep, NoBadSwitchStep, InitInvStep, PlaceInvStep,
       ForkInvStep, ParentInvStep, ParentAliveStep, NoMissedExitStep, EmbryoInvStep,
       PidStep DEF Inv
  <2>2. ASSUME Inv, UNCHANGED vars PROVE Inv'
    <3>. USE <2>2 DEF vars, table, control, Inv
    <3>1. TypeOK' /\ SingleRunner' /\ NoBadSwitch' /\ InitInv'
      BY ZenonT(30) DEF TypeOK, SingleRunner, NoBadSwitch, InitInv
    <3>2. PlaceInv' /\ ForkInv'
      BY DEF PlaceInv, ForkInv
    <3>3. ParentInv' /\ ParentAlive'
      BY DEF ParentInv, ParentAlive
    <3>4. NoMissedExit'
      BY DEF NoMissedExit, Kids
    <3>5. EmbryoInv' /\ PidInv' /\ PidsUnique'
      BY DEF EmbryoInv, PidInv, PidsUnique
    <3>. QED  BY <3>1, <3>2, <3>3, <3>4, <3>5
  <2>. QED  BY <2>1, <2>2
<1>. QED  BY <1>1, InvInit, PTL DEF Spec

\* A process is RUNNING exactly while it is current on one cpu, whatever the
\* number of slots and, under round robin, of cpus.
THEOREM SingleRunnerHolds == ASSUME Supported PROVE Spec => []SingleRunner
<1>1. Inv => SingleRunner
  BY DEF Inv
<1>. QED  BY <1>1, InvHolds, PTL

\* The scheduler never switches to an empty slot or to an exited process.
THEOREM NoBadSwitchHolds == ASSUME Supported PROVE Spec => []NoBadSwitch
<1>1. Inv => NoBadSwitch
  BY DEF Inv
<1>. QED  BY <1>1, InvHolds, PTL

\* Every process but init has a parent that has not exited.
THEOREM ParentAliveHolds == ASSUME Supported PROVE Spec => []ParentAlive
<1>1. Inv => ParentAlive
  BY DEF Inv
<1>. QED  BY <1>1, InvHolds, PTL

\* No process sleeps in wait() over a zombie child or after it was killed.
THEOREM NoMissedExitHolds == ASSUME Supported PROVE Spec => []NoMissedExit
<1>1. Inv => NoMissedExit
  BY DEF Inv
<1>. QED  BY <1>1, InvHolds, PTL

\* An EMBRYO slot has exactly one owner, which is in forks(): none is lost when
\* forks() fails and none is filled twice.
THEOREM EmbryoOwnedHolds == ASSUME Supported PROVE Spec => []EmbryoOwned
<1>1. Inv => EmbryoOwned
  BY DEF Inv, EmbryoOwned, EmbryoInv, ForkInv
<1>. QED  BY <1>1, InvHolds, PTL

\* No two processes have the same pid.
THEOREM PidsUniqueHolds == ASSUME Supported PROVE Spec => []PidsUnique
<1>1. Inv => PidsUnique
  BY DEF Inv
<1>. QED  BY <1>1, InvHolds, PTL

\* The variables keep their types in both modes on any number of cpus.
THEOREM TypeCorrect == Spec => []TypeOK
<1>1. Init => TypeOK
  BY InvInit DEF Inv
<1>2. TypeOK /\ [Next]_vars => TypeOK'
  BY TypeStep
<1>. QED  BY <1>1, <1>2, PTL DEF Spec
=============================================================================
