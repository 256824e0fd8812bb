-------------------------------- MODULE Sleep --------------------------------
(***************************************************************************)
(* sleep() and wakeup() below the level of Proc, with every lock and the   *)
(* interrupt flag of every cpu: processes call sys_sleep() and kill(), the *)
(* timer interrupts whoever runs with interrupts on, and the round robin   *)
(* scheduler hands ptable.lock from stack to stack.  One step lasts from   *)
(* one acquire or release to the next.                                     *)
(***************************************************************************)
EXTENDS Spinlock, TLC

CONSTANTS
    Process,
    UINT,       \* ticks is a uint: it wraps around at UINT
    Duration    \* arguments of sys_sleep()

ASSUME UintAssumption == UINT \in Nat \ {0} /\ Duration \subseteq 0 .. UINT - 1

VARIABLES
    proc,       \* the process on each cpu, or Nobody
    sched,      \* where the scheduler of each cpu is when it runs
    intr,       \* how far the timer interrupt on each cpu has come
    state, killed, pc,
    back,       \* where a process goes on after an interrupt
    intena,     \* the local variable of sched()
    ticks, ticks0, n,
    elapsed,    \* history: ticks since ticks0 was read, counted up to UINT
    looked,     \* history: what elapsed was when sys_sleep() last looked
    panic

vars == <<holder, cpu, proc, sched, intr, state, killed, pc, back, intena,
          ticks, ticks0, n, elapsed, looked, panic>>

locks == <<holder, cpu>>
onCpu == <<proc, sched, intr>>
clock == <<ticks, ticks0, n, elapsed, looked>>

Nobody == "nobody"

Lock == {"ptable", "tickslock"}

Init ==
    /\ holder = [lk \in Lock |-> Free]
    /\ cpu = [c \in CPUS |-> Quiet]
    /\ proc = [c \in CPUS |-> Nobody]
    /\ sched = [c \in CPUS |-> "loop"]
    /\ intr = [c \in CPUS |-> "none"]
    /\ state = [p \in Process |-> "RUNNABLE"]
    /\ killed = [p \in Process |-> FALSE]
    /\ pc = [p \in Process |-> "forkret"]
    /\ back = [p \in Process |-> "user"]
    /\ intena = [p \in Process |-> FALSE]
    /\ ticks = 0
    /\ ticks0 = [p \in Process |-> 0]
    /\ n = [p \in Process |-> 0]
    /\ elapsed = [p \in Process |-> 0]
    /\ looked = [p \in Process |-> 0]
    /\ panic = FALSE

\* Process p executes on cpu c, and no interrupt is being handled there.
On(c, p) == ~panic /\ proc[c] = p /\ intr[c] = "none"

Goto(p, place) == pc' = [pc EXCEPT ![p] = place]

-----------------------------------------------------------------------------
(***************************************************************************)
(* The scheduler                                                           *)
(***************************************************************************)
\* sti(); acquire(&ptable.lock)
SchedLoop(c) ==
    /\ ~panic /\ proc[c] = Nobody /\ intr[c] = "none" /\ sched[c] = "loop"
    /\ acquire(c, "ptable")
    /\ sched' = [sched EXCEPT ![c] = "scan"]
    /\ UNCHANGED <<proc, intr, state, killed, pc, back, intena, clock, panic>>

\* sched() does not restore intena behind its swtch().
SchedSwitch_KeepsIntena(c, p) ==
    /\ ~panic /\ proc[c] = Nobody /\ sched[c] = "scan"
    /\ state[p] = "RUNNABLE"
    /\ proc' = [proc EXCEPT ![c] = p]
    /\ state' = [state EXCEPT ![p] = "RUNNING"]
    /\ UNCHANGED <<locks, sched, intr, killed, pc, back, intena, clock, panic>>

\* Switch to p, which goes on behind its swtch() with ptable.lock: forkret()
\* releases it; sched() restores intena, and yield() and sleep() release it.
SchedSwitch(c, p) ==
    /\ ~panic /\ proc[c] = Nobody /\ sched[c] = "scan"
    /\ state[p] = "RUNNABLE"
    /\ proc' = [proc EXCEPT ![c] = p]
    /\ state' = [state EXCEPT ![p] = "RUNNING"]
    /\ cpu' = IF pc[p] = "forkret" THEN cpu
              ELSE [cpu EXCEPT ![c].intena = intena[p]]
    /\ UNCHANGED <<holder, sched, intr, killed, pc, back, intena, clock, panic>>

SchedRelease(c) ==
    /\ ~panic /\ proc[c] = Nobody /\ sched[c] = "scan"
    /\ release(c, "ptable")
    /\ sched' = [sched EXCEPT ![c] = "loop"]
    /\ UNCHANGED <<proc, intr, state, killed, pc, back, intena, clock, panic>>

\* sched() up to its swtch(): p leaves cpu c in state st.
Sched(c, p, st) ==
    IF ~holding(c, "ptable") \/ cpu[c].ncli # 1 \/ cpu[c].fl_if
      THEN /\ panic' = TRUE
           /\ UNCHANGED <<proc, state, intena>>
      ELSE /\ proc' = [proc EXCEPT ![c] = Nobody]
           /\ state' = [state EXCEPT ![p] = st]
           /\ intena' = [intena EXCEPT ![p] = cpu[c].intena]
           /\ UNCHANGED panic

\* Release ptable.lock on the way out of swtch(): forkret(), yield(), sleep().
\* A trap that returns loads the flags of what it interrupted, which had
\* interrupts on.
Resume(c, p, place, iret) ==
    /\ On(c, p)
    /\ IF releasePanics(c, "ptable") THEN panic' = TRUE /\ UNCHANGED <<locks, pc>>
       ELSE /\ holder' = [holder EXCEPT !["ptable"] = Free]
            /\ cpu' = [cpu EXCEPT ![c] = IF iret THEN [popcli(@) EXCEPT !.fl_if = TRUE] ELSE popcli(@)]
            /\ Goto(p, place)
            /\ UNCHANGED panic
    /\ UNCHANGED <<onCpu, state, killed, intena, clock>>

\* The end of forkret(); trapret loads the flags of user space.
Forkret(c, p) ==
    /\ pc[p] = "forkret"
    /\ Resume(c, p, "user", TRUE)
    /\ UNCHANGED back

-----------------------------------------------------------------------------
(***************************************************************************)
(* sys_sleep(), sleep() and kill()                                         *)
(***************************************************************************)
\* A system call may come from user space; its trap gate keeps interrupts on.
SysSleep(c, p, d) ==
    /\ On(c, p) /\ pc[p] = "user" /\ ~killed[p]
    /\ n' = [n EXCEPT ![p] = d]
    /\ Goto(p, "enter")
    /\ UNCHANGED <<locks, onCpu, state, killed, back, intena, ticks, ticks0, elapsed, looked, panic>>

\* acquire(&tickslock), on the way in and at the end of sleep().
TakeTicks(c, p) ==
    /\ On(c, p) /\ pc[p] \in {"enter", "again"}
    /\ IF holding(c, "tickslock") THEN panic' = TRUE /\ UNCHANGED <<locks, pc, ticks0, elapsed>>
       ELSE /\ acquire(c, "tickslock")
            /\ Goto(p, "test")
            /\ ticks0' = [ticks0 EXCEPT ![p] = IF pc[p] = "enter" THEN ticks ELSE @]
            /\ elapsed' = [elapsed EXCEPT ![p] = IF pc[p] = "enter" THEN 0 ELSE @]
            /\ UNCHANGED panic
    /\ UNCHANGED <<onCpu, state, killed, back, intena, ticks, n, looked>>

\* The loop compares clock values instead of their difference.
Test_Deadline(c, p) ==
    /\ On(c, p) /\ pc[p] = "test"
    /\ looked' = [looked EXCEPT ![p] = elapsed[p]]
    /\ Goto(p, IF ticks >= (ticks0[p] + n[p]) % UINT THEN "slept"
               ELSE IF killed[p] THEN "killed" ELSE "sleep")
    /\ UNCHANGED <<locks, onCpu, state, killed, back, intena, ticks, ticks0, n, elapsed, panic>>

\* The condition of the loop: slept enough, killed, or off to sleep().
Test(c, p) ==
    /\ On(c, p) /\ pc[p] = "test"
    /\ looked' = [looked EXCEPT ![p] = elapsed[p]]
    /\ Goto(p, IF (ticks - ticks0[p]) % UINT >= n[p] THEN "slept"
               ELSE IF killed[p] THEN "killed" ELSE "sleep")
    /\ UNCHANGED <<locks, onCpu, state, killed, back, intena, ticks, ticks0, n, elapsed, panic>>

\* release(&tickslock) and return, and with it the locals die; killed processes exit in trap().
SysReturns(c, p) ==
    /\ On(c, p) /\ pc[p] \in {"slept", "killed"}
    /\ IF releasePanics(c, "tickslock") THEN panic' = TRUE /\ UNCHANGED <<locks, pc, ticks0, n, elapsed, looked>>
       ELSE /\ release(c, "tickslock")
            /\ Goto(p, "user")
            /\ ticks0' = [ticks0 EXCEPT ![p] = 0]
            /\ n' = [n EXCEPT ![p] = 0]
            /\ elapsed' = [elapsed EXCEPT ![p] = 0]
            /\ looked' = [looked EXCEPT ![p] = 0]
            /\ UNCHANGED panic
    /\ UNCHANGED <<onCpu, state, killed, back, intena, ticks>>

\* The other order: lk is given up before ptable.lock is there.
SleepLocks_ReleasesFirst(c, p) ==
    /\ On(c, p)
    /\ \/ pc[p] = "sleep" /\ release(c, "tickslock") /\ Goto(p, "gap")
       \/ pc[p] = "gap" /\ acquire(c, "ptable") /\ Goto(p, "off")
    /\ UNCHANGED <<onCpu, state, killed, back, intena, clock, panic>>

\* sleep(): acquire(&ptable.lock), then release(lk), then sched().
SleepLocks(c, p) ==
    /\ On(c, p) /\ pc[p] = "sleep"
    /\ acquire(c, "ptable")
    /\ Goto(p, "locked")
    /\ UNCHANGED <<onCpu, state, killed, back, intena, clock, panic>>

SleepReleases_KeepsLock(c, p) ==
    /\ On(c, p) /\ pc[p] = "locked"
    /\ Goto(p, "off")
    /\ UNCHANGED <<locks, onCpu, state, killed, back, intena, clock, panic>>

SleepReleases(c, p) ==
    /\ On(c, p) /\ pc[p] = "locked"
    /\ release(c, "tickslock")
    /\ Goto(p, "off")
    /\ UNCHANGED <<onCpu, state, killed, back, intena, clock, panic>>

SleepSwitches(c, p) ==
    /\ On(c, p) /\ pc[p] = "off"
    /\ Goto(p, "woken")
    /\ Sched(c, p, "SLEEPING")
    /\ UNCHANGED <<locks, sched, intr, killed, back, clock>>

SleepResumes(c, p) ==
    /\ pc[p] = "woken"
    /\ Resume(c, p, "again", FALSE)
    /\ UNCHANGED back

\* kill(q), a critical section of ptable.lock.
Kill(c, p, q) ==
    /\ On(c, p) /\ pc[p] = "user" /\ ~killed[p]
    /\ holder["ptable"] = Free
    /\ killed' = [killed EXCEPT ![q] = TRUE]
    /\ state' = [state EXCEPT ![q] = IF @ = "SLEEPING" THEN "RUNNABLE" ELSE @]
    /\ UNCHANGED <<locks, onCpu, pc, back, intena, clock, panic>>

\* trap() sends a killed process to exit(), which takes ptable.lock for good.
Exit(c, p) ==
    /\ On(c, p) /\ pc[p] = "user" /\ killed[p]
    /\ acquire(c, "ptable")
    /\ Goto(p, "exit")
    /\ UNCHANGED <<onCpu, state, killed, back, intena, clock, panic>>

ExitSwitches(c, p) ==
    /\ On(c, p) /\ pc[p] = "exit"
    /\ Sched(c, p, "ZOMBIE")
    /\ UNCHANGED <<locks, sched, intr, killed, pc, back, clock>>

-----------------------------------------------------------------------------
(***************************************************************************)
(* The timer interrupt                                                     *)
(***************************************************************************)
\* The interrupt gate turns interrupts off; cpu 0 does acquire(&tickslock);
\* ticks++.
Tick ==
    /\ ~panic /\ cpu[0].fl_if /\ intr[0] = "none"
    /\ IF holding(0, "tickslock") THEN panic' = TRUE /\ UNCHANGED <<locks, intr, ticks, elapsed>>
       ELSE /\ holder["tickslock"] = Free
            /\ holder' = [holder EXCEPT !["tickslock"] = 0]
            /\ cpu' = [cpu EXCEPT ![0] = pushcli([@ EXCEPT !.fl_if = FALSE])]
            /\ intr' = [intr EXCEPT ![0] = "ticked"]
            /\ ticks' = (ticks + 1) % UINT
            /\ elapsed' = [p \in Process |->
                   IF pc[p] \in {"user", "enter"} \/ elapsed[p] = UINT THEN elapsed[p]
                   ELSE elapsed[p] + 1]
            /\ UNCHANGED panic
    /\ UNCHANGED <<proc, sched, state, killed, pc, back, intena, ticks0, n, looked>>

\* wakeup(&ticks), with ptable.lock; release(&tickslock)
TickWakes ==
    /\ ~panic /\ intr[0] = "ticked"
    /\ holder["ptable"] = Free
    /\ state' = [p \in Process |-> IF state[p] = "SLEEPING" THEN "RUNNABLE" ELSE state[p]]
    /\ release(0, "tickslock")
    /\ intr' = [intr EXCEPT ![0] = "counted"]
    /\ UNCHANGED <<proc, sched, killed, pc, back, intena, clock, panic>>

\* The interrupt of an idle cpu 0 returns to the scheduler.
TickReturns ==
    /\ ~panic /\ intr[0] = "counted" /\ proc[0] = Nobody
    /\ intr' = [intr EXCEPT ![0] = "none"]
    /\ cpu' = [cpu EXCEPT ![0].fl_if = TRUE]
    /\ UNCHANGED <<holder, proc, sched, state, killed, pc, back, intena, clock, panic>>

\* The timer makes the process on cpu c call yield(); cpus other than 0 do
\* nothing else in the interrupt.
Yield(c, p) ==
    /\ ~panic /\ proc[c] = p
    /\ IF c = 0 THEN intr[c] = "counted" ELSE cpu[c].fl_if
    /\ holder["ptable"] = Free
    /\ holder' = [holder EXCEPT !["ptable"] = c]
    /\ cpu' = [cpu EXCEPT ![c] = pushcli([@ EXCEPT !.fl_if = FALSE])]
    /\ intr' = [intr EXCEPT ![c] = "none"]
    /\ back' = [back EXCEPT ![p] = pc[p]]
    /\ Goto(p, "yield")
    /\ UNCHANGED <<proc, sched, state, killed, intena, clock, panic>>

YieldSwitches(c, p) ==
    /\ On(c, p) /\ pc[p] = "yield"
    /\ Goto(p, "yielded")
    /\ Sched(c, p, "RUNNABLE")
    /\ UNCHANGED <<locks, sched, intr, killed, back, clock>>

YieldResumes(c, p) ==
    /\ pc[p] = "yielded"
    /\ back' = [back EXCEPT ![p] = "user"]
    /\ Resume(c, p, back[p], TRUE)

-----------------------------------------------------------------------------
Step(c, p) ==
    \/ SchedSwitch(c, p)
    \/ Forkret(c, p)
    \/ \E d \in Duration : SysSleep(c, p, d)
    \/ TakeTicks(c, p) \/ Test(c, p) \/ SysReturns(c, p)
    \/ SleepLocks(c, p) \/ SleepReleases(c, p) \/ SleepSwitches(c, p) \/ SleepResumes(c, p)
    \/ \E q \in Process : Kill(c, p, q)
    \/ Exit(c, p) \/ ExitSwitches(c, p)
    \/ Yield(c, p) \/ YieldSwitches(c, p) \/ YieldResumes(c, p)

Next ==
    \/ \E c \in CPUS, p \in Process : Step(c, p)
    \/ \E c \in CPUS : SchedLoop(c) \/ SchedRelease(c)
    \/ Tick \/ TickWakes \/ TickReturns

Symmetry == Permutations(Process)

Spec == Init /\ [][Next]_vars

-----------------------------------------------------------------------------
(***************************************************************************)
(* No acquire(), release(), popcli() or sched() panics: no cpu takes a     *)
(* lock it has, gives back one it has not, or switches with interrupts on  *)
(* or with another lock in hand.                                           *)
(***************************************************************************)
NoPanic == ~panic

(***************************************************************************)
(* The exchange of locks in sleep() loses no wakeup: while a process is    *)
(* SLEEPING on ticks, none has come since sys_sleep() last looked at the   *)
(* clock and at killed, unless the wakeup for it is on its way.  A kill    *)
(* that came after that look is therefore noticed with the next tick.      *)
(***************************************************************************)
NoMissedTick ==
    \A p \in Process :
        state[p] = "SLEEPING" => looked[p] = elapsed[p] \/ intr[0] = "ticked"

(***************************************************************************)
(* sys_sleep(n) returns 0 only after n ticks, although the clock wraps.    *)
(***************************************************************************)
SleptEnough == \A p \in Process : pc[p] = "slept" => elapsed[p] >= n[p]

(***************************************************************************)
(* pushcli() and popcli() match across every switch and migration: a       *)
(* process runs user code with interrupts on and no lock counted, and a    *)
(* cpu that holds a lock has interrupts off.                               *)
(***************************************************************************)
FlagsMatch ==
    \A c \in CPUS :
        /\ proc[c] # Nobody /\ intr[c] = "none" /\ pc[proc[c]] = "user" =>
              cpu[c].fl_if /\ cpu[c].ncli = 0
        /\ (\E lk \in Lock : holding(c, lk)) => ~cpu[c].fl_if
=============================================================================
