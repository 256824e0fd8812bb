-------------------------------- MODULE Proc --------------------------------
(***************************************************************************)
(* The life of a process in proc.c and trap.c: allocproc, forks, exit,     *)
(* wait, sleep, wakeup, kill, yield and the two schedulers, run by the     *)
(* system calls and interrupts of several cpus.                            *)
(*                                                                         *)
(* A critical section of ptable.lock is one action when the cpu releases   *)
(* the lock at its end.  Where the lock is handed across swtch() it stays  *)
(* held between actions: by the scheduler while it scans (round robin) and *)
(* by a process that has just been switched to and has not released yet.   *)
(* What forks(), allocproc() and userinit() do without the lock is an      *)
(* action that does not ask for it.  Which process the stride scheduler    *)
(* takes is left open here, within what its test lets through; the module  *)
(* Stride settles it.                                                      *)
(***************************************************************************)
EXTENDS Integers

CONSTANTS
    NPROC,          \* size of ptable.proc
    CPUS,           \* ids of the processors in use; 0 is the boot processor
    isRoundRobin,   \* which of the two schedulers runs
    KILLPIDS,       \* pids that processes pass to kill()
    MAXPID          \* bound on nextpid

ASSUME NProcAssumption == NPROC \in Nat \ {0}
ASSUME CpusAssumption == CPUS \subseteq Nat /\ 0 \in CPUS
ASSUME ModeAssumption == isRoundRobin \in BOOLEAN
ASSUME PidsAssumption == KILLPIDS \subseteq Nat /\ MAXPID \in Nat \ {0}

VARIABLES
    state, pid, parent, chan, killed,   \* fields of struct proc
    nextpid,
    proc,       \* the per-cpu variable proc; Nobody when it is 0
    lock,       \* the cpu that holds ptable.lock, or Free
    scan,       \* round robin: where the scheduler of a cpu resumes its loop
    trapped,    \* the cpu is in trap() and has to yield before it returns
    pc,         \* where the kernel stack of a process is
    child,      \* the slot a process in forks() is filling
    panic       \* the message of the panic() that froze the machine, or "none"

table == <<state, pid, parent, chan, killed, nextpid>>
control == <<proc, lock, scan, trapped, pc, child>>
vars == <<table, control, panic>>

Slot == 0 .. (NPROC - 1)
Nobody == -1
Free == -1

\* Channels: a process is the channel it waits on; two more stand for &ticks
\* and for the channels of pipes, buffers, the log and the console.
NoChan == -1
Ticks == NPROC
Device == NPROC + 1
Chan == 0 .. (NPROC + 1)

ProcState == {"UNUSED", "EMBRYO", "SLEEPING", "RUNNABLE", "RUNNING", "ZOMBIE"}

(***************************************************************************)
(* user:    outside the kernel, or on the way in or out of it              *)
(* kernel:  in a system call that sleeps, wakes and kills                  *)
(* fork:    in forks(), after allocproc()                                  *)
(* wait:    in wait(), asleep or about to look at the table again          *)
(* exit:    in exit(), closing files                                       *)
(* zombie:  behind the last sched() of exit()                              *)
(* forkret: never run                                                      *)
(***************************************************************************)
Place == {"user", "kernel", "fork", "wait", "exit", "zombie", "forkret"}

Panics == {"none", "switchuvm: no pgdir", "zombie exit", "init exiting"}

TypeOK ==
    /\ state \in [Slot -> ProcState]
    /\ pid \in [Slot -> Nat]
    /\ parent \in [Slot -> Slot \cup {Nobody}]
    /\ chan \in [Slot -> Chan \cup {NoChan}]
    /\ killed \in [Slot -> BOOLEAN]
    /\ nextpid \in Nat
    /\ proc \in [CPUS -> Slot \cup {Nobody}]
    /\ lock \in CPUS \cup {Free}
    /\ scan \in [CPUS -> 0 .. NPROC]
    /\ trapped \in [CPUS -> BOOLEAN]
    /\ pc \in [Slot -> Place]
    /\ child \in [Slot -> Slot \cup {Nobody}]
    /\ panic \in Panics

Init ==
    /\ state = [p \in Slot |-> "UNUSED"]
    /\ pid = [p \in Slot |-> 0]
    /\ parent = [p \in Slot |-> Nobody]
    /\ chan = [p \in Slot |-> NoChan]
    /\ killed = [p \in Slot |-> FALSE]
    /\ nextpid = 1
    /\ proc = [c \in CPUS |-> Nobody]
    /\ lock = Free
    /\ scan = [c \in CPUS |-> 0]
    /\ trapped = [c \in CPUS |-> FALSE]
    /\ pc = [p \in Slot |-> "forkret"]
    /\ child = [p \in Slot |-> Nobody]
    /\ panic = "none"

-----------------------------------------------------------------------------
\* Process p runs on cpu c, has released ptable.lock and is not in trap().
On(c, p) == proc[c] = p /\ lock # c /\ ~trapped[c]

\* The table after wakeup1(ch).
Woken(ch) ==
    [p \in Slot |-> IF state[p] = "SLEEPING" /\ chan[p] = ch THEN "RUNNABLE"
                    ELSE state[p]]

\* swtch() to the scheduler of c, which holds the lock on to the next
\* process of its scan (round robin) or releases it (stride).
ToScheduler(c) ==
    /\ proc' = [proc EXCEPT ![c] = Nobody]
    /\ lock' = IF isRoundRobin THEN c ELSE Free

-----------------------------------------------------------------------------
(***************************************************************************)
(* Creation.                                                               *)
(***************************************************************************)
FirstUnused(n) ==
    /\ state[n] = "UNUSED"
    /\ \A p \in Slot : p < n => state[p] # "UNUSED"

NewPid(n) ==
    /\ pid' = [pid EXCEPT ![n] = nextpid]
    /\ nextpid' = nextpid + 1

UserInit ==
    /\ state[0] = "UNUSED"
    /\ lock = Free
    /\ NewPid(0)
    /\ state' = [state EXCEPT ![0] = "RUNNABLE"]
    /\ pc' = [pc EXCEPT ![0] = "forkret"]
    /\ UNCHANGED <<parent, chan, killed, proc, lock, scan, trapped, child, panic>>

\* allocproc(): a process that finds the table full returns -1, which
\* changes nothing here.
AllocProc(c, p) ==
    /\ On(c, p) /\ pc[p] = "user" /\ ~killed[p]
    /\ lock = Free
    /\ nextpid <= MAXPID
    /\ \E n \in Slot :
          /\ FirstUnused(n)
          /\ state' = [state EXCEPT ![n] = "EMBRYO"]
          /\ NewPid(n)
          /\ child' = [child EXCEPT ![p] = n]
          /\ pc' = [pc EXCEPT ![p] = "fork", ![n] = "forkret"]
    /\ UNCHANGED <<parent, chan, killed, proc, lock, scan, trapped, panic>>

\* Mutant: the slot is not given back.
ForkFails_Leaks(c, p) ==
    /\ On(c, p) /\ pc[p] = "fork"
    /\ child' = [child EXCEPT ![p] = Nobody]
    /\ pc' = [pc EXCEPT ![p] = "user"]
    /\ UNCHANGED <<state, pid, parent, chan, killed, nextpid, proc, lock, scan, trapped, panic>>

\* No memory for the stack or the pages: the slot is given back without the
\* lock, and keeps its pid.
ForkFails(c, p) ==
    /\ On(c, p) /\ pc[p] = "fork"
    /\ state' = [state EXCEPT ![child[p]] = "UNUSED"]
    /\ child' = [child EXCEPT ![p] = Nobody]
    /\ pc' = [pc EXCEPT ![p] = "user"]
    /\ UNCHANGED <<pid, parent, chan, killed, nextpid, proc, lock, scan, trapped, panic>>

\* The end of forks(); the stride version does not take the lock.
ForkReturns(c, p) ==
    /\ On(c, p) /\ pc[p] = "fork"
    /\ isRoundRobin => lock = Free
    /\ parent' = [parent EXCEPT ![child[p]] = p]
    /\ state' = [state EXCEPT ![child[p]] = "RUNNABLE"]
    /\ child' = [child EXCEPT ![p] = Nobody]
    /\ pc' = [pc EXCEPT ![p] = "user"]
    /\ UNCHANGED <<pid, chan, killed, nextpid, proc, lock, scan, trapped, panic>>

-----------------------------------------------------------------------------
(***************************************************************************)
(* The end of a process.  A process comes to exit() by the system call or  *)
(* because trap() finds it killed on its way in or out of the kernel.      *)
(***************************************************************************)
ExitBegins(c, p) ==
    /\ On(c, p) /\ pc[p] = "user"
    /\ IF p = 0
         THEN panic' = "init exiting" /\ UNCHANGED pc
         ELSE pc' = [pc EXCEPT ![p] = "exit"] /\ UNCHANGED panic
    /\ UNCHANGED <<table, proc, lock, scan, trapped, child>>

Kids(p) == {k \in Slot : parent[k] = p}

\* Mutants: the parent is not woken; init is not woken for a zombie it gets.
ExitWakes_NotParent(p) ==
    IF \E k \in Kids(p) : state[k] = "ZOMBIE" THEN {0} ELSE {}

ExitWakes_NotInit(p) == {parent[p]}

\* The channels exit() wakes: the parent's, and init's when init gets a child
\* that is a zombie already.
ExitWakes(p) ==
    {parent[p]} \cup IF \E k \in Kids(p) : state[k] = "ZOMBIE" THEN {0} ELSE {}

\* Mutant: no child is passed to init.
Adopted_None(p) == parent

\* The abandoned children are passed to init.
Adopted(p) == [q \in Slot |-> IF q \in Kids(p) THEN 0 ELSE parent[q]]

Exits(c, p) ==
    /\ On(c, p) /\ pc[p] = "exit"
    /\ lock = Free
    /\ state' = [q \in Slot |->
                    IF q = p THEN "ZOMBIE"
                    ELSE IF state[q] = "SLEEPING" /\ chan[q] \in ExitWakes(p) THEN "RUNNABLE"
                    ELSE state[q]]
    /\ parent' = Adopted(p)
    /\ pc' = [pc EXCEPT ![p] = "zombie"]
    /\ ToScheduler(c)
    /\ UNCHANGED <<pid, chan, killed, nextpid, scan, trapped, child, panic>>

\* One round of the loop of wait(), with the lock held.
Reap(p, z) ==
    /\ z \in Kids(p) /\ state[z] = "ZOMBIE"
    /\ \A k \in Kids(p) : state[k] = "ZOMBIE" => z <= k
    /\ state' = [state EXCEPT ![z] = "UNUSED"]
    /\ pid' = [pid EXCEPT ![z] = 0]
    /\ parent' = [parent EXCEPT ![z] = Nobody]
    /\ killed' = [killed EXCEPT ![z] = FALSE]

WaitRound(c, p) ==
    \/ \* a zombie child: its pid is returned
       /\ \E z \in Slot : Reap(p, z)
       /\ lock' = Free
       /\ pc' = [pc EXCEPT ![p] = "user"]
       /\ chan' = [chan EXCEPT ![p] = NoChan]
       /\ UNCHANGED proc
    \/ \* nothing to wait for: -1 is returned
       /\ \A k \in Kids(p) : state[k] # "ZOMBIE"
       /\ Kids(p) = {} \/ killed[p]
       /\ lock' = Free
       /\ pc' = [pc EXCEPT ![p] = "user"]
       /\ chan' = [chan EXCEPT ![p] = NoChan]
       /\ UNCHANGED <<state, pid, parent, killed, proc>>
    \/ \* sleep(proc, &ptable.lock)
       /\ \A k \in Kids(p) : state[k] # "ZOMBIE"
       /\ Kids(p) # {} /\ ~killed[p]
       /\ state' = [state EXCEPT ![p] = "SLEEPING"]
       /\ chan' = [chan EXCEPT ![p] = p]
       /\ pc' = [pc EXCEPT ![p] = "wait"]
       /\ ToScheduler(c)
       /\ UNCHANGED <<pid, parent, killed>>

WaitBegins(c, p) ==
    /\ On(c, p) /\ pc[p] = "user" /\ ~killed[p]
    /\ lock = Free
    /\ WaitRound(c, p)
    /\ UNCHANGED <<nextpid, scan, trapped, child, panic>>

WaitResumes(c, p) ==
    /\ proc[c] = p /\ lock = c /\ pc[p] = "wait"
    /\ WaitRound(c, p)
    /\ UNCHANGED <<nextpid, scan, trapped, child, panic>>

-----------------------------------------------------------------------------
(***************************************************************************)
(* Other system calls.                                                     *)
(***************************************************************************)
SyscallBegins(c, p) ==
    /\ On(c, p) /\ pc[p] = "user" /\ ~killed[p]
    /\ pc' = [pc EXCEPT ![p] = "kernel"]
    /\ UNCHANGED <<table, proc, lock, scan, trapped, child, panic>>

SyscallReturns(c, p) ==
    /\ On(c, p) /\ pc[p] = "kernel"
    /\ pc' = [pc EXCEPT ![p] = "user"]
    /\ UNCHANGED <<table, proc, lock, scan, trapped, child, panic>>

Sleep(c, p, ch) ==
    /\ On(c, p) /\ pc[p] \in {"kernel", "exit"}
    /\ lock = Free
    /\ chan' = [chan EXCEPT ![p] = ch]
    /\ state' = [state EXCEPT ![p] = "SLEEPING"]
    /\ ToScheduler(c)
    /\ UNCHANGED <<pid, parent, killed, nextpid, scan, trapped, pc, child, panic>>

Wakeup(c, p, ch) ==
    /\ On(c, p) /\ pc[p] \in {"kernel", "exit"}
    /\ lock = Free
    /\ state' = Woken(ch)
    /\ UNCHANGED <<pid, parent, chan, killed, nextpid, control, panic>>

\* Mutant: a sleeper is not woken.
Roused_Not(s) == s

\* kill() wakes a sleeper.
Roused(s) == IF s = "SLEEPING" THEN "RUNNABLE" ELSE s

\* The first slot with that pid, whatever its state.
Kill(c, p, target) ==
    /\ On(c, p) /\ pc[p] = "kernel"
    /\ lock = Free
    /\ \E k \in Slot :
          /\ pid[k] = target /\ \A q \in Slot : q < k => pid[q] # target
          /\ killed' = [killed EXCEPT ![k] = TRUE]
          /\ state' = [state EXCEPT ![k] = Roused(@)]
    /\ UNCHANGED <<pid, parent, chan, nextpid, control, panic>>

-----------------------------------------------------------------------------
(***************************************************************************)
(* trap().  A tick wakes the sleepers on &ticks (cpu 0) and makes the      *)
(* process yield; a device interrupt wakes the sleepers on its channel and *)
(* makes the process yield when it is at its limit, which this module      *)
(* leaves open.                                                            *)
(***************************************************************************)
Tick(c, p) ==
    /\ On(c, p)
    /\ c = 0 => lock = Free
    /\ state' = IF c = 0 THEN Woken(Ticks) ELSE state
    /\ trapped' = [trapped EXCEPT ![c] = TRUE]
    /\ UNCHANGED <<pid, parent, chan, killed, nextpid, proc, lock, scan, pc, child, panic>>

DeviceInterrupt(c, p) ==
    /\ On(c, p)
    /\ lock = Free
    /\ state' = Woken(Device)
    /\ \E y \in BOOLEAN : trapped' = [trapped EXCEPT ![c] = y]
    /\ UNCHANGED <<pid, parent, chan, killed, nextpid, proc, lock, scan, pc, child, panic>>

\* Interrupts on a cpu that is in its scheduler, outside the lock.
IdleInterrupt(c) ==
    /\ proc[c] = Nobody
    /\ lock = Free
    /\ \/ c = 0 /\ state' = Woken(Ticks)
       \/ state' = Woken(Device)
    /\ UNCHANGED <<pid, parent, chan, killed, nextpid, control, panic>>

\* An exception in user mode: the process is marked and exits.
Fault(c, p) ==
    /\ On(c, p) /\ pc[p] = "user"
    /\ killed' = [killed EXCEPT ![p] = TRUE]
    /\ UNCHANGED <<state, pid, parent, chan, nextpid, control, panic>>

\* The test for killed that comes before the yield.
TrapExits(c, p) ==
    /\ proc[c] = p /\ trapped[c]
    /\ pc[p] = "user" /\ killed[p]
    /\ trapped' = [trapped EXCEPT ![c] = FALSE]
    /\ IF p = 0
         THEN panic' = "init exiting" /\ UNCHANGED pc
         ELSE pc' = [pc EXCEPT ![p] = "exit"] /\ UNCHANGED panic
    /\ UNCHANGED <<table, proc, lock, scan, child>>

Yield(c, p) ==
    /\ proc[c] = p /\ trapped[c]
    /\ ~(pc[p] = "user" /\ killed[p])
    /\ lock = Free
    /\ state' = [state EXCEPT ![p] = "RUNNABLE"]
    /\ trapped' = [trapped EXCEPT ![c] = FALSE]
    /\ ToScheduler(c)
    /\ UNCHANGED <<pid, parent, chan, killed, nextpid, scan, pc, child, panic>>

-----------------------------------------------------------------------------
(***************************************************************************)
(* The schedulers.                                                         *)
(***************************************************************************)
SwitchTo(c, m) ==
    /\ state' = [state EXCEPT ![m] = "RUNNING"]
    /\ proc' = [proc EXCEPT ![c] = m]
    /\ lock' = c
    /\ panic' = IF state[m] = "UNUSED" THEN "switchuvm: no pgdir"
                ELSE IF pc[m] = "zombie" THEN "zombie exit" ELSE "none"
    /\ UNCHANGED <<pid, parent, chan, killed, nextpid, trapped, pc, child>>

\* Mutant: the test on p->state also lets through a RUNNING slot.
NextRunnable_Running(i, m) ==
    /\ m >= i /\ state[m] \in {"RUNNABLE", "RUNNING"}
    /\ \A q \in Slot : i <= q /\ q < m => state[q] # "RUNNABLE"

\* The next RUNNABLE process of the scan, which starts when the lock is free
\* and goes on where it was when a process comes back with the lock.
NextRunnable(i, m) ==
    /\ m >= i /\ state[m] = "RUNNABLE"
    /\ \A q \in Slot : i <= q /\ q < m => state[q] # "RUNNABLE"

\* Mutant: the scan starts again from the first slot.
Onward_Restarts(m) == 0

\* Where the scan goes on when m comes back.
Onward(m) == m + 1

DispatchRR(c, m) ==
    /\ isRoundRobin
    /\ proc[c] = Nobody
    /\ c = 0 => state[0] # "UNUSED"
    /\ \/ lock = Free /\ NextRunnable(0, m)
       \/ lock = c /\ NextRunnable(scan[c], m)
    /\ scan' = [scan EXCEPT ![c] = Onward(m)]
    /\ SwitchTo(c, m)

ScanEnds(c) ==
    /\ isRoundRobin
    /\ proc[c] = Nobody
    /\ lock = c
    /\ \A q \in Slot : q >= scan[c] => state[q] # "RUNNABLE"
    /\ lock' = Free
    /\ scan' = [scan EXCEPT ![c] = 0]
    /\ UNCHANGED <<table, proc, trapped, pc, child, panic>>

\* Mutant: the upper bound of the test on p->state is off by one.
Selectable_Zombie(m) ==
    m = 0 \/ state[m] \in {"SLEEPING", "RUNNABLE", "RUNNING", "ZOMBIE"}

\* The stride scheduler takes slot 0 or a slot between EMBRYO and ZOMBIE.
Selectable(m) == m = 0 \/ state[m] \in {"SLEEPING", "RUNNABLE", "RUNNING"}

DispatchStride(c, m) ==
    /\ ~isRoundRobin
    /\ proc[c] = Nobody
    /\ c = 0 => state[0] # "UNUSED"
    /\ lock = Free
    /\ Selectable(m)
    /\ UNCHANGED scan
    /\ SwitchTo(c, m)

\* What a process does first: forkret, or the rest of yield() or sleep().
Resume(c, p) ==
    /\ proc[c] = p /\ lock = c /\ pc[p] \notin {"wait", "zombie"}
    /\ lock' = Free
    /\ chan' = [chan EXCEPT ![p] = NoChan]
    /\ pc' = [pc EXCEPT ![p] = IF @ = "forkret" THEN "user" ELSE @]
    /\ UNCHANGED <<state, pid, parent, killed, nextpid, proc, scan, trapped, child, panic>>

-----------------------------------------------------------------------------
Scheduler(c) == ScanEnds(c) \/ \E m \in Slot : DispatchRR(c, m) \/ DispatchStride(c, m)

SystemCall(c, p) ==
    \/ AllocProc(c, p) \/ ForkFails(c, p) \/ ForkReturns(c, p)
    \/ ExitBegins(c, p) \/ Exits(c, p)
    \/ WaitBegins(c, p) \/ WaitResumes(c, p)
    \/ SyscallBegins(c, p) \/ SyscallReturns(c, p)
    \/ \E ch \in {Ticks, Device} : Sleep(c, p, ch)
    \/ Wakeup(c, p, Device)
    \/ \E k \in KILLPIDS : Kill(c, p, k)

Trap(c, p) ==
    \/ Tick(c, p) \/ DeviceInterrupt(c, p) \/ Fault(c, p)
    \/ TrapExits(c, p) \/ Yield(c, p)

Next ==
    /\ panic = "none"
    /\ \/ UserInit
       \/ \E c \in CPUS :
             \/ Scheduler(c)
             \/ IdleInterrupt(c)
             \/ \E p \in Slot : Resume(c, p) \/ SystemCall(c, p) \/ Trap(c, p)

Spec == Init /\ [][Next]_vars

-----------------------------------------------------------------------------
(***************************************************************************)
(* A process is current on at most one cpu, and is RUNNING exactly while   *)
(* it is current on one.  Round robin ensures it by taking RUNNABLE slots  *)
(* only; the stride scheduler also takes RUNNING ones, and then it is the  *)
(* single cpu that ensures it.                                             *)
(***************************************************************************)
SingleRunner ==
    /\ \A c, d \in CPUS : proc[c] = proc[d] /\ proc[c] # Nobody => c = d
    /\ \A p \in Slot : state[p] = "RUNNING" <=> \E c \in CPUS : proc[c] = p

(***************************************************************************)
(* The scheduler never switches to an empty slot or to a process that has  *)
(* exited; init exiting is the one panic the process table allows.         *)
(***************************************************************************)
NoBadSwitch == panic \in {"none", "init exiting"}

(***************************************************************************)
(* README.md, section 2: there is always a parent that will clean up.      *)
(* The parent of every process but init is a process that has not exited,  *)
(* also when it has died between the fork and the exit of the child.       *)
(***************************************************************************)
ParentAlive ==
    \A p \in Slot \ {0} :
        state[p] \notin {"UNUSED", "EMBRYO"} =>
            /\ parent[p] # Nobody
            /\ state[parent[p]] \in {"SLEEPING", "RUNNABLE", "RUNNING"}

(***************************************************************************)
(* wait() misses no exit and no kill: a process asleep in it has a child,  *)
(* none of its children is a zombie, and it has not been killed.           *)
(***************************************************************************)
NoMissedExit ==
    \A p \in Slot :
        state[p] = "SLEEPING" /\ pc[p] = "wait" =>
            /\ Kids(p) # {}
            /\ \A k \in Kids(p) : state[k] # "ZOMBIE"
            /\ ~killed[p]

(***************************************************************************)
(* An EMBRYO slot belongs to exactly one process, which is still in        *)
(* forks(): no slot is lost or filled twice, and the scheduler does not    *)
(* take a slot that is being filled.                                       *)
(***************************************************************************)
EmbryoOwned ==
    /\ \A n \in Slot : state[n] = "EMBRYO" =>
          \E p \in Slot : pc[p] = "fork" /\ child[p] = n
    /\ \A p, q \in Slot : pc[p] = "fork" /\ state[p] # "UNUSED" =>
          /\ child[p] # Nobody /\ state[child[p]] = "EMBRYO"
          /\ p # q /\ pc[q] = "fork" => child[p] # child[q]

(***************************************************************************)
(* Two processes never have the same pid.                                  *)
(***************************************************************************)
PidsUnique ==
    \A p, q \in Slot :
        p # q /\ state[p] # "UNUSED" /\ state[q] # "UNUSED" => pid[p] # pid[q]

-----------------------------------------------------------------------------
(***************************************************************************)
(* Liveness, for round robin on one cpu.  The scheduler loops and a kernel *)
(* stack that has been switched to goes on; the timer keeps interrupting   *)
(* whoever runs, and the handler returns.  Nothing is assumed of what      *)
(* processes do, except that init, when it gets to run in user mode again  *)
(* and again, calls wait() again and again (the loop of init.c).           *)
(***************************************************************************)
Fairness ==
    \A c \in CPUS :
        /\ WF_vars(panic = "none" /\ Scheduler(c))
        /\ \A p \in Slot :
              /\ WF_vars(panic = "none" /\ (Resume(c, p) \/ WaitResumes(c, p)))
              /\ WF_vars(panic = "none" /\ Tick(c, p))
              /\ WF_vars(panic = "none" /\ (TrapExits(c, p) \/ Yield(c, p)))
        /\ SF_vars(panic = "none" /\ WaitBegins(c, 0))

FairSpec == Spec /\ Fairness

(***************************************************************************)
(* The round robin loop starves no one: a RUNNABLE process gets to run,    *)
(* because the scan goes on behind the process that comes back and starts  *)
(* again only at the end of the table.                                     *)
(***************************************************************************)
RunnableRuns ==
    \A p \in Slot :
        state[p] = "RUNNABLE" ~> state[p] = "RUNNING" \/ panic # "none"

(***************************************************************************)
(* README.md, section 2: init waits for the children it adopts.  Unless    *)
(* init is stuck in another system call, each zombie of its is freed.      *)
(***************************************************************************)
OrphansReaped ==
    []<>(pc[0] \in {"user", "wait"}) =>
        \A z \in Slot :
            (state[z] = "ZOMBIE" /\ parent[z] = 0) ~>
                (state[z] = "UNUSED" \/ panic # "none")
=============================================================================
