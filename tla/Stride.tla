------------------------------- MODULE Stride -------------------------------
(***************************************************************************)
(* The stride scheduler of proc.c and the accounting that trap.c does for  *)
(* it: which process scheduler() picks, and how tickets, stride, pass and  *)
(* limitpass change at a dispatch, at an interrupt and at a fork.          *)
(*                                                                         *)
(* scheduler() runs its choice and the charge with ptable.lock held and    *)
(* interrupts off, so one dispatch is one action; so is what an interrupt  *)
(* handler does to the process it interrupted.  The life cycle of a        *)
(* process (parents, channels, kill) is reduced here to the changes of     *)
(* p->state that the choice depends on; the module Proc has the rest.      *)
(***************************************************************************)
EXTENDS Integers

CONSTANTS
    NPROC,      \* size of ptable.proc
    CPUS,       \* ids of the processors in use; 0 is the boot processor
    TICKETS,    \* ticket counts the fork system calls hand out
    INT_MAX     \* largest value of a C int (2^31 - 1 in the code)

ASSUME NProcAssumption == NPROC \in Nat \ {0}
ASSUME CpusAssumption == CPUS \subseteq Nat /\ 0 \in CPUS
ASSUME TicketsAssumption ==
    TICKETS \subseteq Nat /\ \A t \in TICKETS : 1 <= t /\ t <= 10000
ASSUME IntMaxAssumption ==
    INT_MAX \in Nat /\ \A t \in TICKETS \cup {300} : 10000 \div t <= INT_MAX

VARIABLES
    state,      \* p->state
    tickets,    \* p->tickets
    stride,     \* p->stride
    pass,       \* p->pass
    limitpass,  \* p->limitpass
    proc,       \* the per-cpu variable proc; Nobody when it is 0
    panic       \* the message of the panic() that froze the machine, or "none"

vars == <<state, tickets, stride, pass, limitpass, proc, panic>>

(***************************************************************************)
(* Slot 0 is ptable.proc[0], which userinit() gives to the first process.  *)
(***************************************************************************)
Slot == 0 .. (NPROC - 1)
Nobody == -1

ProcState == {"UNUSED", "EMBRYO", "SLEEPING", "RUNNABLE", "RUNNING", "ZOMBIE"}

Panics == {"none", "switchuvm: no pgdir", "zombie exit"}

Int32 == (-INT_MAX - 1) .. INT_MAX

\* Two's complement addition, which is what the kernel's ints do.
Wrap(x) == ((x + INT_MAX + 1) % (2 * INT_MAX + 2)) - INT_MAX - 1

TypeOK ==
    /\ state \in [Slot -> ProcState]
    /\ tickets \in [Slot -> Nat]
    /\ stride \in [Slot -> 0 .. INT_MAX]
    /\ pass \in [Slot -> Int32]
    /\ limitpass \in [Slot -> Int32]
    /\ proc \in [CPUS -> Slot \cup {Nobody}]
    /\ panic \in Panics

(***************************************************************************)
(* The bss: every slot UNUSED and zero, every cpu in its scheduler.        *)
(***************************************************************************)
Init ==
    /\ state = [p \in Slot |-> "UNUSED"]
    /\ tickets = [p \in Slot |-> 0]
    /\ stride = [p \in Slot |-> 0]
    /\ pass = [p \in Slot |-> 0]
    /\ limitpass = [p \in Slot |-> 0]
    /\ proc = [c \in CPUS |-> Nobody]
    /\ panic = "none"

-----------------------------------------------------------------------------
(***************************************************************************)
(* Creation.  allocproc() takes the first UNUSED slot; it and forks() set  *)
(* the same four fields.                                                   *)
(***************************************************************************)
FirstUnused(n) ==
    /\ state[n] = "UNUSED"
    /\ \A p \in Slot : p < n => state[p] # "UNUSED"

NewAccount(n, t) ==
    /\ tickets' = [tickets EXCEPT ![n] = t]
    /\ pass' = [pass EXCEPT ![n] = 0]
    /\ stride' = [stride EXCEPT ![n] = 10000 \div t]
    /\ limitpass' = [limitpass EXCEPT ![n] = 10000 \div t]

\* The boot processor creates the first process before it schedules.
UserInit ==
    /\ state[0] = "UNUSED"
    /\ NewAccount(0, 300)
    /\ state' = [state EXCEPT ![0] = "RUNNABLE"]
    /\ UNCHANGED <<proc, panic>>

\* A running process forks; the child is runnable when forks() returns.
Forks(c, t) ==
    /\ proc[c] # Nobody
    /\ \E n \in Slot :
          /\ FirstUnused(n)
          /\ NewAccount(n, t)
          /\ state' = [state EXCEPT ![n] = "RUNNABLE"]
    /\ UNCHANGED <<proc, panic>>

-----------------------------------------------------------------------------
(***************************************************************************)
(* scheduler().  The scan starts from slot 0 whatever its state and moves  *)
(* on to a live process with a strictly smaller pass, so it ends on the    *)
(* lowest slot of smallest pass among slot 0 and the live processes.       *)
(***************************************************************************)
\* Mutant: the upper bound of the test on p->state is off by one.
Live_Zombie(p) ==
    state[p] \in {"SLEEPING", "RUNNABLE", "RUNNING", "ZOMBIE"} /\ tickets[p] > 0

Live(p) == state[p] \in {"SLEEPING", "RUNNABLE", "RUNNING"} /\ tickets[p] > 0

Candidate(p) == p = 0 \/ Live(p)

\* minProc after the loop has looked at the slots 0 .. i.
minProc[i \in Slot] ==
    IF i = 0 THEN 0
    ELSE IF pass[i] < pass[minProc[i - 1]] /\ Live(i) THEN i ELSE minProc[i - 1]

\* Mutants: an equal pass moves the scan on; limitpass is compared instead.
MinProc_LastOfEqual(m) ==
    /\ Candidate(m)
    /\ \A p \in Slot : Candidate(p) =>
          pass[m] < pass[p] \/ (pass[m] = pass[p] /\ m >= p)

MinProc_ByLimit(m) ==
    /\ Candidate(m)
    /\ \A p \in Slot : Candidate(p) =>
          limitpass[m] < limitpass[p] \/ (limitpass[m] = limitpass[p] /\ m <= p)

MinProc(m) ==
    /\ Candidate(m)
    /\ \A p \in Slot : Candidate(p) =>
          pass[m] < pass[p] \/ (pass[m] = pass[p] /\ m <= p)

AtLimit(p) == pass[p] >= limitpass[p]
NextLimit(p) == Wrap(limitpass[p] + pass[p] + stride[p])
NextPass(p) == Wrap(pass[p] + stride[p])

\* Mutant: a process at its limit keeps the limit it has.
Charge_KeepsLimit(m) ==
    LET p1 == IF AtLimit(m) THEN pass[m] ELSE NextPass(m)
    IN  /\ pass' = [pass EXCEPT ![m] = IF p1 < 0 THEN 0 ELSE p1]
        /\ limitpass' = [limitpass EXCEPT ![m] = IF p1 < 0 THEN stride[m] ELSE @]

\* What scheduler() does to the account of the process it has picked.
Charge(m) ==
    LET p1 == IF AtLimit(m) THEN pass[m] ELSE NextPass(m)
        l1 == IF AtLimit(m) THEN NextLimit(m) ELSE limitpass[m]
    IN  /\ pass' = [pass EXCEPT ![m] = IF p1 < 0 THEN 0 ELSE p1]
        /\ limitpass' = [limitpass EXCEPT ![m] = IF p1 < 0 THEN stride[m] ELSE l1]

\* switchuvm() panics on a slot that never had a page table; a ZOMBIE would
\* resume behind the sched() of exit(), where the code panics.
Dispatch(c, m) ==
    /\ proc[c] = Nobody
    /\ c = 0 => state[0] # "UNUSED"
    /\ MinProc(m)
    /\ Charge(m)
    /\ state' = [state EXCEPT ![m] = "RUNNING"]
    /\ proc' = [proc EXCEPT ![c] = m]
    /\ panic' = CASE state[m] = "UNUSED" -> "switchuvm: no pgdir"
                [] state[m] = "ZOMBIE" -> "zombie exit"
                [] OTHER -> "none"
    /\ UNCHANGED <<tickets, stride>>

-----------------------------------------------------------------------------
(***************************************************************************)
(* trap().  Every handler may wake processes (W); which ones depends on    *)
(* the channels, which this module leaves out.  A tick makes the running   *)
(* process yield; another interrupt makes it yield when it is at its limit *)
(* and charges it otherwise.                                               *)
(***************************************************************************)
Sleeping == {p \in Slot : state[p] = "SLEEPING"}

Awake(W) == [p \in Slot |-> IF p \in W THEN "RUNNABLE" ELSE state[p]]

Running(c) == proc[c] # Nobody /\ state[proc[c]] = "RUNNING"

Yield(c, W) ==
    /\ limitpass' = [limitpass EXCEPT ![proc[c]] = NextLimit(proc[c])]
    /\ state' = [Awake(W) EXCEPT ![proc[c]] = "RUNNABLE"]
    /\ proc' = [proc EXCEPT ![c] = Nobody]
    /\ UNCHANGED <<tickets, stride, pass, panic>>

Timer(c, W) ==
    /\ Running(c)
    /\ Yield(c, W)

DeviceYield(c, W) ==
    /\ Running(c)
    /\ AtLimit(proc[c])
    /\ Yield(c, W)

DeviceCharge(c, W) ==
    /\ Running(c)
    /\ ~AtLimit(proc[c])
    /\ pass' = [pass EXCEPT ![proc[c]] = NextPass(proc[c])]
    /\ state' = Awake(W)
    /\ UNCHANGED <<tickets, stride, limitpass, proc, panic>>

\* An interrupt of either kind on a cpu with no process to account to.
IdleInterrupt(c, W) ==
    /\ ~Running(c)
    /\ W # {}
    /\ state' = Awake(W)
    /\ UNCHANGED <<tickets, stride, pass, limitpass, proc, panic>>

-----------------------------------------------------------------------------
(***************************************************************************)
(* System calls of the running process that change p->state.               *)
(***************************************************************************)
Sleep(c) ==
    /\ proc[c] # Nobody
    /\ state' = [state EXCEPT ![proc[c]] = "SLEEPING"]
    /\ proc' = [proc EXCEPT ![c] = Nobody]
    /\ UNCHANGED <<tickets, stride, pass, limitpass, panic>>

Wakeup(c, W) ==
    /\ proc[c] # Nobody
    /\ W # {}
    /\ state' = Awake(W)
    /\ UNCHANGED <<tickets, stride, pass, limitpass, proc, panic>>

\* exit() wakes the parent (and perhaps init); it refuses to run for init.
Exit(c, W) ==
    /\ proc[c] # Nobody
    /\ proc[c] # 0
    /\ state' = [Awake(W) EXCEPT ![proc[c]] = "ZOMBIE"]
    /\ proc' = [proc EXCEPT ![c] = Nobody]
    /\ UNCHANGED <<tickets, stride, pass, limitpass, panic>>

\* wait() frees the slot of a zombie and leaves its account as it was.
Reap(c, z) ==
    /\ proc[c] # Nobody
    /\ state[z] = "ZOMBIE"
    /\ state' = [state EXCEPT ![z] = "UNUSED"]
    /\ UNCHANGED <<tickets, stride, pass, limitpass, proc, panic>>

-----------------------------------------------------------------------------
Next ==
    /\ panic = "none"
    /\ \/ UserInit
       \/ \E c \in CPUS :
             \/ \E t \in TICKETS : Forks(c, t)
             \/ \E m \in Slot : Dispatch(c, m)
             \/ \E W \in SUBSET Sleeping :
                   \/ Timer(c, W)
                   \/ DeviceYield(c, W)
                   \/ DeviceCharge(c, W)
                   \/ IdleInterrupt(c, W)
                   \/ Wakeup(c, W)
                   \/ Exit(c, W)
             \/ Sleep(c)
             \/ \E z \in Slot : Reap(c, z)

Spec == Init /\ [][Next]_vars

(***************************************************************************)
(* The horizon before any int overflows: every sum that the next step can  *)
(* form is an int.                                                         *)
(***************************************************************************)
NoOverflow == \A p \in Slot : limitpass[p] + pass[p] + stride[p] <= INT_MAX

SpecNoOverflow == Init /\ [][Next /\ NoOverflow]_vars

-----------------------------------------------------------------------------
(***************************************************************************)
(* The loop over the table ends on the process that MinProc describes:     *)
(* the first one of smallest pass, and there is exactly one such process.  *)
(***************************************************************************)
ScanFindsMinProc == \A m \in Slot : MinProc(m) <=> m = minProc[NPROC - 1]

(***************************************************************************)
(* scheduler() never switches to a slot without a process in it, so none   *)
(* of the panics that follow from that is reached: with one cpu, slot 0    *)
(* holds init from the first dispatch on, and init never exits.            *)
(***************************************************************************)
NoPanic == panic = "none"
=============================================================================
