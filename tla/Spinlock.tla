------------------------------ MODULE Spinlock ------------------------------
(***************************************************************************)
(* Spin locks and the interrupt flag (spinlock.c).  A cpu is a record of   *)
(* its interrupt flag, its depth of pushcli() and the flag that the first  *)
(* pushcli() found; holder says which cpu has which lock (lk->locked and   *)
(* lk->cpu).                                                               *)
(***************************************************************************)
EXTENDS Integers

CONSTANTS CPUS          \* the processors; 0 is the one that counts ticks

ASSUME CpusAssumption == CPUS \subseteq Nat /\ 0 \in CPUS

VARIABLES holder, cpu

Free == -1

Cpu == [ncli : 0 .. 3, intena : BOOLEAN, fl_if : BOOLEAN]

Quiet == [ncli |-> 0, intena |-> FALSE, fl_if |-> TRUE]

holding(c, lk) == holder[lk] = c

pushcli(s) ==
    [ncli |-> s.ncli + 1,
     intena |-> IF s.ncli = 0 THEN s.fl_if ELSE s.intena,
     fl_if |-> FALSE]

popcli(s) == [s EXCEPT !.ncli = @ - 1, !.fl_if = s.ncli = 1 /\ s.intena]

popcliPanics(s) == s.fl_if \/ s.ncli < 1

\* acquire() without the check of holding(): the cpu waits until lk is free.
acquire(c, lk) ==
    /\ holder[lk] = Free
    /\ holder' = [holder EXCEPT ![lk] = c]
    /\ cpu' = [cpu EXCEPT ![c] = pushcli(@)]

release(c, lk) ==
    /\ holder' = [holder EXCEPT ![lk] = Free]
    /\ cpu' = [cpu EXCEPT ![c] = popcli(@)]

releasePanics(c, lk) == ~holding(c, lk) \/ popcliPanics(cpu[c])
=============================================================================
