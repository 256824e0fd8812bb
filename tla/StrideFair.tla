----------------------------- MODULE StrideFair -----------------------------
(***************************************************************************)
(* What the smallest-pass rule is for: no process gets ahead of the others *)
(* by more than one of its own steps.  The history variable peers names,   *)
(* for each process, the processes its pass can be compared with: those    *)
(* that were live when scheduler() last charged it and whose account has   *)
(* not been restarted (by a fork that reuses the slot or by an overflow)   *)
(* since.  A charge by an interrupt and the overflow reset empty it.       *)
(***************************************************************************)
EXTENDS Stride

VARIABLE peers

fairVars == <<vars, peers>>

FairInit == Init /\ peers = [p \in Slot |-> {}]

\* Slots whose account starts again in this step.
Created(p) == state[p] = "UNUSED" /\ state'[p] # "UNUSED"
Restarted == {p \in Slot : Created(p) \/ pass'[p] < pass[p]}

Picked(p) == \E c \in CPUS : proc[c] = Nobody /\ proc'[c] = p
Paid(p) == Picked(p) /\ pass'[p] = pass[p] + stride[p]

PeersAfter(p) ==
    IF Paid(p) THEN {q \in Slot : Live(q)}
    ELSE IF pass'[p] > pass[p] \/ Created(p) THEN {}
    ELSE peers[p] \ Restarted

FairNext == Next /\ peers' = [p \in Slot |-> PeersAfter(p)]

FairSpec == FairInit /\ [][FairNext]_fairVars

FairSpecNoOverflow == FairInit /\ [][FairNext /\ NoOverflow]_fairVars

FairTypeOK == TypeOK /\ peers \in [Slot -> SUBSET Slot]

(***************************************************************************)
(* A process that scheduler() has charged is at most one stride ahead of   *)
(* every process that was live then, whatever has slept, woken, forked,    *)
(* exited or overflowed since.  It is the choice of minProc that ensures   *)
(* it.                                                                     *)
(***************************************************************************)
PassGap == \A p \in Slot : \A q \in peers[p] : pass[p] <= pass[q] + stride[p]
=============================================================================
