------------------------------ MODULE ProcInv -------------------------------
(***************************************************************************)
(* The inductive invariant behind the safety properties of Proc.           *)
(***************************************************************************)
EXTENDS Proc

Alive == {"SLEEPING", "RUNNABLE", "RUNNING"}

\* Slot 0 is init's from userinit() on; before that nothing runs.
InitInv ==
    \/ (\A p \in Slot : state[p] = "UNUSED") /\ (\A c \in CPUS : proc[c] = Nobody)
    \/ state[0] \in Alive

\* Where a kernel stack can be in each state.
PlaceInv ==
    \A p \in Slot :
        /\ state[p] = "UNUSED" => pc[p] \in {"forkret", "zombie"}
        /\ state[p] = "EMBRYO" => pc[p] = "forkret"
        /\ state[p] \in Alive => pc[p] # "zombie"
        /\ state[p] = "ZOMBIE" => pc[p] = "zombie"
        /\ p = 0 => pc[p] \notin {"exit", "zombie"}
        /\ state[p] = "SLEEPING" /\ pc[p] = "wait" => chan[p] = p

\* A process in forks() has a slot of its own, which is still EMBRYO.
ForkInv ==
    /\ \A p \in Slot : pc[p] = "fork" =>
          child[p] # Nobody /\ state[child[p]] = "EMBRYO"
    /\ \A p, q \in Slot :
          pc[p] = "fork" /\ pc[q] = "fork" /\ child[p] = child[q] => p = q

\* Init and the slots that are not processes yet have no parent, and nobody
\* is its own.
ParentInv ==
    \A p \in Slot :
        /\ parent[p] # p
        /\ p = 0 \/ state[p] \in {"UNUSED", "EMBRYO"} => parent[p] = Nobody

\* Every slot that is being filled is filled by someone.
EmbryoInv ==
    \A n \in Slot : state[n] = "EMBRYO" => \E p \in Slot : pc[p] = "fork" /\ child[p] = n

\* The next pid is new.
PidInv == \A p \in Slot : pid[p] < nextpid

Inv ==
    /\ TypeOK
    /\ SingleRunner
    /\ NoBadSwitch
    /\ InitInv
    /\ PlaceInv
    /\ ForkInv
    /\ ParentInv
    /\ ParentAlive
    /\ NoMissedExit
    /\ EmbryoInv
    /\ PidInv
    /\ PidsUnique
=============================================================================
