---------------------------- MODULE IdealStride -----------------------------
(***************************************************************************)
(* What the stride scheduler promises on one cpu, without limits, sleeping *)
(* or machine integers: the cpu goes to a live process of smallest pass,   *)
(* and a selection costs the process one stride, except that a process     *)
(* which is not due may be selected once for nothing and is due then.      *)
(***************************************************************************)
EXTENDS Integers

CONSTANTS Process, Nobody

VARIABLES
    live,       \* the processes that compete
    running,    \* the one that has the cpu, or Nobody
    stride,     \* what one selection costs
    pass,       \* what a process has paid
    due         \* whether its next selection has to be paid

idealVars == <<live, running, stride, pass, due>>

Init ==
    /\ live = {}
    /\ running = Nobody
    /\ stride \in [Process -> Nat]
    /\ pass = [p \in Process |-> 0]
    /\ due \in [Process -> BOOLEAN]

Spawn(p) ==
    /\ p \notin live
    /\ live' = live \cup {p}
    /\ stride'[p] \in Nat
    /\ stride' = [stride EXCEPT ![p] = stride'[p]]
    /\ pass' = [pass EXCEPT ![p] = 0]
    /\ due' = [due EXCEPT ![p] = TRUE]
    /\ UNCHANGED running

Smallest(p) == p \in live /\ \A q \in live : pass[p] <= pass[q]

\* A selection that is paid for.
Pay(p) ==
    /\ running = Nobody
    /\ Smallest(p)
    /\ due[p]
    /\ pass' = [pass EXCEPT ![p] = pass[p] + stride[p]]
    /\ due' = [due EXCEPT ![p] = due'[p]]
    /\ running' = p
    /\ UNCHANGED <<live, stride>>

\* A selection for nothing: the process is due the next time.
Ride(p) ==
    /\ running = Nobody
    /\ Smallest(p)
    /\ ~due[p]
    /\ due' = [due EXCEPT ![p] = TRUE]
    /\ running' = p
    /\ UNCHANGED <<live, stride, pass>>

\* An interrupt charges the running process one more stride.
Surcharge(p) ==
    /\ running = p
    /\ due[p]
    /\ pass' = [pass EXCEPT ![p] = pass[p] + stride[p]]
    /\ due' = [due EXCEPT ![p] = due'[p]]
    /\ UNCHANGED <<live, running, stride>>

\* The process gives up the cpu; when a tick takes it away, it is due.
Leave(p) ==
    /\ running = p
    /\ running' = Nobody
    /\ due' = due \/ due' = [due EXCEPT ![p] = TRUE]
    /\ UNCHANGED <<live, stride, pass>>

Retire(p) ==
    /\ running = p
    /\ running' = Nobody
    /\ live' = live \ {p}
    /\ UNCHANGED <<stride, pass, due>>

Next == \E p \in Process :
    \/ Spawn(p) \/ Pay(p) \/ Ride(p) \/ Surcharge(p) \/ Leave(p) \/ Retire(p)

Spec == Init /\ [][Next]_idealVars
=============================================================================
