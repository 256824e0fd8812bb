----------------------------- MODULE AtomicDisk -----------------------------
(***************************************************************************)
(* What the log promises to file system calls.  They change the blocks in  *)
(* memory between their begin and their end.  Memory becomes stable as a   *)
(* whole, at a moment when no call is between the two, and at the latest   *)
(* before the next call begins after such a moment.  A crash brings memory *)
(* back to what is stable: of every call all writes survive it, or none.   *)
(***************************************************************************)
CONSTANTS Process, Block, Empty

VARIABLES
    active,     \* the calls between begin and end
    mem,        \* the blocks as the calls see them
    stable      \* the blocks as they are after a crash

atomicVars == <<active, mem, stable>>

Init ==
    /\ active = {}
    /\ mem = [b \in Block |-> Empty]
    /\ stable = mem

Begin(p) ==
    /\ p \notin active
    /\ active = {} => mem = stable
    /\ active' = active \cup {p}
    /\ UNCHANGED <<mem, stable>>

Write(p, b) ==
    /\ p \in active
    /\ mem' = [mem EXCEPT ![b] = mem'[b]]
    /\ UNCHANGED <<active, stable>>

End(p) ==
    /\ p \in active
    /\ active' = active \ {p}
    /\ UNCHANGED <<mem, stable>>

Commit ==
    /\ active = {}
    /\ stable' = mem
    /\ UNCHANGED <<active, mem>>

Crash ==
    /\ active' = {}
    /\ mem' = stable
    /\ UNCHANGED stable

Next ==
    \/ \E p \in Process : Begin(p) \/ End(p) \/ \E b \in Block : Write(p, b)
    \/ Commit
    \/ Crash

Spec == Init /\ [][Next]_atomicVars
=============================================================================
