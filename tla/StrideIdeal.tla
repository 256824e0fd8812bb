---------------------------- MODULE StrideIdeal -----------------------------
(***************************************************************************)
(* The stride scheduler seen as the ideal one.  The live processes are the *)
(* SLEEPING, RUNNABLE and RUNNING ones, the running one is the boot cpu's  *)
(* proc, and a process is due when its pass is below its limitpass.        *)
(***************************************************************************)
EXTENDS Stride

LiveSet == {p \in Slot : Live(p)}

Due == [p \in Slot |-> ~AtLimit(p)]

Ideal == INSTANCE IdealStride WITH
    Process <- Slot,
    live <- LiveSet,
    running <- proc[0],
    due <- Due

(***************************************************************************)
(* Until the first overflow, on one cpu, scheduler() and trap() implement  *)
(* the ideal scheduler: whoever is switched to has the smallest pass, and  *)
(* a dispatch that costs nothing is followed by one that costs a stride.   *)
(***************************************************************************)
ImplementsIdeal == Ideal!Spec
=============================================================================
