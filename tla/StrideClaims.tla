---------------------------- MODULE StrideClaims ----------------------------
(***************************************************************************)
(* What README.md says of the stride scheduler, stated of the scheduler as *)
(* it is written.                                                          *)
(***************************************************************************)
EXTENDS Stride

(***************************************************************************)
(* README.md, section 4: a process is not chosen when it is not ready to   *)
(* run.  One that runs on another cpu is not, so no process is current on  *)
(* two cpus at once.                                                       *)
(***************************************************************************)
OneCpuPerProcess ==
    \A c, d \in CPUS : c # d => proc[c] = Nobody \/ proc[c] # proc[d]
=============================================================================
