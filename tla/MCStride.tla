------------------------------ MODULE MCStride ------------------------------
(***************************************************************************)
(* Everything that is checked of the stride scheduler, for TLC.            *)
(***************************************************************************)
EXTENDS StrideFair, StrideIdeal
=============================================================================
