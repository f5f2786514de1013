----------------------------- MODULE MCPreempt -----------------------------
(***************************************************************************)
(* Small instances of Preempt for TLC.                                     *)
(***************************************************************************)
EXTENDS Preempt
=============================================================================
