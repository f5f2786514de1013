----------------------------- MODULE MCChannel -----------------------------
(***************************************************************************)
(* A small instance of Channel for TLC.                                    *)
(***************************************************************************)
EXTENDS Channel
=============================================================================
