----------------------------- MODULE MCAnswers -----------------------------
(***************************************************************************)
(* A small instance of Answers for TLC.  With 8 bits fac overflows at 6    *)
(* (and wraps to 0 at 10), and fib at 12.                                  *)
(***************************************************************************)
EXTENDS Answers

Upto12 == 0 .. 12
=============================================================================
