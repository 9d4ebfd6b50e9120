------------------------------ MODULE MCKernel ------------------------------
(* The instance of Kernel for TLC.  The input is "z3 4" without a line's     *)
(* end: a word that is neither a number nor a character, then one that is    *)
(* both.                                                                     *)
EXTENDS Kernel

MCInput == <<2, 3, 1, 4>>
=============================================================================
