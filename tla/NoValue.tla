------------------------------ MODULE NoValue -------------------------------
(* What stands for a value that is not there: the undefined and the null   *)
(* of the code.                                                            *)
CONSTANT None
=============================================================================
