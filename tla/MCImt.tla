------------------------------- MODULE MCImt -------------------------------
(* Values for the constants of Imt, Cohort and Sorted: every value of three *)
(* bits, ZERO excepted.                                                     *)
EXTENDS Sorted

ThreeBitValues == 1 .. 7
=============================================================================
