--------------------------- MODULE MCScheduleCron ---------------------------
(* TLC instances of ScheduleCron. *)
EXTENDS ScheduleCron
CONSTANTS s1, s2, r1, r2, r3
=============================================================================
