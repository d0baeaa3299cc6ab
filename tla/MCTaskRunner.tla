---------------------------- MODULE MCTaskRunner ----------------------------
(* TLC instances of TaskRunner. *)
EXTENDS TaskRunner
CONSTANTS r1, r2
=============================================================================
