---------------------------- MODULE MCSpiderLife ----------------------------
(* TLC instances of SpiderLife. *)
EXTENDS SpiderLife
MCSpiderOf == [c \in {"c1"} |-> "s1"]
\* Task 1 has run before; task 2 is for a request.
MCOldTasks == [t \in {1} |-> "s1"]
=============================================================================
