----------------------------- MODULE RunnerLife -----------------------------
(***************************************************************************)
(* What the runner of a task promises to those who only see its process,   *)
(* the status in the task document and the answers to cancel requests:     *)
(* the process is started at most once; the runner decides on at most two  *)
(* statuses, running and then a verdict, or the verdict error at once;     *)
(* each is written once, before the next one is decided on; the verdict is *)
(* given when the process was waited for and tells how it ended; a request *)
(* is told that the process is gone only when it has ended.                *)
(*                                                                         *)
(* It does NOT promise that a verdict is ever given: a runner may leave    *)
(* its process alone (TaskRunner shows when).  Nor that a verdict stays: a *)
(* request to cancel writes over whatever the document shows.              *)
(***************************************************************************)
CONSTANT Requests  \* cancel requests

VARIABLES process,  \* "none", "alive", "zombie" (it has ended) or "gone"
          exit,     \* how the process ended, or none
          status,   \* what the runner has decided on last
          due,      \* that status has still to be written
          left,     \* the runner has returned
          shown,    \* the status in the task document, or absent
          told      \* requests told that the process is gone

vars == <<process, exit, status, due, left, shown, told>>

Init ==
    /\ process = "none"
    /\ exit = "none"
    /\ status = "pending"
    /\ due = FALSE
    /\ left = FALSE
    /\ shown = "pending"
    /\ told = {}

Decide(s) == ~left /\ ~due /\ status' = s /\ due' = TRUE

Fail ==
    /\ status = "pending" /\ process = "none"
    /\ Decide("error")
    /\ UNCHANGED <<process, exit, left, shown, told>>

Start ==
    /\ status = "pending" /\ process = "none"
    /\ ~left /\ ~due
    /\ process' = "alive"
    /\ UNCHANGED <<exit, status, due, left, shown, told>>

Report ==
    /\ status = "pending" /\ process # "none"
    /\ Decide("running")
    /\ UNCHANGED <<process, exit, left, shown, told>>

\* A process that was killed may have been found lost.
Verdicts(how) == CASE how = "ok" -> {"finished"}
                   [] how = "code" -> {"error"}
                   [] how = "signal" -> {"cancelled", "error"}

Judge ==
    /\ status = "running" /\ process = "gone"
    /\ \E s \in Verdicts(exit) : Decide(s)
    /\ UNCHANGED <<process, exit, left, shown, told>>

Write ==
    /\ ~left /\ due
    /\ due' = FALSE
    /\ shown' = IF shown = "absent" THEN shown ELSE status
    /\ UNCHANGED <<process, exit, status, left, told>>

\* Undecided only if its node ends, which takes no process along.
Leave ==
    /\ ~left
    /\ status = "pending" => process = "none"
    /\ left' = TRUE
    /\ due' = FALSE
    /\ UNCHANGED <<process, exit, status, shown, told>>

End(how) ==
    /\ process = "alive"
    /\ process' = "zombie"
    /\ exit' = how
    /\ UNCHANGED <<status, due, left, shown, told>>

Reap ==
    /\ process = "zombie"
    /\ process' = "gone"
    /\ UNCHANGED <<exit, status, due, left, shown, told>>

Cancel ==
    /\ shown # "absent"
    /\ shown' = "cancelled"
    /\ UNCHANGED <<process, exit, status, due, left, told>>

Delete ==
    /\ shown' = "absent"
    /\ UNCHANGED <<process, exit, status, due, left, told>>

Tell(k) ==
    /\ process \in {"zombie", "gone"}
    /\ told' = told \cup {k}
    /\ UNCHANGED <<process, exit, status, due, left, shown>>

Next ==
    \/ Fail \/ Start \/ Report \/ Judge \/ Write \/ Leave
    \/ \E how \in {"ok", "code", "signal"} : End(how)
    \/ Reap
    \/ Cancel \/ Delete
    \/ \E k \in Requests : Tell(k)

Spec == Init /\ [][Next]_vars
=============================================================================
