-------------------------- MODULE TaskRunnerProofs --------------------------
(***************************************************************************)
(* Proofs about TaskRunner, for any number of cancel requests and batches  *)
(* of results: what the status of a task, an answer to a cancel and the    *)
(* statistics say about the process.                                       *)
(***************************************************************************)
EXTENDS TaskRunner, TLAPS

Terminal == {"finished", "error", "cancelled"}

\* Where Run is, and what it knows then.
PhaseInv ==
    /\ run.pc \in {"sync", "configure", "start", "started"} => run.to = "pending"
    /\ run.to = "pending" =>
          run.pc \in {"sync", "configure", "start", "started", "crashed"}
    /\ run.pc \in {"sync", "configure", "start", "crashed"} => root = "none"
    /\ run.pc = "started" => root # "none"
    /\ run.to \notin {"pending", "error"} => root # "none"
    /\ run.pc = "select" => run.to = "running" /\ waiter # "none"
    /\ ch # "none" => run.to = StatusFor(ch)

\* A request past its write of cancelled.
Wrote(k) == cancel[k] \notin {"idle", "read", "savePending", "saveOther"}

\* The process, what the status says of it, and how far requests got.
ProcessInv ==
    /\ exit = "none" <=> root \in {"none", "alive"}
    /\ root = "none" =>
          /\ task \in {"pending", "error", "cancelled", "absent"}
          /\ task = "error" => run.to = "error"
          /\ task = "cancelled" => \E q \in Requests : Wrote(q)

\* A request that goes on although there is no process met another one.
RequestInv ==
    \A k \in Requests :
        /\ cancel[k] \in {"saveOther", "forward", "open"} /\ root = "none" =>
              run.to = "error" \/ \E q \in Requests \ {k} : Wrote(q)
        /\ cancel[k] = "poll" => root # "none"
        /\ cancel[k] \in {"verify", "ok"} => root \in {"zombie", "gone"}

\* What wait and the health check are about to send, and what was received.
WatchInv ==
    /\ waiter \in {"none", "look", "sendFinish", "sendError", "sendCancel", "over"}
    /\ health \in {"none", "look", "poll", "sendLost", "over"}
    /\ waiter # "none" => run.pc = "select" \/ ch # "none"
    /\ health # "none" => waiter # "none"
    /\ waiter \notin {"none", "look"} => root = "gone"
    /\ waiter = "sendFinish" => exit = "ok"
    /\ waiter = "sendError" => exit = "code"
    /\ waiter = "sendCancel" => exit = "signal"
    /\ health \in {"poll", "sendLost"} => root = "gone" /\ exit = "signal"
    /\ ch # "none" => root = "gone"
    /\ ch = "finish" => exit = "ok" /\ waiter = "over"
    /\ ch = "error" => exit = "code" /\ waiter = "over"
    /\ ch = "cancel" => exit = "signal" /\ waiter = "over"
    /\ ch = "lost" => exit = "signal"

\* The statistics, and the copy of the stat that Run holds.
CountInv ==
    /\ stat.results + incs <= rows
    /\ run.copy.results + incs <= rows
    /\ stat.ended => stat.started
    /\ run.copy.ended => run.copy.started
    /\ spider.tasks = 1 =>
          /\ root # "none" /\ run.to # "pending"
          /\ run.to = "running" => run.pc \in {"reload", "select", "done"}
    /\ spider.results <= rows
    /\ spider.results # 0 => run.to \in Terminal /\ run.pc \in {"reload", "done", "crashed"}

IInv == TypeOK /\ PhaseInv /\ ProcessInv /\ RequestInv /\ WatchInv /\ CountInv
-----------------------------------------------------------------------------
(* What a step of Run does to its record.                                  *)

Places == {"sync", "configure", "start", "started", "doc", "statRead",
           "statWrite", "spiderRead", "spiderInc", "reload", "select", "done",
           "crashed"}

LEMMA GotoFields ==
    ASSUME run \in RunState, NEW pc \in Places, Goto(pc)
    PROVE  /\ run' \in RunState
           /\ run'.pc = pc /\ run'.to = run.to /\ run'.copy = run.copy
BY DEF Goto, RunState, Places

LEMMA UpdateFields ==
    ASSUME run \in RunState, NEW s \in Statuses, Update(s)
    PROVE  /\ run' \in RunState
           /\ run'.pc = "doc" /\ run'.to = s /\ run'.copy = run.copy
BY DEF Update, RunState

LEMMA CopyFields ==
    ASSUME run \in RunState, stat \in StatDoc, NEW pc \in Places,
           run' = [run EXCEPT !.pc = pc, !.copy = stat]
    PROVE  /\ run' \in RunState
           /\ run'.pc = pc /\ run'.to = run.to /\ run'.copy = stat
BY DEF RunState, Places

LEMMA Types ==
    ASSUME TypeOK
    PROVE  /\ run \in RunState /\ stat \in StatDoc
           /\ run.pc \in Places /\ run.to \in Statuses /\ run.copy \in StatDoc
           /\ rows \in 0..MaxRows /\ incs \in 0..MaxRows
           /\ stat.results \in 0..MaxRows /\ run.copy.results \in 0..MaxRows
           /\ MaxRows \in Nat
BY RunnerAssumption DEF TypeOK, RunState, StatDoc, Places

LEMMA FreshStat ==
    ASSUME NEW b \in BOOLEAN
    PROVE  /\ [NoStat EXCEPT !.exists = b] \in StatDoc
           /\ [NoStat EXCEPT !.exists = b].results = 0
           /\ ~[NoStat EXCEPT !.exists = b].ended
<1>1. 0 \in 0..MaxRows
  BY RunnerAssumption
<1> QED
  BY <1>1, ZenonT(60) DEF NoStat, StatDoc

LEMMA NoStatType == NoStat \in StatDoc /\ NoStat.results = 0 /\ ~NoStat.ended
<1>1. 0 \in 0..MaxRows
  BY RunnerAssumption
<1> QED
  BY <1>1, ZenonT(60) DEF NoStat, StatDoc

\* Steps that leave the requests alone.  There is no way back for the process,
\* and without one Run writes nothing but error.
LEMMA RequestsKept ==
    ASSUME IInv, UNCHANGED cancel,
           root' = "none" => root = "none",
           root \in {"zombie", "gone"} => root' \in {"zombie", "gone"},
           exit' = "none" <=> root' \in {"none", "alive"},
           root' = "none" /\ run.to = "error" => run'.to = "error",
           root' = "none" => \/ task' = task \/ task' = "absent"
                             \/ task' = "error" /\ run'.to = "error"
    PROVE  ProcessInv' /\ RequestInv'
<1>1. \A q \in Requests : Wrote(q)' <=> Wrote(q)
  BY DEF Wrote
<1>2. ProcessInv'
  BY <1>1 DEF IInv, ProcessInv
<1>3. RequestInv'
  BY <1>1 DEF IInv, RequestInv
<1> QED
  BY <1>2, <1>3

-----------------------------------------------------------------------------
(* Run.                                                                    *)

LEMMA PrepareInv ==
    ASSUME IInv, Prepare
    PROVE  IInv'
<1>1. /\ run' \in RunState
      /\ run'.copy = run.copy
      /\ \/ run.pc = "sync" /\ run'.pc = "configure" /\ run'.to = run.to
         \/ run.pc = "configure" /\ run'.pc = "start" /\ run'.to = run.to
         \/ run'.pc = "doc" /\ run'.to = "error"
  BY Types, GotoFields, UpdateFields DEF Prepare, IInv, Places, Statuses
<1>2. /\ run.pc \in {"sync", "configure"}
      /\ UNCHANGED <<database, os, waiter, health, ch, requests>>
  BY DEF Prepare
<1>3. TypeOK'
  BY <1>1, <1>2 DEF IInv, TypeOK, database, os, requests
<1>4. PhaseInv'
  BY <1>1, <1>2 DEF IInv, PhaseInv, WatchInv, database, os, requests
<1>5. ProcessInv' /\ RequestInv'
  <2>1. /\ UNCHANGED <<root, exit, task, cancel>>
        /\ run.to = "pending" /\ root = "none"
    BY <1>2 DEF IInv, PhaseInv, database, os, requests
  <2> QED
    BY <2>1, RequestsKept DEF IInv, ProcessInv
<1>6. WatchInv'
  BY <1>1, <1>2 DEF IInv, WatchInv, PhaseInv, database, os, requests
<1>7. CountInv'
  BY <1>1, <1>2 DEF IInv, CountInv, PhaseInv, Terminal, database, os, requests
<1> QED
  BY <1>3, <1>4, <1>5, <1>6, <1>7 DEF IInv

LEMMA StartProcessInv ==
    ASSUME IInv, StartProcess
    PROVE  IInv'
<1>1. /\ run' \in RunState /\ run'.copy = run.copy
      /\ \/ root' = "alive" /\ run'.pc = "started" /\ run'.to = run.to
         \/ root' = root /\ run'.pc = "doc" /\ run'.to = "error"
  BY Types, GotoFields, UpdateFields DEF StartProcess, IInv, Statuses, Places
<1>2. /\ run.pc = "start" /\ run.to = "pending" /\ root = "none"
      /\ UNCHANGED <<database, child, exit, waiter, health, ch, requests>>
  BY DEF StartProcess, IInv, PhaseInv
<1>3. ch = "none" /\ waiter = "none" /\ health = "none" /\ exit = "none"
  BY <1>2 DEF IInv, TypeOK, PhaseInv, WatchInv, ProcessInv, StatusFor, Signals
<1>4. TypeOK'
  BY <1>1, <1>2 DEF IInv, TypeOK, database, os, requests
<1>5. PhaseInv'
  BY <1>1, <1>2, <1>3 DEF IInv, PhaseInv
<1>6. ProcessInv' /\ RequestInv'
  <2>1. UNCHANGED <<exit, task, cancel>>
    BY <1>2 DEF database, requests
  <2> QED
    BY <1>1, <1>2, <1>3, <2>1, RequestsKept
<1>7. WatchInv'
  BY <1>1, <1>2, <1>3 DEF WatchInv
<1>8. CountInv'
  BY <1>1, <1>2 DEF IInv, CountInv, Terminal, database
<1> QED
  BY <1>4, <1>5, <1>6, <1>7, <1>8 DEF IInv

LEMMA RecordPidInv ==
    ASSUME IInv, RecordPid
    PROVE  IInv'
<1>1. /\ run' \in RunState /\ run'.copy = run.copy
      /\ run'.pc = "doc" /\ run'.to = "running"
  BY Types, UpdateFields DEF RecordPid, IInv, Statuses
<1>2. /\ run.pc = "started" /\ run.to = "pending" /\ root # "none"
      /\ UNCHANGED <<database, os, waiter, health, ch, requests>>
  BY DEF RecordPid, IInv, PhaseInv
<1>3. ch = "none" /\ waiter = "none" /\ health = "none"
  BY <1>2 DEF IInv, TypeOK, PhaseInv, WatchInv, StatusFor, Signals
<1>4. TypeOK'
  BY <1>1, <1>2 DEF IInv, TypeOK, database, os, requests
<1>5. PhaseInv'
  BY <1>1, <1>2, <1>3 DEF PhaseInv, os
<1>6. ProcessInv' /\ RequestInv'
  <2>1. UNCHANGED <<root, exit, task, cancel>>
    BY <1>2 DEF database, os, requests
  <2> QED
    BY <1>2, <2>1, RequestsKept DEF IInv, ProcessInv
<1>7. WatchInv'
  BY <1>1, <1>2, <1>3 DEF WatchInv
<1>8. CountInv'
  BY <1>1, <1>2 DEF IInv, CountInv, Terminal, database
<1> QED
  BY <1>4, <1>5, <1>6, <1>7, <1>8 DEF IInv

\* The steps of updateTask that change the database or the copy at most.
LEMMA UpdateTaskInv ==
    ASSUME IInv, ReplaceTask \/ ReadStat \/ WriteStat \/ ReadStatAgain \/ IncSpiderStat
    PROVE  IInv'
<1>1. /\ run' \in RunState /\ run'.to = run.to
      /\ run'.pc \in {"statRead", "statWrite", "spiderRead", "spiderInc",
                      "reload", "done"}
      /\ run'.copy = run.copy \/ run'.copy = stat
      /\ run.pc \in {"doc", "statRead", "statWrite", "spiderRead", "spiderInc"}
  BY Types, GotoFields, CopyFields
     DEF IInv, ReplaceTask, ReadStat, WriteStat, ReadStatAgain, IncSpiderStat, Places
<1>2. UNCHANGED <<rows, incs, late, erasing, os, waiter, health, ch, requests>>
  BY DEF ReplaceTask, ReadStat, WriteStat, ReadStatAgain, IncSpiderStat, database
<1>3. task' = task \/ (task' = run.to /\ run.pc = "doc")
  BY DEF ReplaceTask, ReadStat, WriteStat, ReadStatAgain, IncSpiderStat, database
<1>4. /\ stat' \in StatDoc
      /\ \/ stat' = stat
         \/ /\ stat'.results = run.copy.results
            /\ stat'.ended => stat'.started
  <2>1. /\ Stamped(run.copy, run.to) \in StatDoc
        /\ Stamped(run.copy, run.to).results = run.copy.results
        /\ Stamped(run.copy, run.to).ended => Stamped(run.copy, run.to).started
    BY Types DEF IInv, CountInv, Stamped, StatDoc
  <2>2. stat' = stat \/ stat' = Stamped(run.copy, run.to)
    BY DEF ReplaceTask, ReadStat, WriteStat, ReadStatAgain, IncSpiderStat, database
  <2>3. stat \in StatDoc
    BY Types DEF IInv
  <2>4. CASE stat' = stat
    BY <2>3, <2>4, Zenon
  <2>5. CASE stat' = Stamped(run.copy, run.to)
    BY <2>1, <2>5, Zenon
  <2> QED
    BY <2>2, <2>4, <2>5, Zenon
<1>5. \/ spider' = spider
      \/ /\ run.pc = "spiderInc" /\ run'.pc = "reload"
         /\ spider' = Counted(run.to, run.copy)
  BY Types, GotoFields
     DEF IInv, ReplaceTask, ReadStat, WriteStat, ReadStatAgain, IncSpiderStat,
         database, Places
<1>6. /\ spider' \in [tasks : {0, 1}, results : 0..MaxRows]
      /\ spider'.results <= rows
      /\ spider'.tasks = 1 => /\ root # "none" /\ run'.to # "pending"
                              /\ run'.to = "running" => run'.pc \in {"reload", "done"}
      /\ spider'.results # 0 =>
            run'.to \in Terminal /\ run'.pc \in {"reload", "done", "crashed"}
  <2>1. CASE spider' = spider
    BY <1>1, <2>1, Types DEF IInv, TypeOK, CountInv, PhaseInv, Terminal
  <2>2. CASE /\ run.pc = "spiderInc" /\ run'.pc = "reload" /\ run.to = "running"
             /\ spider' = Counted(run.to, run.copy)
    BY <1>1, <2>2, Types DEF IInv, TypeOK, CountInv, PhaseInv, Terminal, Counted
  <2>3. CASE /\ run.pc = "spiderInc" /\ run'.pc = "reload" /\ run.to # "running"
             /\ spider' = Counted(run.to, run.copy)
    BY <1>1, <2>3, Types DEF IInv, TypeOK, CountInv, PhaseInv, Terminal, Counted, Statuses
  <2> QED
    BY <1>5, <2>1, <2>2, <2>3
<1>7. TypeOK'
  BY <1>1, <1>2, <1>3, <1>4, <1>6, Types DEF IInv, TypeOK, os, requests
<1>8. PhaseInv'
  BY <1>1, <1>2 DEF IInv, PhaseInv, os
<1>9. ProcessInv' /\ RequestInv'
  <2>1. /\ UNCHANGED <<root, exit, cancel>>
        /\ root = "none" /\ run.pc = "doc" => run.to = "error"
    BY <1>2 DEF IInv, PhaseInv, os, requests
  <2> QED
    BY <1>1, <1>3, <2>1, RequestsKept DEF IInv, ProcessInv
<1>10. WatchInv'
  BY <1>1, <1>2 DEF IInv, WatchInv, os
<1>11. CountInv'
  <2>1. /\ stat'.results + incs <= rows /\ run'.copy.results + incs <= rows
        /\ stat'.ended => stat'.started
        /\ run'.copy.ended => run'.copy.started
    BY <1>1, <1>4, Zenon DEF IInv, CountInv
  <2>2. /\ spider'.tasks = 1 =>
             /\ root' # "none" /\ run'.to # "pending"
             /\ run'.to = "running" => run'.pc \in {"reload", "select", "done"}
        /\ spider'.results <= rows'
        /\ spider'.results # 0 =>
             run'.to \in Terminal /\ run'.pc \in {"reload", "done", "crashed"}
    BY <1>2, <1>6 DEF os
  <2> QED
    BY <1>2, <2>1, <2>2, Zenon DEF CountInv
<1> QED
  BY <1>7, <1>8, <1>9, <1>10, <1>11 DEF IInv

LEMMA ReloadInv ==
    ASSUME IInv, Reload
    PROVE  IInv'
<1>1. /\ run' \in RunState /\ run'.to = run.to /\ run'.copy = run.copy
      /\ run.pc = "reload"
      /\ UNCHANGED <<database, os, ch, requests>>
  BY Types, GotoFields DEF IInv, Reload, Places
<1>2. \/ /\ run'.pc = "select" /\ run.to = "running"
         /\ waiter' = "look" /\ health' = "look"
      \/ run'.pc = "done" /\ UNCHANGED <<waiter, health>>
  BY Types, GotoFields DEF IInv, Reload, Places
<1>3. run.to = "running" => ch = "none"
  BY DEF IInv, TypeOK, PhaseInv, StatusFor, Signals
<1>4. TypeOK'
  BY <1>1, <1>2 DEF IInv, TypeOK, database, os, requests, RoutineState
<1>5. PhaseInv'
  BY <1>1, <1>2, <1>3 DEF IInv, PhaseInv, os
<1>6. ProcessInv' /\ RequestInv'
  BY <1>1, RequestsKept DEF IInv, ProcessInv, database, os, requests
<1>7. WatchInv'
  BY <1>1, <1>2, <1>3 DEF IInv, WatchInv, os
<1>8. CountInv'
  BY <1>1, <1>2 DEF IInv, CountInv, Terminal, database, os
<1> QED
  BY <1>4, <1>5, <1>6, <1>7, <1>8 DEF IInv

LEMMA ReceiveInv ==
    ASSUME IInv, Receive
    PROVE  IInv'
<1>1. /\ run.pc = "select" /\ run.to = "running" /\ ch = "none"
      /\ UNCHANGED <<database, os, requests>>
      /\ \/ /\ waiter \in Sending /\ ch' = Sent(waiter)
            /\ waiter' = "over" /\ health' = health
         \/ /\ health \in Sending /\ ch' = Sent(health)
            /\ health' = "over" /\ waiter' = waiter
      /\ Update(StatusFor(ch'))
  BY DEF IInv, Receive, TypeOK, PhaseInv, StatusFor, Signals
<1>2. /\ root = "gone" /\ waiter # "none"
      /\ \/ ch' = "finish" /\ exit = "ok" /\ waiter' = "over"
         \/ ch' = "error" /\ exit = "code" /\ waiter' = "over"
         \/ ch' = "cancel" /\ exit = "signal" /\ waiter' = "over"
         \/ ch' = "lost" /\ exit = "signal"
  BY <1>1 DEF IInv, PhaseInv, WatchInv, Sending, Sent
<1>3. StatusFor(ch') \in Terminal /\ StatusFor(ch') \in Statuses
  BY <1>2 DEF StatusFor, Terminal, Statuses
<1>4. /\ run' \in RunState /\ run'.pc = "doc" /\ run'.to = StatusFor(ch')
      /\ run'.copy = run.copy
  BY <1>1, <1>3, Types, UpdateFields DEF IInv
<1>5. TypeOK'
  BY <1>1, <1>2, <1>4 DEF IInv, TypeOK, database, os, requests, RoutineState, Signals
<1>6. PhaseInv'
  BY <1>1, <1>2, <1>3, <1>4 DEF PhaseInv, Terminal, os
<1>7. ProcessInv' /\ RequestInv'
  BY <1>1, <1>2, RequestsKept DEF IInv, ProcessInv, database, os, requests
<1>8. WatchInv'
  BY <1>1, <1>2 DEF IInv, WatchInv, os
<1>9. CountInv'
  BY <1>1, <1>2, <1>3, <1>4 DEF IInv, CountInv, Terminal, database, os
<1> QED
  BY <1>5, <1>6, <1>7, <1>8, <1>9 DEF IInv

-----------------------------------------------------------------------------
(* wait, the health check, the system and the spider.                      *)

LEMMA WaitInv ==
    ASSUME IInv, Wait
    PROVE  IInv'
<1>1. /\ waiter = "look" /\ root = "zombie" /\ root' = "gone"
      /\ \/ exit = "ok" /\ waiter' = "sendFinish"
         \/ exit = "code" /\ waiter' = "sendError"
         \/ exit = "signal" /\ waiter' = "sendCancel"
      /\ UNCHANGED <<database, child, exit, run, health, ch, requests>>
  BY DEF Wait, WaitSends, IInv, TypeOK, ProcessInv
<1>2. TypeOK'
  BY <1>1 DEF IInv, TypeOK, database, requests, RoutineState
<1>3. PhaseInv'
  BY <1>1 DEF IInv, PhaseInv
<1>4. ProcessInv' /\ RequestInv'
  BY <1>1, RequestsKept DEF IInv, ProcessInv, database, requests
<1>5. WatchInv'
  BY <1>1 DEF IInv, WatchInv
<1>6. CountInv'
  BY <1>1 DEF IInv, CountInv, database
<1> QED
  BY <1>2, <1>3, <1>4, <1>5, <1>6 DEF IInv

LEMMA HealthInv ==
    ASSUME IInv, HealthCheck \/ HealthPoll
    PROVE  IInv'
<1>1. /\ health \in {"look", "poll"}
      /\ \/ health' = "over"
         \/ health' \in {"poll", "sendLost"} /\ root = "gone" /\ exit = "signal"
      /\ UNCHANGED <<database, os, run, waiter, ch, requests>>
  BY DEF HealthCheck, HealthPoll, IInv, WatchInv
<1>2. TypeOK'
  BY <1>1 DEF IInv, TypeOK, database, os, requests, RoutineState
<1>3. PhaseInv' /\ CountInv'
  BY <1>1 DEF IInv, PhaseInv, CountInv, database, os, requests
<1>4. ProcessInv' /\ RequestInv'
  BY <1>1, RequestsKept DEF IInv, ProcessInv, database, os, requests
<1>5. WatchInv'
  BY <1>1 DEF IInv, WatchInv, os
<1> QED
  BY <1>2, <1>3, <1>4, <1>5 DEF IInv

\* What may happen to the process apart from start and wait: it ends, and then
\* there is no way back.
StaysOrEnds ==
    \/ root' = root /\ exit' = exit
    \/ root = "alive" /\ root' = "zombie" /\ exit' \in {"ok", "code", "signal"}

\* Steps of the system and of the requests, as far as only they matter.
LEMMA ProcessStep ==
    ASSUME IInv, StaysOrEnds, child' \in {"none", "alive", "gone"},
           cancel' \in [Requests -> CancelState], killer' \in [Requests -> KillState],
           task' = task \/ task' = "cancelled",
           ProcessInv', RequestInv',
           UNCHANGED <<stat, spider, rows, incs, late, erasing, routines>>
    PROVE  IInv'
<1>1. TypeOK'
  BY DEF StaysOrEnds, IInv, TypeOK, routines, Statuses
<1>2. PhaseInv'
  BY DEF StaysOrEnds, IInv, PhaseInv, routines
<1>3. WatchInv'
  BY DEF StaysOrEnds, IInv, WatchInv, routines
<1>4. CountInv'
  BY DEF StaysOrEnds, IInv, CountInv, routines
<1> QED
  BY <1>1, <1>2, <1>3, <1>4 DEF IInv

LEMMA SystemInv ==
    ASSUME IInv, System
    PROVE  IInv'
<1>1. /\ StaysOrEnds
      /\ child' \in {"none", "alive", "gone"}
      /\ UNCHANGED <<database, routines, requests>>
  BY DEF StaysOrEnds, System, Exit, Killed, Spawn, ChildExits, Ended, IInv, TypeOK
<1>2. ProcessInv' /\ RequestInv'
  BY <1>1, RequestsKept
     DEF StaysOrEnds, IInv, ProcessInv, database, routines, requests
<1>3. /\ cancel' \in [Requests -> CancelState] /\ killer' \in [Requests -> KillState]
      /\ UNCHANGED <<task, stat, spider, rows, incs, late, erasing, routines>>
  BY <1>1 DEF IInv, TypeOK, requests, database
<1> QED
  BY <1>1, <1>2, <1>3, ProcessStep

-----------------------------------------------------------------------------
(* The requests.                                                           *)

\* A request goes one step further.
LEMMA StepFields ==
    ASSUME IInv, NEW k \in Requests, NEW pc \in CancelState, Step(k, pc)
    PROVE  /\ cancel' \in [Requests -> CancelState]
           /\ cancel'[k] = pc
           /\ \A q \in Requests : q # k => cancel'[q] = cancel[q]
BY DEF IInv, TypeOK, Step

\* What a step of one request must show: the process is there where the step
\* needs one, and who goes on without it has met another request.
LEMMA RequestStep ==
    ASSUME IInv, NEW k \in Requests, NEW pc \in CancelState, Step(k, pc),
           StaysOrEnds, run'.to = run.to,
           Wrote(k) => pc \notin {"idle", "read", "savePending", "saveOther"},
           \/ task' = task
           \/ /\ task' = "cancelled"
              /\ pc \notin {"idle", "read", "savePending", "saveOther"},
           pc \in {"saveOther", "forward", "open"} /\ root = "none" =>
               run.to = "error" \/ \E q \in Requests \ {k} : Wrote(q),
           pc = "poll" => root # "none",
           pc \in {"verify", "ok"} => root' \in {"zombie", "gone"}
    PROVE  ProcessInv' /\ RequestInv'
<1>1. /\ cancel'[k] = pc
      /\ \A q \in Requests : q # k => cancel'[q] = cancel[q]
  BY StepFields
<1>2. \A q \in Requests : Wrote(q) => Wrote(q)'
  BY <1>1 DEF Wrote
<1>3. /\ root' = "none" <=> root = "none"
      /\ root \in {"zombie", "gone"} => root' \in {"zombie", "gone"}
      /\ exit' = "none" <=> root' \in {"none", "alive"}
  BY DEF StaysOrEnds, IInv, ProcessInv
<1>4. task' # task => Wrote(k)'
  BY <1>1 DEF Wrote
<1>5. ProcessInv'
  BY <1>2, <1>3, <1>4 DEF IInv, ProcessInv
<1>6. ASSUME NEW j \in Requests
      PROVE  /\ cancel'[j] \in {"saveOther", "forward", "open"} /\ root' = "none" =>
                   run'.to = "error" \/ \E q \in Requests \ {j} : Wrote(q)'
             /\ cancel'[j] = "poll" => root' # "none"
             /\ cancel'[j] \in {"verify", "ok"} => root' \in {"zombie", "gone"}
  <2>1. CASE j = k
    BY <1>1, <1>2, <1>3, <2>1
  <2>2. CASE j # k
    BY <1>1, <1>2, <1>3, <2>2 DEF IInv, RequestInv
  <2> QED
    BY <2>1, <2>2
<1>7. RequestInv'
  BY <1>6 DEF RequestInv
<1> QED
  BY <1>5, <1>7

\* Check, read and write of the status.
LEMMA StatusInv ==
    ASSUME IInv, NEW k \in Requests,
           CheckCancellable(k) \/ ReadTask(k) \/ SaveCancelled(k) \/ SaveAgain(k)
    PROVE  IInv'
<1>1. /\ UNCHANGED <<root, child, exit, killer>>
      /\ UNCHANGED <<stat, spider, rows, incs, late, erasing, routines>>
  BY DEF CheckCancellable, ReadTask, SaveCancelled, SaveAgain, WriteCancelled,
         database, os
<1>2. run' = run
  BY <1>1 DEF routines
<1>3. \E pc \in CancelState :
         /\ Step(k, pc)
         /\ Wrote(k) => pc \notin {"idle", "read", "savePending", "saveOther"}
         /\ \/ task' = task
            \/ /\ task' = "cancelled"
               /\ pc \notin {"idle", "read", "savePending", "saveOther"}
         /\ pc \in {"saveOther", "forward", "open"} /\ root = "none" =>
               run.to = "error" \/ \E q \in Requests \ {k} : Wrote(q)
         /\ pc \notin {"poll", "verify", "ok"}
  <2>1. CASE CheckCancellable(k)
    BY <2>1 DEF CheckCancellable, CancelState, Wrote, database
  <2>2. CASE ReadTask(k)
    <3>1. /\ cancel[k] = "read" /\ task' = task /\ ~Wrote(k)
          /\ \/ task = "pending" /\ Step(k, "savePending")
             \/ task \notin {"pending", "absent"} /\ Step(k, "saveOther")
             \/ Step(k, "failed")
      BY <2>2 DEF ReadTask, database, Wrote
    <3>2. task \notin {"pending", "absent"} /\ root = "none" =>
             run.to = "error" \/ \E q \in Requests \ {k} : Wrote(q)
      BY <3>1 DEF IInv, ProcessInv
    <3> QED
      BY <3>1, <3>2 DEF CancelState
  <2>3. CASE SaveCancelled(k)
    <3>1. /\ task' = task \/ task' = "cancelled"
          /\ ~Wrote(k)
          /\ \/ cancel[k] = "savePending" /\ Step(k, "over")
             \/ cancel[k] = "saveOther" /\ Step(k, "forward")
      BY <2>3 DEF SaveCancelled, WriteCancelled, Wrote
    <3>2. cancel[k] = "saveOther" /\ root = "none" =>
             run.to = "error" \/ \E q \in Requests \ {k} : Wrote(q)
      BY DEF IInv, RequestInv
    <3> QED
      BY <3>1, <3>2 DEF CancelState
  <2>4. CASE SaveAgain(k)
    BY <2>4 DEF SaveAgain, WriteCancelled, CancelState
  <2> QED
    BY <2>1, <2>2, <2>3, <2>4
<1>4. PICK pc \in CancelState :
         /\ Step(k, pc)
         /\ Wrote(k) => pc \notin {"idle", "read", "savePending", "saveOther"}
         /\ \/ task' = task
            \/ /\ task' = "cancelled"
               /\ pc \notin {"idle", "read", "savePending", "saveOther"}
         /\ pc \in {"saveOther", "forward", "open"} /\ root = "none" =>
               run.to = "error" \/ \E q \in Requests \ {k} : Wrote(q)
         /\ pc \notin {"poll", "verify", "ok"}
  BY <1>3
<1>5. StaysOrEnds
  BY <1>1 DEF StaysOrEnds
<1>6. ProcessInv' /\ RequestInv'
  BY <1>2, <1>4, <1>5, RequestStep
<1>7. /\ cancel' \in [Requests -> CancelState] /\ killer' \in [Requests -> KillState]
      /\ child' \in {"none", "alive", "gone"}
  BY <1>1, <1>4, StepFields DEF IInv, TypeOK
<1> QED
  BY <1>1, <1>4, <1>5, <1>6, <1>7, ProcessStep

\* From the pool to the answer.
LEMMA KillInv ==
    ASSUME IInv, NEW k \in Requests,
           GetRunner(k) \/ OpenProcess(k) \/ KillTimeout(k) \/ KillSeen(k) \/ Verify(k)
    PROVE  IInv'
<1>1. /\ StaysOrEnds
      /\ child' = child /\ task' = task
      /\ killer' = killer \/ killer' = [killer EXCEPT ![k] = "look"]
      /\ UNCHANGED <<stat, spider, rows, incs, late, erasing, routines>>
  BY DEF StaysOrEnds, GetRunner, OpenProcess, KillTimeout, KillSeen, Verify, Ended,
         database, os
<1>2. /\ run' = run /\ Wrote(k)
      /\ cancel[k] = "forward" /\ root = "none" =>
            run.to = "error" \/ \E q \in Requests \ {k} : Wrote(q)
  BY <1>1 DEF routines, Wrote, GetRunner, OpenProcess, KillTimeout, KillSeen, Verify,
              IInv, RequestInv
<1>3. \E pc \in {"open", "poll", "verify", "ok", "failed"} :
         /\ Step(k, pc)
         /\ pc = "open" => cancel[k] = "forward"
         /\ pc = "poll" => root # "none"
         /\ pc \in {"verify", "ok"} => root' \in {"zombie", "gone"}
  <2>1. CASE GetRunner(k)
    BY <2>1 DEF GetRunner
  <2>2. CASE OpenProcess(k)
    BY <2>2 DEF OpenProcess
  <2>3. CASE KillTimeout(k)
    <3>1. root # "none" /\ root \in {"alive", "zombie", "gone"}
      BY <2>3 DEF KillTimeout, IInv, TypeOK, RequestInv
    <3> QED
      BY <2>3, <3>1 DEF KillTimeout, Ended
  <2>4. CASE KillSeen(k)
    BY <2>4 DEF KillSeen, PidExists, IInv, TypeOK, RequestInv, os
  <2>5. CASE Verify(k)
    BY <2>5 DEF Verify, IInv, RequestInv, os
  <2> QED
    BY <2>1, <2>2, <2>3, <2>4, <2>5
<1>4. PICK pc \in {"open", "poll", "verify", "ok", "failed"} :
         /\ Step(k, pc)
         /\ pc = "open" => cancel[k] = "forward"
         /\ pc = "poll" => root # "none"
         /\ pc \in {"verify", "ok"} => root' \in {"zombie", "gone"}
  BY <1>3
<1>5. pc \in CancelState
  BY DEF CancelState
<1>6. ProcessInv' /\ RequestInv'
  BY <1>1, <1>2, <1>4, <1>5, RequestStep
<1>7. /\ cancel' \in [Requests -> CancelState] /\ killer' \in [Requests -> KillState]
      /\ child' \in {"none", "alive", "gone"}
  BY <1>1, <1>4, <1>5, StepFields DEF IInv, TypeOK, KillState
<1> QED
  BY <1>1, <1>6, <1>7, ProcessStep

LEMMA KillFuncInv ==
    ASSUME IInv, NEW k \in Requests, KillFunc(k)
    PROVE  IInv'
<1>1. /\ StaysOrEnds
      /\ child' = child \/ child' = "gone"
      /\ \E s \in KillState : killer' = [killer EXCEPT ![k] = s]
      /\ UNCHANGED <<database, routines, cancel>>
  BY DEF StaysOrEnds, KillFunc, KillLook, Kill, KillState, Ended, os
<1>2. ProcessInv' /\ RequestInv'
  BY <1>1, RequestsKept DEF StaysOrEnds, IInv, ProcessInv, database, routines
<1>3. /\ cancel' \in [Requests -> CancelState] /\ killer' \in [Requests -> KillState]
      /\ child' \in {"none", "alive", "gone"}
      /\ UNCHANGED <<task, stat, spider, rows, incs, late, erasing, routines>>
  BY <1>1 DEF IInv, TypeOK, database
<1> QED
  BY <1>1, <1>2, <1>3, ProcessStep

\* The panic: nothing was started, so nothing is left behind.
LEMMA NilProcessInv ==
    ASSUME IInv, NEW k \in Requests, NilProcess(k)
    PROVE  IInv'
<1>1. /\ root = "none" /\ cancel[k] = "open" /\ Step(k, "failed")
      /\ UNCHANGED <<database, os, waiter, health, ch, killer>>
      /\ \/ run' = run
         \/ Goto("crashed")
  BY DEF NilProcess
<1>2. /\ run' \in RunState /\ run'.to = run.to /\ run'.copy = run.copy
      /\ run'.pc = run.pc \/ run'.pc = "crashed"
  BY <1>1, Types, GotoFields DEF IInv, Places
<1>3. ch = "none" /\ waiter = "none" /\ health = "none" /\ run.to \in {"pending", "error"}
  BY <1>1 DEF IInv, TypeOK, PhaseInv, WatchInv
<1>4. TypeOK'
  BY <1>1, <1>2, StepFields DEF IInv, TypeOK, database, os, CancelState
<1>5. PhaseInv'
  BY <1>1, <1>2, <1>3 DEF IInv, PhaseInv, os
<1>6. ProcessInv' /\ RequestInv'
  <2>1. StaysOrEnds /\ task' = task
    BY <1>1 DEF StaysOrEnds, os, database
  <2> QED
    BY <1>1, <1>2, <2>1, RequestStep DEF CancelState
<1>7. WatchInv'
  BY <1>1, <1>3 DEF WatchInv, os
<1>8. CountInv'
  BY <1>1, <1>2, <1>3 DEF IInv, CountInv, database, os
<1> QED
  BY <1>4, <1>5, <1>6, <1>7, <1>8 DEF IInv

LEMMA CancelInv ==
    ASSUME IInv, NEW k \in Requests, Cancel(k)
    PROVE  IInv'
BY StatusInv, KillInv, KillFuncInv, NilProcessInv DEF Cancel, Handle

\* Other writers of the same documents.
LEMMA OthersInv ==
    ASSUME IInv, Others
    PROVE  IInv'
<1>1. UNCHANGED <<spider, os, routines, requests>>
  BY DEF Others, InsertStat, InsertData, UpdateTaskStats, DeleteTask, DeleteStat
<1>2. (task' = task \/ task' = "absent") /\ erasing' \in BOOLEAN
  BY DEF Others, InsertStat, InsertData, UpdateTaskStats, DeleteTask, DeleteStat,
         IInv, TypeOK
<1>3. /\ rows' \in 0..MaxRows /\ incs' \in 0..MaxRows /\ rows <= rows'
      /\ late' \in BOOLEAN
      /\ stat' \in StatDoc
      /\ stat'.results + incs' <= rows'
      /\ run.copy.results + incs' <= rows'
      /\ stat'.ended => stat'.started
  <2>1. /\ stat.results + incs <= rows /\ run.copy.results + incs <= rows
        /\ stat.ended => stat.started
        /\ late \in BOOLEAN
    BY DEF IInv, CountInv, TypeOK
  <2>2. CASE InsertStat \/ DeleteTask \/ DeleteStat
    <3>1. stat' = stat \/ (stat' \in StatDoc /\ stat'.results = 0 /\ ~stat'.ended)
      BY <2>2, NoStatType, FreshStat DEF InsertStat, DeleteTask, DeleteStat
    <3>2. UNCHANGED <<rows, incs>> /\ late' \in BOOLEAN
      BY <2>1, <2>2 DEF InsertStat, DeleteTask, DeleteStat
    <3>3. CASE stat' = stat
      BY <2>1, <3>2, <3>3, Types DEF IInv
    <3>4. CASE stat' \in StatDoc /\ stat'.results = 0 /\ ~stat'.ended
      BY <2>1, <3>2, <3>4, Types DEF IInv
    <3> QED
      BY <3>1, <3>3, <3>4
  <2>3. CASE InsertData
    BY <2>1, <2>3, Types DEF InsertData, IInv
  <2>4. CASE UpdateTaskStats
    <3>1. incs' = incs - 1 /\ incs > 0 /\ rows' = rows /\ late' = late
      BY <2>4 DEF UpdateTaskStats
    <3>2. CASE stat.exists
      <4>1. stat' = [stat EXCEPT !.results = stat.results + 1]
        BY <2>4, <3>2 DEF UpdateTaskStats
      <4>2. stat.results + 1 \in 0..MaxRows
        BY <2>1, <3>1, Types DEF IInv
      <4>3. /\ stat' \in StatDoc /\ stat'.results = stat.results + 1
            /\ stat'.ended = stat.ended /\ stat'.started = stat.started
        BY <4>1, <4>2, Types DEF IInv, StatDoc
      <4> QED
        BY <2>1, <3>1, <4>3, Types DEF IInv
    <3>3. CASE ~stat.exists
      <4>1. stat' = stat
        BY <2>4, <3>3 DEF UpdateTaskStats
      <4> QED
        BY <2>1, <3>1, <4>1, Types DEF IInv
    <3> QED
      BY <3>2, <3>3
  <2> QED
    BY <2>2, <2>3, <2>4 DEF Others
<1>4. TypeOK'
  BY <1>1, <1>2, <1>3 DEF IInv, TypeOK, os, routines, requests
<1>5. PhaseInv' /\ WatchInv'
  BY <1>1 DEF IInv, PhaseInv, WatchInv, os, routines
<1>6. ProcessInv' /\ RequestInv'
  BY <1>1, <1>2, RequestsKept DEF IInv, ProcessInv, os, routines, requests
<1>7. CountInv'
  BY <1>1, <1>3, Types DEF IInv, TypeOK, CountInv, os, routines
<1> QED
  BY <1>4, <1>5, <1>6, <1>7 DEF IInv

-----------------------------------------------------------------------------
LEMMA InitInv == Init => IInv
<1> SUFFICES ASSUME Init PROVE IInv
  OBVIOUS
<1>1. /\ run.pc \in {"configure", "sync"} /\ run.to = "pending" /\ run.copy = NoStat
      /\ run \in RunState
  BY RunnerAssumption DEF Init, RunState, Statuses, NoStat, StatDoc
<1>2. stat \in StatDoc /\ stat.results = 0 /\ ~stat.ended
  BY FreshStat DEF Init
<1>3. TypeOK
  <2>1. /\ spider \in [tasks : {0, 1}, results : 0..MaxRows] /\ rows \in 0..MaxRows
        /\ incs \in 0..MaxRows
    BY RunnerAssumption DEF Init
  <2>2. cancel \in [Requests -> CancelState] /\ killer \in [Requests -> KillState]
    BY DEF Init, CancelState, KillState
  <2>3. /\ task \in Statuses \cup {"absent"} /\ late \in BOOLEAN /\ erasing \in BOOLEAN
        /\ waiter \in RoutineState /\ health \in RoutineState
        /\ ch \in Signals \cup {"none"} /\ root \in {"none", "alive", "zombie", "gone"}
        /\ child \in {"none", "alive", "gone"}
        /\ exit \in {"none", "ok", "code", "signal"}
    BY DEF Init, Statuses, RoutineState
  <2> QED
    BY <1>1, <1>2, <2>1, <2>2, <2>3 DEF TypeOK
<1>4. PhaseInv /\ ProcessInv /\ RequestInv /\ WatchInv
  BY <1>1 DEF Init, PhaseInv, ProcessInv, RequestInv, WatchInv
<1>5. CountInv
  BY <1>1, <1>2 DEF Init, CountInv, NoStat
<1> QED
  BY <1>3, <1>4, <1>5 DEF IInv

LEMMA NextInv == IInv /\ [Next]_vars => IInv'
<1> SUFFICES ASSUME IInv, [Next]_vars PROVE IInv'
  OBVIOUS
<1>1. CASE UNCHANGED vars
  BY <1>1 DEF vars, IInv, TypeOK, PhaseInv, ProcessInv, RequestInv, Wrote, WatchInv,
              CountInv
<1>2. CASE Run
  BY <1>2, PrepareInv, StartProcessInv, RecordPidInv, UpdateTaskInv, ReloadInv, ReceiveInv
     DEF Run, UpdateTask
<1>3. CASE Wait \/ HealthCheck \/ HealthPoll
  BY <1>3, WaitInv, HealthInv
<1>4. CASE System
  BY <1>4, SystemInv
<1>5. ASSUME NEW k \in Requests, Cancel(k)
      PROVE  IInv'
  BY <1>5, CancelInv
<1>6. CASE Others
  BY <1>6, OthersInv
<1> QED
  BY <1>1, <1>2, <1>3, <1>4, <1>5, <1>6 DEF Next

-----------------------------------------------------------------------------
(* The theorems.                                                           *)

\* Whatever the users, the spider and the other writers do, the runner stays
\* within the inductive invariant.
THEOREM Inductive == Spec => []IInv
BY InitInv, NextInv, PTL DEF Spec

\* Every variable always holds a value of the shape the code gives it.
THEOREM TypeCorrect == Spec => []TypeOK
<1>1. IInv => TypeOK
  BY DEF IInv
<1> QED
  BY <1>1, Inductive, PTL

\* The status that Run ends with tells how the process ended, whichever of
\* wait and startHealthCheck was heard: finished exactly after success,
\* cancelled only after a kill, an error after an exit code.
THEOREM StatusIsHonest == Spec => []StatusTellsExit
<1>1. IInv => StatusTellsExit
  BY DEF IInv, TypeOK, Signals, PhaseInv, WatchInv, StatusTellsExit, StatusFor
<1> QED
  BY <1>1, Inductive, PTL

\* A goroutine blocked for ever on the channel of a runner that returned is
\* left behind only when the process was killed.
THEOREM SenderBlockedAfterKill == Spec => []SenderLeftOnlyAfterKill
<1>1. IInv => SenderLeftOnlyAfterKill
  BY DEF IInv, TypeOK, Signals, WatchInv, SenderLeftOnlyAfterKill, Sending
<1> QED
  BY <1>1, Inductive, PTL

\* The runner's Cancel answers without an error only if the process has ended,
\* also if the runner had not recorded the pid that Cancel makes sure of.
THEOREM CancelIsHonest == Spec => []CancelOkMeansEnded
<1>1. IInv => CancelOkMeansEnded
  BY DEF IInv, RequestInv, CancelOkMeansEnded
<1> QED
  BY <1>1, Inductive, PTL

\* A request meets a runner without a process, and so a nil cmd.Process, only
\* if Run is giving up or another request has written cancelled before.
THEOREM NilProcessAfterOverlap == Spec => []NilProcessOnlyAfterOverlap
<1>1. IInv => NilProcessOnlyAfterOverlap
  BY DEF IInv, RequestInv, Wrote, NilProcessOnlyAfterOverlap
<1> QED
  BY <1>1, Inductive, PTL

\* A process that outlives its runner was never watched by wait.
THEOREM OrphanUnwatched == Spec => []OrphanNeverWatched
<1>1. IInv => OrphanNeverWatched
  BY DEF IInv, WatchInv, PidExists, OrphanNeverWatched
<1> QED
  BY <1>1, Inductive, PTL

\* updateTaskStat never gives a stat an end without a start.
THEOREM EndAfterStart == Spec => []EndedStatStarted
<1>1. IInv => EndedStatStarted
  BY DEF IInv, CountInv, EndedStatStarted
<1> QED
  BY <1>1, Inductive, PTL

\* updateSpiderStat counts a task only if its process was started.
THEOREM TaskCountedAfterStart == Spec => []CountedTaskStarted
<1>1. IInv => CountedTaskStarted
  BY DEF IInv, CountInv, CountedTaskStarted
<1> QED
  BY <1>1, Inductive, PTL

\* The read and write of the whole stat by the runner may lose increments of
\* the task server, but never makes a task or a spider count a result twice.
THEOREM ResultsBounded == Spec => []ResultsNeverOvercounted
<1>1. IInv => ResultsNeverOvercounted
  BY DEF IInv, CountInv, ResultsNeverOvercounted
<1> QED
  BY <1>1, Inductive, PTL

-----------------------------------------------------------------------------
(* TaskRunner implements RunnerLife.                                       *)

LifeStep == Life!Next \/ UNCHANGED Life!vars

\* A request is told that the process is gone by a change of cancel only.
LEMMA ToldSame ==
    ASSUME UNCHANGED cancel
    PROVE  told' = told
BY DEF told

\* A step that RunnerLife does not see.
LEMMA Unseen ==
    ASSUME UNCHANGED <<root, exit, task, told>>, run'.to = run.to,
           run.pc = "doc" <=> run'.pc = "doc", InPool' <=> InPool
    PROVE  LifeStep
<1>1. /\ (run'.pc = "doc") = (run.pc = "doc")
      /\ (~InPool)' = ~InPool
  BY Zenon
<1> QED
  BY <1>1, Zenon DEF LifeStep, Life!vars

LEMMA PrepareLife ==
    ASSUME IInv, Prepare
    PROVE  LifeStep
<1>1. /\ run.pc \in {"sync", "configure"} /\ run.to = "pending" /\ root = "none"
      /\ UNCHANGED <<root, exit, task, cancel>>
  BY DEF Prepare, IInv, PhaseInv, database, os, requests
<1>2. UNCHANGED <<root, exit, task, told>>
  BY <1>1, ToldSame
<1>3. \/ run'.pc \in {"configure", "start"} /\ run'.to = run.to
      \/ run'.pc = "doc" /\ run'.to = "error"
  BY Types, GotoFields, UpdateFields DEF Prepare, IInv, Places, Statuses
<1>4. CASE run'.pc = "doc" /\ run'.to = "error"
  BY <1>1, <1>2, <1>4 DEF LifeStep, Life!Next, Life!Fail, Life!Decide, InPool
<1>5. CASE run'.pc \in {"configure", "start"} /\ run'.to = run.to
  BY <1>1, <1>2, <1>5, Unseen DEF InPool
<1> QED
  BY <1>3, <1>4, <1>5

LEMMA StartProcessLife ==
    ASSUME IInv, StartProcess
    PROVE  LifeStep
<1>1. /\ run.pc = "start" /\ run.to = "pending" /\ root = "none"
      /\ UNCHANGED <<exit, task, cancel>>
  BY DEF StartProcess, IInv, PhaseInv, database, requests
<1>2. told' = told
  BY <1>1, ToldSame
<1>3. \/ root' = "alive" /\ run'.pc = "started" /\ run'.to = "pending"
      \/ root' = root /\ run'.pc = "doc" /\ run'.to = "error"
  BY <1>1, Types, GotoFields, UpdateFields DEF StartProcess, IInv, Statuses, Places
<1>4. CASE root' = "alive" /\ run'.pc = "started" /\ run'.to = "pending"
  <2>1. /\ (run'.pc = "doc") = (run.pc = "doc")
        /\ (~InPool)' = ~InPool
        /\ InPool /\ run.pc # "doc"
    BY <1>1, <1>4 DEF InPool
  <2>2. Life!Start
    BY <1>1, <1>2, <1>4, <2>1, Zenon DEF Life!Start
  <2> QED
    BY <2>2 DEF LifeStep, Life!Next
<1>5. CASE root' = root /\ run'.pc = "doc" /\ run'.to = "error"
  BY <1>1, <1>2, <1>5 DEF LifeStep, Life!Next, Life!Fail, Life!Decide, InPool
<1> QED
  BY <1>3, <1>4, <1>5

LEMMA RecordPidLife ==
    ASSUME IInv, RecordPid
    PROVE  LifeStep
<1>1. /\ run.pc = "started" /\ run.to = "pending" /\ root # "none"
      /\ UNCHANGED <<root, exit, task, cancel>>
  BY DEF RecordPid, IInv, PhaseInv, database, os, requests
<1>2. told' = told
  BY <1>1, ToldSame
<1>3. run'.pc = "doc" /\ run'.to = "running"
  BY Types, UpdateFields DEF RecordPid, IInv, Statuses
<1> QED
  BY <1>1, <1>2, <1>3 DEF LifeStep, Life!Next, Life!Report, Life!Decide, InPool

LEMMA ReplaceTaskLife ==
    ASSUME IInv, ReplaceTask
    PROVE  LifeStep
<1>1. /\ run.pc = "doc" /\ run.to # "pending" /\ run'.to = run.to
      /\ UNCHANGED <<root, exit, cancel>>
  BY Types, GotoFields DEF ReplaceTask, IInv, PhaseInv, os, requests, Places
<1>2. UNCHANGED <<root, exit, told>>
  BY <1>1, ToldSame
<1>3. \/ run'.pc = "statRead" /\ task' = IF task = "absent" THEN task ELSE run.to
      \/ run'.pc = "done" /\ task' = task
  BY Types, GotoFields DEF ReplaceTask, IInv, Places
<1>4. CASE run'.pc = "statRead" /\ task' = IF task = "absent" THEN task ELSE run.to
  BY <1>1, <1>2, <1>4 DEF LifeStep, Life!Next, Life!Write, InPool
<1>5. CASE run'.pc = "done" /\ task' = task
  BY <1>1, <1>2, <1>5 DEF LifeStep, Life!Next, Life!Leave, InPool
<1> QED
  BY <1>3, <1>4, <1>5

LEMMA StatisticsLife ==
    ASSUME IInv, ReadStat \/ WriteStat \/ ReadStatAgain \/ IncSpiderStat
    PROVE  LifeStep
<1>1. UNCHANGED <<root, exit, task, cancel>>
  BY DEF ReadStat, WriteStat, ReadStatAgain, IncSpiderStat, database, os, requests
<1>2. /\ run.pc \in {"statRead", "statWrite", "spiderRead", "spiderInc"}
      /\ run'.pc \in {"statWrite", "spiderRead", "spiderInc", "reload"}
      /\ run'.to = run.to
  BY Types, GotoFields, CopyFields
     DEF IInv, ReadStat, WriteStat, ReadStatAgain, IncSpiderStat, Places
<1>3. UNCHANGED <<root, exit, task, told>>
  BY <1>1, ToldSame
<1> QED
  BY <1>2, <1>3, Unseen DEF InPool

LEMMA ReloadLife ==
    ASSUME IInv, Reload
    PROVE  LifeStep
<1>1. /\ run.pc = "reload" /\ run.to # "pending" /\ run'.to = run.to
      /\ UNCHANGED <<root, exit, task, cancel>>
  BY Types, GotoFields DEF Reload, IInv, PhaseInv, database, os, requests, Places
<1>2. UNCHANGED <<root, exit, task, told>>
  BY <1>1, ToldSame
<1>3. run'.pc \in {"select", "done"}
  BY Types, GotoFields DEF Reload, IInv, Places
<1>4. CASE run'.pc = "select"
  BY <1>1, <1>2, <1>4, Unseen DEF InPool
<1>5. CASE run'.pc = "done"
  BY <1>1, <1>2, <1>5 DEF LifeStep, Life!Next, Life!Leave, InPool
<1> QED
  BY <1>3, <1>4, <1>5

\* The signal that Run receives was sent after the end of the process, and
\* its status is a verdict on that end.
LEMMA ReceiveLife ==
    ASSUME IInv, Receive
    PROVE  LifeStep
<1>1. /\ run.pc = "select" /\ run.to = "running"
      /\ UNCHANGED <<root, exit, task, cancel>>
      /\ \/ waiter \in Sending /\ ch' = Sent(waiter)
         \/ health \in Sending /\ ch' = Sent(health)
      /\ Update(StatusFor(ch'))
  BY DEF IInv, Receive, PhaseInv, database, os, requests
<1>2. /\ root = "gone"
      /\ \/ ch' = "finish" /\ exit = "ok"
         \/ ch' = "error" /\ exit = "code"
         \/ ch' \in {"cancel", "lost"} /\ exit = "signal"
  BY <1>1 DEF IInv, WatchInv, Sending, Sent
<1>3. StatusFor(ch') \in Statuses /\ StatusFor(ch') \in Life!Verdicts(exit)
  BY <1>2 DEF StatusFor, Statuses, Life!Verdicts
<1>4. run'.pc = "doc" /\ run'.to = StatusFor(ch')
  BY <1>1, <1>3, Types, UpdateFields DEF IInv
<1>5. UNCHANGED <<root, exit, task, told>> /\ root = "gone"
  BY <1>1, <1>2, ToldSame
<1>6. Life!Decide(StatusFor(ch'))
  BY <1>1, <1>4 DEF Life!Decide, InPool
<1>7. Life!Judge
  <2>1. (~InPool)' = ~InPool
    BY <1>1, <1>4 DEF InPool
  <2> QED
    BY <1>1, <1>3, <1>5, <1>6, <2>1, Zenon DEF Life!Judge
<1> QED
  BY <1>7 DEF LifeStep, Life!Next

\* wait reaps a process that ended; the health check only looks.
LEMMA WatchLife ==
    ASSUME IInv, Wait \/ HealthCheck \/ HealthPoll
    PROVE  LifeStep
<1>1. /\ UNCHANGED <<exit, run, task, cancel>>
      /\ root' = root \/ (root = "zombie" /\ root' = "gone")
  BY DEF Wait, HealthCheck, HealthPoll, database, os, requests
<1>2. told' = told
  BY <1>1, ToldSame
<1>3. CASE root' = root
  BY <1>1, <1>2, <1>3, Unseen DEF InPool
<1>4. CASE root = "zombie" /\ root' = "gone"
  BY <1>1, <1>2, <1>4 DEF LifeStep, Life!Next, Life!Reap, InPool
<1> QED
  BY <1>1, <1>3, <1>4

\* What ends the process, and what leaves it alone.
LEMMA EndLife ==
    ASSUME IInv, StaysOrEnds, UNCHANGED <<task, run, told>>
    PROVE  LifeStep
<1>1. CASE root' = root /\ exit' = exit
  BY <1>1, Unseen DEF InPool
<1>2. CASE root = "alive" /\ root' = "zombie" /\ exit' \in {"ok", "code", "signal"}
  <2>1. Life!End(exit')
    BY <1>2 DEF Life!End, InPool
  <2> QED
    BY <1>2, <2>1 DEF LifeStep, Life!Next
<1> QED
  BY <1>1, <1>2 DEF StaysOrEnds

LEMMA SystemLife ==
    ASSUME IInv, System
    PROVE  LifeStep
<1>1. /\ StaysOrEnds
      /\ UNCHANGED <<task, run, cancel>>
  BY DEF StaysOrEnds, System, Exit, Killed, Spawn, ChildExits, Ended,
         database, routines, requests
<1> QED
  BY <1>1, ToldSame, EndLife

\* Only a request that makes sure of the end is told of it.
LEMMA ToldStep ==
    ASSUME IInv, NEW k \in Requests, NEW pc \in CancelState, Step(k, pc),
           cancel[k] # "ok"
    PROVE  told' = IF pc = "ok" THEN told \cup {k} ELSE told
BY DEF IInv, TypeOK, Step, told

\* A request writes the status, ...
LEMMA StatusLife ==
    ASSUME IInv, NEW k \in Requests,
           CheckCancellable(k) \/ ReadTask(k) \/ SaveCancelled(k) \/ SaveAgain(k)
    PROVE  LifeStep
<1>1. /\ UNCHANGED <<root, exit, run>>
      /\ task' = task \/ (task # "absent" /\ task' = "cancelled")
      /\ cancel[k] # "ok"
      /\ \E pc \in CancelState \ {"ok"} : Step(k, pc)
  BY DEF CheckCancellable, ReadTask, SaveCancelled, SaveAgain, WriteCancelled,
         CancelState, database, os, routines
<1>2. told' = told
  BY <1>1, ToldStep
<1>3. CASE task' = task
  BY <1>1, <1>2, <1>3, Unseen DEF InPool
<1>4. CASE task # "absent" /\ task' = "cancelled"
  BY <1>1, <1>2, <1>4 DEF LifeStep, Life!Next, Life!Cancel, InPool
<1> QED
  BY <1>1, <1>3, <1>4

\* ... kills, ...
LEMMA KillLife ==
    ASSUME IInv, NEW k \in Requests,
           GetRunner(k) \/ OpenProcess(k) \/ KillSeen(k) \/ KillTimeout(k)
    PROVE  LifeStep
<1>1. /\ StaysOrEnds
      /\ UNCHANGED <<task, run>>
      /\ cancel[k] # "ok"
      /\ \E pc \in CancelState \ {"ok"} : Step(k, pc)
  BY DEF StaysOrEnds, GetRunner, OpenProcess, KillSeen, KillTimeout, Ended, CancelState,
         database, os, routines
<1>2. told' = told
  BY <1>1, ToldStep
<1> QED
  BY <1>1, <1>2, EndLife

\* ... panics, ...
LEMMA NilProcessLife ==
    ASSUME IInv, NEW k \in Requests, NilProcess(k)
    PROVE  LifeStep
<1>1. /\ root = "none" /\ cancel[k] = "open" /\ Step(k, "failed")
      /\ UNCHANGED <<root, exit, task>>
      /\ run' = run \/ Goto("crashed")
  BY DEF NilProcess, database, os
<1>2. told' = told
  BY <1>1, ToldStep DEF CancelState
<1>3. CASE run' = run
  BY <1>1, <1>2, <1>3, Unseen DEF InPool
<1>4. CASE Goto("crashed") /\ InPool
  <2>1. run'.to = run.to /\ run'.pc = "crashed"
    BY <1>4, Types, GotoFields DEF IInv, Places
  <2> QED
    BY <1>1, <1>2, <1>4, <2>1 DEF LifeStep, Life!Next, Life!Leave, InPool
<1>5. CASE Goto("crashed") /\ ~InPool
  <2>1. run'.to = run.to /\ run'.pc = "crashed" /\ run.pc \in {"done", "crashed"}
    BY <1>5, Types, GotoFields DEF IInv, Places, InPool
  <2> QED
    BY <1>1, <1>2, <2>1, Unseen DEF InPool
<1> QED
  BY <1>1, <1>3, <1>4, <1>5

\* ... or makes sure of the end.
LEMMA VerifyLife ==
    ASSUME IInv, NEW k \in Requests, Verify(k)
    PROVE  LifeStep
<1>1. /\ UNCHANGED <<root, exit, run, task>>
      /\ cancel[k] = "verify" /\ root \in {"zombie", "gone"}
      /\ Step(k, "failed") \/ Step(k, "ok")
  BY DEF Verify, IInv, RequestInv, database, os, routines
<1>2. CASE Step(k, "failed")
  <2>1. told' = told
    BY <1>1, <1>2, ToldStep DEF CancelState
  <2> QED
    BY <1>1, <2>1, Unseen DEF InPool
<1>3. CASE Step(k, "ok")
  <2>1. told' = told \cup {k}
    BY <1>1, <1>3, ToldStep DEF CancelState
  <2>2. Life!Tell(k)
    BY <1>1, <2>1 DEF Life!Tell, InPool
  <2> QED
    BY <2>2 DEF LifeStep, Life!Next
<1> QED
  BY <1>1, <1>2, <1>3

LEMMA KillFuncLife ==
    ASSUME IInv, NEW k \in Requests, KillFunc(k)
    PROVE  LifeStep
<1>1. StaysOrEnds /\ UNCHANGED <<task, run, cancel>>
  BY DEF StaysOrEnds, KillFunc, KillLook, Kill, Ended, database, os, routines
<1> QED
  BY <1>1, ToldSame, EndLife

LEMMA CancelLife ==
    ASSUME IInv, NEW k \in Requests, Cancel(k)
    PROVE  LifeStep
BY StatusLife, KillLife, NilProcessLife, VerifyLife, KillFuncLife DEF Cancel, Handle

LEMMA OthersLife ==
    ASSUME IInv, Others
    PROVE  LifeStep
<1>1. /\ UNCHANGED <<root, exit, run, cancel>>
      /\ task' = task \/ task' = "absent"
  BY DEF Others, InsertStat, InsertData, UpdateTaskStats, DeleteTask, DeleteStat, os,
         routines, requests
<1>2. UNCHANGED <<root, exit, told>>
  BY <1>1, ToldSame
<1>3. CASE task' = task
  BY <1>1, <1>2, <1>3, Unseen DEF InPool
<1>4. CASE task' = "absent"
  BY <1>1, <1>2, <1>4 DEF LifeStep, Life!Next, Life!Delete, InPool
<1> QED
  BY <1>1, <1>3, <1>4

LEMMA InitLife == Init => Life!Init
<1> SUFFICES ASSUME Init PROVE Life!Init
  OBVIOUS
<1>1. run.pc \in {"configure", "sync"} /\ run.to = "pending"
  BY DEF Init
<1>2. told = {}
  BY DEF Init, told
<1> QED
  BY <1>1, <1>2 DEF Init, Life!Init, InPool

LEMMA NextLife == IInv /\ [Next]_vars => [Life!Next]_(Life!vars)
<1> SUFFICES ASSUME IInv, [Next]_vars PROVE LifeStep
  BY DEF LifeStep
<1>1. CASE UNCHANGED vars
  <2>1. UNCHANGED <<root, exit, task, told, run>>
    BY <1>1 DEF vars, told
  <2> QED
    BY <2>1, Unseen DEF InPool
<1>2. CASE Run
  BY <1>2, PrepareLife, StartProcessLife, RecordPidLife, ReplaceTaskLife,
     StatisticsLife, ReloadLife, ReceiveLife DEF Run, UpdateTask
<1>3. CASE Wait \/ HealthCheck \/ HealthPoll
  BY <1>3, WatchLife
<1>4. CASE System
  BY <1>4, SystemLife
<1>5. ASSUME NEW k \in Requests, Cancel(k)
      PROVE  LifeStep
  BY <1>5, CancelLife
<1>6. CASE Others
  BY <1>6, OthersLife
<1> QED
  BY <1>1, <1>2, <1>3, <1>4, <1>5, <1>6 DEF Next

\* The runner with its goroutines, the requests to cancel and the system keep
\* the promises of RunnerLife: at most two statuses, each written once and in
\* order, a verdict only when the process was waited for and in accordance with
\* its exit.
THEOREM LifeImplemented == Spec => LifeRefinement
BY InitLife, NextLife, Inductive, PTL DEF Spec, LifeRefinement, Life!Spec

=============================================================================
