----------------------------- MODULE TaskRunner -----------------------------
(***************************************************************************)
(* One runner of one task (core/task/handler/runner_v2.go): the goroutine  *)
(* of Run, the goroutines wait and startHealthCheck it starts, which share *)
(* the unbuffered channel ch with it, the requests to cancel the task from *)
(* the controller's check to the goroutine that kills the process          *)
(* (core/sys_exec), and the statistics that runner and task server write   *)
(* to the same documents.                                                  *)
(*                                                                         *)
(* The spider's process may have a child.  A pid is never used again, and  *)
(* PidExists sees a process that ended until its parent has waited for it. *)
(***************************************************************************)
EXTENDS Naturals

CONSTANTS
    Requests,  \* bound: cancel requests
    MaxRows,   \* bound: batches of results the spider inserts
    OnMaster,  \* BOOLEAN: the master does not synchronise files
    Deletable, \* BOOLEAN: a user may delete the task
    DbErrors   \* BOOLEAN: a database call may fail

ASSUME RunnerAssumption ==
    /\ MaxRows \in Nat
    /\ OnMaster \in BOOLEAN
    /\ Deletable \in BOOLEAN
    /\ DbErrors \in BOOLEAN

VARIABLES
    \* MongoDB
    task,     \* status of the task document, or absent
    stat,     \* its document in task_stats
    spider,   \* the spider's document in spider_stats
    rows,     \* batches stored in the results collection
    incs,     \* increments of result_count by updateTaskStats on their way
    late,     \* Enqueue has still to insert the stat
    erasing,  \* DeleteTaskById has still to delete the stat
    \* the runner
    run,      \* the goroutine of Run
    waiter,   \* the goroutine of wait
    health,   \* the goroutine of startHealthCheck
    ch,       \* the signal received from the channel
    \* the operating system
    root,     \* the process
    child,    \* a child of it
    exit,     \* how the process ended
    \* cancel requests
    cancel,   \* their goroutines
    killer    \* the goroutine each of them starts

database == <<task, stat, spider, rows, incs, late, erasing>>
os == <<root, child, exit>>
routines == <<run, waiter, health, ch>>
requests == <<cancel, killer>>
vars == <<task, stat, spider, rows, incs, late, erasing, run, waiter, health,
          ch, root, child, exit, cancel, killer>>

-----------------------------------------------------------------------------
Statuses == {"pending", "running", "finished", "error", "cancelled"}
Signals == {"finish", "cancel", "error", "lost"}

StatDoc == [exists : BOOLEAN, started : BOOLEAN, ended : BOOLEAN,
            results : 0..MaxRows]
NoStat == [exists |-> FALSE, started |-> FALSE, ended |-> FALSE, results |-> 0]

\* The steps of Run; from "doc" to "reload" it is inside updateTask, which
\* writes the status "to".  "crashed": the node's process ended under it.
RunState ==
    [pc : {"sync", "configure", "start", "started", "doc", "statRead",
           "statWrite", "spiderRead", "spiderInc", "reload", "select", "done",
           "crashed"},
     to : Statuses, copy : StatDoc]

\* What a goroutine that reports on the channel is doing.
RoutineState == {"none", "look", "poll", "sendFinish", "sendCancel",
                 "sendError", "sendLost", "over"}

\* "over": answered without an error, but no runner was asked.
CancelState == {"idle", "read", "savePending", "saveOther", "forward", "open",
                "poll", "verify", "ok", "over", "failed"}
KillState == {"idle", "look", "killRoot", "killChild"}

\* Each variable holds a value of the shape the code gives it.
TypeOK ==
    /\ task \in Statuses \cup {"absent"}
    /\ stat \in StatDoc
    /\ spider \in [tasks : {0, 1}, results : 0..MaxRows]
    /\ rows \in 0..MaxRows
    /\ incs \in 0..MaxRows
    /\ late \in BOOLEAN
    /\ erasing \in BOOLEAN
    /\ run \in RunState
    /\ waiter \in RoutineState
    /\ health \in RoutineState
    /\ ch \in Signals \cup {"none"}
    /\ root \in {"none", "alive", "zombie", "gone"}
    /\ child \in {"none", "alive", "gone"}
    /\ exit \in {"none", "ok", "code", "signal"}
    /\ cancel \in [Requests -> CancelState]
    /\ killer \in [Requests -> KillState]

\* The runner is in the pool.  Enqueue may not have inserted the stat yet.
Init ==
    /\ task = "pending"
    /\ late \in BOOLEAN
    /\ stat = [NoStat EXCEPT !.exists = ~late]
    /\ spider = [tasks |-> 0, results |-> 0]
    /\ rows = 0
    /\ incs = 0
    /\ erasing = FALSE
    /\ run = [pc |-> IF OnMaster THEN "configure" ELSE "sync",
              to |-> "pending", copy |-> NoStat]
    /\ waiter = "none"
    /\ health = "none"
    /\ ch = "none"
    /\ root = "none"
    /\ child = "none"
    /\ exit = "none"
    /\ cancel = [k \in Requests |-> "idle"]
    /\ killer = [k \in Requests |-> "idle"]

InPool == run.pc \notin {"done", "crashed"}
PidExists == root \in {"alive", "zombie"}

-----------------------------------------------------------------------------
(* Run, up to the start of the process.                                    *)

Goto(pc) == run' = [run EXCEPT !.pc = pc]
Update(status) == run' = [run EXCEPT !.pc = "doc", !.to = status]

Prepare ==
    /\ run.pc \in {"sync", "configure"}
    /\ \/ Goto(IF run.pc = "sync" THEN "configure" ELSE "start")
       \/ Update("error")
    /\ UNCHANGED <<database, os, waiter, health, ch, requests>>

\* cmd.Start.
StartProcess ==
    /\ run.pc = "start"
    /\ \/ root' = "alive" /\ Goto("started")
       \/ UNCHANGED root /\ Update("error")
    /\ UNCHANGED <<database, child, exit, waiter, health, ch, requests>>

\* The pid is put into the runner, then the status is written.
RecordPid ==
    /\ run.pc = "started"
    /\ Update("running")
    /\ UNCHANGED <<database, os, waiter, health, ch, requests>>

-----------------------------------------------------------------------------
(* updateTask.                                                             *)

\* ReplaceById: a document that is gone stays gone.  If it fails, Run returns.
ReplaceTask ==
    /\ run.pc = "doc"
    /\ \/ /\ task' = IF task = "absent" THEN task ELSE run.to
          /\ Goto("statRead")
       \/ DbErrors /\ UNCHANGED task /\ Goto("done")
    /\ UNCHANGED <<stat, spider, rows, incs, late, erasing, os, waiter, health, ch,
                   requests>>

\* The stat may be missing, or not be there yet.
ReadStat ==
    /\ run.pc = "statRead"
    /\ \/ /\ stat.exists
          /\ run' = [run EXCEPT !.pc = "statWrite", !.copy = stat]
       \/ (~stat.exists \/ DbErrors) /\ Goto("spiderRead")
    /\ UNCHANGED <<database, os, waiter, health, ch, requests>>

\* Mutant of Stamped: the start is only set with the status running.
StampedOnlyNow(doc, status) ==
    IF status = "running" THEN [doc EXCEPT !.started = TRUE]
                          ELSE [doc EXCEPT !.ended = TRUE]

Stamped(doc, status) ==
    IF status = "running" THEN [doc EXCEPT !.started = TRUE]
                          ELSE [doc EXCEPT !.started = TRUE, !.ended = TRUE]

\* The whole document is written, result_count with it.
WriteStat ==
    /\ run.pc = "statWrite"
    /\ \/ stat' = IF stat.exists THEN Stamped(run.copy, run.to) ELSE stat
       \/ DbErrors /\ UNCHANGED stat
    /\ Goto("spiderRead")
    /\ UNCHANGED <<task, spider, rows, incs, late, erasing, os, waiter, health, ch,
                   requests>>

ReadStatAgain ==
    /\ run.pc = "spiderRead"
    /\ \/ /\ stat.exists
          /\ run' = [run EXCEPT !.pc = "spiderInc", !.copy = stat]
       \/ (~stat.exists \/ DbErrors) /\ Goto("reload")
    /\ UNCHANGED <<database, os, waiter, health, ch, requests>>

\* Mutants of Counted: results are added by every update; so are tasks.
CountedResults(status, doc) ==
    [tasks |-> IF status = "running" THEN spider.tasks + 1 ELSE spider.tasks,
     results |-> spider.results + doc.results]
CountedTask(status, doc) ==
    [tasks |-> 1,
     results |-> IF status = "running" THEN spider.results
                                       ELSE spider.results + doc.results]

\* $inc: started tasks count as tasks, ended ones add their results.
Counted(status, doc) ==
    IF status = "running"
    THEN [spider EXCEPT !.tasks = @ + 1]
    ELSE [spider EXCEPT !.results = @ + doc.results]

IncSpiderStat ==
    /\ run.pc = "spiderInc"
    /\ \/ spider' = Counted(run.to, run.copy)
       \/ DbErrors /\ UNCHANGED spider
    /\ Goto("reload")
    /\ UNCHANGED <<task, stat, rows, incs, late, erasing, os, waiter, health, ch,
                   requests>>

\* The task is read again; without it Run returns, whatever the process does.
Reload ==
    /\ run.pc = "reload"
    /\ \/ /\ run.to = "running" /\ task # "absent"
          /\ Goto("select")
          /\ waiter' = "look"
          /\ health' = "look"
       \/ /\ run.to # "running" \/ task = "absent" \/ DbErrors
          /\ Goto("done")
          /\ UNCHANGED <<waiter, health>>
    /\ UNCHANGED <<database, os, ch, requests>>

UpdateTask == ReplaceTask \/ ReadStat \/ WriteStat \/ ReadStatAgain
              \/ IncSpiderStat \/ Reload

-----------------------------------------------------------------------------
(* wait, startHealthCheck and the channel.                                 *)

\* Mutants of WaitSends: any exit is a success; no signal after a kill.
WaitSendsBlind == "sendFinish"
WaitSendsUnlessKilled ==
    CASE exit = "ok" -> "sendFinish"
      [] exit = "code" -> "sendError"
      [] exit = "signal" -> "over"

\* The signal for the exit of the process; exit code -1 is a kill.
WaitSends ==
    CASE exit = "ok" -> "sendFinish"
      [] exit = "code" -> "sendError"
      [] exit = "signal" -> "sendCancel"

\* cmd.Wait reaps the process and sets cmd.ProcessState.  Its error is always
\* an ExitError: it is called once, on a started process without copied pipes.
Wait ==
    /\ waiter = "look"
    /\ root = "zombie"
    /\ root' = "gone"
    /\ waiter' = WaitSends
    /\ UNCHANGED <<database, child, exit, run, health, ch, requests>>

\* Mutants of HealthCheck: a process is lost unless it was waited for; one
\* that ended is, however it ended.
HealthCheckInverted ==
    /\ health = "look"
    /\ health' = IF root = "gone" THEN "over" ELSE "sendLost"
    /\ UNCHANGED <<database, os, run, waiter, ch, requests>>

HealthCheckAny ==
    /\ health = "look"
    /\ health' = IF root = "gone" THEN "poll" ELSE "over"
    /\ UNCHANGED <<database, os, run, waiter, ch, requests>>

\* Goes on only if ProcessState says that a signal ended the process.  That
\* field is read without a lock, so its old value, nil, may be seen.
HealthCheck ==
    /\ health = "look"
    /\ \/ health' = "over"
       \/ root = "gone" /\ exit = "signal" /\ health' = "poll"
    /\ UNCHANGED <<database, os, run, waiter, ch, requests>>

HealthPoll ==
    /\ health = "poll"
    /\ ~PidExists
    /\ health' = "sendLost"
    /\ UNCHANGED <<database, os, run, waiter, ch, requests>>

\* Run takes the signal of one sender; the other one stays blocked.
Sent(s) == CASE s = "sendFinish" -> "finish"
             [] s = "sendCancel" -> "cancel"
             [] s = "sendError" -> "error"
             [] s = "sendLost" -> "lost"

\* Mutant of StatusFor: the empty status Run declares is not replaced.
StatusForLost(signal) ==
    CASE signal = "finish" -> "finished"
      [] signal = "cancel" -> "cancelled"
      [] signal = "error" -> "error"
      [] signal = "lost" -> ""

StatusFor(signal) ==
    CASE signal = "finish" -> "finished"
      [] signal = "cancel" -> "cancelled"
      [] signal \in {"error", "lost"} -> "error"

Sending == {"sendFinish", "sendCancel", "sendError", "sendLost"}

Receive ==
    /\ run.pc = "select"
    /\ \/ /\ waiter \in Sending
          /\ ch' = Sent(waiter)
          /\ waiter' = "over"
          /\ UNCHANGED health
       \/ /\ health \in Sending
          /\ ch' = Sent(health)
          /\ health' = "over"
          /\ UNCHANGED waiter
    /\ Update(StatusFor(ch'))
    /\ UNCHANGED <<database, os, requests>>

Run == Prepare \/ StartProcess \/ RecordPid \/ UpdateTask \/ Receive

-----------------------------------------------------------------------------
(* The operating system and the spider.                                    *)

\* What a process that ended leaves until it is waited for.
Ended(how) == root' = "zombie" /\ exit' = how

Exit ==
    /\ root = "alive"
    /\ \E how \in {"ok", "code"} : Ended(how)
    /\ UNCHANGED <<database, child, routines, requests>>

\* A signal of somebody else: the system out of memory, an administrator.
Killed ==
    /\ root = "alive"
    /\ Ended("signal")
    /\ UNCHANGED <<database, child, routines, requests>>

Spawn ==
    /\ root = "alive" /\ child = "none"
    /\ child' = "alive"
    /\ UNCHANGED <<database, root, exit, routines, requests>>

ChildExits ==
    /\ child = "alive"
    /\ child' = "gone"
    /\ UNCHANGED <<database, root, exit, routines, requests>>

System == Exit \/ Killed \/ Spawn \/ ChildExits

-----------------------------------------------------------------------------
(* Cancel: the controller checks the status, the scheduler reads the task  *)
(* again, writes the whole document back as cancelled and asks the handler *)
(* of the node, on a worker by a message that may be lost.                 *)

Step(k, pc) == cancel' = [cancel EXCEPT ![k] = pc]

\* PostTaskCancel.
CheckCancellable(k) ==
    /\ cancel[k] = "idle"
    /\ task \in {"pending", "running"}
    /\ Step(k, "read")
    /\ UNCHANGED <<database, os, routines, killer>>

\* The status found here, no longer the one checked, decides what follows.
ReadTask(k) ==
    /\ cancel[k] = "read"
    /\ \/ task = "pending" /\ Step(k, "savePending")
       \/ task \notin {"pending", "absent"} /\ Step(k, "saveOther")
       \/ (task = "absent" \/ DbErrors) /\ Step(k, "failed")
    /\ UNCHANGED <<database, os, routines, killer>>

\* ReplaceById over whatever is there by now, a verdict included; an error is
\* ignored, and a document that is gone stays gone.
WriteCancelled ==
    /\ \/ task' = IF task = "absent" THEN task ELSE "cancelled"
       \/ DbErrors /\ UNCHANGED task
    /\ UNCHANGED <<stat, spider, rows, incs, late, erasing, os, routines, killer>>

\* Mutant of SaveCancelled: the status is compared after it was overwritten.
SaveCancelledForwards(k) ==
    /\ cancel[k] \in {"savePending", "saveOther"}
    /\ WriteCancelled
    /\ Step(k, "forward")

\* A task that was pending has its queue item removed, and that is all.
SaveCancelled(k) ==
    /\ cancel[k] \in {"savePending", "saveOther"}
    /\ WriteCancelled
    /\ Step(k, IF cancel[k] = "savePending" THEN "over" ELSE "forward")

\* The copy names no node, or the node cannot be read.
SaveAgain(k) ==
    /\ cancel[k] = "forward"
    /\ WriteCancelled
    /\ Step(k, "over")

\* A worker handles one message after the other.
WorkerBusy == ~OnMaster /\ \E q \in Requests : cancel[q] \in {"open", "poll", "verify"}

GetRunner(k) ==
    /\ cancel[k] = "forward"
    /\ \/ InPool /\ ~WorkerBusy /\ Step(k, "open")
       \/ (~InPool \/ ~OnMaster) /\ Step(k, "failed")
    /\ UNCHANGED <<database, os, routines, killer>>

\* KillProcess: NewProcess, then the goroutine of killFunc.
OpenProcess(k) ==
    /\ cancel[k] = "open"
    /\ root # "none"
    /\ IF PidExists
       THEN /\ Step(k, "poll")
            /\ killer' = [killer EXCEPT ![k] = "look"]
       ELSE /\ Step(k, "failed")
            /\ UNCHANGED killer
    /\ UNCHANGED <<database, os, routines>>

\* There is no cmd.Process yet, and the dereference panics: on the master gin
\* answers with an error, on a worker nothing recovers and the node ends.
NilProcess(k) ==
    /\ cancel[k] = "open"
    /\ root = "none"
    /\ Step(k, "failed")
    /\ IF OnMaster THEN UNCHANGED run ELSE Goto("crashed")
    /\ UNCHANGED <<database, os, waiter, health, ch, killer>>

\* killProcessRecursive kills the processes without children.
KillLook(k) ==
    /\ killer[k] = "look"
    /\ killer' = [killer EXCEPT ![k] =
                      IF child = "alive" THEN "killChild" ELSE "killRoot"]
    /\ UNCHANGED <<database, os, routines, cancel>>

Kill(k) ==
    /\ \/ /\ killer[k] = "killRoot"
          /\ IF root = "alive" THEN Ended("signal")
                               ELSE UNCHANGED <<root, exit>>
          /\ UNCHANGED child
       \/ /\ killer[k] = "killChild"
          /\ child' = "gone"
          /\ UNCHANGED <<root, exit>>
    /\ killer' = [killer EXCEPT ![k] = "idle"]
    /\ UNCHANGED <<database, routines, cancel>>

\* Mutant of KillTimeout: the process itself is not killed after the timeout.
KillTimeoutSkipped(k) ==
    /\ cancel[k] = "poll"
    /\ Step(k, "verify")
    /\ UNCHANGED <<database, os, routines, killer>>

\* The process is still there after cancelTimeout.
KillTimeout(k) ==
    /\ cancel[k] = "poll"
    /\ IF root = "alive" THEN Ended("signal") ELSE UNCHANGED <<root, exit>>
    /\ Step(k, IF PidExists THEN "verify" ELSE "failed")
    /\ UNCHANGED <<database, child, routines, killer>>

KillSeen(k) ==
    /\ cancel[k] = "poll"
    /\ ~PidExists
    /\ Step(k, "verify")
    /\ UNCHANGED <<database, os, routines, killer>>

\* Polled for exitWatchDuration.  Before RecordPid it is pid 0 that does not
\* exist.
Verify(k) ==
    /\ cancel[k] = "verify"
    /\ Step(k, IF PidExists /\ run.pc # "started" THEN "failed" ELSE "ok")
    /\ UNCHANGED <<database, os, routines, killer>>

\* The goroutine of the request, and the one KillProcess starts.
Handle(k) ==
    \/ ReadTask(k) \/ SaveCancelled(k) \/ SaveAgain(k) \/ GetRunner(k)
    \/ OpenProcess(k) \/ NilProcess(k) \/ KillTimeout(k) \/ KillSeen(k) \/ Verify(k)
KillFunc(k) == KillLook(k) \/ Kill(k)

Cancel(k) == CheckCancellable(k) \/ Handle(k) \/ KillFunc(k)

-----------------------------------------------------------------------------
(* Other writers of the same documents.                                    *)

\* The last insert of Enqueue.
InsertStat ==
    /\ late
    /\ late' = FALSE
    /\ stat' = [NoStat EXCEPT !.exists = TRUE]
    /\ UNCHANGED <<task, spider, rows, incs, erasing, os, routines, requests>>

\* InsertData stores rows, then starts a goroutine that counts them.  Batches
\* for which it finds no database service are not stored and change nothing.
InsertData ==
    /\ root = "alive" \/ child = "alive"
    /\ rows < MaxRows
    /\ rows' = rows + 1
    /\ incs' = incs + 1
    /\ UNCHANGED <<task, stat, spider, late, erasing, os, routines, requests>>

UpdateTaskStats ==
    /\ incs > 0
    /\ incs' = incs - 1
    /\ stat' = IF stat.exists THEN [stat EXCEPT !.results = @ + 1] ELSE stat
    /\ UNCHANGED <<task, spider, rows, late, erasing, os, routines, requests>>

\* Two calls, in no transaction; the second one may fail alone.
DeleteTask ==
    /\ Deletable
    /\ task # "absent"
    /\ task' = "absent"
    /\ erasing' = TRUE
    /\ UNCHANGED <<stat, spider, rows, incs, late, os, routines, requests>>

DeleteStat ==
    /\ erasing
    /\ erasing' = FALSE
    /\ stat' = NoStat \/ (DbErrors /\ UNCHANGED stat)
    /\ UNCHANGED <<task, spider, rows, incs, late, os, routines, requests>>

Others ==
    InsertStat \/ InsertData \/ UpdateTaskStats \/ DeleteTask \/ DeleteStat

-----------------------------------------------------------------------------
Next ==
    \/ Run \/ Wait \/ HealthCheck \/ HealthPoll
    \/ System
    \/ \E k \in Requests : Cancel(k)
    \/ Others

Spec == Init /\ [][Next]_vars

\* Goroutines are scheduled.  Nothing is assumed of the spider.
FairSpec ==
    /\ Spec
    /\ WF_vars(Run) /\ WF_vars(Wait) /\ WF_vars(HealthCheck)
    /\ WF_vars(HealthPoll)
    /\ \A k \in Requests : WF_vars(Handle(k)) /\ WF_vars(KillFunc(k))

-----------------------------------------------------------------------------
(* Properties.                                                             *)

\* The status Run ends with tells how the process ended, whichever of the two
\* goroutines reported and whatever requests raced with it: finished only
\* after success, cancelled only after a kill, and never finished after one.
StatusTellsExit ==
    run.pc = "done" /\ ch # "none" =>
        /\ run.to = "finished" <=> exit = "ok"
        /\ run.to = "cancelled" => exit = "signal"
        /\ exit = "code" => run.to = "error"

\* Run takes one signal only; a goroutine that stays blocked on the channel
\* for ever is left behind only when the process was killed.
SenderLeftOnlyAfterKill ==
    run.pc = "done" /\ (waiter \in Sending \/ health \in Sending)
        => exit = "signal"

\* When Cancel of the runner returns no error, the process has ended, also when
\* the goroutine that kills hit a child only or came too late, and when the
\* runner had not recorded the pid yet that Cancel makes sure of.
CancelOkMeansEnded ==
    \A k \in Requests : cancel[k] = "ok" => root \in {"zombie", "gone"}

\* Cancel uses cmd.Process without a check.  It meets a runner that has not
\* started its process only if Run is about to give up, or if another request
\* has written cancelled between the check and the read of this one: of a
\* pending task no other request goes as far as the runner.
NilProcessOnlyAfterOverlap ==
    \A k \in Requests :
        cancel[k] = "open" /\ root = "none" /\ run.to # "error" =>
            \E q \in Requests \ {k} :
                cancel[q] \notin {"idle", "read", "savePending", "saveOther"}

\* A process outlives its runner only if nobody watched it yet: when Run gave
\* up on the update that marks the task running.  Once wait and the health
\* check are started, Run ends after the process.
OrphanNeverWatched ==
    run.pc = "done" /\ PidExists => ch = "none" /\ waiter = "none"

\* The stat of a task is never given an end without a start, although the
\* update that sets the start is skipped when Enqueue is late.
EndedStatStarted == stat.ended => stat.started

\* A task is counted for its spider only if its process was started.
CountedTaskStarted == spider.tasks = 1 => root # "none"

\* Results are never counted twice, for the task or for its spider.
ResultsNeverOvercounted ==
    stat.results + incs <= rows /\ spider.results <= rows

\* The answers to requests as RunnerLife sees them.
told == {k \in Requests : cancel[k] = "ok"}

Life == INSTANCE RunnerLife
    WITH process <- root, exit <- exit, status <- run.to,
         due <- run.pc = "doc", left <- ~InPool,
         shown <- task, told <- told

\* Run, wait, the health check, cancel requests, the system and the users
\* together keep the promises of RunnerLife: two statuses at most, each
\* written once and in order, a verdict only when the process was waited for
\* and in accordance with its exit.
LifeRefinement == Life!Spec

\* When its process has ended, a runner leaves the pool: it cannot be stuck
\* on the channel, whichever goroutine wins.
RunnerLeaves == exit # "none" ~> ~InPool

\* A request that reached the process ends it, also if it is a child that was
\* killed first.
CancelKills == \A k \in Requests : cancel[k] = "poll" ~> root # "alive"

=============================================================================
