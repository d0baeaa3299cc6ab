----------------------------- MODULE SpiderLife -----------------------------
(***************************************************************************)
(* A spider from its creation to its deletion, with everything that refers *)
(* to it: its stat, its directory on the master, its schedules, its tasks  *)
(* with their queue items, stats and log directories.  Here are the        *)
(* controllers of spiders and tasks (core/controllers), the jobs of        *)
(* schedules (core/schedule), the spider admin that turns a request into a *)
(* task (core/spider/admin), and the clean-up of logs (core/task/log).     *)
(*                                                                         *)
(* Requests are handled by goroutines of the master, and no step of one    *)
(* hinders another: the transaction of a deletion is not passed to the     *)
(* calls inside it.  How a task gets to a node and what becomes of it      *)
(* there is in TaskDispatch and TaskRunner; here it is one step each.      *)
(***************************************************************************)

CONSTANTS
    Spiders,   \* spider ids
    Existing,  \* the spiders there are at the start
    Schedules, \* schedules there are at the start
    SpiderOf,  \* SpiderOf[c]: the spider of schedule c
    Tasks,     \* bound: task ids
    OldTasks,  \* OldTasks[t]: spider of a task there is at the start
    DeleteIds, \* bound: tasks a user may delete
    Deletable, \* bound: spiders a user may delete
    SourceIds, \* bound: spiders whose data source a user may change
    DbErrors   \* BOOLEAN: a database call may fail

ASSUME SpiderAssumption ==
    /\ Existing \subseteq Spiders
    /\ SpiderOf \in [Schedules -> Existing]
    /\ DOMAIN OldTasks \subseteq Tasks
    /\ \A t \in DOMAIN OldTasks : OldTasks[t] \in Existing
    /\ DbErrors \in BOOLEAN

VARIABLES
    \* MongoDB
    spider,  \* collection spiders: ids
    sstat,   \* collection spider_stats: ids
    sched,   \* collection schedules: ids
    task,    \* collection tasks: status, or absent
    queue,   \* collection task_queue: ids
    stats,   \* collection task_stats: ids
    \* files of the master
    folder,  \* spiders with a directory
    logs,    \* tasks with a log directory
    exec,    \* the process of a task on its node
    \* requests on their way
    make,    \* PostSpider
    source,  \* PostSpiderDataSource
    ask,     \* requests and jobs that make a task
    del,     \* DeleteSpiderById, DeleteSpiderList
    tdel,    \* DeleteTaskById and DeleteList, for each task
    \* history
    late,    \* tasks with a document that came when their spider was gone, or
             \* with a stat that came when they were gone
    gone,    \* spiders that were deleted, if only for a while
    cut,     \* tasks whose stats and logs a deletion that failed did not
             \* come to
    wrote    \* tasks that wrote to their log when they were gone

docs == <<spider, sstat, sched>>
taskDocs == <<task, queue, stats>>
files == <<folder, logs, exec>>
history == <<late, gone, cut, wrote>>
vars == <<spider, sstat, sched, task, queue, stats, folder, logs, exec, make,
          source, ask, del, tdel, late, gone, cut, wrote>>

-----------------------------------------------------------------------------
NoSpider == "none"
Status == {"absent", "pending", "running", "settled"}

Ask == [pc : {"idle", "fired", "asked", "read", "task", "item", "done",
              "failed"},
        of : Spiders \cup {NoSpider}]

Del == [pc : {"idle", "spider", "stat", "list", "tasks", "stats", "logs",
              "dir", "done", "failed"},
        ids : SUBSET Spiders, list : SUBSET Tasks]

TypeOK ==
    /\ spider \subseteq Spiders
    /\ sstat \subseteq Spiders
    /\ sched \subseteq Schedules
    /\ task \in [Tasks -> Status]
    /\ queue \subseteq Tasks
    /\ stats \subseteq Tasks
    /\ folder \subseteq Spiders
    /\ logs \subseteq Tasks
    /\ exec \in [Tasks -> {"none", "running", "ended"}]
    /\ make \in [Spiders -> {"idle", "stat", "dir", "done", "failed"}]
    /\ source \in [Spiders -> {"idle", "read"}]
    /\ ask \in [Tasks -> Ask]
    /\ del \in Del
    /\ tdel \in [Tasks -> {"idle", "stat", "logs", "done"}]
    /\ late \subseteq Tasks
    /\ gone \subseteq Spiders
    /\ cut \subseteq Tasks
    /\ wrote \subseteq Tasks

Old(t) == t \in DOMAIN OldTasks

Init ==
    /\ spider = Existing /\ sstat = Existing /\ folder = Existing
    /\ sched = Schedules
    /\ task = [t \in Tasks |-> IF Old(t) THEN "settled" ELSE "absent"]
    /\ exec = [t \in Tasks |-> IF Old(t) THEN "ended" ELSE "none"]
    /\ ask = [t \in Tasks |->
                 IF Old(t) THEN [pc |-> "done", of |-> OldTasks[t]]
                 ELSE [pc |-> "idle", of |-> NoSpider]]
    /\ queue = {} /\ stats = DOMAIN OldTasks /\ logs = DOMAIN OldTasks
    /\ late = {} /\ gone = {} /\ cut = {} /\ wrote = {}
    /\ make = [s \in Spiders |-> IF s \in Existing THEN "done" ELSE "idle"]
    /\ source = [s \in Spiders |-> "idle"]
    /\ del = [pc |-> "idle", ids |-> {}, list |-> {}]
    /\ tdel = [t \in Tasks |-> "idle"]

\* Mutant: the query has no filter.
TasksOfAll(S) == {t \in Tasks : task[t] # "absent"}

\* The tasks of the spiders in S, as GetMany finds them.
TasksOf(S) == {t \in Tasks : task[t] # "absent" /\ ask[t].of \in S}

\* A document of t that comes in time does not mark it.
MarkLate(t, inTime) ==
    late' = IF inTime /\ ask[t].of \in spider THEN late ELSE late \cup {t}

-----------------------------------------------------------------------------
(* Spiders.                                                                *)

\* PostSpider: the document, then the stat, then the directory, for which
\* the document is read again.
PostSpider(s) ==
    /\ make[s] = "idle"
    /\ make' = [make EXCEPT ![s] = "stat"]
    /\ spider' = spider \cup {s}
    /\ UNCHANGED <<sstat, sched, taskDocs, files, source, ask, del,
                   tdel, history>>

AddStat(s) ==
    /\ make[s] = "stat"
    /\ make' = [make EXCEPT ![s] = "dir"]
    /\ sstat' = sstat \cup {s}
    /\ UNCHANGED <<spider, sched, taskDocs, files, source, ask, del,
                   tdel, history>>

CreateFolder(s) ==
    /\ make[s] = "dir"
    /\ make' = [make EXCEPT ![s] = IF s \in spider THEN "done" ELSE "failed"]
    /\ folder' = IF s \in spider THEN folder \cup {s} ELSE folder
    /\ UNCHANGED <<docs, taskDocs, logs, exec, source, ask, del, tdel, history>>

\* PostSpiderDataSource reads the document and inserts it once more: while
\* the spider exists, this is refused as a duplicate.
OpenSource(s) ==
    /\ s \in SourceIds /\ source[s] = "idle" /\ s \in spider
    /\ source' = [source EXCEPT ![s] = "read"]
    /\ UNCHANGED <<docs, taskDocs, files, make, ask, del, tdel, history>>

SaveSource(s) ==
    /\ source[s] = "read"
    /\ source' = [source EXCEPT ![s] = "idle"]
    /\ spider' = spider \cup {s}
    /\ UNCHANGED <<sstat, sched, taskDocs, files, make, ask, del, tdel,
                   history>>

DeleteSchedule(c) ==
    /\ c \in sched
    /\ sched' = sched \ {c}
    /\ UNCHANGED <<spider, sstat, taskDocs, files, make, source, ask,
                   del, tdel, history>>

-----------------------------------------------------------------------------
(* Requests for a task, which end in Schedule and Enqueue.                 *)

Request(t, pc, s) ==
    /\ ask[t].pc = "idle"
    /\ ask' = [ask EXCEPT ![t] = [pc |-> pc, of |-> s]]
    /\ UNCHANGED <<docs, taskDocs, files, make, source, del, tdel, history>>

PostSpiderRun(t, s) == Request(t, "asked", s)

PostTaskRun(t, s) == s \in spider /\ Request(t, "asked", s)

PostTaskRestart(t, u) ==
    task[u] # "absent" /\ Request(t, "asked", ask[u].of)

\* The job of a cron entry reads its schedule, then the spider.
Fire(t, c) == c \in sched /\ Request(t, "fired", SpiderOf[c])

\* The spider must exist: for the job, and for Schedule.
Load(t) ==
    LET next == IF ask[t].pc = "fired" THEN "asked" ELSE "read"
    IN  /\ ask[t].pc \in {"fired", "asked"}
        /\ ask' = [ask EXCEPT ![t].pc =
                      IF ask[t].of \in spider THEN next ELSE "failed"]
        /\ UNCHANGED <<docs, taskDocs, files, make, source, del, tdel,
                       history>>

InsertTask(t) ==
    /\ ask[t].pc = "read"
    /\ ask' = [ask EXCEPT ![t].pc = "task"]
    /\ task' = [task EXCEPT ![t] = "pending"]
    /\ MarkLate(t, TRUE)
    /\ UNCHANGED <<docs, queue, stats, files, make, source, del, tdel, gone,
                   cut, wrote>>

InsertItem(t) ==
    /\ ask[t].pc = "task"
    /\ ask' = [ask EXCEPT ![t].pc = "item"]
    /\ queue' = queue \cup {t}
    /\ UNCHANGED <<docs, task, stats, files, make, source, del, tdel,
                   history>>

InsertStat(t) ==
    /\ ask[t].pc = "item"
    /\ ask' = [ask EXCEPT ![t].pc = "done"]
    /\ stats' = stats \cup {t}
    /\ MarkLate(t, task[t] # "absent")
    /\ UNCHANGED <<docs, task, queue, files, make, source, del, tdel, gone,
                   cut, wrote>>

AskFails(t) ==
    /\ DbErrors
    /\ ask[t].pc \notin {"idle", "done", "failed"}
    /\ ask' = [ask EXCEPT ![t].pc = "failed"]
    /\ UNCHANGED <<docs, taskDocs, files, make, source, del, tdel, history>>

-----------------------------------------------------------------------------
(* What becomes of a task.                                                 *)

\* A node fetches it and makes a runner, which needs the task and its spider.
\* Without the spider the task stays pending: the loop of the task handler
\* sets it to error only if it cannot read it.
Launch(t) ==
    LET able == task[t] = "pending" /\ ask[t].of \in spider
    IN  /\ t \in queue
        /\ queue' = queue \ {t}
        /\ task' = IF able THEN [task EXCEPT ![t] = "running"] ELSE task
        /\ exec' = IF able THEN [exec EXCEPT ![t] = "running"] ELSE exec
        /\ UNCHANGED <<docs, stats, folder, logs, make, source, ask, del, tdel,
                       history>>

\* WriteLine makes the directory if it is not there (any more).
WriteLog(t) ==
    /\ exec[t] = "running"
    /\ logs' = logs \cup {t}
    /\ wrote' = IF task[t] = "absent" THEN wrote \cup {t} ELSE wrote
    /\ UNCHANGED <<docs, taskDocs, folder, exec, make, source, ask, del, tdel,
                   late, gone, cut>>

\* Mutant: the update writes the status it was given, even if there is none.
EndWithoutStatus(t) ==
    /\ exec[t] = "running"
    /\ exec' = [exec EXCEPT ![t] = "ended"]
    /\ task' = [task EXCEPT ![t] = ""]
    /\ UNCHANGED <<docs, queue, stats, folder, logs, make, source, ask, del,
                   tdel, history>>

\* The last update of the runner, which brings nothing back.
End(t) ==
    /\ exec[t] = "running"
    /\ exec' = [exec EXCEPT ![t] = "ended"]
    /\ task' = IF task[t] = "absent" THEN task
               ELSE [task EXCEPT ![t] = "settled"]
    /\ UNCHANGED <<docs, queue, stats, folder, logs, make, source, ask, del,
                   tdel, history>>

\* cleanup of the log driver: a directory that has not changed for log.ttl,
\* whoever still writes to the file in it.
CleanUp(t) ==
    /\ t \in logs
    /\ logs' = logs \ {t}
    /\ UNCHANGED <<docs, taskDocs, folder, exec, make, source, ask, del, tdel,
                   history>>

-----------------------------------------------------------------------------
(* DeleteSpiderById, with one id, and DeleteSpiderList.                    *)

DelStep(from, to) ==
    /\ del.pc = from
    /\ del' = [del EXCEPT !.pc = to]
    /\ UNCHANGED <<make, source, ask, tdel>>

\* A deletion may be repeated: what is not there is no error.  Bound: one at
\* a time.
DeleteSpiders(S) ==
    /\ del.pc \in {"idle", "done", "failed"}
    /\ S # {} /\ S \subseteq Deletable \cap (spider \cup gone)
    /\ del' = [pc |-> "stat", ids |-> S, list |-> {}]
    /\ spider' = spider \ S
    /\ gone' = gone \cup S
    /\ UNCHANGED <<sstat, sched, taskDocs, files, make, source, ask, tdel, late,
                   cut, wrote>>

DeleteSpiderStats ==
    /\ DelStep("stat", "list")
    /\ sstat' = sstat \ del.ids
    /\ UNCHANGED <<spider, sched, taskDocs, files, history>>

\* The tasks are listed once; without any, the rest is left out.
ListTasks ==
    LET list == TasksOf(del.ids)
    IN  /\ del.pc = "list"
        /\ del' = [del EXCEPT !.pc = IF list = {} THEN "dir" ELSE "tasks",
                              !.list = list]
        /\ UNCHANGED <<docs, taskDocs, files, make, source, ask, tdel, history>>

DeleteTasks ==
    /\ DelStep("tasks", "stats")
    /\ task' = [t \in Tasks |-> IF t \in del.list THEN "absent" ELSE task[t]]
    /\ UNCHANGED <<docs, queue, stats, files, history>>

\* Mutant: the tasks are deleted twice, as DeleteList does.
DeleteTasksAgain ==
    /\ DelStep("stats", "logs")
    /\ task' = [t \in Tasks |-> IF t \in del.list THEN "absent" ELSE task[t]]
    /\ UNCHANGED <<docs, queue, stats, files, history>>

DeleteTaskStats ==
    /\ DelStep("stats", "logs")
    /\ stats' = stats \ del.list
    /\ UNCHANGED <<docs, task, queue, files, history>>

DeleteLogs ==
    /\ del.pc = "logs"
    /\ del' = [del EXCEPT !.pc = "dir", !.list = {}]
    /\ logs' = logs \ del.list
    /\ UNCHANGED <<docs, taskDocs, folder, exec, make, source, ask, tdel,
                   history>>

\* The goroutine for the directories reads the spiders it has deleted, and
\* gives up when they are not there.
DeleteFolders ==
    /\ DelStep("dir", "done")
    /\ folder' = folder \ (del.ids \cap spider)
    /\ UNCHANGED <<docs, taskDocs, logs, exec, history>>

DeleteFails ==
    /\ DbErrors
    /\ del.pc \in {"stat", "list", "tasks", "stats"}
    /\ del' = [del EXCEPT !.pc = "failed", !.ids = {}, !.list = {}]
    /\ cut' = IF del.pc = "stats" THEN cut \cup del.list ELSE cut
    /\ UNCHANGED <<docs, taskDocs, files, make, source, ask, tdel, late, gone,
                   wrote>>

-----------------------------------------------------------------------------
(* DeleteTaskById and DeleteList.                                          *)

TaskStep(t, from, to) ==
    /\ tdel[t] = from
    /\ tdel' = [tdel EXCEPT ![t] = to]
    /\ UNCHANGED <<make, source, ask, del>>

\* DeleteTaskById: the task must be there.
DeleteTask(t) ==
    /\ t \in DeleteIds
    /\ task[t] # "absent"
    /\ TaskStep(t, "idle", "stat")
    /\ task' = [task EXCEPT ![t] = "absent"]
    /\ UNCHANGED <<docs, queue, stats, files, history>>

\* DeleteList takes ids of tasks that were there once, and deletes the stats
\* from the tasks' collection: they stay.
DeleteListed(t) ==
    /\ t \in DeleteIds
    /\ task[t] # "absent" \/ ask[t].pc \in {"task", "item", "done"}
    /\ TaskStep(t, "idle", "logs")
    /\ task' = [task EXCEPT ![t] = "absent"]
    /\ UNCHANGED <<docs, queue, stats, files, history>>

DeleteTaskStat(t) ==
    /\ TaskStep(t, "stat", "logs")
    /\ stats' = stats \ {t}
    /\ UNCHANGED <<docs, task, queue, files, history>>

DeleteTaskLogs(t) ==
    /\ TaskStep(t, "logs", "done")
    /\ logs' = logs \ {t}
    /\ UNCHANGED <<docs, taskDocs, folder, exec, history>>

-----------------------------------------------------------------------------
SpiderRequest(s) ==
    \/ PostSpider(s) \/ AddStat(s) \/ CreateFolder(s)
    \/ OpenSource(s) \/ SaveSource(s)

TaskRequest(t) ==
    \/ \E s \in Spiders : PostSpiderRun(t, s) \/ PostTaskRun(t, s)
    \/ \E u \in Tasks : PostTaskRestart(t, u)
    \/ \E c \in Schedules : Fire(t, c)
    \/ Load(t) \/ InsertTask(t) \/ InsertItem(t) \/ InsertStat(t)
    \/ AskFails(t)
    \/ DeleteTask(t) \/ DeleteListed(t) \/ DeleteTaskStat(t)
    \/ DeleteTaskLogs(t)

Life(t) == Launch(t) \/ WriteLog(t) \/ End(t) \/ CleanUp(t)

Deletion ==
    \/ \E S \in SUBSET Spiders : DeleteSpiders(S)
    \/ DeleteSpiderStats \/ ListTasks \/ DeleteTasks \/ DeleteTaskStats
    \/ DeleteLogs \/ DeleteFolders \/ DeleteFails

Next ==
    \/ \E s \in Spiders : SpiderRequest(s)
    \/ \E c \in Schedules : DeleteSchedule(c)
    \/ \E t \in Tasks : TaskRequest(t) \/ Life(t)
    \/ Deletion

Spec == Init /\ [][Next]_vars

-----------------------------------------------------------------------------
(* Properties.                                                             *)

\* Although nothing isolates a deletion: once it has gone through, no task of
\* its spiders is left but those whose documents came after the spider was
\* gone, from requests that had read it before.  Stats and logs may be left of
\* tasks that could not be listed, because users deleted them or an earlier
\* deletion did before it failed, and logs also of tasks that went on writing.
\* Of queue items nothing is said: a deletion leaves them to the nodes.
DeletionLeavesOnlyLate ==
    del.pc = "done" =>
        \A t \in Tasks \ late :
            ask[t].of \in del.ids \ spider =>
                /\ task[t] = "absent"
                /\ t \in stats => tdel[t] # "idle" \/ t \in cut
                /\ t \in logs => tdel[t] # "idle" \/ t \in cut \cup wrote

\* A task disappears only when a user deletes it or its spider.
OthersUntouched ==
    \A t \in Tasks :
        ask[t].pc \in {"task", "item", "done"} /\ task[t] = "absent"
            => tdel[t] # "idle" \/ ask[t].of \in gone

=============================================================================
