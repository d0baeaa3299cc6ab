---------------------------- MODULE TaskDispatch ----------------------------
(***************************************************************************)
(* How a task gets from the API of the master into the runner pool of a    *)
(* node: the scheduler's Enqueue and Cancel (core/task/scheduler), the     *)
(* task server's Fetch (core/grpc/server), the fetch loop and pool of the  *)
(* task handler of every node (core/task/handler) and the clean-up that    *)
(* runs when the master starts (initTaskStatus).                           *)
(*                                                                         *)
(* Everything shares the MongoDB collections tasks, task_queue and         *)
(* task_stats.  Every database call is an action of its own: the           *)
(* transaction that Fetch opens is not passed to the calls inside it, so   *)
(* nothing isolates one handler from another.  Whole documents are written *)
(* back, from a copy that may be old by then.                              *)
(***************************************************************************)
EXTENDS Naturals, FiniteSets

CONSTANTS
    Nodes,       \* the nodes, the master among them: it runs tasks too
    Master,      \* the node that serves the API and gRPC
    NoNode,      \* the zero ObjectID
    Tasks,       \* task ids: ObjectIDs, ordered, so naturals
    NoTask,      \* the zero ObjectID
    Calls,       \* bound: Fetch handlers the server runs at a time
    Priorities,  \* priorities a task may be given (smaller goes first)
    MaxRunners,  \* max_runners of every node document
    CancelTasks, \* bound: tasks a user may cancel
    DeleteTasks, \* bound: tasks a user may delete
    MaxCrashes,  \* bound: crashes of node processes
    Timeouts,    \* BOOLEAN: Fetch calls may exceed fetchTimeout (15s)
    DbErrors     \* BOOLEAN: a database call may fail

ASSUME ConstantsAssumption ==
    /\ Master \in Nodes
    /\ NoNode \notin Nodes
    /\ Tasks \subseteq Nat
    /\ NoTask \notin Tasks
    /\ Priorities \subseteq Nat
    /\ MaxRunners \in Nat
    /\ MaxCrashes \in Nat
    /\ CancelTasks \subseteq Tasks
    /\ DeleteTasks \subseteq Tasks
    /\ Timeouts \in BOOLEAN
    /\ DbErrors \in BOOLEAN

VARIABLES
    \* what the users ask for: fixed from the start
    assigned,  \* node the task is created for, NoNode in random mode
    prio,      \* its priority
    \* MongoDB
    task,      \* collection tasks
    queue,     \* collection task_queue: ids; nid and p are assigned and prio
    stats,     \* collection task_stats: ids
    \* the master
    enq,       \* progress of the Enqueue call of each task
    canc,      \* progress of a Cancel request on each task
    call,      \* Fetch handlers
    boot,      \* initTaskStatus of the running master process
    \* every node
    loop,      \* the fetch loop of the task handler
    pool,      \* pool[n][t]: the runner of t on n
    \* history and bounds
    got,       \* got[t]: nodes whose Fetch was answered with t
    withdrawn, \* tasks whose item Cancel removed before any Fetch saw it
    crashes    \* crashes so far

wanted == <<assigned, prio>>
master == <<enq, canc, call, boot>>
vars == <<assigned, prio, task, queue, stats, enq, canc, call, boot,
          loop, pool, got, withdrawn, crashes>>

-----------------------------------------------------------------------------
Status == {"pending", "running", "finished", "error", "cancelled", "abnormal"}

TaskDoc == [status : Status \cup {"absent"}, node : Nodes \cup {NoNode}]
NoDoc == [status |-> "absent", node |-> NoNode]

Exists(t) == task[t].status # "absent"

\* Mutant of Replaced: an upsert.
ReplacedUpsert(t, doc) == [task EXCEPT ![t] = doc]

\* ReplaceById: a document that is gone is not created again, and no error.
Replaced(t, doc) == IF Exists(t) THEN [task EXCEPT ![t] = doc] ELSE task
Replace(t, doc) == task' = Replaced(t, doc)

IsCancellable(status) == status \in {"pending", "running"}

CallState == [pc : {"free", "pinned", "any", "load", "assign", "dequeue",
                    "reply"},
              node : Nodes \cup {NoNode},
              tid : Tasks \cup {NoTask},
              doc : TaskDoc,
              open : BOOLEAN]
FreeCall == [pc |-> "free", node |-> NoNode, tid |-> NoTask, doc |-> NoDoc,
             open |-> FALSE]

LoopState == [pc : {"wait", "fetch", "run"}, tid : Tasks \cup {NoTask}]
Waiting == [pc |-> "wait", tid |-> NoTask]

RunnerState == [pc : {"none", "starting", "running"}, doc : TaskDoc]
NoRunner == [pc |-> "none", doc |-> NoDoc]

CancelState == [pc : {"idle", "read", "save", "unqueue", "forward"},
                doc : TaskDoc]
NoCancel == [pc |-> "idle", doc |-> NoDoc]

BootState == [pc : {"scan", "purge", "done"}, stale : [Tasks -> TaskDoc]]
Booting == [pc |-> "scan", stale |-> [t \in Tasks |-> NoDoc]]

EnqState == {"idle", "item", "stat", "ok", "failed", "noStat"}

\* Each variable holds a value of the shape the code gives it.
TypeOK ==
    /\ assigned \in [Tasks -> Nodes \cup {NoNode}]
    /\ prio \in [Tasks -> Priorities]
    /\ task \in [Tasks -> TaskDoc]
    /\ queue \subseteq Tasks
    /\ stats \subseteq Tasks
    /\ enq \in [Tasks -> EnqState]
    /\ canc \in [Tasks -> CancelState]
    /\ call \in [Calls -> CallState]
    /\ boot \in BootState
    /\ loop \in [Nodes -> LoopState]
    /\ pool \in [Nodes -> [Tasks -> RunnerState]]
    /\ got \in [Tasks -> SUBSET Nodes]
    /\ withdrawn \subseteq Tasks
    /\ crashes \in Nat

Init ==
    /\ assigned \in [Tasks -> Nodes \cup {NoNode}]
    /\ prio \in [Tasks -> Priorities]
    /\ task = [t \in Tasks |-> NoDoc]
    /\ queue = {}
    /\ stats = {}
    /\ enq = [t \in Tasks |-> "idle"]
    /\ canc = [t \in Tasks |-> NoCancel]
    /\ call = [c \in Calls |-> FreeCall]
    /\ boot = Booting
    /\ loop = [n \in Nodes |-> Waiting]
    /\ pool = [n \in Nodes |-> [t \in Tasks |-> NoRunner]]
    /\ got = [t \in Tasks |-> {}]
    /\ withdrawn = {}
    /\ crashes = 0

-----------------------------------------------------------------------------
(* Enqueue: three inserts, one after the other.                            *)

InsertTask(t) ==
    /\ enq[t] = "idle"
    /\ task' = [task EXCEPT ![t] = [status |-> "pending",
                                    node |-> assigned[t]]]
    /\ enq' = [enq EXCEPT ![t] = "item"]
    /\ UNCHANGED <<wanted, queue, stats, canc, call, boot, loop, pool, got,
                   withdrawn, crashes>>

InsertQueueItem(t) ==
    /\ enq[t] = "item"
    /\ queue' = queue \cup {t}
    /\ enq' = [enq EXCEPT ![t] = "stat"]
    /\ UNCHANGED <<wanted, task, stats, canc, call, boot, loop, pool, got,
                   withdrawn, crashes>>

InsertStat(t) ==
    /\ enq[t] = "stat"
    /\ stats' = stats \cup {t}
    /\ enq' = [enq EXCEPT ![t] = "ok"]
    /\ UNCHANGED <<wanted, task, queue, canc, call, boot, loop, pool, got,
                   withdrawn, crashes>>

\* What an Enqueue that stops half-way leaves: earlier inserts stay.
Abandoned(e) == CASE e = "item" -> "failed"
                  [] e = "stat" -> "noStat"
                  [] OTHER -> e

InsertFails(t) ==
    /\ DbErrors
    /\ enq[t] \in {"idle", "item", "stat"}
    /\ enq' = [enq EXCEPT ![t] = IF @ = "stat" THEN "noStat" ELSE "failed"]
    /\ UNCHANGED <<wanted, task, queue, stats, canc, call, boot, loop, pool,
                   got, withdrawn, crashes>>

Enqueue(t) ==
    InsertTask(t) \/ InsertQueueItem(t) \/ InsertStat(t) \/ InsertFails(t)

-----------------------------------------------------------------------------
(* Cancel: the controller's check, then the scheduler's own read.          *)

CheckCancellable(t) ==
    /\ t \in CancelTasks
    /\ canc[t].pc = "idle"
    /\ IsCancellable(task[t].status)
    /\ canc' = [canc EXCEPT ![t].pc = "read"]
    /\ UNCHANGED <<wanted, task, queue, stats, enq, call, boot, loop, pool,
                   got, withdrawn, crashes>>

CancelRead(t) ==
    /\ canc[t].pc = "read"
    /\ \/ /\ Exists(t)
          /\ canc' = [canc EXCEPT ![t] = [pc |-> "save", doc |-> task[t]]]
       \/ /\ ~Exists(t) \/ DbErrors
          /\ canc' = [canc EXCEPT ![t] = NoCancel]
    /\ UNCHANGED <<wanted, task, queue, stats, enq, call, boot, loop, pool,
                   got, withdrawn, crashes>>

CancelledDoc(t) == [canc[t].doc EXCEPT !.status = "cancelled"]

\* The error of SaveTask is ignored, so the write may also not happen.
CancelSave(t) ==
    /\ canc[t].pc = "save"
    /\ \/ Replace(t, CancelledDoc(t))
       \/ DbErrors /\ UNCHANGED task
    /\ canc' = [canc EXCEPT ![t].pc =
                    IF canc[t].doc.status = "pending" THEN "unqueue"
                                                      ELSE "forward"]
    /\ UNCHANGED <<wanted, queue, stats, enq, call, boot, loop, pool, got,
                   withdrawn, crashes>>

\* Mutant of CancelUnqueue: only the status is changed.
CancelUnqueueSkipped(t) ==
    /\ canc[t].pc = "unqueue"
    /\ withdrawn' = IF t \in queue /\ \A c \in Calls : call[c].tid # t
                    THEN withdrawn \cup {t} ELSE withdrawn
    /\ canc' = [canc EXCEPT ![t] = NoCancel]
    /\ UNCHANGED <<wanted, task, queue, stats, enq, call, boot, loop, pool,
                   got, crashes>>

\* The item is removed whether or not it is still there.
CancelUnqueue(t) ==
    /\ canc[t].pc = "unqueue"
    /\ \/ /\ queue' = queue \ {t}
          /\ withdrawn' = IF t \in queue /\ \A c \in Calls : call[c].tid # t
                          THEN withdrawn \cup {t} ELSE withdrawn
       \/ DbErrors /\ UNCHANGED <<queue, withdrawn>>
    /\ canc' = [canc EXCEPT ![t] = NoCancel]
    /\ UNCHANGED <<wanted, task, stats, enq, call, boot, loop, pool, got,
                   crashes>>

\* Without a node, or if the node cannot be read, the status is written again;
\* otherwise the runner of that node is told to kill its process, which is
\* in TaskRunner: here a running task may end as cancelled at any time.
CancelForward(t) ==
    /\ canc[t].pc = "forward"
    /\ \/ /\ canc[t].doc.node = NoNode \/ DbErrors
          /\ Replace(t, CancelledDoc(t))
       \/ canc[t].doc.node # NoNode /\ UNCHANGED task
    /\ canc' = [canc EXCEPT ![t] = NoCancel]
    /\ UNCHANGED <<wanted, queue, stats, enq, call, boot, loop, pool, got,
                   withdrawn, crashes>>

Cancel(t) ==
    \/ CheckCancellable(t) \/ CancelRead(t) \/ CancelSave(t)
    \/ CancelUnqueue(t) \/ CancelForward(t)

\* DELETE /tasks/:id removes the document and its stat, not its queue item.
DeleteTaskById(t) ==
    /\ t \in DeleteTasks
    /\ Exists(t)
    /\ task' = [task EXCEPT ![t] = NoDoc]
    /\ stats' = stats \ {t}
    /\ UNCHANGED <<wanted, queue, enq, canc, call, boot, loop, pool, got,
                   withdrawn, crashes>>

-----------------------------------------------------------------------------
(* The fetch loop of a node, up to the request.                            *)

\* Running tasks of n as the database knows them.
RunnerCount(n) ==
    Cardinality({t \in Tasks : task[t] = [status |-> "running", node |-> n]})

\* A failed count is taken for zero.  A node that is not active or not
\* enabled skips the tick, which is a tick that does not happen.
Tick(n) ==
    /\ loop[n].pc = "wait"
    /\ RunnerCount(n) < MaxRunners \/ (DbErrors /\ MaxRunners > 0)
    /\ \E c \in Calls :
        /\ call[c].pc = "free"
        /\ call' = [call EXCEPT ![c] = [FreeCall EXCEPT !.pc = "pinned",
                                                        !.node = n,
                                                        !.open = TRUE]]
    /\ loop' = [loop EXCEPT ![n] = [pc |-> "fetch", tid |-> NoTask]]
    /\ UNCHANGED <<wanted, task, queue, stats, enq, canc, boot, pool, got,
                   withdrawn, crashes>>

\* Mutant of Timeout: the late answer is still taken.
TimeoutKeepsCall(n) ==
    /\ Timeouts
    /\ loop[n].pc = "fetch"
    /\ loop' = [loop EXCEPT ![n] = Waiting]
    /\ UNCHANGED <<wanted, task, queue, stats, enq, canc, call, boot, pool,
                   got, withdrawn, crashes>>

\* After fetchTimeout the node gives up; the handler on the master does not.
Timeout(n) ==
    /\ Timeouts
    /\ loop[n].pc = "fetch"
    /\ loop' = [loop EXCEPT ![n] = Waiting]
    /\ call' = [c \in Calls |-> IF call[c].node = n
                                THEN [call[c] EXCEPT !.open = FALSE]
                                ELSE call[c]]
    /\ UNCHANGED <<wanted, task, queue, stats, enq, canc, boot, pool, got,
                   withdrawn, crashes>>

-----------------------------------------------------------------------------
(* Fetch on the master.                                                    *)

\* Sort {p: 1, _id: 1}, limit 1, among the items with this nid.
Before(s, t) == prio[s] < prio[t] \/ (prio[s] = prio[t] /\ s <= t)
\* Mutants of Items: no filter in random mode; no query for random mode.
ItemsUnfiltered(nid) == {t \in queue : nid \in {assigned[t], NoNode}}
ItemsPinned(nid) == {t \in queue : assigned[t] = nid /\ nid # NoNode}

Items(nid) == {t \in queue : assigned[t] = nid}
IsFirst(t, nid) ==
    t \in Items(nid) /\ \A s \in Items(nid) : Before(t, s)

Found(c, nid) ==
    \E t \in Tasks :
        /\ IsFirst(t, nid)
        /\ call' = [call EXCEPT ![c].pc = "load", ![c].tid = t]

FindPinned(c) ==
    LET n == call[c].node IN
    /\ call[c].pc = "pinned"
    /\ \/ Found(c, n)
       \/ Items(n) = {} /\ call' = [call EXCEPT ![c].pc = "any"]
    /\ UNCHANGED <<wanted, task, queue, stats, enq, canc, boot, loop, pool,
                   got, withdrawn, crashes>>

FindAny(c) ==
    /\ call[c].pc = "any"
    /\ \/ Found(c, NoNode)
       \/ Items(NoNode) = {} /\ call' = [call EXCEPT ![c].pc = "reply"]
    /\ UNCHANGED <<wanted, task, queue, stats, enq, canc, boot, loop, pool,
                   got, withdrawn, crashes>>

\* A task that cannot be read, for whatever reason, is dequeued all the same.
LoadTask(c) ==
    LET t == call[c].tid IN
    /\ call[c].pc = "load"
    /\ \/ /\ Exists(t)
          /\ call' = [call EXCEPT ![c].pc = "assign", ![c].doc = task[t]]
       \/ /\ ~Exists(t) \/ DbErrors
          /\ call' = [call EXCEPT ![c].pc = "dequeue"]
    /\ UNCHANGED <<wanted, task, queue, stats, enq, canc, boot, loop, pool,
                   got, withdrawn, crashes>>

AssignNode(c) ==
    /\ call[c].pc = "assign"
    /\ Replace(call[c].tid, [call[c].doc EXCEPT !.node = call[c].node])
    /\ call' = [call EXCEPT ![c].pc = "dequeue", ![c].doc = NoDoc]
    /\ UNCHANGED <<wanted, queue, stats, enq, canc, boot, loop, pool, got,
                   withdrawn, crashes>>

\* Mutant of Dequeue: the item stays.
DequeueSkipped(c) ==
    /\ call[c].pc = "dequeue"
    /\ call' = [call EXCEPT ![c].pc = "reply"]
    /\ UNCHANGED <<wanted, task, queue, stats, enq, canc, boot, loop, pool,
                   got, withdrawn, crashes>>

Dequeue(c) ==
    /\ call[c].pc = "dequeue"
    /\ queue' = queue \ {call[c].tid}
    /\ call' = [call EXCEPT ![c].pc = "reply"]
    /\ UNCHANGED <<wanted, task, stats, enq, canc, boot, loop, pool, got,
                   withdrawn, crashes>>

\* The loop of n goes on with t, or waits for the next tick if there is none.
Fetched(n, t) ==
    [loop EXCEPT ![n] = IF t = NoTask THEN Waiting
                        ELSE [pc |-> "run", tid |-> t]]

Reply(c) ==
    LET n == call[c].node
        t == call[c].tid IN
    /\ call[c].pc = "reply"
    /\ call' = [call EXCEPT ![c] = FreeCall]
    /\ loop' = IF call[c].open THEN Fetched(n, t) ELSE loop
    /\ got' = IF call[c].open /\ t # NoTask
              THEN [got EXCEPT ![t] = @ \cup {n}] ELSE got
    /\ UNCHANGED <<wanted, task, queue, stats, enq, canc, boot, pool,
                   withdrawn, crashes>>

\* Any of the database calls but the read of the task ends the handler.
FetchFails(c) ==
    /\ DbErrors
    /\ call[c].pc \in {"pinned", "any", "assign", "dequeue"}
    /\ call' = [call EXCEPT ![c] = FreeCall]
    /\ loop' = IF call[c].open THEN Fetched(call[c].node, NoTask) ELSE loop
    /\ UNCHANGED <<wanted, task, queue, stats, enq, canc, boot, pool, got,
                   withdrawn, crashes>>

Fetch(c) ==
    \/ FindPinned(c) \/ FindAny(c) \/ LoadTask(c) \/ AssignNode(c)
    \/ Dequeue(c) \/ Reply(c) \/ FetchFails(c)

-----------------------------------------------------------------------------
(* The process of a node ends and is started again: runners, requests and  *)
(* goroutines are gone, MongoDB stays.  With the master go the handlers of *)
(* every node, and the new process begins with initTaskStatus.             *)

ProcessEnds(n) ==
    /\ pool' = [pool EXCEPT ![n] = [t \in Tasks |-> NoRunner]]
    /\ IF n = Master
       THEN /\ loop' = [m \in Nodes |->
                            IF m = n \/ loop[m].pc = "fetch" THEN Waiting
                                                             ELSE loop[m]]
            /\ call' = [c \in Calls |-> FreeCall]
            /\ enq' = [t \in Tasks |-> Abandoned(enq[t])]
            /\ canc' = [t \in Tasks |-> NoCancel]
            /\ boot' = Booting
       ELSE /\ loop' = [loop EXCEPT ![n] = Waiting]
            /\ call' = [c \in Calls |-> IF call[c].node = n
                                        THEN [call[c] EXCEPT !.open = FALSE]
                                        ELSE call[c]]
            /\ UNCHANGED <<enq, canc, boot>>
    /\ UNCHANGED <<wanted, task, queue, stats, got, withdrawn>>

\* A worker told to cancel a task whose process it has not started yet
\* dereferences nil: it is the second node of a task that runs on another.
\* (Here a task has one request at a time; TaskRunner has requests that
\* overlap, by which a task can be cancelled that its own node has not started.)
CancelPanics(n, t) ==
    /\ canc[t].pc = "forward" /\ canc[t].doc.node = n
    /\ n # Master
    /\ pool[n][t].pc = "starting"
    /\ ProcessEnds(n)
    /\ UNCHANGED crashes

Crash(n) ==
    /\ crashes < MaxCrashes
    /\ crashes' = crashes + 1
    /\ ProcessEnds(n)

-----------------------------------------------------------------------------
(* The task handler: run, and the life of a runner.  TaskRunner has the    *)
(* process, its signals and Cancel in detail.                              *)

RunnerExists(n, t) == pool[n][t].pc # "none"

\* NewTaskRunnerV2 reads the task; the runner keeps that document.
Launch(n) ==
    LET t == loop[n].tid IN
    /\ loop[n].pc = "run"
    /\ ~RunnerExists(n, t)
    /\ Exists(t)
    /\ pool' = [pool EXCEPT ![n][t] = [pc |-> "starting", doc |-> task[t]]]
    /\ loop' = [loop EXCEPT ![n] = Waiting]
    /\ UNCHANGED <<wanted, task, queue, stats, enq, canc, call, boot, got,
                   withdrawn, crashes>>

\* run fails: a runner is there, or the spider or the stream is not.  The
\* task is read again, and as it exists nothing is written.
LaunchFails(n) ==
    LET t == loop[n].tid IN
    /\ loop[n].pc = "run"
    /\ RunnerExists(n, t) \/ DbErrors
    /\ Exists(t)
    /\ loop' = [loop EXCEPT ![n] = Waiting]
    /\ UNCHANGED <<wanted, task, queue, stats, enq, canc, call, boot, pool,
                   got, withdrawn, crashes>>

\* run fails as the task was deleted, or for another error, and so does the
\* second read: its nil result is dereferenced and the node's process dies.
LaunchPanics(n) ==
    /\ loop[n].pc = "run"
    /\ ~Exists(loop[n].tid) \/ DbErrors
    /\ ProcessEnds(n)
    /\ UNCHANGED crashes

\* updateTask(running) writes the runner's copy and reads the task again; if
\* either fails, Run returns and the process is left to itself.
MarkRunning(n, t) ==
    /\ pool[n][t].pc = "starting"
    /\ \/ /\ Replace(t, [pool[n][t].doc EXCEPT !.status = "running"])
          /\ Exists(t)
          /\ pool' = [pool EXCEPT ![n][t] = [pc |-> "running", doc |-> task'[t]]]
       \/ /\ \/ Replace(t, [pool[n][t].doc EXCEPT !.status = "running"])
             \/ UNCHANGED task
          /\ ~Exists(t) \/ DbErrors
          /\ pool' = [pool EXCEPT ![n][t] = NoRunner]
    /\ UNCHANGED <<wanted, queue, stats, enq, canc, call, boot, loop, got,
                   withdrawn, crashes>>

\* Mutant of EndStatus: the status is left empty when Run fails early.
EndStatusEmpty(r) ==
    CASE r.pc = "none" -> {}
      [] r.pc = "starting" -> {""}
      [] r.pc = "running" -> {"finished", "error", "cancelled"}

\* The statuses Run may end with: files or command failing before the process
\* starts, then the exit of the process, which anybody may kill.
EndStatus(r) ==
    CASE r.pc = "none" -> {}
      [] r.pc = "starting" -> {"error"}
      [] r.pc = "running" -> {"finished", "error", "cancelled"}

End(n, t) ==
    /\ \/ \E s \in EndStatus(pool[n][t]) :
             Replace(t, [pool[n][t].doc EXCEPT !.status = s])
       \/ DbErrors /\ RunnerExists(n, t) /\ UNCHANGED task
    /\ pool' = [pool EXCEPT ![n][t] = NoRunner]
    /\ UNCHANGED <<wanted, queue, stats, enq, canc, call, boot, loop, got,
                   withdrawn, crashes>>

Handler(n) ==
    \/ Launch(n) \/ LaunchFails(n) \/ LaunchPanics(n)
    \/ \E t \in Tasks : MarkRunning(n, t) \/ End(n, t)

-----------------------------------------------------------------------------
(* initTaskStatus, concurrent with everything else.                        *)

\* A read that fails is printed, and the queue is emptied all the same.
BootScan ==
    /\ boot.pc = "scan"
    /\ \E read \in {TRUE} \cup {~DbErrors} :
          boot' = [pc |-> "purge",
                   stale |-> [t \in Tasks |->
                                 IF read /\ task[t].status \in {"pending", "running"}
                                 THEN task[t] ELSE NoDoc]]
    /\ UNCHANGED <<wanted, task, queue, stats, enq, canc, call, loop, pool,
                   got, withdrawn, crashes>>

\* DeleteMany(nil) empties the whole queue; its error is only returned.
BootPurge ==
    /\ boot.pc = "purge"
    /\ queue' = {} \/ (DbErrors /\ UNCHANGED queue)
    /\ boot' = [boot EXCEPT !.pc = "done"]
    /\ UNCHANGED <<wanted, task, stats, enq, canc, call, loop, pool, got,
                   withdrawn, crashes>>

\* One goroutine per task writes back the document read by BootScan.
BootSave(t) ==
    /\ boot.stale[t].status # "absent"
    /\ Replace(t, [boot.stale[t] EXCEPT !.status = "abnormal"])
    /\ boot' = [boot EXCEPT !.stale[t] = NoDoc]
    /\ UNCHANGED <<wanted, queue, stats, enq, canc, call, loop, pool, got,
                   withdrawn, crashes>>

Boot == BootScan \/ BootPurge \/ \E t \in Tasks : BootSave(t)

-----------------------------------------------------------------------------
Next ==
    \/ \E t \in Tasks : Enqueue(t) \/ Cancel(t) \/ DeleteTaskById(t)
    \/ \E n \in Nodes : Tick(n) \/ Timeout(n) \/ Handler(n) \/ Crash(n)
    \/ \E n \in Nodes, t \in Tasks : CancelPanics(n, t)
    \/ \E c \in Calls : Fetch(c)
    \/ Boot

Spec == Init /\ [][Next]_vars

\* The goroutines of a live process are scheduled, database calls return and
\* spiders end.  Users need not ask for anything.
FairSpec ==
    /\ Spec
    /\ \A t \in Tasks : WF_vars(InsertQueueItem(t)) /\ WF_vars(InsertStat(t))
    /\ \A n \in Nodes : WF_vars(Tick(n)) /\ WF_vars(Launch(n))
    /\ \A n \in Nodes, t \in Tasks :
          WF_vars(MarkRunning(n, t)) /\ WF_vars(End(n, t))
    /\ \A c \in Calls : WF_vars(Fetch(c))
    /\ WF_vars(Boot)

-----------------------------------------------------------------------------
(* Properties.                                                             *)

\* The queue as TaskQueue sees it: an Enqueue that stopped before its second
\* insert has put nothing into it.
stage == [t \in Tasks |->
             IF t \in queue THEN "queued"
             ELSE IF enq[t] \in {"idle", "item", "failed"} THEN "new"
             ELSE "gone"]

Queue == INSTANCE TaskQueue
    WITH assigned <- assigned, stage <- stage, got <- got

\* Fetch, Enqueue, Cancel and initTaskStatus together keep the promises of
\* TaskQueue although none of their steps is isolated from the others: a node
\* is handed a task once, only after its item was dequeued, and never a task
\* created for another node.
QueueRefinement == Queue!Spec

\* The fetch loop never finds a runner of the task it has just been handed:
\* run's "task already exists" cannot happen to it, so the pool never loses
\* track of a process (service_v2.go, run).
PoolNeverCollides ==
    \A n \in Nodes : loop[n].pc = "run" => ~RunnerExists(n, loop[n].tid)

\* What Cancel does guarantee of a pending task: when it removes the queue
\* item before any Fetch has read it, no node is ever handed the task.
WithdrawnNeverHanded == \A t \in withdrawn : got[t] = {}

\* Stale copies of a task document are held by Cancel, by Fetch, by runners
\* and by initTaskStatus; none of their writes brings back a deleted task.
DeletedStaysDeleted ==
    [][\A t \in Tasks :
          enq[t] # "idle" /\ task[t].status = "absent"
              => task'[t].status = "absent"]_vars

Settled(t) == task[t].status \in {"finished", "error", "cancelled", "abnormal"}

\* Without failures, a task enqueued once the start-up of the master is over
\* is executed in the end, and stays settled.
EnqueuedSettles ==
    \A t \in Tasks :
        (enq[t] = "item" /\ boot = [Booting EXCEPT !.pc = "done"])
            ~> [](Settled(t))

-----------------------------------------------------------------------------
(* What documentation or comments say and the code does not do.            *)

\* The API answers "Cancel task successful" and Cancel has set the status: a
\* cancelled task does not become a running one.
CancelledDoesNotRun ==
    [][\A t \in Tasks :
          task[t].status = "cancelled" => task'[t].status # "running"]_vars
=============================================================================
