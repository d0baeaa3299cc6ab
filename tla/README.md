# Crawlab in TLA+

A verification development of Crawlab, a distributed platform for running web
crawlers ("spiders").  It models the Go code of the V2 services, the ones the
program starts: everything is translated from `src/`, and a path below is
relative to it.

## The system

One **master** node and any number of **worker** nodes share a MongoDB
database.  The master serves the REST API, runs the task scheduler, the cron
scheduler and the monitor of the nodes, and is itself a node that runs tasks.
Workers reach MongoDB through the gRPC server of the master (the model clients
in `core/models/client`), fetch tasks by a unary gRPC call and receive requests
(PING, CANCEL_TASK) on a server stream.

## Components

| component | state | operations | what is hard | what makes it correct |
|---|---|---|---|---|
| task scheduler `core/task/scheduler` | collections `tasks`, `task_queue`, `task_stats` | Enqueue, Cancel, initTaskStatus, cleanupTasks | three inserts without isolation; whole documents written from old copies; start-up clean-up concurrent with requests | a task is queued once, a withdrawn task is not handed out, deleted tasks stay deleted |
| task server `core/grpc/server/task_server_v2.go` | the same collections | Fetch, Subscribe (data, logs), SendNotification | concurrent Fetch handlers, a transaction that isolates nothing, answers lost after the dequeue | an item goes to a node it is meant for, and not twice to the same node |
| task handler `core/task/handler/service_v2.go` | pool of runners, node document | Fetch loop, run, Cancel, reportStatus | limit computed from the database, error path that dereferences nil | no two runners of a task in a pool, limit of runners |
| task runner `core/task/handler/runner_v2.go`, `core/sys_exec` | process, signal channel, its copy of the task | Run, wait, startHealthCheck, Cancel, syncFiles, updateTask | goroutines sending on one unbuffered channel; kill escalation; process trees | the final status tells what happened to the process, the runner always ends |
| node membership `core/grpc/server/node_server_v2.go`, `core/node/service` | collection `nodes`, subscription map | Register, SendHeartbeat, Subscribe, Unsubscribe, Monitor, reportStatus | whole-document replaces of the same node by several goroutines, check-then-insert | a live worker is online in the end, a dead one offline, one document per key |
| gRPC client `core/grpc/client/client_v2.go` | connection, stream, message channel | connect, subscribe, handleStreamMessage | reconnection after EOF, a receiver that blocks | a live worker keeps a subscription |
| schedule service `core/schedule/service_v2.go` | cron entries, `schedules` | Init, Enable, Disable, Update, schedule | entry ids kept in documents and in memory; concurrent update | an enabled schedule has one entry, a disabled one none |
| spider admin `core/spider/admin` | `tasks` through the scheduler | Schedule, scheduleTasks | partial failures, which nodes get a task | one task per selected node |
| spider controllers `core/controllers/spider_v2.go` | `spiders`, `spider_stats`, `tasks`, directories | PostSpider, PostSpiderRun, DeleteSpiderById and lists | cascade in several writes, requests in between | what a deletion leaves came after it; other spiders are not touched |
| process daemon `core/process/daemon.go` | supervised process, error counter | Start, Stop | Stop between two attempts | after Stop nothing is started |
| file synchronisation `core/controllers/sync_v2.go`, `core/fs` | files of a spider on master and worker | scan, download, delete | edits during a synchronisation, several runners in one directory, torn files | a spider starts with files the master has had since the scan |
| task statistics and logs `core/task/stats`, `core/task/log` | caches, log files | InsertData, InsertLogs, cleanup | caches shared by streams | rows are stored in the spider's collection |
| notification, export, users, dependencies, system | own collections | triggers, exports, creation of users | check-then-insert, asynchronous jobs | listed with the later modules |

The program also holds libraries (`vcs`, `fs`, `trace`, `template-parser`),
generated gRPC code, v1 services that nothing starts any more, a built front
end and deployment files; they keep no state of the system and are left out.
`PROJECT.json` lists every part with what is modelled of it.

How the parts interact: the controllers call the scheduler, the schedule
service and the spider admin in the process of the master; the scheduler and
the task server share the collections `tasks`, `task_queue` and `task_stats`;
workers call the task server and the node server by gRPC, and reach the
collections through the master too; the master reaches a worker only by the
stream the worker has subscribed to.  Nothing is shared between processes but
MongoDB, and documents are written back whole (`ReplaceById`,
`db/mongo/col.go:105`), which is why copies that have grown old are a theme of
every module.

## Modules

| module | stands for | extends |
|---|---|---|
| `TaskQueue` | abstract: what the queue of tasks promises | |
| `TaskDispatch` | scheduler, task server, task handler, start-up of the master | |
| `TaskRunner` | one runner: its goroutines, process, cancel requests, statistics | |
| `RunnerLife` | abstract: what a runner promises to those who see the process, the status and the answers | |
| `NodeMembership` | node server, monitor, worker process, stream of its client | |
| `ScheduleCron` | schedules, cron entries, their requests and `update` | |
| `FileSync` | the synchronisation of a spider's directory, edits on the master | |
| `SpiderLife` | spiders, what refers to them, requests for tasks, deletions | |
| `TaskDispatchProofs` | types of `TaskDispatch`, and that deleted tasks stay deleted | `TaskDispatch` |
| `TaskDispatchSafety` | its inductive invariant, and that it implements `TaskQueue` | `TaskDispatchProofs` |
| `TaskRunnerProofs` | types and inductive invariant of `TaskRunner`, and that it implements `RunnerLife` | `TaskRunner` |
| `NodeProofs` | types and inductive invariant of `NodeMembership` | `NodeMembership` |
| `ScheduleProofs` | types and inductive invariant of `ScheduleCron` | `ScheduleCron` |
| `SpiderLifeProofs` | types and inductive invariant of `SpiderLife` | `SpiderLife` |
| `FileSyncProofs` | types and inductive invariant of `FileSync` | `FileSync` |
| `MC...` | constants and symmetry for TLC | the module named |

`TaskQueue` is instantiated by `TaskDispatch` (`Queue == INSTANCE TaskQueue WITH
...`), with `stage` computed from the queue and from the progress of Enqueue, as the
abstract specification it implements.  `TaskRunner` instantiates `RunnerLife` in the
same way (`Life`), with `told` computed from the cancel requests; the status that
Run has decided on is due as long as Run has not written it (`run.pc = "doc"`).
What `TaskRunner` has in detail is a step of `TaskDispatch`: between `MarkRunning`
and `End` of a runner lie the process, the channel and the kill, so that a running
task may end in any of the final statuses; a cancel that is sent to a runner ends in
`TaskDispatch` where it goes on in `TaskRunner`; before the process lies the
synchronisation of files, which is `FileSync`.  `SpiderLife` has the dispatch and
the life of a task as one step each (`Launch`, `End`).

### TaskDispatch

State and code: `task`, `queue`, `stats` are the collections; the items of the
queue are task ids, since node and priority of an item never change after it is
made (`assigned`, `prio`).  `enq`, `canc` and `call` hold how far an Enqueue, a
Cancel and a Fetch handler have come, with the document a handler carries;
`boot` is `initTaskStatus`; `loop[n]` and `pool[n]` are the fetch loop and the
`runners` map of node n.  `got` and `withdrawn` are history, read by properties
only.

Every database call is a step of its own, because the transaction of Fetch isolates
nothing (`db/mongo/transaction.go` starts a session, but the calls inside do not use
its context).  A node process may crash at any time and starts again; with the
master go all handlers.  An answer of Fetch may be late or lost. A call of the
database may fail when `DbErrors` is set: Cancel then ends half-way, or writes the
status cancelled once more when it cannot read the node; the start-up that cannot
read the tasks goes on to empty the queue; a runner whose update fails leaves the
pool, and its process to itself; a start that fails for such an error may kill the
node.  A cancel that reaches a runner with a process changes nothing here, as the
kill is a matter of `TaskRunner`.  Two errors of the code end a process and are
actions: `LaunchPanics` (`task/handler/service_v2.go:120` uses the result of a
failed read) and `CancelPanics` (a cancel message reaches a worker whose runner has
no process yet; `TaskRunner` shows how that comes about).

### TaskRunner

`run`, `waiter`, `health` are the goroutines of Run, wait and startHealthCheck;
Run's steps inside updateTask are single steps, as the stat and the stat of the
spider are read and written on the way.  `root`, `child` and `exit` are the
process tree; a process that ended is a zombie until `cmd.Wait`.  `cancel` is a
cancel request from the controller on: the check of the status
(`CheckCancellable`), the second read of the task (`ReadTask`), the write of the
whole document (`SaveCancelled`) and the call of the runner (`GetRunner`) are
steps of their own, so that a verdict written in between is overwritten by
cancelled, and a second request reads what the first one wrote.  `killer` is the
goroutine of killProcessWithTimeout.  A request that finds no process dereferences
nil (`NilProcess`): gin turns that into an error on the master, a worker ends
(`run.pc = "crashed"`).  A worker handles one message at a time (`WorkerBusy`).
`erasing` is a deletion of the task between its two calls.  `cmd.ProcessState` is
read without synchronisation: HealthCheck may see its old value.  The other error
that wait distinguishes (no ExitError) cannot come from a process that was started
once, without copied pipes.

### NodeMembership

`node` has the documents with the key of the worker.  `call` are the handlers of
Register and SendHeartbeat on the master and the task handler's report, each
with the copy it has read; `mon` is the goroutine of the monitor for a document,
`offs` the `setWorkerNodeOffline` goroutines it does not wait for.  `stream[s]`
is a subscription as the server sees it, `subs` the one in its map, `cur` and
`rx` what the client receives from.  The two ends of a stream notice its end in
any order.  The message of a ping is abstracted: what counts is whether the
stream takes it, since its answer is a heartbeat like those sent by the ticker.
An Unsubscribe may find the handler of the stream not waiting yet, and leaves it.
`offs` is a set: goroutines that hold the same copy are taken as one.
One worker stands for all: documents, map entries and monitor goroutines of
different workers never meet.

### ScheduleCron

`doc` is the collection, `entries` and `nextId` the cron of the running process,
`mu` the lock of the service, `req` the requests of users (a form is read, edited
and put back, which may fail), `upd` the loop of `update`, whose fetch, list of
entries and removals are separate steps.  A restart forgets the entries and starts
the ids from 1.

### FileSync

`master` and `worker` are the spider's directory on either side, as functions from
paths to what is there: nothing, a directory, a version, an empty file, or
something the master never had.  `run[r]` is syncFiles of runner r, with the list
it got and a goroutine (`job`) for each path; opening a file truncates it and
writing it is another step, on the worker as well as on the master (`saving`), so
that others see what is in between.  Making the directories and opening the file on
the worker are one step.  Two goroutines that have one path open write
to the same file; a file that is removed while it is open is written to nowhere.
A crash, or a connection that breaks, leaves a part of the file.  `since`, `alone`
and `excused` are history: what the master has had at each path since the scan of
r, whether anybody else wrote to the worker, and whether there was a reason for r
to fail.  A download is not atomic: `Get` opens the file on the master and fixes the
length of the answer; as long as the goroutine has not copied it (`live`), a Save of
that file adds what the answer may now hold to `body[p]` (the new content or a
mixture) and marks the path `torn`, so that the copy may break off as well.  A file
that is removed or replaced by a rename stays readable for those who have it open.
The path goes into the URL without being escaped; `Asked[p]` is the path the master
takes out of the query for p, which is another one for names with `&`, `#` or `%`.
The list of files is one step, with its failures: the walk over a
directory that changes at the same time ends in an error or in one of the lists.

### SpiderLife

`spider`, `sstat`, `sched`, `task`, `queue`, `stats` are collections, `folder` and
`logs` directories of the master.  `make`, `source`, `ask`, `del` and `tdel` are the
requests on their way, one database call a step: PostSpider, PostSpiderDataSource,
the four ways to ask for a task (run a spider, run a task, restart a task, a cron
entry), all of which end in Schedule and Enqueue, and the deletions of spiders and
tasks.  `ask[t].of` is the spider of task t.  DeleteSpiderById and DeleteSpiderList
do the same for one id or several; DeleteTaskById and DeleteList differ in that the
latter never deletes stats (its second call names the wrong collection) and takes
ids of tasks that are there no more (`DeleteListed`).  The transaction around a
deletion isolates nothing, as in Fetch; a deletion may fail half-way and may be
repeated, since nothing complains that the spider is gone.  `late`, `gone`, `cut`
and `wrote` are history: which documents came too late, which spiders were deleted,
which stats and logs a failed deletion did not come to, and which tasks wrote to
their logs when they were gone.

## Runs

| run | question | bounds |
|---|---|---|
| `dispatch_faults` | is an item handed out at most once to a node, with faults? | 1 task, master and worker, 2 handlers, 1 crash, timeouts |
| `dispatch_users` | does a deleted task stay deleted, and does a cancel that wins the item win the task? | 1 task, 1 handler, a cancel, a deletion, database errors |
| `dispatch_live` | is an enqueued task executed? | no faults, 2 handlers |
| `dispatch_cancelled` | (violated) does a cancelled task stay away from running? | 1 node |
| `runner` | do status, statistics and process agree in the end, and is this the life a runner promises? | a worker, a cancel request, a batch of results, late stat, deletion, database errors |
| `runner_cancel` | which requests reach a runner without a process, what do their answers tell, does a cancel end the process, and does the runner leave? | the master, 2 cancel requests, no errors or deletions |
| `nodes` | do stale writers keep the document consistent? | 1 document, 2 handlers, 1 stream, an end of a process, a form, deletion, database errors |
| `nodes_live` | does the status follow the worker? | 1 handler, 2 streams, an end of a process, a form |
| `schedule` | do entries and schedules agree in the end? | 2 schedules, 2 requests, a restart, deletion, errors |
| `schedule_armed` | (violated) does an enabled schedule have its entry? | 1 schedule, 1 request |
| `filesync` | does a spider start with the files of the master? | a directory, a file in it, 2 versions, 2 runners, 2 edits, failures, crashes |
| `spider` | what does a deletion take away, and what not? | 2 spiders (1 to be created, the other one deleted and revived), a schedule, an old task and a new one, database errors |

Why the bounds suffice for the questions: a race over a task document needs the
task and two parties, so one task with two nodes and two handlers shows every
pair of Fetch, Cancel, deletion, runner and start-up; what two tasks add (being
mistaken for one another) is covered by the theorems, which hold for any number
of tasks, nodes and handlers.  One crash shows each state a crash can interrupt;
the model forgets the same after every crash.  Two streams are one that is
replaced by another.  Two schedules and two requests are needed for one to
take the entry of the other, and for two entries of one schedule.  In `filesync`,
what goroutines of different paths have in common is the directory they are in, so
a directory and a file in it show their interplay; every path starts in each state
the master can have, and two edits are enough to change one file twice, two paths,
or a file and a directory, and to save a file while it is downloaded.  There every
name is asked for as it is; what other names do is in the model and in the theorems,
which hold for any `Asked`, but in no run.  In
`runner_cancel` two requests are the least that overlap, and on the master they
run side by side, which a worker does not allow; what a request does to a worker
is in `runner`, where the steps of one request may lie between any steps of the
runner.  Database errors and deletions, left out in `runner_cancel`, only make Run
return earlier.  In `spider` the old task shows what a deletion lists, the
new one every place a request can be at meanwhile; deletions of several spiders
at once are left to the theorems.  Symmetry is used between Fetch
handlers, between handlers of the node server and between runners in `filesync`, in
runs without liveness only.

`CHECK_DEADLOCK` is off because instances end: bounded requests are all made and
all spiders have finished.

### What they show

- **The queue** (`QueueRefinement`, `PoolNeverCollides`): although nothing
  isolates its steps, a node is handed a task only after its item was removed,
  at most once, and never a task made for another node; so the pool never loses
  a process by a second runner of the same task.
- **Cancelling** (`WithdrawnNeverHanded`): the guarantee that Cancel does give is
  about the queue item: removed before a Fetch has read it, the task never runs.
- **Deleting** (`DeletedStaysDeleted`, three modules): no stale copy revives a
  document, as ReplaceById is not an upsert.
- **Execution** (`EnqueuedSettles`): without faults, from the second step of
  Enqueue on, a task is executed and stays settled.
- **The runner**: the final status agrees with the exit (`StatusTellsExit`), the
  runner is never stuck on its channel (`RunnerLeaves`), a goroutine is left behind
  only after a kill (`SenderLeftOnlyAfterKill`), a cancel request that was sent to
  the runner and reports success has seen the process end (`CancelOkMeansEnded`) and
  one that reached it ends it (`CancelKills`); a single request never meets a runner
  whose process is still to be started, but one that overlaps another may, and
  panics (`NilProcessOnlyAfterOverlap`); no process outlives a runner that watched
  it (`OrphanNeverWatched`); the statistics are ordered and never too high
  (`EndedStatStarted`, `CountedTaskStarted`, `ResultsNeverOvercounted`).  To those
  who see no goroutine (`LifeRefinement`), a runner decides on running and then on a
  verdict, or on an error at once, writes each once and before it decides again, and
  gives the verdict when the process was waited for and in accordance with its exit;
  what users write between is overwritten, and a request to cancel that has read the
  task before a verdict writes cancelled over it.  A runner may return without
  writing what it decided on, and without a verdict: the update failed, or the task
  was deleted.
- **Nodes**: no writer makes a node inactive without showing it offline, so the
  monitor never loses sight of it (`StatusMatchesActive`); a worker that is gone
  ends up offline (`DeadWorkerOffline`), one that stays connected ends up online
  (`LiveWorkerOnline`), if now and then a heartbeat is written while nobody else
  holds a copy of the document.  That condition is part of the property: the
  periods are seconds and the windows milliseconds, but nothing in the code
  excludes that every heartbeat is overtaken.
- **Schedules**: until a restart, a schedule that nobody touches stays armed
  (`UntouchedStaysArmed`) and what requests leave in the cron is removed
  (`LeftoversGo`); after a restart it is only certain that every entry's id is
  the one of some enabled document (`EntriesAreNamed`).

- **Files** (`StartsFresh`): whatever earlier synchronisations, crashes and spiders
  left in the directory, after a synchronisation that nobody disturbed on the worker
  every file is one the master has had since the scan, except a file that was saved
  while it was downloaded, which may be a mixture of two versions, and one whose
  name the query does not carry, which may be another file of the master; files may
  be of different times, and old directories may stay.  A synchronisation fails only
  for a reason outside it (`FailsForAReason`); that the place of a directory is
  taken by a file is such a reason, and it never goes away by itself; so is a name
  that the query does not carry.
- **Spiders**: a deletion that went through leaves of its tasks only those whose
  document came too late; stats only of these, of tasks it could not list, since a
  user or a deletion that failed had deleted them, and of those whose stat came when
  they were gone; logs only of all these and of tasks that went on writing
  (`DeletionLeavesOnlyLate`).  Nothing is claimed of queue items, which a deletion
  does not touch: a node that fetches one finds no task.  Spiders that were revived
  meanwhile are left out.  And no task of another spider disappears
  (`OthersUntouched`).

The two violated properties quote a statement of the repository; `PROJECT.json`
("findings") has the quotes.

## Fairness

Goroutines of a live process are scheduled, tickers tick, and calls of the
database return: weak fairness on the steps of handlers, loops and goroutines.
Nothing is assumed of users, crashes, connections or the spider, except in
`dispatch_live`, where a started spider ends.  `nodes_live` assumes that the
connection of a process that is gone is noticed (TCP keep-alive), and, by strong
fairness, that a write that is tried again every cycle does not fail every time.

## Proofs

`TaskDispatchProofs!TypeCorrect` proves `Spec => []TypeOK` of `TaskDispatch`, with
one step per action.  `ConstantsAssumption` is all that is assumed of the
constants: any set of nodes that has the master, any set of natural numbers as
tasks, any number of handlers and crashes.  `DeletedIsGone` proves `DeletedStaysDeleted`
there: a write is a replacement, and replacing what is absent changes nothing
(`ReplacedAbsent`), so that only the insert of Enqueue makes a document.

`TaskDispatchSafety` proves `PoolNeverCollides`, `WithdrawnNeverHanded` and
`QueueRefinement`.  None is inductive.  The invariant `IInv` adds to the types
where a task can be while it has been handed out, withdrawn or put into a pool:
`CarryInv` says that a handler or loop that needs a task or a node carries one,
and `Safe` is the conjunction of `CallInv` (an open handler belongs to a loop that
waits for it, one per node), `HoldInv` (a task a handler holds was inserted, is
not withdrawn, is meant for that node or for any, and has left the queue before
the answer), `QueueInv` (a queued task was handed to nobody), `GotInv` (a node that
was handed a task has no second answer with it on the way), `PoolInv` (runners, and
the loop about to start one, stem from an answer) and `WithdrawnInv`.  The key to
`GotInv` is that the loop of a node is sequential and that Timeout and a crash close
the handler's answer.  The lemmas follow the actions: `QuietStep` for those that
leave queue, handlers, loops and pools alone, `HandlerStep`, `FoundStep` and
`MoveStep` for Fetch, one lemma each for Enqueue, Cancel, crash, tick, timeout
and the task handler.  `RefinementStep` maps every step to `Put`, `Remove`,
`Hand` or a stutter under `IInv`; `QueueImplemented` is the refinement theorem.

`SpiderLifeProofs` proves `TypeOK`, `DeletionLeavesOnlyLate` and `OthersUntouched` of
`SpiderLife` from `SpiderAssumption` alone: any spiders, schedules, tasks and
requests.  Its `IInv` adds to the types that a request has a task only after its
insert and a stat only at its end (`FreshInv`), that a deletion is about spiders
that are gone and lists only their tasks (`ScopeInv`), that a stat which has lost
its task is either on the list of the deletion at work or out of the reach of any
(`LossInv`, which contains `OthersUntouched`), and that what a deletion has not
removed yet is on the list it read once (`ListedInv`, which is
`DeletionLeavesOnlyLate` for every step of the deletion; `LogInv` says where a log
may be whose task is gone).  `LossInv` is needed when
the tasks are listed: a stat whose task cannot be found then must be one the
property excuses.  One deletion at a time is a bound of the model and of the proof.

`FileSyncProofs` proves `TypeOK`, `StartsFresh` and `FailsForAReason` of `FileSync`
from `FileAssumption`: any set of paths, as long as what is above a path is closed
under going up, any way of asking for them, any versions, runners and edits.  That a
goroutine which has a file open writes to a file, and that a Save does, is needed
for the shape of the trees (`OpenInv`).  The rest is about a runner that alone
writes to the worker (`AloneInv`): what the list of the master says before the scan
(`ListInv`); for each path, what its removal or goroutine is about to do and that it
is right when done, unless there was an error, and what its answer may contain
(`PathInv`; a path that is torn is excepted, and `MasterRun` shows that a Save adds
to no other answer); and, as long as nothing is excused, that the master is as in
the list and no file is where the other has a directory, so that no goroutine can
fail (`QuietInv`).  The lemmas are one per step of the runner; `EditGood` is about
the users, and `AloneKept` puts them together: every other step ends the runner's
being alone or touches nothing `AloneInv` mentions.

`TaskRunnerProofs` proves every safety property of `TaskRunner` and that it
implements `RunnerLife`, from `RunnerAssumption`: any number of requests and of
batches of results, on the master or not, with and without deletions and errors.  No
property is inductive: what Run writes depends on who sent on the channel, and what
was sent on what the sender had seen of the process.  `IInv` follows that chain.
`PhaseInv` says where Run is for each status it has decided on, and that the status
is the one for the signal received; `WatchInv` what wait and the health check know
when they send, and what is true of the process after a signal was taken (the sender
is over, so that a second signal can only come from the other one); `ProcessInv`
what the document can show before the process exists: never running, and cancelled
only if some request has written it; `RequestInv` that a request which goes on to
the runner then has read what another one wrote, and what a request knows of the
process when it verifies; `CountInv` that the stat, the copy of it Run holds and the
increments on their way never add up to more than the rows stored, and that the
spider's results are added in the last update only.  The copy is the reason why the
bound on the stat alone is not inductive: Run writes it back whole.  `ProcessStep`
is the lemma for all steps that at most end the process.  `LifeImplemented` maps
each action under `IInv`: Prepare to `Fail` or a stutter, StartProcess to `Start` or
`Fail`, RecordPid to `Report`, ReplaceTask to `Write` or `Leave`, the writes of
requests to `Cancel`, NilProcess to `Leave` or a stutter, Receive to `Judge`, Exit,
Killed and the kills to `End`, Wait to `Reap`, Verify to `Tell`; the steps on
statistics, the health check and most of a request are stutters (`Unseen`).

`NodeProofs` proves `TypeOK`, `StatusMatchesActive` and `DeletedStaysDeleted` of
`NodeMembership` from `MembershipAssumption`: any number of documents, handlers,
streams, forms and stops.  `StatusMatchesActive` is not inductive, as stale copies
are written back: `IInv` says the same of every copy that a handler, the monitor, a
goroutine it left behind, a report or a form holds (`SoundDoc`).  The documents that
code builds are sound whatever they are built from (`SoundDocs`).

`ScheduleProofs` proves `TypeOK`, `UntouchedStaysArmed` and `DeletedStaysDeleted` of
`ScheduleCron` from `ScheduleAssumption`: any schedules, requests and
restarts.  `UntouchedStaysArmed` needs two facts.  A request removes an entry by the id
in a copy of a document, and until a restart that id is of the request's own schedule
(`OwnInv`; `NamedOwn` and `OwnStep` for the steps that give no new id): the ids are
never used twice as long as the process lives, and start from 1 again after it.  And
`update` removes what was in the cron and is named by no document it fetched
(`UpdateInv`), so what it fetched of an untouched schedule protects its entry.

Every safety and action property of the passing runs is stated by a theorem.  Only
model-checked are the liveness properties, which are out of reach of the prover:
`EnqueuedSettles`, `RunnerLeaves`, `CancelKills`, `LiveWorkerOnline`,
`DeadWorkerOffline`, `LeftoversGo` and `EntriesAreNamed`.

## Known gaps of the code that no run states

Found while modelling, without a sentence of the repository that promises
otherwise, except where one is quoted:

- Queue: an Enqueue that fails half-way, or a lost answer of Fetch, leaves a task
  pending for ever; two nodes may both be handed a task made for any node, since
  their Fetch handlers may find one item before either removes it; running tasks
  of a crashed worker count against its limit until the master restarts;
  `cleanupTasks` asks for a field that does not exist.
- Cancel: a request that read the task before its verdict overwrites the verdict with
  cancelled, and the runner of a live process overwrites cancelled in turn; the second
  of two overlapping requests for a task that was handed out but not started ends
  the worker.
- Runner: a killed task may end as an error instead of cancelled, when the health
  check misses the process first.  A task whose spider is gone stays pending: the
  error path of the fetch loop (`core/task/handler/service_v2.go:120`) acts only
  if it cannot read the task, and then uses what it could not read.
- Data: the first batch of results of a task meets a cache that answers nil
  (`core/task/stats/service_v2.go:91`).
- Nodes: the client of a worker does not subscribe again after EOF or after 15
  minutes without a master, and then can neither be pinged nor cancel; two
  Subscribe handlers in the wrong order leave the broken stream in the map; an
  Unsubscribe deletes a key that is not the one of the subscription; two Register
  handlers of one key may both insert (the bound of one document keeps the second
  insert out of the runs).
- Schedules are not armed again after a restart of the master, and stale entry ids
  of two schedules may be equal then.
- Files: where the master has replaced a directory by a file, or a file by a
  directory, every later synchronisation of a worker that has the old one fails;
  runners of one spider on one worker truncate and remove each other's files; the
  files of one synchronisation may be of different times; a file saved during its
  download may arrive as a mixture, without an error; files with `&`, `#` or `%` in
  their names are asked for by another name (`core/task/handler/runner_v2.go:418`);
  directories the master
  no longer has stay for one more synchronisation, or several.
- Spiders: deleting one leaves its directory, since the goroutine that is to remove
  it reads the document that is gone by then (`core/controllers/spider_v2.go:400`),
  and its schedules, although `CHANGELOG.md:272` says that both are removed; a run
  for all or for selected nodes makes one task, for the first node
  (`core/spider/admin/service_v2.go:76`), and the mode of the spider itself is not
  looked at when nodes are chosen; changing the data source is refused as a
  duplicate, or revives a spider that was deleted meanwhile; DeleteList leaves all
  stats; a deletion of a spider leaves the queue items of its tasks; a deletion that
  fails between tasks and stats cannot be completed by another; the clean-up of logs
  removes the directory of a task that runs longer than `log.ttl`, for writing to a
  file does not change the date of its directory.

## Not modelled

Of the modelled parts: the log readers of the runner; the data and log streams of
the task server beyond counting; the document of the master node and the generic
requests that create or change node documents; `cleanupTasks` of the scheduler,
whose query matches no task; the unbuffered channel between the worker's receiver
and its handler; copying of files and spiders in git repositories, whose directories
several spiders share; which node a request chooses.  A form may change any field of
a document; only the fields a module has matter.  Of the rest see the table above:
each is planned below or is pure input and output.  The front end is in the
repository as built assets and vendored libraries with some configuration
(`frontend/`): it keeps no state of the system and is not modelled.

## Plan

Done, in this order: `TaskQueue`, `TaskDispatch`, `TaskRunner`, the proofs of
`TaskDispatch`, `NodeMembership`, `ScheduleCron`, then `FileSync` and `SpiderLife`
with their proofs, `RunnerLife`, and the proofs of `TaskRunner`, `NodeMembership` and
`ScheduleCron`.  Next:

1. An abstract specification of the cron entries of a schedule, which
   `ScheduleCron` implements until a restart.
2. `StreamClient`: the message channel, CANCEL_TASK and head-of-line blocking,
   composed with `NodeMembership`.
3. `TaskData`: InsertData and InsertLogs, the cache of database services, the
   readers of a process.
4. Small ones: process daemon, exports, creation of users, dependency
   synchronisation; cron ranges as a recursive function checked against a
   definition by sets.
