--------------------------- MODULE NodeMembership ---------------------------
(***************************************************************************)
(* How the master knows whether a worker is there: registration and        *)
(* heartbeats (core/grpc/server/node_server_v2.go), the monitor of the     *)
(* master (core/node/service/master_service_v2.go), the worker's process,  *)
(* and the stream it subscribes to (core/grpc/client/client_v2.go), by     *)
(* which the master pings it.                                              *)
(*                                                                         *)
(* One worker is enough: documents are found by the worker's key, the      *)
(* subscription map is indexed by it and the monitor handles every         *)
(* document in a goroutine of its own.  What makes it hard is that all     *)
(* writers replace the whole node document from the copy they have read:   *)
(* the handlers, the monitor, the goroutines it leaves behind, the task    *)
(* handler's report and the form a user has open.                          *)
(***************************************************************************)
EXTENDS Naturals

CONSTANTS
    MaxDocs,     \* bound: node documents inserted for the worker's key
    MaxStreams,  \* bound: subscriptions of the worker
    Calls,       \* bound: handlers the server runs for the worker at a time
    MaxStops,    \* bound: ends of a process, master's or worker's
    MaxForms,    \* bound: forms a user opens on a node document
    Deletable,   \* BOOLEAN: a user may delete a node document
    DbErrors     \* BOOLEAN: a database call may fail

ASSUME MembershipAssumption ==
    /\ MaxDocs \in Nat
    /\ MaxStreams \in Nat
    /\ MaxStops \in Nat
    /\ MaxForms \in Nat
    /\ Deletable \in BOOLEAN
    /\ DbErrors \in BOOLEAN

VARIABLES
    \* MongoDB
    node,      \* the documents with the worker's key
    inserted,  \* how many were inserted
    \* the master
    master,    \* its process is up
    call,      \* handlers of the worker's requests
    mon,       \* the goroutine of the monitor for each document
    offs,      \* setWorkerNodeOffline goroutines the monitor left behind;
               \* those that hold the same copy are taken as one
    subs,      \* the stream in the subscription map, or 0
    unsub,     \* an Unsubscribe request is on its way
    \* subscriptions, as the server sees them
    stream,
    \* the worker
    worker,    \* its process
    cur,       \* the stream it receives from
    rx,        \* the goroutine handleStreamMessage of its client
    \* users
    form,      \* a node document open in the front end
    forms,     \* forms opened so far
    stops      \* ends of a process so far

database == <<node, inserted>>
server == <<call, mon, offs>>
streams == <<subs, unsub, stream>>
process == <<worker, cur, rx>>
users == <<form, forms>>
vars == <<node, inserted, master, call, mon, offs, subs, unsub, stream,
          worker, cur, rx, form, forms, stops>>

-----------------------------------------------------------------------------
Docs == 1..MaxDocs
Streams == 1..MaxStreams

NodeDoc == [status : {"absent", "registered", "online", "offline"},
            active : BOOLEAN]
NoDoc == [status |-> "absent", active |-> FALSE]

\* A handler: Register, SendHeartbeat, or the report of the task handler,
\* which reads the document on the worker and has it replaced on the master.
\* open: the process that called is still waiting.
CallState == [pc : {"free", "find", "insert", "count", "write"},
              kind : {"register", "heartbeat", "report"},
              id : 0..MaxDocs, copy : NodeDoc, open : BOOLEAN]
FreeCall == [pc |-> "free", kind |-> "heartbeat", id |-> 0, copy |-> NoDoc,
             open |-> FALSE]

MonState == [pc : {"idle", "check", "write"}, copy : NodeDoc]
Idle == [pc |-> "idle", copy |-> NoDoc]

Copy == [id : 0..MaxDocs, copy : NodeDoc]
NoCopy == [id |-> 0, copy |-> NoDoc]

\* late: the connection is gone before the handler has run.
StreamState == {"new", "opened", "late", "serving", "broken", "ended"}

\* Each variable holds a value of the shape the code gives it.
TypeOK ==
    /\ node \in [Docs -> NodeDoc]
    /\ inserted \in 0..MaxDocs
    /\ master \in BOOLEAN
    /\ call \in [Calls -> CallState]
    /\ mon \in [Docs -> MonState]
    /\ offs \subseteq Copy
    /\ subs \in 0..MaxStreams
    /\ unsub \in BOOLEAN
    /\ stream \in [Streams -> StreamState]
    /\ worker \in {"down", "start", "register", "read", "up", "stopping"}
    /\ cur \in 0..MaxStreams
    /\ rx \in {"none", "recv", "resubscribe", "returned"}
    /\ form \in Copy
    /\ forms \in 0..MaxForms
    /\ stops \in 0..MaxStops

Init ==
    /\ node = [d \in Docs |-> NoDoc]
    /\ inserted = 0
    /\ master = TRUE
    /\ call = [c \in Calls |-> FreeCall]
    /\ mon = [d \in Docs |-> Idle]
    /\ offs = {}
    /\ subs = 0
    /\ unsub = FALSE
    /\ stream = [s \in Streams |-> "new"]
    /\ worker = "down"
    /\ cur = 0
    /\ rx = "none"
    /\ form = NoCopy
    /\ forms = 0
    /\ stops = 0

Existing == {d \in Docs : node[d].status # "absent"}
Up == worker \in {"up", "stopping"}

\* Mutant of Replaced: an upsert.
ReplacedUpsert(d, doc) == [node EXCEPT ![d] = doc]

\* ReplaceById: a document that is gone stays gone.
Replaced(d, doc) == IF d \in Existing THEN [node EXCEPT ![d] = doc] ELSE node

\* The write of a copy, whose error stays without consequence.
WriteBack(d, doc) ==
    /\ \/ node' = Replaced(d, doc)
       \/ DbErrors /\ UNCHANGED node
    /\ UNCHANGED inserted

-----------------------------------------------------------------------------
(* Requests of the worker to the master.                                   *)

Begin(kind, pc, d, doc) ==
    \E c \in Calls :
        /\ call[c].pc = "free"
        /\ call' = [call EXCEPT ![c] = [pc |-> pc, kind |-> kind, id |-> d,
                                        copy |-> doc, open |-> TRUE]]

\* What the end of the worker's process leaves: no goroutine of its own and
\* no one waiting, but requests that the master has are carried out.
WorkerEnds ==
    /\ worker' = "down"
    /\ rx' = "none"
    /\ call' = [c \in Calls |-> IF call[c].pc = "count" THEN FreeCall
                                ELSE [call[c] EXCEPT !.open = FALSE]]
    /\ UNCHANGED cur

\* Register panics when the request fails or exceeds its timeout.
CallRegister ==
    /\ worker = "start" /\ master
    /\ worker' = "register"
    /\ Begin("register", "find", 0, NoDoc)
    /\ UNCHANGED <<database, master, mon, offs, streams, cur, rx, users, stops>>

RegisterPanics ==
    /\ \/ worker = "register"
       \/ worker = "start" /\ ~master
       \/ worker = "read" /\ (DbErrors \/ ~master \/ Existing = {})
    /\ WorkerEnds
    /\ UNCHANGED <<database, master, mon, offs, streams, users, stops>>

\* Register reads the document back; then the worker's goroutines start.
ReadNode ==
    /\ worker = "read" /\ master
    /\ Existing # {}
    /\ worker' = "up"
    /\ UNCHANGED <<database, master, server, streams, cur, rx, users, stops>>

\* By ReportStatus, or in answer to a PING.
CallHeartbeat ==
    /\ Up /\ master
    /\ Begin("heartbeat", "find", 0, NoDoc)
    /\ UNCHANGED <<database, master, mon, offs, streams, process, users, stops>>

\* reportStatus of the task handler, one at a time.
ReadForReport ==
    /\ Up /\ master
    /\ \A c \in Calls : ~(call[c].kind = "report" /\ call[c].open)
    /\ \E d \in Existing : Begin("report", "count", d, node[d])
    /\ UNCHANGED <<database, master, mon, offs, streams, process, users, stops>>

SendReport(c) ==
    /\ call[c].pc = "count"
    /\ call' = [call EXCEPT ![c].pc = "write"]
    /\ UNCHANGED <<database, master, mon, offs, streams, process, users, stops>>

Request == CallRegister \/ RegisterPanics \/ ReadNode \/ CallHeartbeat
           \/ ReadForReport \/ \E c \in Calls : SendReport(c)

-----------------------------------------------------------------------------
(* Register and SendHeartbeat on the master.                               *)

\* Mutant of Refreshed: a heartbeat renews the time only.
RefreshedTime(kind, doc) ==
    IF kind = "register" THEN [status |-> "registered", active |-> TRUE]
                         ELSE [doc EXCEPT !.active = TRUE]

Refreshed(kind, doc) ==
    [status |-> IF kind = "register" THEN "registered" ELSE "online",
     active |-> TRUE]

\* GetOne by key: any of the documents, should there be several.
Find(c) ==
    /\ call[c].pc = "find"
    /\ \/ \E d \in Existing :
             call' = [call EXCEPT ![c].pc = "write", ![c].id = d,
                                  ![c].copy = Refreshed(call[c].kind, node[d])]
       \/ /\ Existing = {}
          /\ call' = [call EXCEPT ![c] =
                          IF @.kind = "register" THEN [@ EXCEPT !.pc = "insert"]
                                                 ELSE FreeCall]
    /\ UNCHANGED <<database, master, mon, offs, streams, process, users, stops>>

\* A Register that succeeds and is still waited for lets the worker go on.
Succeed(c) ==
    worker' = IF call[c].kind = "register" /\ call[c].open THEN "read"
                                                           ELSE worker

Insert(c) ==
    /\ call[c].pc = "insert"
    /\ inserted < MaxDocs
    /\ inserted' = inserted + 1
    /\ node' = [node EXCEPT ![inserted + 1] = [status |-> "registered",
                                               active |-> TRUE]]
    /\ call' = [call EXCEPT ![c] = FreeCall]
    /\ Succeed(c)
    /\ UNCHANGED <<master, mon, offs, streams, cur, rx, users, stops>>

Write(c) ==
    /\ call[c].pc = "write"
    /\ node' = Replaced(call[c].id, call[c].copy)
    /\ call' = [call EXCEPT ![c] = FreeCall]
    /\ Succeed(c)
    /\ UNCHANGED <<inserted, master, mon, offs, streams, cur, rx, users, stops>>

HandlerFails(c) ==
    /\ DbErrors
    /\ call[c].pc \in {"find", "insert", "write"}
    /\ call' = [call EXCEPT ![c] = FreeCall]
    /\ UNCHANGED <<database, master, mon, offs, streams, process, users, stops>>

Handle(c) == Find(c) \/ Insert(c) \/ Write(c) \/ HandlerFails(c)

-----------------------------------------------------------------------------
(* The monitor: a cycle begins when all goroutines of the last are done,   *)
(* but not the goroutines that these have started.                         *)

\* Mutant of Monitored: workers that are online.
MonitoredOnline(doc) == doc.status = "online"

\* getAllWorkerNodes.
Monitored(doc) == doc.active

ListWorkers ==
    /\ master
    /\ \A d \in Docs : mon[d].pc = "idle"
    /\ \E d \in Docs : Monitored(node[d])
    /\ mon' = [d \in Docs |-> IF Monitored(node[d])
                              THEN [pc |-> "check", copy |-> node[d]]
                              ELSE Idle]
    /\ UNCHANGED <<database, master, call, offs, streams, process, users, stops>>

\* Mutants of OfflineDoc: a status of no node; the node stays active.
OfflineDocUnregistered(doc) == [status |-> "unregistered", active |-> FALSE]
OfflineDocActive(doc) == [doc EXCEPT !.status = "offline"]

OfflineDoc(doc) == [status |-> "offline", active |-> FALSE]

\* subscribeNode and pingNodeClient: a subscription is on file, and its
\* stream takes the message.
Reachable == subs # 0 /\ stream[subs] = "serving"

Check(d) ==
    /\ mon[d].pc = "check"
    /\ IF Reachable
       THEN mon' = [mon EXCEPT ![d].pc = "write"] /\ UNCHANGED offs
       ELSE /\ mon' = [mon EXCEPT ![d] = Idle]
            /\ offs' = offs \cup {[id |-> d, copy |-> OfflineDoc(mon[d].copy)]}
    /\ UNCHANGED <<database, master, call, streams, process, users, stops>>

\* updateNodeAvailableRunners, after counting the node's tasks.
WriteRunners(d) ==
    /\ mon[d].pc = "write"
    /\ WriteBack(d, mon[d].copy)
    /\ mon' = [mon EXCEPT ![d] = Idle]
    /\ UNCHANGED <<master, call, offs, streams, process, users, stops>>

SetOffline(o) ==
    /\ o \in offs
    /\ node' = Replaced(o.id, o.copy)
    /\ offs' = offs \ {o}
    /\ UNCHANGED <<inserted, master, call, mon, streams, process, users, stops>>

\* All retries fail.
SetOfflineFails(o) ==
    /\ DbErrors
    /\ o \in offs
    /\ offs' = offs \ {o}
    /\ UNCHANGED <<database, master, call, mon, streams, process, users, stops>>

Monitor ==
    \/ ListWorkers
    \/ \E d \in Docs : Check(d) \/ WriteRunners(d)
    \/ \E o \in offs : SetOffline(o) \/ SetOfflineFails(o)

-----------------------------------------------------------------------------
(* Subscriptions.                                                          *)

\* The next unused stream becomes the one the client receives from.
Open ==
    \E s \in Streams :
        /\ s = cur + 1
        /\ stream' = [stream EXCEPT ![s] = "opened"]
        /\ cur' = s
        /\ rx' = "recv"

\* connect, subscribe; then handleStreamMessage runs.
StartWorker ==
    /\ worker = "down" /\ master
    /\ worker' = "start"
    /\ Open
    /\ UNCHANGED <<database, master, server, subs, unsub, users, stops>>

\* Subscribe on the master, which may run after a later one.
SetSubscribe(s) ==
    /\ stream[s] \in {"opened", "late"}
    /\ stream' = [stream EXCEPT ![s] = IF @ = "opened" THEN "serving"
                                                       ELSE "broken"]
    /\ subs' = s
    /\ UNCHANGED <<database, master, server, unsub, process, users, stops>>

\* The server notices that the client's end is gone, or the connection.
Disconnect(s) ==
    /\ stream[s] \in {"opened", "serving"}
    /\ stream' = [stream EXCEPT ![s] = IF @ = "opened" THEN "late"
                                                       ELSE "broken"]
    /\ UNCHANGED <<database, master, server, subs, unsub, process, users, stops>>

\* handleStreamMessage returns on EOF and subscribes again after any other
\* error.  The error may reach the client before the server.
RecvFails ==
    /\ rx = "recv"
    /\ rx' = IF stream[cur] = "ended" THEN "returned" ELSE "resubscribe"
    /\ UNCHANGED <<database, master, server, streams, worker, cur, users, stops>>

Resubscribe ==
    /\ rx = "resubscribe" /\ master
    /\ Open
    /\ UNCHANGED <<database, master, server, subs, unsub, worker, users, stops>>

\* The backoff ends after 15 minutes.
GiveUp ==
    /\ rx = "resubscribe" /\ ~master
    /\ rx' = "returned"
    /\ UNCHANGED <<database, master, server, streams, worker, cur, users, stops>>

\* The handler ends whatever subscription is on file, if its goroutine is ready
\* to receive.  It deletes an entry under a key that is not the one used by
\* Subscribe.
Unsubscribe ==
    /\ unsub
    /\ unsub' = FALSE
    /\ \/ Reachable /\ stream' = [stream EXCEPT ![subs] = "ended"]
       \/ UNCHANGED stream
    /\ UNCHANGED <<database, master, server, subs, process, users, stops>>

Subscription ==
    \/ StartWorker \/ RecvFails \/ Resubscribe \/ GiveUp \/ Unsubscribe
    \/ \E s \in Streams : SetSubscribe(s) \/ Disconnect(s)

-----------------------------------------------------------------------------
(* Processes end and are started again.                                    *)

\* On a signal the worker unsubscribes; its goroutines run on until it exits.
StopWorker ==
    /\ worker = "up" /\ master
    /\ worker' = "stopping"
    /\ unsub' = TRUE
    /\ UNCHANGED <<database, master, server, subs, stream, cur, rx, users, stops>>

\* A stop, an unsubscribed worker's exit or a crash.
WorkerExits ==
    /\ worker # "down"
    /\ stops < MaxStops
    /\ stops' = stops + 1
    /\ WorkerEnds
    /\ UNCHANGED <<database, master, mon, offs, streams, users>>

MasterExits ==
    /\ master
    /\ stops < MaxStops
    /\ stops' = stops + 1
    /\ master' = FALSE
    /\ call' = [c \in Calls |-> FreeCall]
    /\ mon' = [d \in Docs |-> Idle]
    /\ offs' = {}
    /\ subs' = 0
    /\ unsub' = FALSE
    /\ stream' = [s \in Streams |-> IF stream[s] \in {"opened", "late", "serving"}
                                    THEN "broken" ELSE stream[s]]
    /\ UNCHANGED <<database, process, users>>

StartMaster ==
    /\ ~master
    /\ master' = TRUE
    /\ UNCHANGED <<database, server, streams, process, users, stops>>

Processes == StopWorker \/ WorkerExits \/ MasterExits \/ StartMaster

-----------------------------------------------------------------------------
(* Users: PutById replaces the document by the one the form was opened on, *)
(* with other fields edited.                                               *)

OpenForm(d) ==
    /\ form = NoCopy
    /\ forms < MaxForms
    /\ d \in Existing
    /\ form' = [id |-> d, copy |-> node[d]]
    /\ forms' = forms + 1
    /\ UNCHANGED <<database, master, server, streams, process, stops>>

PutById ==
    /\ form # NoCopy /\ master
    /\ WriteBack(form.id, form.copy)
    /\ form' = NoCopy
    /\ UNCHANGED <<master, server, streams, process, forms, stops>>

DeleteById(d) ==
    /\ Deletable /\ master
    /\ d \in Existing
    /\ node' = [node EXCEPT ![d] = NoDoc]
    /\ UNCHANGED <<inserted, master, server, streams, process, users, stops>>

Users == PutById \/ \E d \in Docs : OpenForm(d) \/ DeleteById(d)

-----------------------------------------------------------------------------
Next ==
    \/ Request
    \/ \E c \in Calls : Handle(c)
    \/ Monitor
    \/ Subscription
    \/ Processes
    \/ Users

Spec == Init /\ [][Next]_vars

\* Goroutines of live processes are scheduled and tickers tick.  Nobody has
\* to start, stop or break anything.
FairSpec ==
    /\ Spec
    /\ WF_vars(CallHeartbeat)
    /\ \A c \in Calls : WF_vars(Handle(c)) /\ WF_vars(SendReport(c))
    /\ WF_vars(ListWorkers)
    /\ \A d \in Docs : WF_vars(Check(d)) /\ WF_vars(WriteRunners(d))
    \* a write that is tried again and again does not always fail
    /\ SF_vars(\E o \in offs : SetOffline(o))
    /\ \A s \in Streams : WF_vars(SetSubscribe(s))
    \* the connection of a process that is gone is noticed
    /\ \A s \in Streams : WF_vars(worker = "down" /\ Disconnect(s))

-----------------------------------------------------------------------------
(* Properties.                                                             *)

\* Whoever writes from whatever copy, a node is active unless it is offline:
\* the monitor never loses sight of a node that is shown as online, and the
\* fetch loop of a node shown as online is not skipped.
StatusMatchesActive ==
    \A d \in Existing : node[d].active <=> node[d].status # "offline"

\* No stale copy brings a deleted document back.
DeletedStaysDeleted ==
    [][\A d \in 1..inserted : d \notin Existing => d \notin Existing']_vars

Online == \E d \in Docs : node[d].status = "online"
Offline == \A d \in Existing : node[d].status = "offline"

\* The worker runs and receives from the stream that the master has on file.
Connected == Up /\ master /\ rx = "recv" /\ subs = cur /\ Reachable

\* A heartbeat is written while nobody else holds a copy of the document.
QuietHeartbeat ==
    \E c \in Calls :
        /\ call[c].kind = "heartbeat" /\ Write(c)
        /\ \A e \in Calls \ {c} : call[e].pc \notin {"count", "write"}
        /\ \A d \in Docs : mon[d].pc = "idle"
        /\ offs = {} /\ form = NoCopy

\* A worker that stays connected is online in the end and stays online, if
\* heartbeats are not always overtaken by other writers: what was left from
\* the time it was offline is overwritten, and nothing takes it offline again.
LiveWorkerOnline ==
    <>[](Connected /\ Existing # {}) /\ []<><<QuietHeartbeat>>_vars => <>[]Online

\* A worker that is gone is offline in the end and stays offline, although
\* late handlers and forms may have shown it online once more.
DeadWorkerOffline == <>[](worker = "down" /\ master) => <>[]Offline

=============================================================================
