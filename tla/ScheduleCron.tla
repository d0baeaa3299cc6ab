---------------------------- MODULE ScheduleCron ----------------------------
(***************************************************************************)
(* Schedules: documents in MongoDB that carry the id of an entry of the    *)
(* in-memory cron of the master (core/schedule/service_v2.go), the         *)
(* requests that enable, disable, change, create and delete them           *)
(* (core/controllers/schedule_v2.go), and update, which once a minute      *)
(* compares documents and entries without taking the lock of the service.  *)
(*                                                                         *)
(* Entry ids start again from 1 when the master restarts; the documents    *)
(* keep the ids of the process that wrote them.                            *)
(***************************************************************************)
EXTENDS Integers

CONSTANTS
    Schedules,   \* ids of schedules
    Requests,    \* bound: requests of the users, one operation each
    NoRequest,
    MaxRestarts, \* bound: restarts of the master
    Deletable,   \* BOOLEAN: schedules may be deleted
    BadCron,     \* BOOLEAN: a cron expression may not parse
    DbErrors     \* BOOLEAN: a database call may fail

ASSUME ScheduleAssumption ==
    /\ NoRequest \notin Requests
    /\ MaxRestarts \in Nat
    /\ Deletable \in BOOLEAN
    /\ BadCron \in BOOLEAN
    /\ DbErrors \in BOOLEAN

VARIABLES
    doc,      \* collection schedules
    entries,  \* entries of the cron
    nextId,   \* the next entry id
    mu,       \* the request that holds the lock
    req,      \* requests
    upd,      \* the loop of Update
    restarts  \* restarts so far

vars == <<doc, entries, nextId, mu, req, upd, restarts>>

-----------------------------------------------------------------------------
Doc == [exists : BOOLEAN, enabled : BOOLEAN, entry : Int]
NoDoc == [exists |-> FALSE, enabled |-> FALSE, entry |-> 0]

Request == [pc : {"new", "form", "ready", "save", "done"},
            op : {"enable", "disable"}, s : Schedules, copy : Doc]

Entry == [id : Nat, s : Schedules]

\* ids, seen: entry ids and documents of the enabled schedules, as fetched.
Update == [pc : {"sleep", "fetched", "prune"}, ids : SUBSET Int,
           seen : [Schedules -> Doc], doomed : SUBSET Entry]
Asleep == [pc |-> "sleep", ids |-> {}, seen |-> [s \in Schedules |-> NoDoc],
           doomed |-> {}]

\* Each variable holds a value of the shape the code gives it.
TypeOK ==
    /\ \A s \in Schedules : doc[s] \in Doc
    /\ \A e \in entries : e \in Entry /\ e.id < nextId
    /\ \A e, f \in entries : e.id = f.id => e = f
    /\ nextId \in Nat \ {0}
    /\ mu \in Requests \cup {NoRequest}
    /\ \A r \in Requests : req[r] \in Request
    /\ upd.pc \in {"sleep", "fetched", "prune"}
    /\ \A e \in upd.doomed : e \in Entry
    /\ restarts \in 0..MaxRestarts

\* Some schedules may be there, not enabled yet.
Init ==
    /\ doc \in [Schedules -> {NoDoc, [NoDoc EXCEPT !.exists = TRUE]}]
    /\ entries = {}
    /\ nextId = 1
    /\ mu = NoRequest
    /\ req \in [Requests -> {[pc |-> "new", op |-> "enable", s |-> s,
                              copy |-> NoDoc] : s \in Schedules}]
    /\ upd = Asleep
    /\ restarts = 0

\* ReplaceById: a document that is gone stays gone.
Replaced(s, d) == IF doc[s].exists THEN [doc EXCEPT ![s] = d] ELSE doc

-----------------------------------------------------------------------------
(* Requests, up to the call of the schedule service.                       *)

\* The schedule, its document read, and what is asked of the service.
Ready(r, op, d) ==
    req' = [req EXCEPT ![r].pc = "ready", ![r].op = op, ![r].copy = d]

Finish(r) == req' = [req EXCEPT ![r].pc = "done"]

PostScheduleEnableDisable(r) ==
    LET s == req[r].s IN
    /\ req[r].pc = "new"
    /\ doc[s].exists
    /\ \E op \in {"enable", "disable"} : Ready(r, op, doc[s])
    /\ UNCHANGED <<doc, entries, nextId, mu, upd, restarts>>

\* Inserted with the entry id 0: a form for a new schedule has none.
PostSchedule(r) ==
    LET s == req[r].s IN
    /\ req[r].pc = "new"
    /\ ~doc[s].exists
    /\ \E on \in BOOLEAN :
          LET d == [exists |-> TRUE, enabled |-> on, entry |-> 0] IN
          /\ doc' = [doc EXCEPT ![s] = d]
          /\ IF on THEN Ready(r, "enable", d) ELSE Finish(r)
    /\ UNCHANGED <<entries, nextId, mu, upd, restarts>>

\* A form is opened on the document; later it is saved.
OpenForm(r) ==
    LET s == req[r].s IN
    /\ req[r].pc = "new"
    /\ doc[s].exists
    /\ req' = [req EXCEPT ![r].pc = "form", ![r].copy = doc[s]]
    /\ UNCHANGED <<doc, entries, nextId, mu, upd, restarts>>

PutScheduleById(r) ==
    LET s == req[r].s IN
    /\ req[r].pc = "form"
    /\ \E on \in BOOLEAN :
          LET d == [req[r].copy EXCEPT !.enabled = on] IN
          /\ doc' = Replaced(s, d)
          /\ Ready(r, IF on THEN "enable" ELSE "disable", d)
    /\ UNCHANGED <<entries, nextId, mu, upd, restarts>>

PutScheduleFails(r) ==
    /\ DbErrors
    /\ req[r].pc = "form"
    /\ Finish(r)
    /\ UNCHANGED <<doc, entries, nextId, mu, upd, restarts>>

DeleteById(s) ==
    /\ Deletable
    /\ doc[s].exists
    /\ doc' = [doc EXCEPT ![s] = NoDoc]
    /\ UNCHANGED <<entries, nextId, mu, req, upd, restarts>>

-----------------------------------------------------------------------------
(* Enable and Disable, under the lock.                                     *)

\* AddFunc, then the write of the caller's copy.
AddFunc(r) ==
    /\ req[r].pc = "ready" /\ req[r].op = "enable"
    /\ mu = NoRequest
    /\ mu' = r
    /\ entries' = entries \cup {[id |-> nextId, s |-> req[r].s]}
    /\ nextId' = nextId + 1
    /\ req' = [req EXCEPT ![r].pc = "save",
                          ![r].copy.enabled = TRUE, ![r].copy.entry = nextId]
    /\ UNCHANGED <<doc, upd, restarts>>

\* The cron expression does not parse.  What the caller wrote stays.
AddFuncFails(r) ==
    /\ BadCron
    /\ req[r].pc = "ready" /\ req[r].op = "enable"
    /\ mu = NoRequest
    /\ Finish(r)
    /\ UNCHANGED <<doc, entries, nextId, mu, upd, restarts>>

Without(id) == {e \in entries : e.id # id}

Remove(r) ==
    /\ req[r].pc = "ready" /\ req[r].op = "disable"
    /\ mu = NoRequest
    /\ mu' = r
    /\ entries' = Without(req[r].copy.entry)
    /\ req' = [req EXCEPT ![r].pc = "save",
                          ![r].copy.enabled = FALSE, ![r].copy.entry = -1]
    /\ UNCHANGED <<doc, nextId, upd, restarts>>

\* Mutant of Save: an upsert.
SaveUpsert(r) ==
    /\ req[r].pc = "save"
    /\ \/ doc' = [doc EXCEPT ![req[r].s] = req[r].copy]
       \/ DbErrors /\ UNCHANGED doc
    /\ mu' = NoRequest
    /\ Finish(r)
    /\ UNCHANGED <<entries, nextId, upd, restarts>>

Save(r) ==
    /\ req[r].pc = "save"
    /\ \/ doc' = Replaced(req[r].s, req[r].copy)
       \/ DbErrors /\ UNCHANGED doc
    /\ mu' = NoRequest
    /\ Finish(r)
    /\ UNCHANGED <<entries, nextId, upd, restarts>>

Handle(r) ==
    \/ PostScheduleEnableDisable(r) \/ PostSchedule(r)
    \/ OpenForm(r) \/ PutScheduleById(r) \/ PutScheduleFails(r)
    \/ AddFunc(r) \/ AddFuncFails(r) \/ Remove(r) \/ Save(r)

-----------------------------------------------------------------------------
(* update.  Its branch that enables a schedule is never taken: only        *)
(* enabled schedules are fetched.                                          *)

FetchEnabled ==
    /\ upd.pc = "sleep"
    /\ LET on == {s \in Schedules : doc[s].exists /\ doc[s].enabled} IN
       upd' = [Asleep EXCEPT !.pc = "fetched",
                             !.ids = {doc[s].entry : s \in on},
                             !.seen = [s \in Schedules |-> IF s \in on THEN doc[s]
                                                                      ELSE NoDoc]]
    /\ UNCHANGED <<doc, entries, nextId, mu, req, restarts>>

\* Mutants of Doomed: entries are never marked; they are marked, but the
\* ones without a mark are left alone.
DoomedAll == entries
DoomedNone == {}

\* Entries whose id no fetched document carries.
Doomed == {e \in entries : e.id \notin upd.ids}

GetEntryIdsMap ==
    /\ upd.pc = "fetched"
    /\ upd' = [upd EXCEPT !.pc = "prune", !.doomed = Doomed]
    /\ UNCHANGED <<doc, entries, nextId, mu, req, restarts>>

Prune(e) ==
    /\ upd.pc = "prune"
    /\ e \in upd.doomed
    /\ entries' = Without(e.id)
    /\ upd' = [upd EXCEPT !.doomed = @ \ {e}]
    /\ UNCHANGED <<doc, nextId, mu, req, restarts>>

Sleep ==
    /\ upd.pc = "prune" /\ upd.doomed = {}
    /\ upd' = Asleep
    /\ UNCHANGED <<doc, entries, nextId, mu, req, restarts>>

update == FetchEnabled \/ GetEntryIdsMap \/ (\E e \in upd.doomed : Prune(e))
          \/ Sleep

-----------------------------------------------------------------------------
\* Mutant of Restart: the ids start again, the entries stay.
RestartKeepsEntries ==
    /\ restarts < MaxRestarts
    /\ restarts' = restarts + 1
    /\ nextId' = 1
    /\ UNCHANGED <<doc, entries, mu, req, upd>>

\* The master is started again with an empty cron.
Restart ==
    /\ restarts < MaxRestarts
    /\ restarts' = restarts + 1
    /\ entries' = {}
    /\ nextId' = 1
    /\ mu' = NoRequest
    /\ req' = [r \in Requests |-> IF req[r].pc \in {"ready", "save"}
                                  THEN [req[r] EXCEPT !.pc = "done"]
                                  ELSE req[r]]
    /\ upd' = Asleep
    /\ UNCHANGED doc

Next ==
    \/ \E r \in Requests : Handle(r)
    \/ \E s \in Schedules : DeleteById(s)
    \/ update
    \/ Restart

Spec == Init /\ [][Next]_vars

\* Requests that reached the service are carried out, and Update loops.
FairSpec ==
    /\ Spec
    /\ \A r \in Requests :
          WF_vars(AddFunc(r) \/ AddFuncFails(r) \/ Remove(r)) /\ WF_vars(Save(r))
    /\ WF_vars(update)

-----------------------------------------------------------------------------
(* Properties.                                                             *)

\* The schedule is enabled and its own entry is in the cron.
Armed(s) == /\ doc[s].exists /\ doc[s].enabled
            /\ [id |-> doc[s].entry, s |-> s] \in entries

Active(r) == req[r].pc \in {"form", "ready", "save"}

\* Until the first restart, a schedule that no request works on, and that has
\* not changed since update fetched it, stays armed whatever requests do to
\* other schedules: neither they nor update take its entry for theirs.
UntouchedStaysArmed ==
    [][\A s \in Schedules :
          /\ Armed(s) /\ restarts' = 0
          /\ \A r \in Requests : req[r].s = s => ~Active(r) /\ req'[r] = req[r]
          /\ upd.pc # "sleep" => upd.seen[s] = doc[s]
          /\ doc'[s].exists
          => Armed(s)']_vars

\* Entries that repeated or overlapping requests, failed writes or deletions
\* leave behind are removed in the end: without restarts, what the cron runs
\* is one entry for an enabled schedule, and nothing for any other.
LeftoversGo ==
    [](restarts = 0) =>
        <>[](\A e \in entries : doc[e.s].enabled /\ doc[e.s].entry = e.id)

\* With restarts, at least no entry stays that no enabled document names.
EntriesAreNamed ==
    <>[](\A e \in entries : \E s \in Schedules :
            doc[s].enabled /\ doc[s].entry = e.id)

\* No request brings a deleted schedule back from the copy it holds.
DeletedStaysDeleted ==
    [][\A s \in Schedules :
          ~doc[s].exists /\ doc'[s].exists
              => \E r \in Requests : req[r].pc = "new" /\ req[r].s = s]_vars

-----------------------------------------------------------------------------
(* What a test says and the code does not do.                              *)

\* TestScheduleService_Enable_Disable: after Enable the schedule is enabled
\* and the entry it names is in the cron.  Nothing else happens to it here.
EnabledIsArmed ==
    (\A r \in Requests : ~Active(r)) =>
        \A s \in Schedules : doc[s].enabled => Armed(s)
=============================================================================
