--------------------------- MODULE ScheduleProofs ---------------------------
(***************************************************************************)
(* Proofs about ScheduleCron, for any number of schedules, requests and    *)
(* restarts: a schedule nobody touches stays armed, and a deleted schedule *)
(* stays deleted.                                                          *)
(***************************************************************************)
EXTENDS ScheduleCron, TLAPS

Shapes ==
    /\ doc \in [Schedules -> Doc]
    /\ req \in [Requests -> Request]
    /\ nextId \in Nat \ {0}
    /\ mu \in Requests \cup {NoRequest}
    /\ upd \in Update
    /\ restarts \in 0..MaxRestarts

\* An id is given to one entry, and 0 and -1 to none.
EntryInv ==
    /\ \A e \in entries : e \in Entry /\ 0 < e.id /\ e.id < nextId
    /\ \A e, f \in entries : e.id = f.id => e = f

\* The entry with that id, if there is one or will be one, is not of another
\* schedule.
Own(s, id) == id < nextId /\ \A e \in entries : e.id = id => e.s = s

\* Until a restart the documents and the copies of them name entries of their
\* own schedule; this is what Remove relies on.
OwnInv ==
    restarts = 0 => /\ \A s \in Schedules : Own(s, doc[s].entry)
                    /\ \A r \in Requests : Own(req[r].s, req[r].copy.entry)

\* update dooms no entry that a document it has fetched names.
UpdateInv ==
    /\ upd.pc # "sleep" =>
          \A s \in Schedules : upd.seen[s].exists /\ upd.seen[s].enabled
                                   => upd.seen[s].entry \in upd.ids
    /\ upd.pc = "prune" => \A e \in upd.doomed : e.id \notin upd.ids

IInv == Shapes /\ EntryInv /\ OwnInv /\ UpdateInv

-----------------------------------------------------------------------------
(* What the steps do to the records.                                       *)

Pcs == {"new", "form", "ready", "save", "done"}

LEMMA GotoFields ==
    ASSUME NEW r \in Request, NEW pc \in Pcs
    PROVE  LET q == [r EXCEPT !.pc = pc]
           IN  q \in Request /\ q.pc = pc /\ q.s = r.s /\ q.copy = r.copy
BY DEF Request, Pcs

LEMMA SaveFields ==
    ASSUME NEW r \in Request, NEW b \in BOOLEAN, NEW i \in Int
    PROVE  LET q == [r EXCEPT !.pc = "save", !.copy.enabled = b, !.copy.entry = i]
           IN  q \in Request /\ q.pc = "save" /\ q.s = r.s /\ q.copy.entry = i
<1>1. [[r.copy EXCEPT !.enabled = b] EXCEPT !.entry = i] \in Doc
  BY ZenonT(60) DEF Doc, Request
<1>2. [[r.copy EXCEPT !.enabled = b] EXCEPT !.entry = i].entry = i
  BY DEF Doc, Request
<1> QED
  BY <1>1, <1>2 DEF Request

LEMMA NewDocs ==
    ASSUME NEW b \in BOOLEAN
    PROVE  /\ NoDoc \in Doc /\ NoDoc.entry = 0 /\ ~NoDoc.exists
           /\ [exists |-> TRUE, enabled |-> b, entry |-> 0] \in Doc
           /\ [exists |-> TRUE, enabled |-> b, entry |-> 0].entry = 0
<1>1. 0 \in Int
  OBVIOUS
<1> QED
  BY <1>1, ZenonT(60) DEF Doc, NoDoc

LEMMA EnabledFields ==
    ASSUME NEW d \in Doc, NEW b \in BOOLEAN
    PROVE  /\ [d EXCEPT !.enabled = b] \in Doc
           /\ [d EXCEPT !.enabled = b].entry = d.entry
BY ZenonT(60) DEF Doc

LEMMA ReplacedFields ==
    ASSUME Shapes, NEW s \in Schedules, NEW d \in Doc
    PROVE  /\ Replaced(s, d) \in [Schedules -> Doc]
           /\ \A t \in Schedules : \/ Replaced(s, d)[t] = doc[t]
                                   \/ t = s /\ doc[t].exists /\ Replaced(s, d)[t] = d
BY DEF Shapes, Replaced

-----------------------------------------------------------------------------
(* Entries keep their owner.                                               *)

\* The ids in the documents of s and the copies of them.
Named(s) == {0, -1, doc[s].entry} \cup
            {req[r].copy.entry : r \in {q \in Requests : req[q].s = s}}

LEMMA NamedOwn ==
    ASSUME IInv, restarts = 0, NEW s \in Schedules, NEW id \in Named(s)
    PROVE  id \in Int /\ Own(s, id)
<1>1. /\ doc[s].entry \in Int
      /\ \A r \in Requests : req[r].copy.entry \in Int
  BY DEF IInv, Shapes, Request, Doc
<1> QED
  BY <1>1 DEF IInv, Shapes, EntryInv, Entry, OwnInv, Own, Named

\* A step that adds no entry and names no id that was not named before.
LEMMA OwnStep ==
    ASSUME IInv, restarts' = restarts, nextId' = nextId, entries' \subseteq entries,
           \A s \in Schedules : doc'[s].entry \in Named(s),
           \A r \in Requests : /\ req'[r].s = req[r].s
                               /\ req'[r].copy.entry \in Named(req[r].s)
    PROVE  EntryInv' /\ OwnInv'
<1>1. EntryInv'
  BY DEF IInv, EntryInv
<1>2. \A r \in Requests : req[r].s \in Schedules
  BY DEF IInv, Shapes, Request
<1>3. OwnInv'
  BY <1>2, NamedOwn DEF OwnInv, Own
<1> QED
  BY <1>1, <1>3

-----------------------------------------------------------------------------
(* Requests.                                                               *)

\* A step of request r on the schedule it is for.
OfRequest(r) ==
    /\ req' \in [Requests -> Request]
    /\ req'[r].pc # req[r].pc
    /\ \A q \in Requests : /\ req'[q].s = req[q].s
                           /\ q # r => req'[q] = req[q]

LEMMA ReqUpdated ==
    ASSUME Shapes, NEW r \in Requests, NEW x \in Request,
           x.s = req[r].s, x.pc # req[r].pc, req' = [req EXCEPT ![r] = x]
    PROVE  OfRequest(r) /\ req'[r] = x
BY DEF Shapes, OfRequest

LEMMA ReadyStep ==
    ASSUME Shapes, NEW r \in Requests, NEW op \in {"enable", "disable"},
           NEW d \in Doc, req[r].pc # "ready", Ready(r, op, d)
    PROVE  OfRequest(r) /\ req'[r].copy = d
<1> DEFINE x == [req[r] EXCEPT !.pc = "ready", !.op = op, !.copy = d]
<1>1. req[r] \in Request
  BY DEF Shapes
<1>2. x \in Request /\ x.pc = "ready" /\ x.s = req[r].s /\ x.copy = d
  BY <1>1 DEF Request
<1>3. req' = [req EXCEPT ![r] = x]
  BY DEF Ready, Shapes
<1> QED
  BY <1>2, <1>3, ReqUpdated

LEMMA FinishStep ==
    ASSUME Shapes, NEW r \in Requests, req[r].pc # "done", Finish(r)
    PROVE  OfRequest(r) /\ req'[r].copy = req[r].copy
<1> DEFINE x == [req[r] EXCEPT !.pc = "done"]
<1>1. x \in Request /\ x.pc = "done" /\ x.s = req[r].s /\ x.copy = req[r].copy
  BY GotoFields DEF Pcs, Shapes
<1>2. req' = [req EXCEPT ![r] = x]
  BY DEF Finish, Shapes
<1> QED
  BY <1>1, <1>2, ReqUpdated

\* The entry ids that a step of r may put into the documents and copies.
DocStep(r) ==
    /\ doc' \in [Schedules -> Doc]
    /\ \A t \in Schedules : \/ doc'[t] = doc[t]
                            \/ /\ t = req[r].s
                               /\ doc'[t].entry \in {0, req[r].copy.entry}
                               /\ doc[t].exists \/ req[r].pc = "new"

LEMMA DocStepSame == ASSUME Shapes, NEW r \in Requests, UNCHANGED doc
                     PROVE  DocStep(r)
BY DEF Shapes, DocStep

LEMMA DocStepReplaced ==
    ASSUME Shapes, NEW r \in Requests, NEW d \in Doc,
           d.entry = req[r].copy.entry, doc' = Replaced(req[r].s, d)
    PROVE  DocStep(r)
<1>1. req[r].s \in Schedules
  BY DEF Shapes, Request
<1> QED
  BY <1>1, ReplacedFields DEF DocStep

\* All the requests do.  Only AddFunc and Remove change the entries.
LEMMA HandleStep ==
    ASSUME IInv, NEW r \in Requests, Handle(r)
    PROVE  /\ OfRequest(r) /\ DocStep(r)
           /\ mu' \in Requests \cup {NoRequest}
           /\ UNCHANGED <<upd, restarts>>
           /\ \/ /\ UNCHANGED <<entries, nextId>>
                 /\ req'[r].copy.entry \in Named(req[r].s)
              \/ AddFunc(r) /\ UNCHANGED doc /\ req'[r].copy.entry = nextId
              \/ Remove(r) /\ req'[r].copy.entry = -1
<1> DEFINE s == req[r].s
<1> USE DEF IInv
<1>1. /\ s \in Schedules /\ req[r] \in Request /\ req[r].copy \in Doc
      /\ doc[s] \in Doc
      /\ doc[s].entry \in Named(s) /\ req[r].copy.entry \in Named(s)
      /\ 0 \in Named(s)
  BY DEF Shapes, Request, Named
<1>2. CASE PostScheduleEnableDisable(r)
  <2>1. PICK op \in {"enable", "disable"} : Ready(r, op, doc[s])
    BY <1>2 DEF PostScheduleEnableDisable
  <2>2. OfRequest(r) /\ req'[r].copy = doc[s]
    BY <1>1, <1>2, <2>1, ReadyStep DEF PostScheduleEnableDisable
  <2> QED
    BY <1>1, <1>2, <2>2, DocStepSame DEF PostScheduleEnableDisable, Shapes
<1>3. CASE PostSchedule(r)
  <2>1. PICK on \in BOOLEAN :
           LET d == [exists |-> TRUE, enabled |-> on, entry |-> 0] IN
           /\ doc' = [doc EXCEPT ![s] = d]
           /\ IF on THEN Ready(r, "enable", d) ELSE Finish(r)
    BY <1>3 DEF PostSchedule
  <2> DEFINE d == [exists |-> TRUE, enabled |-> on, entry |-> 0]
  <2>2. NoDoc \in Doc /\ d \in Doc /\ d.entry = 0
    BY NewDocs
  <2>3. req[r].pc = "new" /\ UNCHANGED <<entries, nextId, mu, upd, restarts>>
    BY <1>3 DEF PostSchedule
  <2>4. DocStep(r)
    BY <1>1, <2>1, <2>2, <2>3 DEF DocStep, Shapes
  <2>5. OfRequest(r) /\ req'[r].copy.entry \in {0, req[r].copy.entry}
    <3>1. CASE on
      BY <2>1, <2>2, <2>3, <3>1, ReadyStep
    <3>2. CASE ~on
      BY <2>1, <2>3, <3>2, FinishStep
    <3> QED
      BY <3>1, <3>2
  <2> QED
    BY <1>1, <2>3, <2>4, <2>5 DEF Shapes
<1>4. CASE OpenForm(r)
  <2> DEFINE x == [req[r] EXCEPT !.pc = "form", !.copy = doc[s]]
  <2>1. x \in Request /\ x.pc = "form" /\ x.s = s /\ x.copy = doc[s]
    BY <1>1 DEF Request
  <2>2. req' = [req EXCEPT ![r] = x]
    BY <1>4 DEF OpenForm, Shapes
  <2>3. OfRequest(r) /\ req'[r].copy = doc[s]
    BY <1>4, <2>1, <2>2, ReqUpdated DEF OpenForm
  <2> QED
    BY <1>1, <1>4, <2>3, DocStepSame DEF OpenForm, Shapes
<1>5. CASE PutScheduleById(r)
  <2>1. PICK on \in BOOLEAN :
           LET d == [req[r].copy EXCEPT !.enabled = on] IN
           /\ doc' = Replaced(s, d)
           /\ Ready(r, IF on THEN "enable" ELSE "disable", d)
    BY <1>5 DEF PutScheduleById
  <2> DEFINE d == [req[r].copy EXCEPT !.enabled = on]
  <2>2. d \in Doc /\ d.entry = req[r].copy.entry
    BY <1>1, EnabledFields
  <2>3. req[r].pc = "form" /\ UNCHANGED <<entries, nextId, mu, upd, restarts>>
    BY <1>5 DEF PutScheduleById
  <2>4. PICK op \in {"enable", "disable"} : Ready(r, op, d)
    BY <2>1
  <2>5. OfRequest(r) /\ req'[r].copy = d
    BY <2>2, <2>3, <2>4, ReadyStep
  <2>6. DocStep(r)
    BY <2>1, <2>2, DocStepReplaced
  <2> QED
    BY <1>1, <2>2, <2>3, <2>5, <2>6 DEF Shapes
<1>6. CASE AddFunc(r)
  <2> DEFINE x == [req[r] EXCEPT !.pc = "save", !.copy.enabled = TRUE,
                                 !.copy.entry = nextId]
  <2>1. nextId \in Int
    BY DEF Shapes
  <2>2. x \in Request /\ x.pc = "save" /\ x.s = s /\ x.copy.entry = nextId
    BY <1>1, <2>1, SaveFields
  <2>3. req' = [req EXCEPT ![r] = x]
    BY <1>6 DEF AddFunc, Shapes
  <2>4. OfRequest(r) /\ req'[r].copy.entry = nextId
    BY <1>6, <2>2, <2>3, ReqUpdated DEF AddFunc
  <2> QED
    BY <1>6, <2>4, DocStepSame DEF AddFunc, Shapes
<1>7. CASE AddFuncFails(r) \/ PutScheduleFails(r)
  <2>1. OfRequest(r) /\ req'[r].copy = req[r].copy
    BY <1>7, FinishStep DEF AddFuncFails, PutScheduleFails
  <2> QED
    BY <1>1, <1>7, <2>1, DocStepSame DEF AddFuncFails, PutScheduleFails, Shapes
<1>8. CASE Remove(r)
  <2> DEFINE x == [req[r] EXCEPT !.pc = "save", !.copy.enabled = FALSE,
                                 !.copy.entry = -1]
  <2>1. x \in Request /\ x.pc = "save" /\ x.s = s /\ x.copy.entry = -1
    <3>1. -1 \in Int /\ FALSE \in BOOLEAN
      OBVIOUS
    <3> HIDE DEF IInv
    <3> QED
      BY <1>1, <3>1, SaveFields, ZenonT(60)
  <2>2. req' = [req EXCEPT ![r] = x]
    BY <1>8 DEF Remove, Shapes
  <2>3. OfRequest(r) /\ req'[r].copy.entry = -1
    BY <1>8, <2>1, <2>2, ReqUpdated DEF Remove
  <2> QED
    BY <1>8, <2>3, DocStepSame DEF Remove, Shapes
<1>9. CASE Save(r)
  <2>1. OfRequest(r) /\ req'[r].copy = req[r].copy
    BY <1>9, FinishStep DEF Save
  <2>2. DocStep(r)
    BY <1>1, <1>9, DocStepSame, DocStepReplaced DEF Save
  <2> QED
    BY <1>1, <1>9, <2>1, <2>2 DEF Save
<1> QED
  BY <1>2, <1>3, <1>4, <1>5, <1>6, <1>7, <1>8, <1>9 DEF Handle

LEMMA HandleInv ==
    ASSUME IInv, NEW r \in Requests, Handle(r)
    PROVE  IInv'
<1>1. /\ OfRequest(r) /\ DocStep(r)
      /\ mu' \in Requests \cup {NoRequest}
      /\ UNCHANGED <<upd, restarts>>
  BY HandleStep
<1>2. /\ req[r].s \in Schedules
      /\ \A s \in Schedules : doc[s].entry \in Named(s) /\ 0 \in Named(s) /\ -1 \in Named(s)
      /\ \A q \in Requests : req[q].copy.entry \in Named(req[q].s)
  BY DEF IInv, Shapes, Request, Named
<1>3. \A s \in Schedules : doc'[s].entry \in Named(s)
  BY <1>1, <1>2 DEF DocStep
<1>4. nextId' \in Nat \ {0} /\ EntryInv' /\ OwnInv'
  <2>1. CASE UNCHANGED <<entries, nextId>> /\ req'[r].copy.entry \in Named(req[r].s)
    <3>1. \A q \in Requests : /\ req'[q].s = req[q].s
                              /\ req'[q].copy.entry \in Named(req[q].s)
      BY <1>1, <1>2, <2>1 DEF OfRequest
    <3> QED
      BY <1>1, <1>3, <2>1, <3>1, OwnStep DEF IInv, Shapes
  <2>2. CASE Remove(r) /\ req'[r].copy.entry = -1
    <3>1. \A q \in Requests : /\ req'[q].s = req[q].s
                              /\ req'[q].copy.entry \in Named(req[q].s)
      BY <1>1, <1>2, <2>2 DEF OfRequest
    <3>2. entries' \subseteq entries /\ nextId' = nextId
      BY <2>2 DEF Remove, Without
    <3> QED
      BY <1>1, <1>3, <3>1, <3>2, OwnStep DEF IInv, Shapes
  <2>3. CASE AddFunc(r) /\ UNCHANGED doc /\ req'[r].copy.entry = nextId
    <3> DEFINE e == [id |-> nextId, s |-> req[r].s]
    <3>1. entries' = entries \cup {e} /\ nextId' = nextId + 1
      BY <2>3 DEF AddFunc
    <3>2. e \in Entry /\ e.id = nextId /\ e.s = req[r].s /\ nextId \in Nat \ {0}
      BY <1>2 DEF IInv, Shapes, Entry
    <3>3. EntryInv'
      BY <3>1, <3>2 DEF IInv, EntryInv, Entry
    <3>4. OwnInv'
      <4> SUFFICES ASSUME restarts = 0
                   PROVE  /\ \A s \in Schedules : Own(s, doc[s].entry)'
                          /\ \A q \in Requests : Own(req[q].s, req[q].copy.entry)'
        BY <1>1 DEF OwnInv
      <4>1. ASSUME NEW s \in Schedules, NEW id \in Named(s)
            PROVE  id < nextId' /\ \A f \in entries' : f.id = id => f.s = s
        <5>1. id \in Int /\ Own(s, id)
          BY <4>1, NamedOwn
        <5> QED
          BY <3>1, <3>2, <5>1 DEF Own
      <4>2. \A s \in Schedules : Own(s, doc[s].entry)'
        BY <1>3, <4>1 DEF Own
      <4>3. ASSUME NEW q \in Requests, q # r
            PROVE  Own(req[q].s, req[q].copy.entry)'
        <5>1. req'[q] = req[q] /\ req[q].s \in Schedules
          BY <1>1, <4>3 DEF OfRequest, IInv, Shapes, Request
        <5> QED
          BY <1>2, <4>1, <5>1 DEF Own
      <4>4. Own(req[r].s, req[r].copy.entry)'
        <5>1. req'[r].s = req[r].s
          BY <1>1 DEF OfRequest
        <5>2. \A f \in entries' : f.id = nextId => f.s = req[r].s
          BY <3>1, <3>2 DEF IInv, EntryInv, Entry
        <5> QED
          BY <2>3, <3>1, <3>2, <5>1, <5>2 DEF Own
      <4> QED
        BY <4>2, <4>3, <4>4
    <3> QED
      BY <3>1, <3>2, <3>3, <3>4
  <2> QED
    BY <2>1, <2>2, <2>3, HandleStep
<1>5. Shapes'
  BY <1>1, <1>4 DEF IInv, Shapes, OfRequest, DocStep
<1>6. UpdateInv'
  BY <1>1 DEF IInv, UpdateInv
<1> QED
  BY <1>4, <1>5, <1>6 DEF IInv

-----------------------------------------------------------------------------
(* The other actions.                                                      *)

LEMMA NamesStay ==
    ASSUME Shapes
    PROVE  /\ \A s \in Schedules : doc[s].entry \in Named(s) /\ 0 \in Named(s)
           /\ \A r \in Requests : req[r].copy.entry \in Named(req[r].s)
BY DEF Shapes, Request, Named

LEMMA DeleteInv ==
    ASSUME IInv, NEW s \in Schedules, DeleteById(s)
    PROVE  IInv'
<1>1. doc' = [doc EXCEPT ![s] = NoDoc] /\ UNCHANGED <<entries, nextId, mu, req, upd, restarts>>
  BY DEF DeleteById
<1>2. NoDoc \in Doc /\ NoDoc.entry = 0
  BY NewDocs
<1>3. Shapes' /\ UpdateInv'
  BY <1>1, <1>2 DEF IInv, Shapes, UpdateInv
<1>4. \A t \in Schedules : doc'[t].entry \in {0, doc[t].entry}
  BY <1>1, <1>2 DEF IInv, Shapes
<1>5. EntryInv' /\ OwnInv'
  BY <1>1, <1>4, NamesStay, OwnStep DEF IInv
<1> QED
  BY <1>3, <1>5 DEF IInv

LEMMA AsleepFields ==
    /\ Asleep \in Update /\ Asleep.pc = "sleep"
BY NewDocs DEF Asleep, Update

LEMMA UpdateStep ==
    ASSUME IInv, update
    PROVE  IInv'
<1>1. /\ UNCHANGED <<doc, nextId, mu, req, restarts>>
      /\ entries' \subseteq entries
  BY DEF update, FetchEnabled, GetEntryIdsMap, Prune, Without, Sleep
<1>2. EntryInv' /\ OwnInv'
  BY <1>1, NamesStay, OwnStep DEF IInv
<1>3. upd' \in Update /\ UpdateInv'
  <2>1. CASE FetchEnabled
    <3> DEFINE on == {s \in Schedules : doc[s].exists /\ doc[s].enabled}
               ids == {doc[s].entry : s \in on}
               seen == [s \in Schedules |-> IF s \in on THEN doc[s] ELSE NoDoc]
    <3>1. upd' = [Asleep EXCEPT !.pc = "fetched", !.ids = ids, !.seen = seen]
      BY <2>1 DEF FetchEnabled
    <3>2. ids \in SUBSET Int /\ seen \in [Schedules -> Doc]
      BY NewDocs DEF IInv, Shapes, Doc
    <3>3. \A s \in Schedules : seen[s].exists /\ seen[s].enabled => seen[s].entry \in ids
      BY NewDocs
    <3> HIDE DEF ids, seen
    <3>4. /\ upd' \in Update
          /\ upd'.pc = "fetched" /\ upd'.ids = ids /\ upd'.seen = seen
      BY <3>1, <3>2, AsleepFields DEF Update
    <3> QED
      BY <3>3, <3>4 DEF UpdateInv
  <2>2. CASE GetEntryIdsMap
    <3>1. Doomed \in SUBSET Entry /\ \A e \in Doomed : e.id \notin upd.ids
      BY DEF Doomed, IInv, EntryInv
    <3>2. /\ upd' \in Update
          /\ upd'.pc = "prune" /\ upd'.doomed = Doomed
          /\ upd'.ids = upd.ids /\ upd'.seen = upd.seen
      BY <2>2, <3>1 DEF GetEntryIdsMap, IInv, Shapes, Update
    <3> QED
      BY <2>2, <3>1, <3>2 DEF GetEntryIdsMap, IInv, UpdateInv
  <2>3. ASSUME NEW e \in upd.doomed, Prune(e)
        PROVE  upd' \in Update /\ UpdateInv'
    <3>1. /\ upd' \in Update
          /\ upd'.pc = upd.pc /\ upd'.doomed = upd.doomed \ {e}
          /\ upd'.ids = upd.ids /\ upd'.seen = upd.seen
      BY <2>3 DEF Prune, IInv, Shapes, Update
    <3> QED
      BY <3>1 DEF IInv, UpdateInv
  <2>4. CASE Sleep
    BY <2>4, AsleepFields DEF Sleep, UpdateInv
  <2> QED
    BY <2>1, <2>2, <2>3, <2>4 DEF update
<1> QED
  BY <1>1, <1>2, <1>3 DEF IInv, Shapes

LEMMA RestartInv ==
    ASSUME IInv, Restart
    PROVE  IInv'
<1>1. restarts' \in 0..MaxRestarts /\ restarts' # 0
  BY ScheduleAssumption DEF Restart, IInv, Shapes
<1>2. \A r \in Requests : [req[r] EXCEPT !.pc = "done"] \in Request
  BY DEF IInv, Shapes, Request
<1>3. req' \in [Requests -> Request]
  BY <1>2 DEF Restart, IInv, Shapes
<1>4. Shapes'
  BY <1>1, <1>3, AsleepFields DEF Restart, IInv, Shapes
<1>5. EntryInv' /\ OwnInv'
  BY <1>1 DEF Restart, EntryInv, OwnInv
<1>6. UpdateInv'
  BY AsleepFields DEF Restart, UpdateInv
<1> QED
  BY <1>4, <1>5, <1>6 DEF IInv

-----------------------------------------------------------------------------
LEMMA InitInv == Init => IInv
<1> SUFFICES ASSUME Init PROVE IInv
  OBVIOUS
<1>1. /\ [NoDoc EXCEPT !.exists = TRUE] \in Doc /\ [NoDoc EXCEPT !.exists = TRUE].entry = 0
      /\ NoDoc \in Doc /\ NoDoc.entry = 0
  <2>1. 0 \in Int
    OBVIOUS
  <2> QED
    BY <2>1, ZenonT(60) DEF NoDoc, Doc
<1>2. doc \in [Schedules -> Doc] /\ \A s \in Schedules : doc[s].entry = 0
  BY <1>1 DEF Init
<1>3. \A s \in Schedules :
         LET r == [pc |-> "new", op |-> "enable", s |-> s, copy |-> NoDoc]
         IN  r \in Request /\ r.copy.entry = 0
  BY <1>1 DEF Request
<1>4. req \in [Requests -> Request] /\ \A r \in Requests : req[r].copy.entry = 0
  BY <1>3 DEF Init
<1>5. Shapes
  BY <1>2, <1>4, AsleepFields, ScheduleAssumption DEF Init, Shapes
<1>6. EntryInv /\ OwnInv
  BY <1>2, <1>4 DEF Init, EntryInv, OwnInv, Own
<1>7. UpdateInv
  BY AsleepFields DEF Init, UpdateInv
<1> QED
  BY <1>5, <1>6, <1>7 DEF IInv

LEMMA NextInv == IInv /\ [Next]_vars => IInv'
<1> SUFFICES ASSUME IInv, [Next]_vars PROVE IInv'
  OBVIOUS
<1>1. CASE UNCHANGED vars
  BY <1>1 DEF vars, IInv, Shapes, EntryInv, OwnInv, Own, UpdateInv
<1>2. ASSUME NEW r \in Requests, Handle(r)
      PROVE  IInv'
  BY <1>2, HandleInv
<1>3. ASSUME NEW s \in Schedules, DeleteById(s)
      PROVE  IInv'
  BY <1>3, DeleteInv
<1>4. CASE update
  BY <1>4, UpdateStep
<1>5. CASE Restart
  BY <1>5, RestartInv
<1> QED
  BY <1>1, <1>2, <1>3, <1>4, <1>5 DEF Next

-----------------------------------------------------------------------------
(* The theorems.                                                           *)

\* Until a restart, documents and copies of them name entries of their own
\* schedule, and update dooms no entry that it has seen named.
THEOREM Inductive == Spec => []IInv
BY InitInv, NextInv, PTL DEF Spec

\* Every variable always holds a value of the shape the code gives it, and the
\* cron gives no id to two entries.
THEOREM TypeCorrect == Spec => []TypeOK
<1>1. IInv => TypeOK
  BY DEF IInv, Shapes, EntryInv, TypeOK, Update
<1> QED
  BY <1>1, Inductive, PTL

\* Replacing the document of a schedule that is gone inserts none, whatever
\* copy a form or a request of the service holds.
THEOREM DeletedIsGone == Spec => DeletedStaysDeleted
<1>1. ASSUME IInv, [Next]_vars, NEW s \in Schedules, ~doc[s].exists, doc'[s].exists
      PROVE  \E r \in Requests : req[r].pc = "new" /\ req[r].s = s
  <2>1. ASSUME NEW r \in Requests, Handle(r)
        PROVE  req[r].pc = "new" /\ req[r].s = s
    <3>1. DocStep(r)
      BY <1>1, <2>1, HandleStep
    <3> QED
      BY <1>1, <3>1 DEF DocStep
  <2>2. ASSUME NEW t \in Schedules, DeleteById(t)
        PROVE  FALSE
    BY <1>1, <2>2, NewDocs DEF DeleteById, IInv, Shapes
  <2>3. CASE update \/ Restart \/ UNCHANGED vars
    BY <1>1, <2>3 DEF update, FetchEnabled, GetEntryIdsMap, Prune, Sleep, Restart, vars
  <2> QED
    BY <1>1, <2>1, <2>2, <2>3 DEF Next
<1>2. ASSUME IInv, [Next]_vars
      PROVE  \A s \in Schedules :
                ~doc[s].exists /\ doc'[s].exists
                    => \E r \in Requests : req[r].pc = "new" /\ req[r].s = s
  BY <1>1, <1>2
<1> QED
  BY <1>2, Inductive, PTL DEF Spec, DeletedStaysDeleted

\* Neither requests for other schedules nor update remove the entry of a
\* schedule that nobody works on, as long as the master is not restarted.
THEOREM UntouchedIsSafe == Spec => UntouchedStaysArmed
<1> DEFINE Untouched(s) ==
              /\ Armed(s) /\ restarts' = 0
              /\ \A r \in Requests : req[r].s = s => ~Active(r) /\ req'[r] = req[r]
              /\ upd.pc # "sleep" => upd.seen[s] = doc[s]
              /\ doc'[s].exists
<1>1. ASSUME IInv, [Next]_vars, NEW s \in Schedules, Untouched(s)
      PROVE  Armed(s)'
  <2> DEFINE own == [id |-> doc[s].entry, s |-> s]
  <2>1. own \in entries /\ doc[s].exists /\ doc[s].enabled
    BY <1>1 DEF Armed
  <2>2. SUFFICES doc'[s] = doc[s] /\ own \in entries'
    BY <2>1 DEF Armed
  <2>3. ASSUME NEW r \in Requests, Handle(r)
        PROVE  doc'[s] = doc[s] /\ own \in entries'
    <3>1. /\ OfRequest(r) /\ DocStep(r) /\ UNCHANGED restarts
          /\ UNCHANGED entries \/ AddFunc(r) \/ Remove(r)
      BY <1>1, <2>3, HandleStep
    <3>2. req[r].s # s
      BY <1>1, <3>1 DEF OfRequest
    <3>3. doc'[s] = doc[s]
      BY <3>1, <3>2 DEF DocStep
    <3>4. CASE Remove(r)
      <4>1. Own(req[r].s, req[r].copy.entry)
        BY <1>1, <3>1 DEF IInv, OwnInv
      <4>2. own.id # req[r].copy.entry
        BY <2>1, <3>2, <4>1 DEF Own
      <4> QED
        BY <2>1, <3>3, <3>4, <4>2 DEF Remove, Without
    <3>5. CASE AddFunc(r) \/ UNCHANGED entries
      BY <2>1, <3>3, <3>5 DEF AddFunc
    <3> QED
      BY <3>1, <3>4, <3>5
  <2>4. ASSUME NEW t \in Schedules, DeleteById(t)
        PROVE  doc'[s] = doc[s] /\ own \in entries'
    <3>1. t # s
      BY <1>1, <2>4, NewDocs DEF DeleteById, IInv, Shapes
    <3> QED
      BY <1>1, <2>1, <2>4, <3>1 DEF DeleteById, IInv, Shapes
  <2>5. CASE update
    <3>1. ASSUME NEW e \in upd.doomed, Prune(e)
          PROVE  own \in entries'
      <4>1. upd.pc = "prune" /\ upd.seen[s] = doc[s]
        BY <1>1, <3>1 DEF Prune
      <4>2. e.id \notin upd.ids /\ doc[s].entry \in upd.ids
        BY <1>1, <2>1, <4>1 DEF IInv, UpdateInv
      <4> QED
        BY <2>1, <3>1, <4>2 DEF Prune, Without
    <3> QED
      BY <2>1, <2>5, <3>1 DEF update, FetchEnabled, GetEntryIdsMap, Prune, Sleep
  <2>6. CASE Restart
    BY <1>1, <2>6, ScheduleAssumption DEF Restart, IInv, Shapes
  <2>7. CASE UNCHANGED vars
    BY <2>1, <2>7 DEF vars
  <2> QED
    BY <1>1, <2>3, <2>4, <2>5, <2>6, <2>7 DEF Next
<1>2. ASSUME IInv, [Next]_vars
      PROVE  \A s \in Schedules : Untouched(s) => Armed(s)'
  BY <1>1, <1>2
<1> QED
  BY <1>2, Inductive, PTL DEF Spec, UntouchedStaysArmed

=============================================================================
