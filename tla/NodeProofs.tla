----------------------------- MODULE NodeProofs -----------------------------
(***************************************************************************)
(* Proofs about NodeMembership, for any number of documents, streams,      *)
(* handlers, forms and restarts: whoever writes a node document from a     *)
(* copy of it, status and active flag agree, and what is deleted stays so. *)
(***************************************************************************)
EXTENDS NodeMembership, TLAPS

\* Documents, and copies of them, whose flag agrees with the status.
SoundDoc == {doc \in NodeDoc : doc.active <=> doc.status \in {"registered", "online"}}

CallPcs == {"free", "find", "insert", "count", "write"}
MonPcs == {"idle", "check", "write"}

SoundCall == [pc : CallPcs, kind : {"register", "heartbeat", "report"},
              id : 0..MaxDocs, copy : SoundDoc, open : BOOLEAN]
SoundMon == [pc : MonPcs, copy : SoundDoc]
SoundCopy == [id : 0..MaxDocs, copy : SoundDoc]

\* All documents and all the copies that anybody may write are sound.
DocInv == node \in [Docs -> SoundDoc] /\ inserted \in 0..MaxDocs
CallInv == call \in [Calls -> SoundCall]
MonInv == mon \in [Docs -> SoundMon] /\ offs \subseteq SoundCopy
FormInv == form \in SoundCopy /\ forms \in 0..MaxForms
StreamInv == /\ subs \in 0..MaxStreams
             /\ unsub \in BOOLEAN
             /\ stream \in [Streams -> StreamState]
ProcessInv ==
    /\ master \in BOOLEAN
    /\ worker \in {"down", "start", "register", "read", "up", "stopping"}
    /\ cur \in 0..MaxStreams
    /\ rx \in {"none", "recv", "resubscribe", "returned"}
    /\ stops \in 0..MaxStops

IInv == DocInv /\ CallInv /\ MonInv /\ FormInv /\ StreamInv /\ ProcessInv

-----------------------------------------------------------------------------
(* The documents the code builds.                                          *)

LEMMA SoundDocs ==
    /\ NoDoc \in SoundDoc
    /\ [status |-> "registered", active |-> TRUE] \in SoundDoc
    /\ \A doc : OfflineDoc(doc) \in SoundDoc
    /\ \A kind, doc : Refreshed(kind, doc) \in SoundDoc
BY DEF SoundDoc, NodeDoc, NoDoc, OfflineDoc, Refreshed

LEMMA SoundCalls ==
    /\ FreeCall \in SoundCall
    /\ \A c \in SoundCall : [c EXCEPT !.open = FALSE] \in SoundCall
    /\ \A c \in SoundCall, pc \in CallPcs : [c EXCEPT !.pc = pc] \in SoundCall
    /\ \A c \in SoundCall, d \in 0..MaxDocs, doc \in SoundDoc :
          /\ [c EXCEPT !.pc = "write", !.id = d, !.copy = doc] \in SoundCall
          /\ \A kind \in {"register", "heartbeat", "report"}, pc \in CallPcs :
                [pc |-> pc, kind |-> kind, id |-> d, copy |-> doc, open |-> TRUE]
                    \in SoundCall
<1>1. 0 \in 0..MaxDocs
  BY MembershipAssumption
<1> QED
  BY <1>1, SoundDocs, ZenonT(60) DEF SoundCall, CallPcs, FreeCall

\* ReplaceById keeps the documents sound, whatever id it is given.
LEMMA ReplacedSound ==
    ASSUME DocInv, NEW d, NEW doc \in SoundDoc
    PROVE  Replaced(d, doc) \in [Docs -> SoundDoc]
BY DEF DocInv, Replaced, Existing

-----------------------------------------------------------------------------
LEMMA InitInv == Init => IInv
<1> SUFFICES ASSUME Init PROVE IInv
  OBVIOUS
<1>1. 0 \in 0..MaxDocs /\ 0 \in 0..MaxStreams /\ 0 \in 0..MaxForms /\ 0 \in 0..MaxStops
  BY MembershipAssumption
<1>2. DocInv /\ CallInv
  BY <1>1, SoundDocs, SoundCalls DEF Init, DocInv, CallInv
<1>3. MonInv /\ FormInv
  BY <1>1, SoundDocs DEF Init, MonInv, FormInv, SoundMon, MonPcs, SoundCopy, Idle, NoCopy
<1>4. StreamInv /\ ProcessInv
  BY <1>1 DEF Init, StreamInv, ProcessInv, StreamState
<1> QED
  BY <1>2, <1>3, <1>4 DEF IInv

-----------------------------------------------------------------------------
(* Requests of the worker.                                                 *)

LEMMA BeginSound ==
    ASSUME CallInv, NEW kind \in {"register", "heartbeat", "report"},
           NEW pc \in CallPcs, NEW d \in 0..MaxDocs, NEW doc \in SoundDoc,
           Begin(kind, pc, d, doc)
    PROVE  CallInv'
<1> DEFINE new == [pc |-> pc, kind |-> kind, id |-> d, copy |-> doc, open |-> TRUE]
<1>1. PICK c \in Calls : call' = [call EXCEPT ![c] = new]
  BY DEF Begin
<1>2. FreeCall \in SoundCall /\ new \in SoundCall
  BY SoundCalls
<1> QED
  BY <1>1, <1>2 DEF CallInv

LEMMA WorkerEndsSound ==
    ASSUME CallInv, ProcessInv, WorkerEnds
    PROVE  /\ CallInv'
           /\ worker' = "down" /\ rx' = "none" /\ cur' = cur
BY SoundCalls DEF CallInv, WorkerEnds

LEMMA RequestInv ==
    ASSUME IInv, Request
    PROVE  IInv'
<1>1. UNCHANGED <<database, master, mon, offs, streams, cur, users, stops>>
  BY DEF Request, CallRegister, RegisterPanics, ReadNode, CallHeartbeat,
         ReadForReport, SendReport, WorkerEnds, server, process
<1>2. CallInv'
  <2>1. 0 \in 0..MaxDocs
    BY MembershipAssumption
  <2>2. CASE CallRegister
    BY <2>1, <2>2, BeginSound, SoundDocs DEF CallRegister, CallPcs, IInv
  <2>3. CASE RegisterPanics
    BY <2>3, WorkerEndsSound DEF RegisterPanics, IInv
  <2>4. CASE ReadNode
    BY <2>4 DEF ReadNode, server, IInv, CallInv
  <2>5. CASE CallHeartbeat
    BY <2>1, <2>5, BeginSound, SoundDocs DEF CallHeartbeat, CallPcs, IInv
  <2>6. CASE ReadForReport
    <3>1. PICK d \in Docs : Begin("report", "count", d, node[d])
      BY <2>6 DEF ReadForReport, Existing
    <3>2. node[d] \in SoundDoc /\ d \in 0..MaxDocs
      BY MembershipAssumption DEF IInv, DocInv, Docs
    <3> QED
      BY <3>1, <3>2, BeginSound DEF CallPcs, IInv
  <2>7. ASSUME NEW c \in Calls, SendReport(c)
        PROVE  CallInv'
    BY <2>7, SoundCalls DEF SendReport, IInv, CallInv, CallPcs
  <2> QED
    BY <2>2, <2>3, <2>4, <2>5, <2>6, <2>7 DEF Request
<1>3. ProcessInv'
  BY <1>1 DEF Request, CallRegister, RegisterPanics, ReadNode, CallHeartbeat,
              ReadForReport, SendReport, WorkerEnds, IInv, ProcessInv, process
<1> QED
  BY <1>1, <1>2, <1>3
     DEF IInv, DocInv, MonInv, FormInv, StreamInv, database, streams, users

-----------------------------------------------------------------------------
(* Register and SendHeartbeat on the master.                               *)

LEMMA HandleInv ==
    ASSUME IInv, NEW c \in Calls, Handle(c)
    PROVE  IInv'
<1>1. UNCHANGED <<master, mon, offs, streams, cur, rx, users, stops>>
  BY DEF Handle, Find, Insert, Write, HandlerFails, process
<1>2. worker' \in {worker, "read"}
  BY DEF Handle, Find, Insert, Write, HandlerFails, Succeed, process
<1>3. CallInv'
  <2>1. call[c] \in SoundCall
    BY DEF IInv, CallInv
  <2>2. CASE Find(c)
    <3>1. ASSUME NEW d \in Existing,
                 call' = [call EXCEPT ![c].pc = "write", ![c].id = d,
                                      ![c].copy = Refreshed(call[c].kind, node[d])]
          PROVE  CallInv'
      <4>1. d \in 0..MaxDocs /\ Refreshed(call[c].kind, node[d]) \in SoundDoc
        BY SoundDocs, MembershipAssumption DEF Existing, Docs
      <4>2. [call[c] EXCEPT !.pc = "write", !.id = d,
                            !.copy = Refreshed(call[c].kind, node[d])] \in SoundCall
        BY <2>1, <4>1, SoundCalls
      <4> QED
        BY <3>1, <4>2 DEF IInv, CallInv
    <3>2. ASSUME call' = [call EXCEPT ![c] =
                              IF @.kind = "register" THEN [@ EXCEPT !.pc = "insert"]
                                                     ELSE FreeCall]
          PROVE  CallInv'
      BY <2>1, <3>2, SoundCalls DEF IInv, CallInv, CallPcs
    <3> QED
      BY <2>2, <3>1, <3>2 DEF Find
  <2>3. CASE Insert(c) \/ Write(c) \/ HandlerFails(c)
    BY <2>3, SoundCalls DEF Insert, Write, HandlerFails, IInv, CallInv
  <2> QED
    BY <2>2, <2>3 DEF Handle
<1>4. DocInv'
  <2>1. CASE Insert(c)
    <3>1. inserted + 1 \in Docs
      BY <2>1, MembershipAssumption DEF Insert, IInv, DocInv, Docs
    <3> QED
      BY <2>1, <3>1, SoundDocs, MembershipAssumption DEF Insert, IInv, DocInv, Docs
  <2>2. CASE Write(c)
    <3>1. call[c].copy \in SoundDoc
      BY DEF IInv, CallInv, SoundCall
    <3> QED
      BY <2>2, <3>1, ReplacedSound DEF Write, IInv, DocInv
  <2>3. CASE Find(c) \/ HandlerFails(c)
    BY <2>3 DEF Find, HandlerFails, database, IInv, DocInv
  <2> QED
    BY <2>1, <2>2, <2>3 DEF Handle
<1> QED
  BY <1>1, <1>2, <1>3, <1>4
     DEF IInv, MonInv, FormInv, StreamInv, ProcessInv, streams, users

-----------------------------------------------------------------------------
(* The monitor.                                                            *)

LEMMA MonitorInv ==
    ASSUME IInv, Monitor
    PROVE  IInv'
<1>1. UNCHANGED <<inserted, master, call, streams, process, users, stops>>
  BY DEF Monitor, ListWorkers, Check, WriteRunners, WriteBack, SetOffline,
         SetOfflineFails, database
<1>2. \A d \in Docs : mon[d].copy \in SoundDoc
  BY DEF IInv, MonInv, SoundMon
<1>3. \A doc \in SoundDoc, pc \in MonPcs : [pc |-> pc, copy |-> doc] \in SoundMon
  BY DEF SoundMon
<1>4. Idle \in SoundMon
  BY <1>3, SoundDocs DEF Idle, MonPcs
<1>5. DocInv' /\ MonInv'
  <2>1. CASE ListWorkers
    <3>1. mon' \in [Docs -> SoundMon]
      BY <2>1, <1>3, <1>4 DEF ListWorkers, IInv, DocInv, MonPcs
    <3> QED
      BY <2>1, <3>1 DEF ListWorkers, database, IInv, DocInv, MonInv
  <2>2. ASSUME NEW d \in Docs, Check(d)
        PROVE  DocInv' /\ MonInv'
    <3>1. [id |-> d, copy |-> OfflineDoc(mon[d].copy)] \in SoundCopy
      BY SoundDocs, MembershipAssumption DEF SoundCopy, Docs
    <3>2. [mon[d] EXCEPT !.pc = "write"] \in SoundMon
      BY DEF IInv, MonInv, SoundMon, MonPcs
    <3>3. mon' \in [Docs -> SoundMon] /\ offs' \subseteq SoundCopy
      BY <2>2, <1>4, <3>1, <3>2 DEF Check, IInv, MonInv
    <3> QED
      BY <2>2, <3>3 DEF Check, database, IInv, DocInv, MonInv
  <2>3. ASSUME NEW d \in Docs, WriteRunners(d)
        PROVE  DocInv' /\ MonInv'
    BY <2>3, <1>2, <1>4, ReplacedSound
       DEF WriteRunners, WriteBack, IInv, DocInv, MonInv
  <2>4. ASSUME NEW o \in offs, SetOffline(o) \/ SetOfflineFails(o)
        PROVE  DocInv' /\ MonInv'
    <3>1. o.copy \in SoundDoc
      BY DEF IInv, MonInv, SoundCopy
    <3> QED
      BY <2>4, <3>1, ReplacedSound
         DEF SetOffline, SetOfflineFails, database, IInv, DocInv, MonInv
  <2> QED
    BY <2>1, <2>2, <2>3, <2>4 DEF Monitor
<1> QED
  BY <1>1, <1>5
     DEF IInv, CallInv, FormInv, StreamInv, ProcessInv, streams, users, process

-----------------------------------------------------------------------------
(* Subscriptions, processes and users.                                     *)

LEMMA SubscriptionInv ==
    ASSUME IInv, Subscription
    PROVE  IInv'
<1>1. UNCHANGED <<database, master, server, users, stops>>
  BY DEF Subscription, StartWorker, RecvFails, Resubscribe, GiveUp, Unsubscribe,
         SetSubscribe, Disconnect
<1>2. ASSUME Open
      PROVE  /\ cur' \in 0..MaxStreams /\ rx' = "recv"
             /\ stream' \in [Streams -> StreamState]
  BY <1>2, MembershipAssumption DEF Open, IInv, StreamInv, Streams, StreamState
<1>3. StreamInv' /\ ProcessInv'
  <2>1. CASE StartWorker \/ Resubscribe
    BY <2>1, <1>1, <1>2 DEF StartWorker, Resubscribe, IInv, StreamInv, ProcessInv
  <2>2. CASE RecvFails \/ GiveUp
    BY <2>2, <1>1 DEF RecvFails, GiveUp, IInv, StreamInv, ProcessInv, streams
  <2>3. CASE Unsubscribe
    BY <2>3, <1>1 DEF Unsubscribe, IInv, StreamInv, StreamState, ProcessInv, process
  <2>4. ASSUME NEW s \in Streams, SetSubscribe(s) \/ Disconnect(s)
        PROVE  StreamInv' /\ ProcessInv'
    BY <2>4, <1>1 DEF SetSubscribe, Disconnect, IInv, StreamInv, StreamState, Streams,
                      ProcessInv, process
  <2> QED
    BY <2>1, <2>2, <2>3, <2>4 DEF Subscription
<1> QED
  BY <1>1, <1>3 DEF IInv, DocInv, CallInv, MonInv, FormInv, database, server, users

LEMMA ProcessesInv ==
    ASSUME IInv, Processes
    PROVE  IInv'
<1>1. UNCHANGED <<database, users>>
  BY DEF Processes, StopWorker, WorkerExits, MasterExits, StartMaster
<1>2. CallInv' /\ MonInv'
  <2>1. CASE StopWorker \/ StartMaster
    BY <2>1 DEF StopWorker, StartMaster, server, IInv, CallInv, MonInv
  <2>2. CASE WorkerExits
    BY <2>2, WorkerEndsSound DEF WorkerExits, IInv, MonInv
  <2>3. CASE MasterExits
    <3>1. Idle \in SoundMon
      BY SoundDocs DEF Idle, SoundMon, MonPcs
    <3> QED
      BY <2>3, <3>1, SoundCalls DEF MasterExits, IInv, CallInv, MonInv
  <2> QED
    BY <2>1, <2>2, <2>3 DEF Processes
<1>3. StreamInv' /\ ProcessInv'
  <2>1. CASE StopWorker \/ StartMaster
    BY <2>1 DEF StopWorker, StartMaster, IInv, StreamInv, ProcessInv, streams, process
  <2>2. CASE WorkerExits
    BY <2>2, WorkerEndsSound, MembershipAssumption
       DEF WorkerExits, IInv, StreamInv, ProcessInv, streams
  <2>3. CASE MasterExits
    <3>1. stops + 1 \in 0..MaxStops
      BY <2>3, MembershipAssumption DEF MasterExits, IInv, ProcessInv
    <3>2. ProcessInv'
      BY <2>3, <3>1 DEF MasterExits, IInv, ProcessInv, process
    <3>3. stream' \in [Streams -> StreamState]
      BY <2>3 DEF MasterExits, IInv, StreamInv, StreamState
    <3>4. subs' \in 0..MaxStreams
      BY <2>3, MembershipAssumption DEF MasterExits
    <3>5. unsub' \in BOOLEAN
      BY <2>3 DEF MasterExits
    <3> QED
      BY <3>2, <3>3, <3>4, <3>5 DEF StreamInv
  <2> QED
    BY <2>1, <2>2, <2>3 DEF Processes
<1> QED
  BY <1>1, <1>2, <1>3 DEF IInv, DocInv, FormInv, database, users

LEMMA UsersInv ==
    ASSUME IInv, Users
    PROVE  IInv'
<1>1. UNCHANGED <<inserted, master, server, streams, process, stops>>
  BY DEF Users, OpenForm, PutById, DeleteById, WriteBack, database
<1>2. NoCopy \in SoundCopy
  BY SoundDocs, MembershipAssumption DEF NoCopy, SoundCopy
<1>3. DocInv' /\ FormInv'
  <2>1. ASSUME NEW d \in Docs, OpenForm(d)
        PROVE  DocInv' /\ FormInv'
    <3>1. [id |-> d, copy |-> node[d]] \in SoundCopy
      BY MembershipAssumption DEF IInv, DocInv, SoundCopy, Docs
    <3> QED
      BY <2>1, <3>1, MembershipAssumption
         DEF OpenForm, database, IInv, DocInv, FormInv
  <2>2. CASE PutById
    <3>1. form.copy \in SoundDoc
      BY DEF IInv, FormInv, SoundCopy
    <3> QED
      BY <2>2, <1>2, <3>1, ReplacedSound DEF PutById, WriteBack, IInv, DocInv, FormInv
  <2>3. ASSUME NEW d \in Docs, DeleteById(d)
        PROVE  DocInv' /\ FormInv'
    BY <2>3, SoundDocs DEF DeleteById, IInv, DocInv, FormInv, users
  <2> QED
    BY <2>1, <2>2, <2>3 DEF Users
<1> QED
  BY <1>1, <1>3 DEF IInv, CallInv, MonInv, StreamInv, ProcessInv, server, streams, process

LEMMA NextInv == IInv /\ [Next]_vars => IInv'
<1> SUFFICES ASSUME IInv, [Next]_vars PROVE IInv'
  OBVIOUS
<1>1. CASE UNCHANGED vars
  BY <1>1 DEF vars, IInv, DocInv, CallInv, MonInv, FormInv, StreamInv, ProcessInv
<1>2. CASE Request \/ Monitor \/ Subscription \/ Processes \/ Users
  BY <1>2, RequestInv, MonitorInv, SubscriptionInv, ProcessesInv, UsersInv
<1>3. ASSUME NEW c \in Calls, Handle(c)
      PROVE  IInv'
  BY <1>3, HandleInv
<1> QED
  BY <1>1, <1>2, <1>3 DEF Next

-----------------------------------------------------------------------------
(* The theorems.                                                           *)

\* All node documents and all copies of them stay sound.
THEOREM Inductive == Spec => []IInv
BY InitInv, NextInv, PTL DEF Spec

\* Every variable always holds a value of the shape the code gives it.
THEOREM TypeCorrect == Spec => []TypeOK
<1>1. SoundDoc \subseteq NodeDoc
  BY DEF SoundDoc
<1>2. /\ SoundCall \subseteq CallState
      /\ SoundMon \subseteq MonState
      /\ SoundCopy \subseteq Copy
  BY <1>1 DEF SoundCall, CallPcs, CallState, SoundMon, MonPcs, MonState, SoundCopy, Copy
<1>3. IInv => TypeOK
  BY <1>1, <1>2 DEF IInv, DocInv, CallInv, MonInv, FormInv, StreamInv, ProcessInv, TypeOK
<1> QED
  BY <1>3, Inductive, PTL

\* Registration, heartbeats, reports, the monitor, the goroutines it leaves
\* behind and the forms of users may overwrite each other in any order: a
\* node document is active exactly when it is not offline.
THEOREM StatusAgreesWithActive == Spec => []StatusMatchesActive
<1>1. IInv => StatusMatchesActive
  BY DEF IInv, DocInv, SoundDoc, NodeDoc, StatusMatchesActive, Existing
<1> QED
  BY <1>1, Inductive, PTL

\* A write of a document that is gone inserts none: every write but Register's
\* insert replaces, and that one takes an id nobody has used.
THEOREM DeletedIsGone == Spec => DeletedStaysDeleted
<1> DEFINE Stays == \A d \in 1..inserted : d \notin Existing => d \notin Existing'
<1>1. ASSUME IInv, [Next]_vars
      PROVE  Stays
  <2> SUFFICES ASSUME NEW d \in 1..inserted, d \notin Existing, d \in Existing'
               PROVE  FALSE
    OBVIOUS
  <2>1. d \in Docs /\ node[d].status = "absent" /\ node'[d].status # "absent"
    BY <1>1 DEF IInv, DocInv, Docs, Existing
  <2>2. \A e, doc : Replaced(e, doc)[d] = node[d]
    BY <1>1, <2>1 DEF IInv, DocInv, Replaced, Existing
  <2>3. node' = node \/ (\E c \in Calls : Insert(c)) \/ (\E e, doc : node' = Replaced(e, doc))
        \/ \E e \in Docs : DeleteById(e)
    BY <1>1 DEF Next, vars, database, Request, CallRegister, RegisterPanics, ReadNode,
       CallHeartbeat, ReadForReport, SendReport, Handle, Find, Write, HandlerFails,
       Monitor, ListWorkers, Check, WriteRunners, WriteBack, SetOffline,
       SetOfflineFails, Subscription, StartWorker, SetSubscribe, Disconnect,
       RecvFails, Resubscribe, GiveUp, Unsubscribe, Processes, StopWorker,
       WorkerExits, MasterExits, StartMaster, Users, OpenForm, PutById
  <2>4. ASSUME NEW c \in Calls, Insert(c)
        PROVE  FALSE
    <3>1. d # inserted + 1
      BY <1>1 DEF IInv, DocInv
    <3> QED
      BY <1>1, <2>1, <2>4, <3>1 DEF Insert, IInv, DocInv
  <2>5. ASSUME NEW e \in Docs, DeleteById(e)
        PROVE  FALSE
    BY <1>1, <2>1, <2>5 DEF DeleteById, IInv, DocInv, NoDoc
  <2> QED
    BY <2>1, <2>2, <2>3, <2>4, <2>5
<1> QED
  BY <1>1, Inductive, PTL DEF Spec, DeletedStaysDeleted

=============================================================================
