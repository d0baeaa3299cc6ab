------------------------- MODULE TaskDispatchProofs -------------------------
(***************************************************************************)
(* Proofs about TaskDispatch, for any number of nodes, tasks, concurrent   *)
(* Fetch handlers and crashes.                                             *)
(***************************************************************************)
EXTENDS TaskDispatch, TLAPS

\* TypeOK alone is not inductive: the handlers and the loop use the task and
\* the node they carry as indices, so they must carry one when they do.
CarryInv ==
    /\ \A c \in Calls : call[c].pc # "free" => call[c].node \in Nodes
    /\ \A c \in Calls : call[c].pc \in {"load", "assign", "dequeue"}
                          => call[c].tid \in Tasks
    /\ \A n \in Nodes : loop[n].pc = "run" => loop[n].tid \in Tasks

\* The sentinels are values of their types.
LEMMA SentinelTypes ==
    /\ NoDoc \in TaskDoc
    /\ FreeCall \in CallState
    /\ Waiting \in LoopState
    /\ NoRunner \in RunnerState
    /\ NoCancel \in CancelState
    /\ Booting \in BootState
    /\ \A e \in EnqState : Abandoned(e) \in EnqState
<1>1. NoDoc \in TaskDoc
  BY DEF NoDoc, TaskDoc
<1>2. \A e \in EnqState : Abandoned(e) \in EnqState
  BY DEF EnqState, Abandoned
<1> QED
  BY <1>1, <1>2 DEF FreeCall, CallState, Waiting, LoopState, NoRunner,
                    RunnerState, NoCancel, CancelState, Booting, BootState

\* The process of a node ending and starting again keeps the types; this is
\* the part Crash and LaunchPanics share.
LEMMA ProcessEndsType ==
    ASSUME TypeOK, NEW n \in Nodes, ProcessEnds(n), crashes' \in Nat
    PROVE  TypeOK'
<1>1. pool' \in [Nodes -> [Tasks -> RunnerState]]
  BY SentinelTypes DEF TypeOK, ProcessEnds
<1>2. loop' \in [Nodes -> LoopState]
  BY SentinelTypes DEF TypeOK, ProcessEnds
<1>3. call' \in [Calls -> CallState]
  <2>1. ASSUME NEW c \in Calls
        PROVE  [call[c] EXCEPT !.open = FALSE] \in CallState
    <3>1. call[c] \in CallState
      BY DEF TypeOK
    <3> QED
      BY <3>1 DEF CallState
  <2> QED
    BY <2>1, SentinelTypes DEF TypeOK, ProcessEnds
<1>4. /\ enq' \in [Tasks -> EnqState]
      /\ canc' \in [Tasks -> CancelState]
      /\ boot' \in BootState
  BY SentinelTypes DEF TypeOK, ProcessEnds
<1> QED
  BY <1>1, <1>2, <1>3, <1>4 DEF TypeOK, ProcessEnds, wanted

LEMMA ReplacedType ==
    ASSUME TypeOK, NEW t \in Tasks, NEW d \in TaskDoc
    PROVE  Replaced(t, d) \in [Tasks -> TaskDoc]
BY DEF Replaced, TypeOK

LEMMA EnqueueType ==
    ASSUME TypeOK, NEW t \in Tasks, Enqueue(t)
    PROVE  TypeOK'
<1>1. CASE InsertTask(t)
  <2>1. [status |-> "pending", node |-> assigned[t]] \in TaskDoc
    BY DEF TypeOK, TaskDoc, Status
  <2> QED
    BY <1>1, <2>1 DEF InsertTask, TypeOK, EnqState, wanted
<1>2. CASE InsertQueueItem(t)
  BY <1>2 DEF InsertQueueItem, TypeOK, EnqState, wanted
<1>3. CASE InsertStat(t)
  BY <1>3 DEF InsertStat, TypeOK, EnqState, wanted
<1>4. CASE InsertFails(t)
  BY <1>4 DEF InsertFails, TypeOK, EnqState, wanted
<1> QED
  BY <1>1, <1>2, <1>3, <1>4 DEF Enqueue

LEMMA CancelType ==
    ASSUME TypeOK, NEW t \in Tasks, Cancel(t)
    PROVE  TypeOK'
<1>1. canc[t] \in CancelState /\ task[t] \in TaskDoc
  BY DEF TypeOK
<1>2. CancelledDoc(t) \in TaskDoc
  BY <1>1 DEF CancelledDoc, CancelState, TaskDoc, Status
<1>3. Replaced(t, CancelledDoc(t)) \in [Tasks -> TaskDoc]
  BY <1>2, ReplacedType
<1>4. \A pc \in {"idle", "read", "save", "unqueue", "forward"} :
         [canc EXCEPT ![t].pc = pc] \in [Tasks -> CancelState]
  <2>1. ASSUME NEW pc \in {"idle", "read", "save", "unqueue", "forward"}
        PROVE  [canc[t] EXCEPT !.pc = pc] \in CancelState
    BY <1>1 DEF CancelState
  <2> QED
    BY <2>1 DEF TypeOK
<1>5. CASE CheckCancellable(t)
  BY <1>4, <1>5 DEF CheckCancellable, TypeOK, wanted
<1>6. CASE CancelRead(t)
  <2>1. [pc |-> "save", doc |-> task[t]] \in CancelState
    BY <1>1 DEF CancelState
  <2> QED
    BY <1>6, <2>1, SentinelTypes DEF CancelRead, TypeOK, wanted
<1>7. CASE CancelSave(t)
  <2>1. task' \in [Tasks -> TaskDoc]
    BY <1>3, <1>7 DEF CancelSave, Replace, TypeOK
  <2>2. canc' \in [Tasks -> CancelState]
    BY <1>4, <1>7 DEF CancelSave
  <2> QED
    BY <1>7, <2>1, <2>2 DEF CancelSave, TypeOK, wanted
<1>8. CASE CancelUnqueue(t)
  BY <1>8, SentinelTypes DEF CancelUnqueue, TypeOK, wanted
<1>9. CASE CancelForward(t)
  <2>1. task' \in [Tasks -> TaskDoc]
    BY <1>3, <1>9 DEF CancelForward, Replace, TypeOK
  <2> QED
    BY <1>9, <2>1, SentinelTypes DEF CancelForward, TypeOK, wanted
<1> QED
  BY <1>5, <1>6, <1>7, <1>8, <1>9 DEF Cancel

LEMMA FetchType ==
    ASSUME TypeOK, CarryInv, NEW c \in Calls, Fetch(c)
    PROVE  TypeOK'
<1>1. call[c] \in CallState
  BY DEF TypeOK
<1>2. call[c].tid \in Tasks \cup {NoTask} /\ call[c].doc \in TaskDoc
  BY <1>1 DEF CallState
<1>3. \A pc \in {"any", "dequeue", "reply"} :
         [call EXCEPT ![c].pc = pc] \in [Calls -> CallState]
  <2>1. ASSUME NEW pc \in {"any", "dequeue", "reply"}
        PROVE  [call[c] EXCEPT !.pc = pc] \in CallState
    BY <1>1 DEF CallState
  <2> QED
    BY <2>1 DEF TypeOK
<1>4. \A t \in Tasks :
         [call EXCEPT ![c].pc = "load", ![c].tid = t] \in [Calls -> CallState]
  <2>1. ASSUME NEW t \in Tasks
        PROVE  [call[c] EXCEPT !.pc = "load", !.tid = t] \in CallState
    BY <1>1 DEF CallState
  <2> QED
    BY <2>1 DEF TypeOK
<1>5. CASE FindPinned(c)
  <2>1. call' \in [Calls -> CallState]
    BY <1>3, <1>4, <1>5 DEF FindPinned, Found
  <2> QED
    BY <1>5, <2>1 DEF FindPinned, TypeOK, wanted
<1>6. CASE FindAny(c)
  <2>1. call' \in [Calls -> CallState]
    BY <1>3, <1>4, <1>6 DEF FindAny, Found
  <2> QED
    BY <1>6, <2>1 DEF FindAny, TypeOK, wanted
<1>7. CASE LoadTask(c)
  <2>1. [call[c] EXCEPT !.pc = "assign", !.doc = task[call[c].tid]]
           \in CallState
    <3>1. call[c].tid \in Tasks
      BY <1>7 DEF LoadTask, CarryInv
    <3>2. task[call[c].tid] \in TaskDoc
      BY <3>1 DEF TypeOK
    <3> QED
      BY <1>1, <3>2 DEF CallState
  <2>2. call' \in [Calls -> CallState]
    BY <1>3, <1>7, <2>1 DEF LoadTask, TypeOK
  <2> QED
    BY <1>7, <2>2 DEF LoadTask, TypeOK, wanted
<1>8. CASE AssignNode(c)
  <2>1. call[c].tid \in Tasks
    BY <1>8 DEF AssignNode, CarryInv
  <2>2. [call[c].doc EXCEPT !.node = call[c].node] \in TaskDoc
    <3>1. call[c].node \in Nodes \cup {NoNode}
      BY <1>1 DEF CallState
    <3> QED
      BY <1>2, <3>1 DEF TaskDoc
  <2>3. task' \in [Tasks -> TaskDoc]
    BY <1>8, <2>1, <2>2, ReplacedType DEF AssignNode, Replace
  <2>4. [call[c] EXCEPT !.pc = "dequeue", !.doc = NoDoc] \in CallState
    BY <1>1, SentinelTypes DEF CallState
  <2>5. call' \in [Calls -> CallState]
    BY <1>8, <2>4 DEF AssignNode, TypeOK
  <2> QED
    BY <1>8, <2>3, <2>5 DEF AssignNode, TypeOK, wanted
<1>9. CASE Dequeue(c)
  <2>1. call' \in [Calls -> CallState]
    BY <1>3, <1>9 DEF Dequeue
  <2> QED
    BY <1>9, <2>1 DEF Dequeue, TypeOK, wanted
<1>10. ASSUME NEW n \in Nodes, NEW t \in Tasks \cup {NoTask}
       PROVE  Fetched(n, t) \in [Nodes -> LoopState]
  <2>1. t # NoTask => [pc |-> "run", tid |-> t] \in LoopState
    BY DEF LoopState
  <2> QED
    BY <2>1, SentinelTypes DEF Fetched, TypeOK
<1>11. CASE Reply(c)
  <2>1. call[c].node \in Nodes
    BY <1>11 DEF Reply, CarryInv
  <2>2. loop' \in [Nodes -> LoopState]
    BY <1>2, <1>10, <1>11, <2>1 DEF Reply, TypeOK
  <2>3. got' \in [Tasks -> SUBSET Nodes]
    BY <1>2, <1>11, <2>1 DEF Reply, TypeOK
  <2> QED
    BY <1>11, <2>2, <2>3, SentinelTypes DEF Reply, TypeOK, wanted
<1>12. CASE FetchFails(c)
  <2>1. call[c].node \in Nodes
    BY <1>12 DEF FetchFails, CarryInv
  <2>2. loop' \in [Nodes -> LoopState]
    BY <1>10, <1>12, <2>1 DEF FetchFails, TypeOK
  <2> QED
    BY <1>12, <2>2, SentinelTypes DEF FetchFails, TypeOK, wanted
<1> QED
  BY <1>5, <1>6, <1>7, <1>8, <1>9, <1>11, <1>12 DEF Fetch

LEMMA LoopType ==
    ASSUME TypeOK, NEW n \in Nodes, Tick(n) \/ Timeout(n)
    PROVE  TypeOK'
<1>1. CASE Tick(n)
  <2>1. [FreeCall EXCEPT !.pc = "pinned", !.node = n, !.open = TRUE]
           \in CallState
    BY SentinelTypes DEF CallState
  <2>2. [pc |-> "fetch", tid |-> NoTask] \in LoopState
    BY DEF LoopState
  <2>3. call' \in [Calls -> CallState]
    BY <1>1, <2>1 DEF Tick, TypeOK
  <2> QED
    BY <1>1, <2>2, <2>3 DEF Tick, TypeOK, wanted
<1>2. CASE Timeout(n)
  <2>1. ASSUME NEW c \in Calls
        PROVE  [call[c] EXCEPT !.open = FALSE] \in CallState
    <3>1. call[c] \in CallState
      BY DEF TypeOK
    <3> QED
      BY <3>1 DEF CallState
  <2> QED
    BY <1>2, <2>1, SentinelTypes DEF Timeout, TypeOK, wanted
<1> QED
  BY <1>1, <1>2

LEMMA HandlerType ==
    ASSUME TypeOK, CarryInv, NEW n \in Nodes, Handler(n)
    PROVE  TypeOK'
<1>1. CASE Launch(n)
  <2> DEFINE t == loop[n].tid
  <2>1. t \in Tasks
    BY <1>1 DEF Launch, CarryInv
  <2>2. [pc |-> "starting", doc |-> task[t]] \in RunnerState
    BY <2>1 DEF TypeOK, RunnerState
  <2> QED
    BY <1>1, <2>1, <2>2, SentinelTypes DEF Launch, TypeOK, wanted
<1>2. CASE LaunchFails(n)
  BY <1>2, SentinelTypes DEF LaunchFails, TypeOK, wanted
<1>3. CASE LaunchPanics(n)
  <2>1. crashes' \in Nat
    BY <1>3 DEF LaunchPanics, TypeOK
  <2> QED
    BY <1>3, <2>1, ProcessEndsType DEF LaunchPanics
<1>4. ASSUME NEW t \in Tasks, MarkRunning(n, t)
      PROVE  TypeOK'
  <2>1. pool[n][t].doc \in TaskDoc
    BY DEF TypeOK, RunnerState
  <2>2. [pool[n][t].doc EXCEPT !.status = "running"] \in TaskDoc
    BY <2>1 DEF TaskDoc, Status
  <2>3. task' \in [Tasks -> TaskDoc]
    <3>1. task' \in {task, Replaced(t, [pool[n][t].doc EXCEPT !.status = "running"])}
      BY <1>4 DEF MarkRunning, Replace
    <3> QED
      BY <2>2, <3>1, ReplacedType DEF TypeOK
  <2>4. [pc |-> "running", doc |-> task'[t]] \in RunnerState
    BY <2>3 DEF RunnerState
  <2>5. pool' \in [Nodes -> [Tasks -> RunnerState]]
    <3>1. \E r \in RunnerState : pool' = [pool EXCEPT ![n][t] = r]
      BY <1>4, <2>4, SentinelTypes DEF MarkRunning
    <3> QED
      BY <3>1 DEF TypeOK
  <2> QED
    BY <1>4, <2>3, <2>5 DEF MarkRunning, TypeOK, wanted
<1>5. ASSUME NEW t \in Tasks, End(n, t)
      PROVE  TypeOK'
  <2>1. pool[n][t] \in RunnerState
    BY DEF TypeOK
  <2>2. ASSUME NEW s \in EndStatus(pool[n][t])
        PROVE  [pool[n][t].doc EXCEPT !.status = s] \in TaskDoc
    <3>1. s \in Status
      BY <2>1 DEF EndStatus, RunnerState, Status
    <3> QED
      BY <2>1, <3>1 DEF RunnerState, TaskDoc
  <2>3. task' \in [Tasks -> TaskDoc]
    <3>1. \/ task' = task
          \/ \E s \in EndStatus(pool[n][t]) :
                task' = Replaced(t, [pool[n][t].doc EXCEPT !.status = s])
      BY <1>5 DEF End, Replace
    <3>2. ASSUME NEW s \in EndStatus(pool[n][t])
          PROVE  Replaced(t, [pool[n][t].doc EXCEPT !.status = s]) \in [Tasks -> TaskDoc]
      BY <2>2, <3>2, ReplacedType
    <3> QED
      BY <3>1, <3>2 DEF TypeOK
  <2> QED
    BY <1>5, <2>3, SentinelTypes DEF End, TypeOK, wanted
<1> QED
  BY <1>1, <1>2, <1>3, <1>4, <1>5 DEF Handler

LEMMA BootType ==
    ASSUME TypeOK, Boot
    PROVE  TypeOK'
<1>1. boot.stale \in [Tasks -> TaskDoc]
  BY DEF TypeOK, BootState
<1>2. CASE BootScan
  <2>1. boot' \in BootState
    BY <1>2, SentinelTypes DEF BootScan, BootState, TypeOK
  <2> QED
    BY <1>2, <2>1 DEF BootScan, TypeOK, wanted
<1>3. CASE BootPurge
  <2>1. boot' \in BootState
    BY <1>3 DEF BootPurge, BootState, TypeOK
  <2> QED
    BY <1>3, <2>1 DEF BootPurge, TypeOK, wanted
<1>4. ASSUME NEW t \in Tasks, BootSave(t)
      PROVE  TypeOK'
  <2>1. [boot.stale[t] EXCEPT !.status = "abnormal"] \in TaskDoc
    BY <1>1 DEF TaskDoc, Status
  <2>2. task' \in [Tasks -> TaskDoc]
    BY <1>4, <2>1, ReplacedType DEF BootSave, Replace
  <2>3. boot' \in BootState
    BY <1>1, <1>4, SentinelTypes DEF BootSave, BootState, TypeOK
  <2> QED
    BY <1>4, <2>2, <2>3 DEF BootSave, TypeOK, wanted
<1> QED
  BY <1>2, <1>3, <1>4 DEF Boot

LEMMA NextType ==
    ASSUME TypeOK, CarryInv, [Next]_vars
    PROVE  TypeOK'
<1>1. ASSUME NEW t \in Tasks, Enqueue(t) \/ Cancel(t)
      PROVE  TypeOK'
  BY <1>1, EnqueueType, CancelType
<1>2. ASSUME NEW t \in Tasks, DeleteTaskById(t)
      PROVE  TypeOK'
  BY <1>2, SentinelTypes DEF DeleteTaskById, TypeOK, wanted
<1>3. ASSUME NEW n \in Nodes, Tick(n) \/ Timeout(n) \/ Handler(n)
      PROVE  TypeOK'
  BY <1>3, LoopType, HandlerType
<1>4. ASSUME NEW n \in Nodes, Crash(n)
      PROVE  TypeOK'
  <2>1. crashes' \in Nat
    BY <1>4 DEF Crash, TypeOK
  <2> QED
    BY <1>4, <2>1, ProcessEndsType DEF Crash
<1>5. ASSUME NEW c \in Calls, Fetch(c)
      PROVE  TypeOK'
  BY <1>5, FetchType
<1>6. ASSUME NEW n \in Nodes, NEW t \in Tasks, CancelPanics(n, t)
      PROVE  TypeOK'
  <2>1. crashes' \in Nat
    BY <1>6 DEF CancelPanics, TypeOK
  <2> QED
    BY <1>6, <2>1, ProcessEndsType DEF CancelPanics
<1>7. CASE UNCHANGED vars
  BY <1>7 DEF vars, TypeOK
<1> QED
  BY <1>1, <1>2, <1>3, <1>4, <1>5, <1>6, <1>7, BootType DEF Next

\* Steps that touch neither a handler nor a fetch loop.
LEMMA CarryFrame ==
    ASSUME CarryInv, UNCHANGED <<call, loop>>
    PROVE  CarryInv'
BY DEF CarryInv

LEMMA ProcessEndsCarry ==
    ASSUME TypeOK, CarryInv, NEW n \in Nodes, ProcessEnds(n)
    PROVE  CarryInv'
<1>1. CASE n = Master
  BY <1>1 DEF ProcessEnds, CarryInv, FreeCall, Waiting, TypeOK
<1>2. CASE n # Master
  <2>1. ASSUME NEW c \in Calls
        PROVE  /\ call'[c].pc = call[c].pc
               /\ call'[c].node = call[c].node
               /\ call'[c].tid = call[c].tid
    <3>1. call[c] \in CallState
      BY DEF TypeOK
    <3> QED
      BY <1>2, <3>1 DEF ProcessEnds, CallState
  <2>2. \A m \in Nodes : loop'[m].pc = "run" => loop'[m] = loop[m]
    BY <1>2 DEF ProcessEnds, Waiting, TypeOK
  <2> QED
    BY <2>1, <2>2 DEF CarryInv
<1> QED
  BY <1>1, <1>2

LEMMA FetchCarry ==
    ASSUME TypeOK, CarryInv, NEW c \in Calls, Fetch(c)
    PROVE  CarryInv'
<1>1. call[c] \in CallState /\ call \in [Calls -> CallState]
  BY DEF TypeOK
<1>2. CASE FindPinned(c)
  BY <1>1, <1>2 DEF FindPinned, Found, CarryInv, CallState
<1>3. CASE FindAny(c)
  BY <1>1, <1>3 DEF FindAny, Found, CarryInv, CallState
<1>4. CASE LoadTask(c)
  BY <1>1, <1>4 DEF LoadTask, CarryInv, CallState
<1>5. CASE AssignNode(c)
  BY <1>1, <1>5 DEF AssignNode, CarryInv, CallState
<1>6. CASE Dequeue(c)
  BY <1>1, <1>6 DEF Dequeue, CarryInv, CallState
<1>7. CASE Reply(c)
  <2>1. call[c].tid = NoTask \/ call[c].tid \in Tasks
    BY <1>1 DEF CallState
  <2> QED
    BY <1>1, <1>7, <2>1 DEF Reply, Fetched, FreeCall, Waiting, CarryInv, TypeOK
<1>8. CASE FetchFails(c)
  BY <1>1, <1>8 DEF FetchFails, Fetched, FreeCall, Waiting, CarryInv, TypeOK
<1> QED
  BY <1>2, <1>3, <1>4, <1>5, <1>6, <1>7, <1>8 DEF Fetch

LEMMA NextCarry ==
    ASSUME TypeOK, CarryInv, [Next]_vars
    PROVE  CarryInv'
<1>1. ASSUME NEW t \in Tasks, Enqueue(t) \/ Cancel(t) \/ DeleteTaskById(t)
      PROVE  CarryInv'
  <2>1. UNCHANGED <<call, loop>>
    BY <1>1 DEF Enqueue, InsertTask, InsertQueueItem, InsertStat, InsertFails,
                Cancel, CheckCancellable, CancelRead, CancelSave,
                CancelUnqueue, CancelForward, DeleteTaskById
  <2> QED
    BY <2>1, CarryFrame
<1>2. ASSUME NEW n \in Nodes, Tick(n)
      PROVE  CarryInv'
  <2>1. /\ loop'[n] = [pc |-> "fetch", tid |-> NoTask]
        /\ \A m \in Nodes \ {n} : loop'[m] = loop[m]
    BY <1>2 DEF Tick, TypeOK
  <2>2. PICK c \in Calls :
           call' = [call EXCEPT ![c] = [FreeCall EXCEPT !.pc = "pinned",
                                                        !.node = n,
                                                        !.open = TRUE]]
    BY <1>2 DEF Tick
  <2>3. call'[c].pc = "pinned" /\ call'[c].node = n
    BY <2>2 DEF FreeCall, TypeOK
  <2>4. \A d \in Calls \ {c} : call'[d] = call[d]
    BY <2>2 DEF TypeOK
  <2> QED
    BY <2>1, <2>3, <2>4 DEF CarryInv
<1>3. ASSUME NEW n \in Nodes, Timeout(n)
      PROVE  CarryInv'
  <2>1. ASSUME NEW c \in Calls
        PROVE  /\ call'[c].pc = call[c].pc
               /\ call'[c].node = call[c].node
               /\ call'[c].tid = call[c].tid
    <3>1. call[c] \in CallState
      BY DEF TypeOK
    <3> QED
      BY <1>3, <3>1 DEF Timeout, CallState
  <2> QED
    BY <1>3, <2>1 DEF Timeout, CarryInv, Waiting, TypeOK
<1>4. ASSUME NEW n \in Nodes, Handler(n)
      PROVE  CarryInv'
  <2>1. CASE LaunchPanics(n)
    BY <2>1, ProcessEndsCarry DEF LaunchPanics
  <2>2. CASE Launch(n) \/ LaunchFails(n)
    <3>1. call' = call /\ loop' = [loop EXCEPT ![n] = Waiting]
      BY <2>2 DEF Launch, LaunchFails
    <3> QED
      BY <3>1 DEF CarryInv, Waiting, TypeOK
  <2>3. ASSUME NEW t \in Tasks, MarkRunning(n, t) \/ End(n, t)
        PROVE  CarryInv'
    <3>1. UNCHANGED <<call, loop>>
      BY <2>3 DEF MarkRunning, End
    <3> QED
      BY <3>1, CarryFrame
  <2> QED
    BY <1>4, <2>1, <2>2, <2>3 DEF Handler
<1>5. ASSUME NEW n \in Nodes, Crash(n)
      PROVE  CarryInv'
  BY <1>5, ProcessEndsCarry DEF Crash
<1>6. ASSUME NEW c \in Calls, Fetch(c)
      PROVE  CarryInv'
  BY <1>6, FetchCarry
<1>7. CASE Boot
  BY <1>7, CarryFrame DEF Boot, BootScan, BootPurge, BootSave
<1>8. ASSUME NEW n \in Nodes, NEW t \in Tasks, CancelPanics(n, t)
      PROVE  CarryInv'
  BY <1>8, ProcessEndsCarry DEF CancelPanics
<1>9. CASE UNCHANGED vars
  BY <1>9, CarryFrame DEF vars
<1> QED
  BY <1>1, <1>2, <1>3, <1>4, <1>5, <1>6, <1>7, <1>8, <1>9 DEF Next

LEMMA InitType == Init => TypeOK /\ CarryInv
BY SentinelTypes DEF Init, TypeOK, CarryInv, FreeCall, Waiting, EnqState

\* Every collection, handler, loop and runner pool keeps its shape, and what
\* a handler or a loop carries is a task and a node when it is used.
THEOREM TypeCorrect == Spec => [](TypeOK /\ CarryInv)
<1>1. TypeOK /\ CarryInv /\ [Next]_vars => (TypeOK /\ CarryInv)'
  BY NextType, NextCarry
<1> QED
  BY <1>1, InitType, PTL DEF Spec

-----------------------------------------------------------------------------
(* Writes of stale copies.                                                 *)

LEMMA ReplacedAbsent ==
    ASSUME TypeOK, NEW t \in Tasks, task[t].status = "absent", NEW s, NEW doc
    PROVE  Replaced(s, doc)[t] = task[t]
BY DEF Replaced, Exists, TypeOK

\* Cancel, Fetch, the runners of all nodes and initTaskStatus write whole
\* documents back from copies as old as they like: none of them creates the
\* document of a task that was deleted.
THEOREM DeletedIsGone == Spec => DeletedStaysDeleted
<1>1. ASSUME TypeOK, [Next]_vars, NEW t \in Tasks,
             enq[t] # "idle", task[t].status = "absent"
      PROVE  task'[t].status = "absent"
  <2>1. \/ task' = task
        \/ \E s, doc : task' = Replaced(s, doc)
        \/ \E s \in Tasks : InsertTask(s) \/ DeleteTaskById(s)
    BY <1>1 DEF Next, vars, Replace, Enqueue, InsertQueueItem, InsertStat,
         InsertFails, Cancel, CheckCancellable, CancelRead, CancelSave,
         CancelUnqueue, CancelForward, Tick, Timeout, Handler, Launch,
         LaunchFails, LaunchPanics, MarkRunning, End, Crash, CancelPanics,
         ProcessEnds, Fetch, FindPinned, FindAny, LoadTask, AssignNode,
         Dequeue, Reply, FetchFails, Boot, BootScan, BootPurge, BootSave
  <2>2. CASE \E s, doc : task' = Replaced(s, doc)
    BY <1>1, <2>2, ReplacedAbsent
  <2>3. ASSUME NEW s \in Tasks, InsertTask(s)
        PROVE  task'[t].status = "absent"
    <3>1. s # t
      BY <1>1, <2>3 DEF InsertTask
    <3> QED
      BY <1>1, <2>3, <3>1 DEF InsertTask, TypeOK
  <2>4. ASSUME NEW s \in Tasks, DeleteTaskById(s)
        PROVE  task'[t].status = "absent"
    BY <1>1, <2>4 DEF DeleteTaskById, TypeOK, NoDoc
  <2> QED
    BY <1>1, <2>1, <2>2, <2>3, <2>4
<1>2. ASSUME TypeOK, [Next]_vars
      PROVE  \A t \in Tasks :
                enq[t] # "idle" /\ task[t].status = "absent"
                    => task'[t].status = "absent"
  BY <1>1, <1>2
<1>3. Spec => []TypeOK
  BY TypeCorrect, PTL
<1> QED
  BY <1>2, <1>3, PTL DEF Spec, DeletedStaysDeleted
=============================================================================
