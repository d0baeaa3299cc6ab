------------------------- MODULE TaskDispatchSafety -------------------------
(***************************************************************************)
(* The safety properties of TaskDispatch, for any number of nodes, tasks,  *)
(* Fetch handlers and crashes: the inductive invariant IInv, what follows  *)
(* from it, and that TaskDispatch implements TaskQueue.                    *)
(***************************************************************************)
EXTENDS TaskDispatchProofs

\* The item of t has been inserted, now or earlier.
Inserted(t) == enq[t] \in {"stat", "ok", "noStat"}

\* The node of an open handler waits for its answer, and for no other one; a
\* handler that is still looking for an item holds no task.
CallInv ==
    /\ \A c \in Calls : call[c].open => /\ call[c].pc # "free"
                                        /\ loop[call[c].node].pc = "fetch"
    /\ \A c, d \in Calls :
          call[c].open /\ call[d].open /\ call[c].node = call[d].node => c = d
    /\ \A c \in Calls :
          call[c].pc \in {"free", "pinned", "any"} => call[c].tid = NoTask

\* A task a handler holds was in the queue and is meant for its node; when it
\* is about to answer, the item is gone.
HoldInv ==
    \A c \in Calls : call[c].tid \in Tasks =>
        /\ assigned[call[c].tid] \in {NoNode, call[c].node}
        /\ Inserted(call[c].tid)
        /\ call[c].pc = "reply" => call[c].tid \notin queue
        /\ call[c].tid \notin withdrawn

\* A queued task was handed to nobody yet.
QueueInv ==
    \A t \in queue : Inserted(t) /\ got[t] = {} /\ t \notin withdrawn

\* A node that was handed a task has no other answer with it on the way.
GotInv ==
    \A t \in Tasks : \A n \in got[t] :
        /\ Inserted(t)
        /\ \A c \in Calls : call[c].open /\ call[c].node = n => call[c].tid # t

\* Runners and the loop that is about to start one stem from an answer.
PoolInv ==
    /\ \A n \in Nodes, t \in Tasks : RunnerExists(n, t) => n \in got[t]
    /\ \A n \in Nodes : loop[n].pc = "run" => n \in got[loop[n].tid]
    /\ PoolNeverCollides

\* A withdrawn task has left the queue for good.
WithdrawnInv == \A t \in withdrawn : got[t] = {} /\ Inserted(t)

Safe == CallInv /\ HoldInv /\ QueueInv /\ GotInv /\ PoolInv /\ WithdrawnInv
IInv == TypeOK /\ CarryInv /\ Safe

-----------------------------------------------------------------------------
(* Most steps neither hand out a task nor start a runner.                  *)

\* A step that takes nothing out of a handler but its end, starts no request
\* and no runner, and inserts no item keeps Safe.
LEMMA QuietStep ==
    ASSUME TypeOK, CarryInv, Safe,
           UNCHANGED <<assigned, got, withdrawn>>,
           queue' \subseteq queue,
           \A t \in Tasks : Inserted(t) => Inserted(t)',
           \A n \in Nodes, t \in Tasks :
              RunnerExists(n, t)' => RunnerExists(n, t),
           \A n \in Nodes : loop'[n].pc = "run" => loop'[n] = loop[n],
           \A c \in Calls :
              \/ call'[c] = FreeCall
              \/ /\ call'[c].pc = call[c].pc
                 /\ call'[c].node = call[c].node
                 /\ call'[c].tid = call[c].tid
                 /\ call'[c].open =>
                       /\ call[c].open
                       /\ loop'[call[c].node].pc = "fetch"
    PROVE  Safe'
<1>1. FreeCall.pc = "free" /\ FreeCall.tid = NoTask /\ ~FreeCall.open
      /\ NoTask \notin Tasks
  BY ConstantsAssumption DEF FreeCall
<1>2. CallInv'
  BY <1>1 DEF Safe, CallInv
<1>3. HoldInv'
  BY <1>1 DEF Safe, HoldInv
<1>4. QueueInv'
  BY DEF Safe, QueueInv, TypeOK
<1>5. GotInv'
  BY <1>1 DEF Safe, GotInv, TypeOK
<1>6. PoolInv'
  <2>1. \A n \in Nodes : loop'[n].pc = "run" => ~RunnerExists(n, loop[n].tid)'
    <3>1. SUFFICES ASSUME NEW n \in Nodes, loop'[n].pc = "run",
                          RunnerExists(n, loop[n].tid)'
                   PROVE  FALSE
      OBVIOUS
    <3> QED
      BY <3>1 DEF Safe, PoolInv, PoolNeverCollides, CarryInv
  <2> QED
    BY <2>1 DEF Safe, PoolInv, PoolNeverCollides
<1>7. WithdrawnInv'
  BY DEF Safe, WithdrawnInv, TypeOK
<1> QED
  BY <1>2, <1>3, <1>4, <1>5, <1>6, <1>7 DEF Safe

\* A handler that goes on keeps Safe if what it holds was held before or is
\* taken from the queue, and if it only answers with what has left the queue.
LEMMA HandlerStep ==
    ASSUME TypeOK, CarryInv, Safe,
           NEW c \in Calls, call[c].pc # "free",
           UNCHANGED <<assigned, enq, loop, pool, got, withdrawn>>,
           queue' \subseteq queue,
           \A d \in Calls \ {c} : call'[d] = call[d],
           call'[c].node = call[c].node,
           call'[c].open = call[c].open,
           call'[c].pc # "free",
           call'[c].pc \in {"pinned", "any"} => call'[c].tid = NoTask,
           \/ call'[c].tid = call[c].tid
           \/ /\ call'[c].tid \in queue
              /\ assigned[call'[c].tid] \in {NoNode, call[c].node},
           call'[c].pc = "reply" => call'[c].tid \notin queue'
    PROVE  Safe'
<1>1. CallInv'
  BY DEF Safe, CallInv
<1>2. HoldInv'
  BY DEF Safe, HoldInv, QueueInv, Inserted
<1>3. QueueInv'
  BY DEF Safe, QueueInv, Inserted
<1>4. GotInv'
  BY DEF Safe, GotInv, QueueInv, Inserted
<1>5. PoolInv'
  BY DEF Safe, PoolInv, PoolNeverCollides, RunnerExists
<1>6. WithdrawnInv'
  BY DEF Safe, WithdrawnInv, Inserted
<1> QED
  BY <1>1, <1>2, <1>3, <1>4, <1>5, <1>6 DEF Safe

\* The items a handler looks at were inserted for its node or for any node.
LEMMA FoundStep ==
    ASSUME TypeOK, CarryInv, Safe,
           NEW c \in Calls, call[c].pc # "free",
           NEW nid, nid \in {NoNode, call[c].node}, Found(c, nid),
           UNCHANGED <<assigned, queue, enq, loop, pool, got, withdrawn>>
    PROVE  Safe'
<1>1. PICK t \in Tasks : t \in queue /\ assigned[t] = nid
                         /\ call' = [call EXCEPT ![c].pc = "load", ![c].tid = t]
  BY DEF Found, IsFirst, Items
<1>2. call[c] \in CallState
  BY DEF TypeOK
<1>3. call'[c] = [call[c] EXCEPT !.pc = "load", !.tid = t]
      /\ \A d \in Calls \ {c} : call'[d] = call[d]
  BY <1>1 DEF TypeOK
<1>4. /\ call'[c].pc = "load" /\ call'[c].tid = t
      /\ call'[c].node = call[c].node /\ call'[c].open = call[c].open
  BY <1>2, <1>3 DEF CallState
<1> QED
  BY <1>1, <1>3, <1>4, HandlerStep

\* A handler that moves on without an item keeps what it holds.
LEMMA MoveStep ==
    ASSUME TypeOK, CarryInv, Safe,
           NEW c \in Calls, call[c].pc # "free",
           NEW d \in TaskDoc,
           NEW pc \in {"any", "assign", "dequeue", "reply"},
           \/ call' = [call EXCEPT ![c].pc = pc]
           \/ call' = [call EXCEPT ![c].pc = pc, ![c].doc = d],
           UNCHANGED <<assigned, enq, loop, pool, got, withdrawn>>,
           queue' \subseteq queue,
           pc = "any" => call[c].tid = NoTask,
           pc = "reply" => call[c].tid \notin queue'
    PROVE  Safe'
<1>1. call[c] \in CallState
  BY DEF TypeOK
<1>2. \/ call'[c] = [call[c] EXCEPT !.pc = pc]
      \/ call'[c] = [call[c] EXCEPT !.pc = pc, !.doc = d]
  BY DEF TypeOK
<1>3. /\ call'[c].pc = pc /\ call'[c].tid = call[c].tid
      /\ call'[c].node = call[c].node /\ call'[c].open = call[c].open
  BY <1>1, <1>2 DEF CallState
<1>4. \A e \in Calls \ {c} : call'[e] = call[e]
  BY DEF TypeOK
<1> QED
  BY <1>3, <1>4, HandlerStep

-----------------------------------------------------------------------------
(* The actions, one after the other.                                       *)

LEMMA EnqueueSafe ==
    ASSUME TypeOK, CarryInv, Safe, NEW t \in Tasks, Enqueue(t)
    PROVE  Safe'
<1>1. CASE InsertTask(t)
  BY <1>1, QuietStep DEF InsertTask, Inserted, TypeOK, wanted, RunnerExists,
                         Safe, CallInv
<1>2. CASE InsertQueueItem(t)
  <2>1. ~Inserted(t) /\ Inserted(t)'
        /\ \A s \in Tasks \ {t} : Inserted(s)' <=> Inserted(s)
    BY <1>2 DEF InsertQueueItem, Inserted, TypeOK
  <2>2. UNCHANGED <<assigned, call, loop, pool, got, withdrawn>>
        /\ queue' = queue \cup {t}
    BY <1>2 DEF InsertQueueItem, wanted
  <2>3. got[t] = {}
    BY <2>1 DEF Safe, GotInv, TypeOK
  <2>4. t \notin withdrawn
    BY <2>1 DEF Safe, WithdrawnInv
  <2>5. \A c \in Calls : call[c].tid # t
    BY <2>1 DEF Safe, HoldInv
  <2>6. HoldInv'
    BY <2>1, <2>2, <2>5 DEF Safe, HoldInv
  <2>7. QueueInv'
    BY <2>1, <2>2, <2>3, <2>4 DEF Safe, QueueInv, TypeOK
  <2>8. GotInv' /\ WithdrawnInv'
    BY <2>1, <2>2 DEF Safe, GotInv, WithdrawnInv, TypeOK
  <2>9. CallInv' /\ PoolInv'
    BY <2>2 DEF Safe, CallInv, PoolInv, PoolNeverCollides, RunnerExists
  <2> QED
    BY <2>6, <2>7, <2>8, <2>9 DEF Safe
<1>3. CASE InsertStat(t)
  BY <1>3, QuietStep DEF InsertStat, Inserted, TypeOK, wanted, RunnerExists,
                         Safe, CallInv
<1>4. CASE InsertFails(t)
  BY <1>4, QuietStep DEF InsertFails, Inserted, TypeOK, wanted, RunnerExists,
                         Safe, CallInv
<1> QED
  BY <1>1, <1>2, <1>3, <1>4 DEF Enqueue

LEMMA CancelSafe ==
    ASSUME TypeOK, CarryInv, Safe, NEW t \in Tasks, Cancel(t)
    PROVE  Safe'
<1>1. CASE CheckCancellable(t) \/ CancelRead(t) \/ CancelSave(t)
  BY <1>1, QuietStep DEF CheckCancellable, CancelRead, CancelSave, Inserted,
                         wanted, RunnerExists, Safe, CallInv
<1>2. CASE CancelUnqueue(t)
  <2>1. CASE withdrawn' = withdrawn
    BY <1>2, <2>1, QuietStep DEF CancelUnqueue, Inserted, wanted, RunnerExists,
                                 Safe, CallInv
  <2>2. CASE withdrawn' # withdrawn
    <3>1. /\ UNCHANGED <<assigned, enq, call, loop, pool, got>>
          /\ queue' = queue \ {t} /\ withdrawn' = withdrawn \cup {t}
          /\ t \in queue /\ \A c \in Calls : call[c].tid # t
      BY <1>2, <2>2 DEF CancelUnqueue, wanted
    <3>2. HoldInv' /\ QueueInv' /\ WithdrawnInv'
      BY <3>1 DEF Safe, HoldInv, QueueInv, WithdrawnInv, Inserted
    <3>3. CallInv' /\ GotInv' /\ PoolInv'
      BY <3>1 DEF Safe, CallInv, GotInv, PoolInv, PoolNeverCollides,
                  RunnerExists, Inserted
    <3> QED
      BY <3>2, <3>3 DEF Safe
  <2> QED
    BY <2>1, <2>2
<1>3. CASE CancelForward(t)
  BY <1>3, QuietStep DEF CancelForward, Inserted, wanted, RunnerExists, Safe,
                         CallInv
<1> QED
  BY <1>1, <1>2, <1>3 DEF Cancel

\* The process of a node ending: its runners and its request are gone.
LEMMA ProcessEndsSafe ==
    ASSUME TypeOK, CarryInv, Safe, NEW n \in Nodes, ProcessEnds(n)
    PROVE  Safe'
<1>1. /\ UNCHANGED <<assigned, queue, got, withdrawn>>
      /\ \A m \in Nodes, t \in Tasks :
            RunnerExists(m, t)' => RunnerExists(m, t)
  BY DEF ProcessEnds, wanted, RunnerExists, NoRunner, TypeOK
<1>2. \A t \in Tasks : Inserted(t) => Inserted(t)'
  BY DEF ProcessEnds, Inserted, Abandoned, TypeOK, EnqState
<1>3. \A m \in Nodes : loop'[m].pc = "run" => loop'[m] = loop[m]
  BY DEF ProcessEnds, Waiting, TypeOK
<1>4. CASE n = Master
  BY <1>1, <1>2, <1>3, <1>4, QuietStep DEF ProcessEnds
<1>5. CASE n # Master
  <2>1. ASSUME NEW c \in Calls
        PROVE  /\ call'[c].pc = call[c].pc
               /\ call'[c].node = call[c].node
               /\ call'[c].tid = call[c].tid
               /\ call'[c].open => call[c].open /\ call[c].node # n
    <3>1. call[c] \in CallState
      BY DEF TypeOK
    <3> QED
      BY <1>5, <3>1 DEF ProcessEnds, CallState
  <2>2. \A m \in Nodes \ {n} : loop'[m] = loop[m]
    BY <1>5 DEF ProcessEnds, TypeOK
  <2>3. ASSUME NEW c \in Calls, call'[c].open
        PROVE  loop'[call[c].node].pc = "fetch"
    BY <2>1, <2>2, <2>3 DEF Safe, CallInv, CarryInv
  <2> QED
    BY <1>1, <1>2, <1>3, <2>1, <2>3, QuietStep
<1> QED
  BY <1>4, <1>5

LEMMA TickSafe ==
    ASSUME TypeOK, CarryInv, Safe, NEW n \in Nodes, Tick(n)
    PROVE  Safe'
<1>1. PICK c \in Calls :
         /\ call[c].pc = "free"
         /\ call' = [call EXCEPT ![c] = [FreeCall EXCEPT !.pc = "pinned",
                                                      !.node = n,
                                                      !.open = TRUE]]
  BY DEF Tick
<1>2. /\ call'[c].pc = "pinned" /\ call'[c].node = n /\ call'[c].open
      /\ call'[c].tid = NoTask
      /\ \A d \in Calls \ {c} : call'[d] = call[d]
  BY <1>1 DEF FreeCall, TypeOK
<1>3. /\ loop[n].pc = "wait" /\ loop'[n].pc = "fetch"
      /\ \A m \in Nodes \ {n} : loop'[m] = loop[m]
      /\ UNCHANGED <<assigned, queue, enq, pool, got, withdrawn>>
  BY DEF Tick, wanted, TypeOK
<1>4. NoTask \notin Tasks
  BY ConstantsAssumption
<1>5. \A d \in Calls : call[d].open => call[d].node # n /\ d # c
  BY <1>1, <1>3 DEF Safe, CallInv
<1>6. \A d \in Calls : call[d].open => call[d].node \in Nodes
  BY DEF Safe, CallInv, CarryInv
<1>7. CallInv'
  BY <1>2, <1>3, <1>5, <1>6 DEF Safe, CallInv
<1>8. HoldInv' /\ GotInv'
  BY <1>2, <1>3, <1>4 DEF Safe, HoldInv, GotInv, Inserted
<1>9. QueueInv' /\ PoolInv' /\ WithdrawnInv'
  BY <1>3 DEF Safe, QueueInv, PoolInv, PoolNeverCollides, WithdrawnInv,
              Inserted, RunnerExists
<1> QED
  BY <1>7, <1>8, <1>9 DEF Safe

LEMMA TimeoutSafe ==
    ASSUME TypeOK, CarryInv, Safe, NEW n \in Nodes, Timeout(n)
    PROVE  Safe'
<1>1. ASSUME NEW c \in Calls
      PROVE  /\ call'[c].pc = call[c].pc
             /\ call'[c].node = call[c].node
             /\ call'[c].tid = call[c].tid
             /\ call'[c].open => call[c].open /\ call[c].node # n
  <2>1. call[c] \in CallState
    BY DEF TypeOK
  <2> QED
    BY <2>1 DEF Timeout, CallState
<1>2. /\ loop'[n].pc = "wait"
      /\ \A m \in Nodes \ {n} : loop'[m] = loop[m]
      /\ UNCHANGED <<assigned, queue, enq, pool, got, withdrawn>>
  BY DEF Timeout, Waiting, wanted, TypeOK
<1>3. ASSUME NEW c \in Calls, call'[c].open
      PROVE  loop'[call[c].node].pc = "fetch"
  BY <1>1, <1>2, <1>3 DEF Safe, CallInv, CarryInv
<1> QED
  BY <1>1, <1>2, <1>3, QuietStep DEF Inserted, RunnerExists

LEMMA FetchSafe ==
    ASSUME TypeOK, CarryInv, Safe, NEW c \in Calls, Fetch(c)
    PROVE  Safe'
<1>1. call[c] \in CallState
  BY DEF TypeOK
<1>2. CASE FindPinned(c)
  <2>1. CASE Found(c, call[c].node)
    BY <1>2, <2>1, FoundStep DEF FindPinned, wanted
  <2>2. CASE call' = [call EXCEPT ![c].pc = "any"]
    <3>1. call[c].tid = NoTask
      BY <1>2 DEF FindPinned, Safe, CallInv
    <3> QED
      BY <1>2, <2>2, <3>1, SentinelTypes, MoveStep DEF FindPinned, wanted
  <2> QED
    BY <1>2, <2>1, <2>2 DEF FindPinned
<1>3. CASE FindAny(c)
  <2>1. CASE Found(c, NoNode)
    BY <1>3, <2>1, FoundStep DEF FindAny, wanted
  <2>2. CASE call' = [call EXCEPT ![c].pc = "reply"]
    <3>1. call[c].tid \notin queue
      BY <1>3, ConstantsAssumption DEF FindAny, Safe, CallInv, TypeOK
    <3> QED
      BY <1>3, <2>2, <3>1, SentinelTypes, MoveStep DEF FindAny, wanted
  <2> QED
    BY <1>3, <2>1, <2>2 DEF FindAny
<1>4. CASE LoadTask(c)
  <2>1. call[c].tid \in Tasks
    BY <1>4 DEF LoadTask, CarryInv
  <2>2. task[call[c].tid] \in TaskDoc
    BY <2>1 DEF TypeOK
  <2> QED
    BY <1>4, <2>2, SentinelTypes, MoveStep DEF LoadTask, wanted
<1>5. CASE AssignNode(c)
  BY <1>5, SentinelTypes, MoveStep DEF AssignNode, wanted
<1>6. CASE Dequeue(c)
  BY <1>6, SentinelTypes, MoveStep DEF Dequeue, wanted
<1>7. CASE FetchFails(c)
  <2>1. /\ call'[c] = FreeCall
        /\ \A d \in Calls \ {c} : call'[d] = call[d]
        /\ UNCHANGED <<assigned, queue, enq, pool, got, withdrawn>>
    BY <1>7 DEF FetchFails, wanted, TypeOK
  <2>2. CASE call[c].open
    <3>1. /\ loop'[call[c].node].pc = "wait"
          /\ \A m \in Nodes \ {call[c].node} : loop'[m] = loop[m]
      BY <1>7, <2>2 DEF FetchFails, Fetched, Waiting, TypeOK, CarryInv
    <3>2. \A d \in Calls \ {c} :
             call[d].open => loop'[call[d].node].pc = "fetch"
      BY <2>2, <3>1 DEF Safe, CallInv, CarryInv
    <3>3. \A m \in Nodes : loop'[m].pc = "run" => loop'[m] = loop[m]
      BY <3>1
    <3> QED
      BY <2>1, <3>2, <3>3, QuietStep DEF Inserted, RunnerExists
  <2>3. CASE ~call[c].open
    <3>1. loop' = loop
      BY <1>7, <2>3 DEF FetchFails
    <3>2. \A d \in Calls : call[d].open => loop'[call[d].node].pc = "fetch"
      BY <3>1 DEF Safe, CallInv
    <3> QED
      BY <2>1, <3>1, <3>2, QuietStep DEF Inserted, RunnerExists
  <2> QED
    BY <2>2, <2>3
<1>8. CASE Reply(c)
  <2> DEFINE n == call[c].node
             t == call[c].tid
  <2>1. /\ call'[c] = FreeCall
        /\ \A d \in Calls \ {c} : call'[d] = call[d]
        /\ UNCHANGED <<assigned, queue, enq, pool, withdrawn>>
        /\ n \in Nodes /\ t \in Tasks \cup {NoTask}
    BY <1>1, <1>8 DEF Reply, wanted, TypeOK, CarryInv, CallState
  <2>2. CASE ~call[c].open \/ t = NoTask
    <3>1. got' = got
      BY <1>8, <2>2 DEF Reply
    <3>2. \A m \in Nodes :
             \/ loop'[m] = loop[m]
             \/ loop'[m] = Waiting /\ m = n /\ call[c].open
      <4>1. CASE ~call[c].open
        BY <1>8, <4>1 DEF Reply
      <4>2. CASE call[c].open /\ t = NoTask
        <5>1. loop' = [loop EXCEPT ![n] = Waiting]
          BY <1>8, <4>2 DEF Reply, Fetched
        <5> QED
          BY <4>2, <5>1 DEF TypeOK
      <4> QED
        BY <2>2, <4>1, <4>2
    <3>3. \A d \in Calls \ {c} :
             call[d].open => loop'[call[d].node].pc = "fetch"
      BY <2>1, <3>2 DEF Safe, CallInv, CarryInv
    <3>4. \A m \in Nodes : loop'[m].pc = "run" => loop'[m] = loop[m]
      BY <3>2 DEF Waiting
    <3> QED
      BY <2>1, <3>1, <3>3, <3>4, QuietStep DEF Inserted, RunnerExists
  <2>3. CASE call[c].open /\ t # NoTask
    <3>1. /\ loop'[n] = [pc |-> "run", tid |-> t]
          /\ \A m \in Nodes \ {n} : loop'[m] = loop[m]
      BY <1>8, <2>1, <2>3 DEF Reply, Fetched, TypeOK
    <3>2. /\ got'[t] = got[t] \cup {n}
          /\ \A s \in Tasks \ {t} : got'[s] = got[s]
      BY <1>8, <2>1, <2>3 DEF Reply, TypeOK
    <3>3. t \in Tasks /\ t \notin queue /\ t \notin withdrawn /\ Inserted(t)
      BY <1>8, <2>1, <2>3 DEF Reply, Safe, HoldInv
    <3>4. FreeCall.pc = "free" /\ FreeCall.tid = NoTask /\ ~FreeCall.open
          /\ NoTask \notin Tasks
      BY ConstantsAssumption DEF FreeCall
    <3>5. \A d \in Calls \ {c} : call[d].open => call[d].node # n
      BY <2>3 DEF Safe, CallInv
    <3>6. n \notin got[t]
      BY <2>3, <3>3 DEF Safe, GotInv
    <3>7. CallInv'
      <4>1. \A d \in Calls \ {c} :
               call[d].open => loop'[call[d].node].pc = "fetch"
        BY <3>1, <3>5 DEF Safe, CallInv, CarryInv
      <4> QED
        BY <2>1, <3>4, <4>1 DEF Safe, CallInv
    <3>8. HoldInv'
      BY <2>1, <3>4 DEF Safe, HoldInv, Inserted
    <3>9. QueueInv' /\ WithdrawnInv'
      BY <2>1, <3>2, <3>3 DEF Safe, QueueInv, WithdrawnInv, Inserted, TypeOK
    <3>10. GotInv'
      <4>1. SUFFICES ASSUME NEW s \in Tasks, NEW m \in got'[s]
                     PROVE  /\ Inserted(s)
                            /\ \A d \in Calls \ {c} :
                                  call[d].open /\ call[d].node = m
                                     => call[d].tid # s
        BY <2>1, <3>4 DEF GotInv, Inserted
      <4>2. CASE s = t /\ m = n
        BY <3>3, <3>5, <4>2
      <4>3. CASE m \in got[s]
        BY <4>3 DEF Safe, GotInv
      <4> QED
        BY <3>2, <4>2, <4>3
    <3>11. PoolInv'
      <4>1. \A m \in Nodes, s \in Tasks : RunnerExists(m, s)' => m \in got'[s]
        BY <2>1, <3>2 DEF Safe, PoolInv, RunnerExists
      <4>2. ~RunnerExists(n, t)
        BY <2>1, <3>3, <3>6 DEF Safe, PoolInv
      <4>3. \A m \in Nodes : loop'[m].pc = "run" =>
               m \in got'[loop'[m].tid] /\ ~RunnerExists(m, loop'[m].tid)
        <5>1. loop'[n].tid = t
          BY <3>1
        <5>2. ASSUME NEW m \in Nodes \ {n}, loop[m].pc = "run"
              PROVE  m \in got'[loop[m].tid] /\ ~RunnerExists(m, loop[m].tid)
          BY <3>2, <5>2 DEF Safe, PoolInv, PoolNeverCollides, CarryInv
        <5> QED
          BY <3>1, <3>2, <4>2, <5>1, <5>2
      <4> QED
        BY <2>1, <4>1, <4>3 DEF PoolInv, PoolNeverCollides, RunnerExists
    <3> QED
      BY <3>7, <3>8, <3>9, <3>10, <3>11 DEF Safe
  <2> QED
    BY <2>2, <2>3
<1> QED
  BY <1>2, <1>3, <1>4, <1>5, <1>6, <1>7, <1>8 DEF Fetch

LEMMA HandlerSafe ==
    ASSUME TypeOK, CarryInv, Safe, NEW n \in Nodes, Handler(n)
    PROVE  Safe'
<1>1. CASE Launch(n)
  <2> DEFINE t == loop[n].tid
  <2>1. /\ UNCHANGED <<assigned, queue, enq, call, got, withdrawn>>
        /\ loop'[n].pc = "wait"
        /\ \A m \in Nodes \ {n} : loop'[m] = loop[m]
        /\ loop[n].pc = "run" /\ t \in Tasks
    BY <1>1 DEF Launch, Waiting, wanted, TypeOK, CarryInv
  <2>2. \A m \in Nodes, s \in Tasks :
           m # n \/ s # t => RunnerExists(m, s)' = RunnerExists(m, s)
    BY <1>1, <2>1 DEF Launch, RunnerExists, TypeOK
  <2>3. n \in got[t]
    BY <2>1 DEF Safe, PoolInv
  <2>4. CallInv'
    BY <2>1 DEF Safe, CallInv, CarryInv
  <2>5. HoldInv' /\ QueueInv' /\ GotInv' /\ WithdrawnInv'
    BY <2>1 DEF Safe, HoldInv, QueueInv, GotInv, WithdrawnInv, Inserted
  <2>6. PoolInv'
    <3>1. \A m \in Nodes, s \in Tasks : RunnerExists(m, s)' => m \in got'[s]
      BY <2>1, <2>2, <2>3 DEF Safe, PoolInv
    <3>2. \A m \in Nodes : loop'[m].pc = "run" =>
             m # n /\ loop'[m] = loop[m] /\ loop[m].tid \in Tasks
      BY <2>1 DEF CarryInv
    <3>3. \A m \in Nodes : loop'[m].pc = "run" => m \in got'[loop'[m].tid]
      BY <2>1, <3>2 DEF Safe, PoolInv
    <3>4. \A m \in Nodes :
             loop'[m].pc = "run" => ~RunnerExists(m, loop[m].tid)'
      BY <2>2, <3>2 DEF Safe, PoolInv, PoolNeverCollides
    <3> QED
      BY <3>1, <3>2, <3>3, <3>4 DEF PoolInv, PoolNeverCollides, RunnerExists
  <2> QED
    BY <2>4, <2>5, <2>6 DEF Safe
<1>2. CASE LaunchFails(n)
  <2>1. /\ \A m \in Nodes \ {n} : loop'[m] = loop[m]
        /\ loop'[n].pc = "wait" /\ loop[n].pc = "run"
        /\ UNCHANGED <<assigned, queue, enq, call, pool, got, withdrawn>>
    BY <1>2 DEF LaunchFails, Waiting, wanted, TypeOK
  <2>2. \A c \in Calls : call[c].open => loop'[call[c].node].pc = "fetch"
    BY <2>1 DEF Safe, CallInv, CarryInv
  <2> QED
    BY <2>1, <2>2, QuietStep DEF Inserted, RunnerExists
<1>3. CASE LaunchPanics(n)
  BY <1>3, ProcessEndsSafe DEF LaunchPanics
<1>4. ASSUME NEW t \in Tasks, MarkRunning(n, t) \/ End(n, t)
      PROVE  Safe'
  <2>1. UNCHANGED <<assigned, queue, enq, call, loop, got, withdrawn>>
    BY <1>4 DEF MarkRunning, End, wanted
  <2>2. RunnerExists(n, t)
    BY <1>4 DEF MarkRunning, End, EndStatus, RunnerExists
  <2>3. \A m \in Nodes, s \in Tasks :
           m # n \/ s # t => RunnerExists(m, s)' = RunnerExists(m, s)
    BY <1>4 DEF MarkRunning, End, RunnerExists, TypeOK
  <2>4. \A c \in Calls : call[c].open => loop'[call[c].node].pc = "fetch"
    BY <2>1 DEF Safe, CallInv
  <2> QED
    BY <2>1, <2>2, <2>3, <2>4, QuietStep DEF Inserted
<1> QED
  BY <1>1, <1>2, <1>3, <1>4 DEF Handler

LEMMA NextSafe ==
    ASSUME TypeOK, CarryInv, Safe, [Next]_vars
    PROVE  Safe'
<1>1. ASSUME NEW t \in Tasks, Enqueue(t) \/ Cancel(t) \/ DeleteTaskById(t)
      PROVE  Safe'
  <2>1. CASE DeleteTaskById(t)
    BY <2>1, QuietStep DEF DeleteTaskById, wanted, Inserted, RunnerExists,
                           Safe, CallInv
  <2> QED
    BY <1>1, <2>1, EnqueueSafe, CancelSafe
<1>2. ASSUME NEW n \in Nodes, Tick(n) \/ Timeout(n) \/ Handler(n) \/ Crash(n)
      PROVE  Safe'
  BY <1>2, TickSafe, TimeoutSafe, HandlerSafe, ProcessEndsSafe DEF Crash
<1>3. ASSUME NEW n \in Nodes, NEW t \in Tasks, CancelPanics(n, t)
      PROVE  Safe'
  BY <1>3, ProcessEndsSafe DEF CancelPanics
<1>4. ASSUME NEW c \in Calls, Fetch(c)
      PROVE  Safe'
  BY <1>4, FetchSafe
<1>5. CASE Boot
  <2>1. UNCHANGED <<assigned, enq, call, loop, pool, got, withdrawn>>
        /\ queue' \subseteq queue
    BY <1>5 DEF Boot, BootScan, BootPurge, BootSave, wanted
  <2> QED
    BY <2>1, QuietStep DEF Inserted, RunnerExists, Safe, CallInv
<1>6. CASE UNCHANGED vars
  BY <1>6, QuietStep DEF vars, Inserted, RunnerExists, Safe, CallInv
<1> QED
  BY <1>1, <1>2, <1>3, <1>4, <1>5, <1>6 DEF Next

LEMMA InitSafe == Init => Safe
BY ConstantsAssumption DEF Init, Safe, CallInv, HoldInv, QueueInv, GotInv,
     PoolInv, PoolNeverCollides, WithdrawnInv, RunnerExists, NoRunner,
     FreeCall, Waiting

\* IInv is inductive.
THEOREM Inductive == Spec => []IInv
<1>1. IInv /\ [Next]_vars => IInv'
  BY NextType, NextCarry, NextSafe DEF IInv
<1>2. Init => IInv
  BY InitType, InitSafe DEF IInv
<1> QED
  BY <1>1, <1>2, PTL DEF Spec

\* run never finds a runner of the task that Fetch has just handed out: the
\* pool of a node keeps one runner for each task.
THEOREM PoolSafe == Spec => []PoolNeverCollides
<1>1. IInv => PoolNeverCollides
  BY DEF IInv, Safe, PoolInv
<1> QED
  BY <1>1, Inductive, PTL

\* A task whose queue item Cancel removed before a Fetch read it is never
\* handed to a node.
THEOREM WithdrawnSafe == Spec => []WithdrawnNeverHanded
<1>1. IInv => WithdrawnNeverHanded
  BY DEF IInv, Safe, WithdrawnInv, WithdrawnNeverHanded
<1> QED
  BY <1>1, Inductive, PTL

-----------------------------------------------------------------------------
(* TaskDispatch implements TaskQueue under the mapping stage.              *)

Promises == <<assigned, stage, got>>

\* A step that inserts no item and hands out no task can only take tasks out
\* of the queue.
LEMMA RemovalStep ==
    ASSUME TypeOK, Safe, UNCHANGED <<assigned, got>>, queue' \subseteq queue,
           \A t \in Tasks : Inserted(t)' <=> Inserted(t),
           enq' \in [Tasks -> EnqState]
    PROVE  Queue!Next \/ UNCHANGED Promises
<1> DEFINE S == queue \ queue'
<1>1. \A t \in Tasks :
         stage[t] = IF t \in queue THEN "queued"
                    ELSE IF Inserted(t) THEN "gone" ELSE "new"
  BY DEF stage, Inserted, TypeOK, EnqState
<1>2. \A t \in Tasks :
         stage'[t] = IF t \in queue' THEN "queued"
                     ELSE IF Inserted(t) THEN "gone" ELSE "new"
  BY DEF stage, Inserted, EnqState
<1>3. S \in SUBSET Tasks /\ \A t \in S : stage[t] = "queued" /\ Inserted(t)
  BY <1>1 DEF TypeOK, Safe, QueueInv
<1>4. stage' = [t \in Tasks |-> IF t \in S THEN "gone" ELSE stage[t]]
  <2>1. \A t \in Tasks : stage'[t] = IF t \in S THEN "gone" ELSE stage[t]
    BY <1>1, <1>2, <1>3
  <2> QED
    BY <2>1 DEF stage
<1>5. Queue!Remove(S)
  BY <1>3, <1>4 DEF Queue!Remove
<1> QED
  BY <1>3, <1>5 DEF Queue!Next

\* Only the second insert of Enqueue puts a task into the queue.
LEMMA PutStep ==
    ASSUME TypeOK, Safe, NEW t \in Tasks, InsertQueueItem(t)
    PROVE  Queue!Next
<1>1. ~Inserted(t) /\ enq[t] = "item"
  BY DEF InsertQueueItem, Inserted
<1>2. stage[t] = "new"
  BY <1>1 DEF stage, Safe, QueueInv
<1>3. stage' = [stage EXCEPT ![t] = "queued"]
  <2>1. \A s \in Tasks : stage'[s] = IF s = t THEN "queued" ELSE stage[s]
    BY DEF stage, InsertQueueItem, TypeOK
  <2> QED
    BY <2>1 DEF stage
<1>4. Queue!Put(t)
  BY <1>2, <1>3 DEF InsertQueueItem, wanted, Queue!Put
<1> QED
  BY <1>4 DEF Queue!Next

\* Only an answer that the node still waits for hands a task out.
LEMMA HandStep ==
    ASSUME TypeOK, CarryInv, Safe, NEW c \in Calls, Reply(c), got' # got
    PROVE  Queue!Next
<1> DEFINE n == call[c].node
           t == call[c].tid
<1>1. call[c] \in CallState
  BY DEF TypeOK
<1>2. /\ call[c].open /\ t \in Tasks /\ n \in Nodes
      /\ got' = [got EXCEPT ![t] = @ \cup {n}]
      /\ UNCHANGED <<assigned, queue, enq>>
  BY <1>1 DEF Reply, wanted, CarryInv, CallState
<1>3. /\ assigned[t] \in {NoNode, n} /\ Inserted(t) /\ t \notin queue
  BY <1>2 DEF Reply, Safe, HoldInv
<1>4. n \notin got[t]
  BY <1>2 DEF Safe, GotInv
<1>5. stage[t] = "gone"
  BY <1>2, <1>3 DEF stage, Inserted
<1>6. stage' = stage
  BY <1>2 DEF stage
<1>7. Queue!Hand(t, n)
  BY <1>2, <1>3, <1>4, <1>5, <1>6 DEF Queue!Hand
<1> QED
  BY <1>2, <1>7 DEF Queue!Next

LEMMA RefinementStep ==
    ASSUME TypeOK, TypeOK', CarryInv, Safe, [Next]_vars
    PROVE  Queue!Next \/ UNCHANGED Promises
<1>1. enq' \in [Tasks -> EnqState]
  BY DEF TypeOK
<1>2. CASE \E t \in Tasks : InsertQueueItem(t)
  BY <1>2, PutStep
<1>3. CASE got' # got
  <2>1. PICK c \in Calls : Reply(c)
    BY <1>3 DEF Next, vars, Enqueue, InsertTask, InsertQueueItem, InsertStat,
         InsertFails, Cancel, CheckCancellable, CancelRead, CancelSave,
         CancelUnqueue, CancelForward, DeleteTaskById, Tick, Timeout, Handler,
         Launch, LaunchFails, LaunchPanics, MarkRunning, End, Crash,
         CancelPanics, ProcessEnds, Fetch, FindPinned, FindAny, LoadTask,
         AssignNode, Dequeue, FetchFails, Boot, BootScan, BootPurge, BootSave
  <2> QED
    BY <1>3, <2>1, HandStep
<1>4. CASE got' = got /\ ~\E t \in Tasks : InsertQueueItem(t)
  <2>1. assigned' = assigned /\ queue' \subseteq queue
    BY <1>4 DEF Next, vars, wanted, Enqueue, InsertTask, InsertStat,
         InsertFails, Cancel, CheckCancellable, CancelRead, CancelSave,
         CancelUnqueue, CancelForward, DeleteTaskById, Tick, Timeout, Handler,
         Launch, LaunchFails, LaunchPanics, MarkRunning, End, Crash,
         CancelPanics, ProcessEnds, Fetch, FindPinned, FindAny, LoadTask,
         AssignNode, Dequeue, Reply, FetchFails, Boot, BootScan, BootPurge,
         BootSave
  <2>2. \A t \in Tasks : Inserted(t)' <=> Inserted(t)
    <3>1. CASE \E t \in Tasks : Enqueue(t)
      BY <1>4, <3>1 DEF Enqueue, InsertTask, InsertStat, InsertFails, Inserted,
                        TypeOK
    <3>2. CASE \E n \in Nodes : ProcessEnds(n)
      BY <3>2 DEF ProcessEnds, Inserted, Abandoned, TypeOK, EnqState
    <3>3. CASE enq' = enq
      BY <3>3 DEF Inserted
    <3> QED
      BY <3>1, <3>2, <3>3 DEF Next, vars, Cancel, CheckCancellable, CancelRead,
         CancelSave, CancelUnqueue, CancelForward, DeleteTaskById, Tick,
         Timeout, Handler, Launch, LaunchFails, LaunchPanics, MarkRunning, End,
         Crash, CancelPanics, Fetch, FindPinned, FindAny, LoadTask, AssignNode,
         Dequeue, Reply, FetchFails, Boot, BootScan, BootPurge, BootSave
  <2> QED
    BY <1>1, <1>4, <2>1, <2>2, RemovalStep
<1> QED
  BY <1>2, <1>3, <1>4

\* The handlers of the master keep the promises of TaskQueue: every task is
\* queued at most once and handed to a node at most once, after its item is
\* gone and only if it may run there.
THEOREM QueueImplemented == Spec => QueueRefinement
<1>1. Init => Queue!Init
  BY DEF Init, Queue!Init, stage
<1>2. IInv /\ IInv' /\ [Next]_vars => [Queue!Next]_(Queue!vars)
  BY RefinementStep DEF IInv, Promises, Queue!vars
<1> QED
  BY <1>1, <1>2, Inductive, PTL DEF Spec, QueueRefinement, Queue!Spec
=============================================================================
