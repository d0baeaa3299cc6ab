-------------------------- MODULE SpiderLifeProofs --------------------------
(***************************************************************************)
(* Proofs about SpiderLife, for any number of spiders, schedules, tasks    *)
(* and requests: what a deletion takes away, and what it may leave.        *)
(***************************************************************************)
EXTENDS SpiderLife, TLAPS

\* A request has a task only after its insert, and a stat only at its end.
FreshInv ==
    \A t \in Tasks :
        /\ task[t] # "absent" => ask[t].pc \in {"task", "item", "done", "failed"}
        /\ t \in stats => ask[t].pc = "done"

\* A deletion is about spiders that are gone, and lists only their tasks.
ScopeInv ==
    /\ del.ids \subseteq gone
    /\ \A t \in del.list : ask[t].of \in del.ids /\ ask[t].pc # "idle"

\* OthersUntouched, and more: a stat that has lost its task is known to the
\* deletion at work, or no deletion can find it.
LossInv ==
    \A t \in Tasks :
        ask[t].pc \in {"task", "item", "done"} /\ task[t] = "absent" =>
            \/ tdel[t] # "idle"
            \/ /\ ask[t].of \in gone
               /\ t \in stats => \/ t \in cut \cup late
                                 \/ del.pc = "stats" /\ t \in del.list

\* DeletionLeavesOnlyLate, step by step: what a deletion has not removed yet
\* is on its list.
ListedInv ==
    \A t \in Tasks \ late :
        ask[t].of \in del.ids \ spider =>
            /\ del.pc = "tasks" /\ task[t] # "absent" => t \in del.list
            /\ del.pc \in {"stats", "logs", "dir", "done"} => task[t] = "absent"
            /\ del.pc \in {"tasks", "stats"} /\ t \in stats
                  => tdel[t] # "idle" \/ t \in cut \cup del.list
            /\ del.pc \in {"logs", "dir", "done"} /\ t \in stats
                  => tdel[t] # "idle" \/ t \in cut

\* A log that has lost its task is known in the same way, or was written when
\* the task was gone.
LogInv ==
    \A t \in Tasks :
        t \in logs /\ task[t] = "absent" =>
            \/ tdel[t] # "idle"
            \/ t \in cut \cup wrote
            \/ del.pc \in {"stats", "logs"} /\ t \in del.list

IInv == TypeOK /\ FreshInv /\ ScopeInv /\ LossInv /\ ListedInv /\ LogInv

-----------------------------------------------------------------------------
(* Types.                                                                  *)

\* What the helpers of requests and deletions do to the types.
LEMMA AskPcType ==
    ASSUME TypeOK, NEW t \in Tasks,
           NEW pc \in {"idle", "fired", "asked", "read", "task", "item",
                       "done", "failed"}
    PROVE  [ask EXCEPT ![t].pc = pc] \in [Tasks -> Ask]
<1>1. [ask[t] EXCEPT !.pc = pc] \in Ask
  BY DEF TypeOK, Ask
<1> QED
  BY <1>1 DEF TypeOK

LEMMA RequestType ==
    ASSUME TypeOK, NEW t \in Tasks, NEW s \in Spiders \cup {NoSpider},
           NEW pc \in {"fired", "asked"}, Request(t, pc, s)
    PROVE  TypeOK'
<1>1. [pc |-> pc, of |-> s] \in Ask
  BY DEF Ask
<1> QED
  BY <1>1 DEF Request, TypeOK, docs, taskDocs, files, history

LEMMA SpiderRequestType ==
    ASSUME TypeOK, NEW s \in Spiders, SpiderRequest(s)
    PROVE  TypeOK'
<1>1. CASE PostSpider(s)
  BY <1>1 DEF PostSpider, TypeOK, taskDocs, files, history
<1>2. CASE AddStat(s)
  BY <1>2 DEF AddStat, TypeOK, taskDocs, files, history
<1>3. CASE CreateFolder(s)
  BY <1>3 DEF CreateFolder, TypeOK, docs, taskDocs, history
<1>4. CASE OpenSource(s)
  BY <1>4 DEF OpenSource, TypeOK, docs, taskDocs, files, history
<1>5. CASE SaveSource(s)
  BY <1>5 DEF SaveSource, TypeOK, taskDocs, files, history
<1> QED
  BY <1>1, <1>2, <1>3, <1>4, <1>5 DEF SpiderRequest

\* The disjuncts of TaskRequest that make a request.
MakesRequest(t) ==
    \/ \E s \in Spiders : PostSpiderRun(t, s) \/ PostTaskRun(t, s)
    \/ \E u \in Tasks : PostTaskRestart(t, u)
    \/ \E c \in Schedules : Fire(t, c)

LEMMA MakesRequestType ==
    ASSUME TypeOK, NEW t \in Tasks, MakesRequest(t)
    PROVE  \E pc \in {"fired", "asked"}, s \in Spiders \cup {NoSpider} :
              Request(t, pc, s)
<1>1. ASSUME NEW s \in Spiders, PostSpiderRun(t, s) \/ PostTaskRun(t, s)
      PROVE  Request(t, "asked", s)
  BY <1>1 DEF PostSpiderRun, PostTaskRun
<1>2. ASSUME NEW u \in Tasks, PostTaskRestart(t, u)
      PROVE  Request(t, "asked", ask[u].of) /\ ask[u].of \in Spiders \cup {NoSpider}
  <2>1. ask[u] \in Ask
    BY DEF TypeOK
  <2> QED
    BY <1>2, <2>1 DEF PostTaskRestart, Ask
<1>3. ASSUME NEW c \in Schedules, Fire(t, c)
      PROVE  Request(t, "fired", SpiderOf[c]) /\ SpiderOf[c] \in Spiders
  BY <1>3, SpiderAssumption DEF Fire
<1> QED
  BY <1>1, <1>2, <1>3 DEF MakesRequest

LEMMA TaskRequestType ==
    ASSUME TypeOK, NEW t \in Tasks, TaskRequest(t)
    PROVE  TypeOK'
<1>1. CASE MakesRequest(t)
  BY <1>1, MakesRequestType, RequestType
<1>2. CASE Load(t)
  <2>1. ask' \in [Tasks -> Ask]
    BY <1>2, AskPcType DEF Load
  <2> QED
    BY <1>2, <2>1 DEF Load, TypeOK, docs, taskDocs, files, history
<1>3. CASE InsertTask(t)
  <2>1. ask' \in [Tasks -> Ask]
    BY <1>3, AskPcType DEF InsertTask
  <2> QED
    BY <1>3, <2>1 DEF InsertTask, MarkLate, TypeOK, Status, docs, files
<1>4. CASE InsertItem(t)
  <2>1. ask' \in [Tasks -> Ask]
    BY <1>4, AskPcType DEF InsertItem
  <2> QED
    BY <1>4, <2>1 DEF InsertItem, TypeOK, docs, files, history
<1>5. CASE InsertStat(t)
  <2>1. ask' \in [Tasks -> Ask]
    BY <1>5, AskPcType DEF InsertStat
  <2> QED
    BY <1>5, <2>1 DEF InsertStat, MarkLate, TypeOK, docs, files
<1>6. CASE AskFails(t)
  <2>1. ask' \in [Tasks -> Ask]
    BY <1>6, AskPcType DEF AskFails
  <2> QED
    BY <1>6, <2>1 DEF AskFails, TypeOK, docs, taskDocs, files, history
<1>7. CASE DeleteTask(t) \/ DeleteListed(t)
  BY <1>7 DEF DeleteTask, DeleteListed, TaskStep, TypeOK, Status, docs, files,
              history
<1>8. CASE DeleteTaskStat(t)
  BY <1>8 DEF DeleteTaskStat, TaskStep, TypeOK, docs, files, history
<1>9. CASE DeleteTaskLogs(t)
  BY <1>9 DEF DeleteTaskLogs, TaskStep, TypeOK, docs, taskDocs, history
<1> QED
  BY <1>1, <1>2, <1>3, <1>4, <1>5, <1>6, <1>7, <1>8, <1>9
     DEF TaskRequest, MakesRequest

LEMMA LifeType ==
    ASSUME TypeOK, NEW t \in Tasks, Life(t)
    PROVE  TypeOK'
<1>1. CASE Launch(t)
  BY <1>1 DEF Launch, TypeOK, Status, docs, history
<1>2. CASE WriteLog(t)
  BY <1>2 DEF WriteLog, TypeOK, docs, taskDocs
<1>3. CASE End(t)
  BY <1>3 DEF End, TypeOK, Status, docs, history
<1>4. CASE CleanUp(t)
  BY <1>4 DEF CleanUp, TypeOK, docs, taskDocs, history
<1> QED
  BY <1>1, <1>2, <1>3, <1>4 DEF Life

LEMMA DeletionType ==
    ASSUME TypeOK, Deletion
    PROVE  TypeOK'
<1> USE DEF Del
<1>1. ASSUME NEW S \in SUBSET Spiders, DeleteSpiders(S)
      PROVE  TypeOK'
  BY <1>1 DEF DeleteSpiders, TypeOK, taskDocs, files
<1>2. CASE DeleteSpiderStats
  BY <1>2 DEF DeleteSpiderStats, DelStep, TypeOK, taskDocs, files, history
<1>3. CASE ListTasks
  BY <1>3 DEF ListTasks, TasksOf, TypeOK, docs, taskDocs, files, history
<1>4. CASE DeleteTasks
  BY <1>4 DEF DeleteTasks, DelStep, TypeOK, Status, docs, files, history
<1>5. CASE DeleteTaskStats
  BY <1>5 DEF DeleteTaskStats, DelStep, TypeOK, docs, files, history
<1>6. CASE DeleteLogs
  BY <1>6 DEF DeleteLogs, TypeOK, docs, taskDocs, history
<1>7. CASE DeleteFolders
  BY <1>7 DEF DeleteFolders, DelStep, TypeOK, docs, taskDocs, history
<1>8. CASE DeleteFails
  BY <1>8 DEF DeleteFails, TypeOK, docs, taskDocs, files, history
<1> QED
  BY <1>1, <1>2, <1>3, <1>4, <1>5, <1>6, <1>7, <1>8 DEF Deletion

LEMMA NextType == TypeOK /\ [Next]_vars => TypeOK'
<1> SUFFICES ASSUME TypeOK, [Next]_vars
             PROVE  TypeOK'
  OBVIOUS
<1>1. ASSUME NEW c \in Schedules, DeleteSchedule(c)
      PROVE  TypeOK'
  BY <1>1 DEF DeleteSchedule, TypeOK, taskDocs, files, history
<1>2. CASE UNCHANGED vars
  BY <1>2 DEF vars, TypeOK
<1> QED
  BY <1>1, <1>2, SpiderRequestType, TaskRequestType, LifeType, DeletionType
     DEF Next

LEMMA InitType == Init => TypeOK
<1> SUFFICES ASSUME Init
             PROVE  TypeOK
  OBVIOUS
<1>1. ask \in [Tasks -> Ask]
  BY SpiderAssumption DEF Init, Ask, Old
<1> QED
  BY <1>1, SpiderAssumption DEF Init, TypeOK, Status, Del, Old

\* Every collection, file and request of the model keeps its type.
THEOREM TypeCorrect == Spec => []TypeOK
BY InitType, NextType, PTL DEF Spec

-----------------------------------------------------------------------------
(* The inductive invariant.                                                *)

Related == FreshInv /\ ScopeInv /\ LossInv /\ ListedInv

\* Spiders that come (back) excuse a deletion; documents, stats and requests
\* of tasks stay as they are.
LEMMA SpiderComes ==
    ASSUME Related, spider \subseteq spider',
           UNCHANGED <<task, stats, ask, del, tdel, late, gone, cut>>
    PROVE  Related'
BY DEF Related, FreshInv, ScopeInv, LossInv, ListedInv

LEMMA SpiderRequestRelated ==
    ASSUME Related, NEW s \in Spiders, SpiderRequest(s)
    PROVE  Related'
BY SpiderComes
   DEF SpiderRequest, PostSpider, AddStat, CreateFolder, OpenSource,
       SaveSource, docs, taskDocs, files, history

LEMMA LifeRelated ==
    ASSUME TypeOK, Related, NEW t \in Tasks, Life(t)
    PROVE  Related'
<1>1. /\ \A u \in Tasks : task'[u] = "absent" <=> task[u] = "absent"
      /\ UNCHANGED <<spider, stats, ask, del, tdel, late, gone, cut>>
  BY DEF Life, Launch, WriteLog, End, CleanUp, TypeOK, docs, taskDocs, history
<1>2. FreshInv' /\ ScopeInv'
  BY <1>1 DEF Related, FreshInv, ScopeInv
<1>3. LossInv' /\ ListedInv'
  BY <1>1 DEF Related, LossInv, ListedInv
<1> QED
  BY <1>2, <1>3 DEF Related

\* A request that has no document yet makes none of the properties speak.
LEMMA RequestRelated ==
    ASSUME TypeOK, Related, NEW t \in Tasks,
           NEW pc \in {"fired", "asked"}, NEW s \in Spiders \cup {NoSpider},
           Request(t, pc, s)
    PROVE  Related'
<1>1. /\ ask[t].pc = "idle"
      /\ ask'[t] = [pc |-> pc, of |-> s]
      /\ \A u \in Tasks \ {t} : ask'[u] = ask[u]
      /\ UNCHANGED <<spider, task, stats, del, tdel, late, gone, cut>>
  BY DEF Request, TypeOK, docs, taskDocs, files, history
<1>2. task[t] = "absent" /\ t \notin stats /\ t \notin del.list
  BY <1>1 DEF Related, FreshInv, ScopeInv
<1>3. FreshInv'
  BY <1>1, <1>2 DEF Related, FreshInv
<1>4. ScopeInv'
  <2>1. del.list \subseteq Tasks
    BY DEF TypeOK, Del
  <2> QED
    BY <1>1, <1>2, <2>1 DEF Related, ScopeInv
<1>5. LossInv'
  BY <1>1, <1>2 DEF Related, LossInv
<1>6. ListedInv'
  BY <1>1, <1>2 DEF Related, ListedInv
<1> QED
  BY <1>3, <1>4, <1>5, <1>6 DEF Related

\* A step of a request keeps its spider.
LEMMA AskPc ==
    ASSUME TypeOK, NEW t \in Tasks, NEW pc, ask' = [ask EXCEPT ![t].pc = pc]
    PROVE  /\ ask'[t].pc = pc
           /\ \A u \in Tasks : ask'[u].of = ask[u].of
           /\ \A u \in Tasks \ {t} : ask'[u].pc = ask[u].pc
<1>1. ask \in [Tasks -> Ask]
  BY DEF TypeOK
<1> QED
  BY <1>1 DEF Ask

LEMMA TaskRequestRelated ==
    ASSUME TypeOK, Related, NEW t \in Tasks, TaskRequest(t)
    PROVE  Related'
<1>0. del.list \subseteq Tasks
  BY DEF TypeOK, Del
<1>1. CASE MakesRequest(t)
  BY <1>1, MakesRequestType, RequestRelated
<1>2. CASE Load(t) \/ InsertItem(t) \/ AskFails(t)
  <2>1. ASSUME NEW pc, ask' = [ask EXCEPT ![t].pc = pc]
        PROVE  /\ ask'[t].pc = pc
               /\ \A u \in Tasks : ask'[u].of = ask[u].of
               /\ \A u \in Tasks \ {t} : ask'[u].pc = ask[u].pc
    BY <2>1, AskPc
  <2>2. /\ ask[t].pc \in {"task", "item"} => ask'[t].pc \in {"item", "failed"}
        /\ ask'[t].pc \in {"item", "done"} => ask[t].pc = "task"
        /\ ask'[t].pc \notin {"idle", "task", "done"}
        /\ ask[t].pc \notin {"idle", "done", "failed"}
        /\ \A u \in Tasks : ask'[u].of = ask[u].of
        /\ \A u \in Tasks \ {t} : ask'[u].pc = ask[u].pc
    <3>1. CASE Load(t)
      <4>1. /\ ask[t].pc \in {"fired", "asked"}
            /\ \E pc \in {"asked", "read", "failed"} :
                  ask' = [ask EXCEPT ![t].pc = pc]
        BY <3>1 DEF Load
      <4> QED
        BY <2>1, <4>1
    <3>2. CASE InsertItem(t)
      <4>1. ask[t].pc = "task" /\ ask' = [ask EXCEPT ![t].pc = "item"]
        BY <3>2 DEF InsertItem
      <4>2. /\ ask'[t].pc = "item"
            /\ \A u \in Tasks : ask'[u].of = ask[u].of
            /\ \A u \in Tasks \ {t} : ask'[u].pc = ask[u].pc
        BY <2>1, <4>1
      <4> QED
        BY <4>1, <4>2
    <3>3. CASE AskFails(t)
      BY <2>1, <3>3 DEF AskFails
    <3> QED
      BY <1>2, <3>1, <3>2, <3>3
  <2>3. UNCHANGED <<spider, task, stats, del, tdel, late, gone, cut>>
    BY <1>2 DEF Load, InsertItem, AskFails, docs, taskDocs, files, history
  <2>4. FreshInv'
    BY <2>2, <2>3 DEF Related, FreshInv
  <2>5. ScopeInv'
    BY <1>0, <2>2, <2>3 DEF Related, ScopeInv
  <2>6. LossInv'
    BY <2>2, <2>3 DEF Related, LossInv
  <2>7. ListedInv'
    BY <2>2, <2>3 DEF Related, ListedInv
  <2> QED
    BY <2>4, <2>5, <2>6, <2>7 DEF Related
<1>3. CASE InsertTask(t)
  <2>1. /\ ask[t].pc = "read" /\ ask' = [ask EXCEPT ![t].pc = "task"]
        /\ task'[t] # "absent" /\ \A u \in Tasks \ {t} : task'[u] = task[u]
        /\ UNCHANGED <<spider, stats, del, tdel, gone, cut>>
        /\ late \subseteq late'
        /\ ask[t].of \in spider \/ t \in late'
    BY <1>3 DEF InsertTask, MarkLate, TypeOK, docs, files
  <2>2. /\ ask'[t].pc = "task"
        /\ \A u \in Tasks : ask'[u].of = ask[u].of
        /\ \A u \in Tasks \ {t} : ask'[u].pc = ask[u].pc
    BY <2>1, AskPc
  <2>3. FreshInv' /\ ScopeInv'
    BY <1>0, <2>1, <2>2 DEF Related, FreshInv, ScopeInv
  <2>4. LossInv'
    BY <2>1, <2>2 DEF Related, LossInv
  <2>5. ListedInv'
    BY <2>1, <2>2 DEF Related, ListedInv
  <2> QED
    BY <2>3, <2>4, <2>5 DEF Related
<1>4. CASE InsertStat(t)
  <2>1. /\ ask[t].pc = "item" /\ ask' = [ask EXCEPT ![t].pc = "done"]
        /\ stats' = stats \cup {t}
        /\ UNCHANGED <<spider, task, del, tdel, gone, cut>>
        /\ late \subseteq late'
        /\ (ask[t].of \in spider /\ task[t] # "absent") \/ t \in late'
    BY <1>4 DEF InsertStat, MarkLate, docs, files
  <2>2. /\ ask'[t].pc = "done"
        /\ \A u \in Tasks : ask'[u].of = ask[u].of
        /\ \A u \in Tasks \ {t} : ask'[u].pc = ask[u].pc
    BY <2>1, AskPc
  <2>3. FreshInv' /\ ScopeInv'
    BY <1>0, <2>1, <2>2 DEF Related, FreshInv, ScopeInv
  <2>4. LossInv'
    BY <2>1, <2>2 DEF Related, LossInv
  <2>5. ListedInv'
    BY <2>1, <2>2 DEF Related, ListedInv
  <2> QED
    BY <2>3, <2>4, <2>5 DEF Related
<1>5. CASE DeleteTask(t) \/ DeleteListed(t)
  <2>1. /\ task'[t] = "absent" /\ \A u \in Tasks \ {t} : task'[u] = task[u]
        /\ tdel'[t] # "idle" /\ \A u \in Tasks \ {t} : tdel'[u] = tdel[u]
        /\ UNCHANGED <<spider, stats, ask, del, late, gone, cut>>
    BY <1>5 DEF DeleteTask, DeleteListed, TaskStep, TypeOK, docs, files, history
  <2>2. FreshInv' /\ ScopeInv' /\ LossInv' /\ ListedInv'
    BY <2>1 DEF Related, FreshInv, ScopeInv, LossInv, ListedInv
  <2> QED
    BY <2>2 DEF Related
<1>6. CASE DeleteTaskStat(t) \/ DeleteTaskLogs(t)
  <2>1. /\ tdel'[t] # "idle" /\ \A u \in Tasks \ {t} : tdel'[u] = tdel[u]
        /\ stats' \subseteq stats
        /\ UNCHANGED <<spider, task, ask, del, late, gone, cut>>
    BY <1>6 DEF DeleteTaskStat, DeleteTaskLogs, TaskStep, TypeOK, docs,
                taskDocs, files, history
  <2>2. FreshInv' /\ ScopeInv' /\ LossInv' /\ ListedInv'
    BY <2>1 DEF Related, FreshInv, ScopeInv, LossInv, ListedInv
  <2> QED
    BY <2>2 DEF Related
<1> QED
  BY <1>1, <1>2, <1>3, <1>4, <1>5, <1>6 DEF TaskRequest, MakesRequest

\* Steps of a deletion: what has been listed is what there is to remove.
LEMMA DeletionRelated ==
    ASSUME TypeOK, Related, Deletion
    PROVE  Related'
<1>1. ASSUME NEW S \in SUBSET Spiders, DeleteSpiders(S)
      PROVE  Related'
  <2>1. /\ del'.pc = "stat" /\ del'.ids = S /\ del'.list = {}
        /\ del.pc # "stats" /\ gone' = gone \cup S
        /\ UNCHANGED <<task, stats, ask, tdel, late, cut>>
    BY <1>1 DEF DeleteSpiders, taskDocs, files
  <2>2. FreshInv' /\ ScopeInv'
    BY <2>1 DEF Related, FreshInv, ScopeInv
  <2>3. LossInv'
    BY <2>1 DEF Related, LossInv
  <2>4. ListedInv'
    BY <2>1 DEF ListedInv
  <2> QED
    BY <2>2, <2>3, <2>4 DEF Related
<1>2. CASE DeleteSpiderStats \/ DeleteFolders
  <2>1. /\ \/ del.pc = "stat" /\ del'.pc = "list"
           \/ del.pc = "dir" /\ del'.pc = "done"
        /\ del'.ids = del.ids /\ del'.list = del.list
        /\ UNCHANGED <<spider, task, stats, ask, tdel, late, gone, cut>>
    BY <1>2 DEF DeleteSpiderStats, DeleteFolders, DelStep, TypeOK, Del, docs,
                taskDocs, files, history
  <2>2. FreshInv' /\ ScopeInv' /\ LossInv' /\ ListedInv'
    BY <2>1 DEF Related, FreshInv, ScopeInv, LossInv, ListedInv
  <2> QED
    BY <2>2 DEF Related
<1>3. CASE ListTasks
  <2>1. /\ del.pc = "list"
        /\ del'.pc = IF TasksOf(del.ids) = {} THEN "dir" ELSE "tasks"
        /\ del'.ids = del.ids /\ del'.list = TasksOf(del.ids)
        /\ UNCHANGED <<spider, task, stats, ask, tdel, late, gone, cut>>
    BY <1>3 DEF ListTasks, TypeOK, Del, docs, taskDocs, files, history
  <2>2. FreshInv' /\ ScopeInv'
    BY <2>1 DEF Related, FreshInv, ScopeInv, TasksOf
  <2>3. LossInv'
    BY <2>1 DEF Related, LossInv
  <2>4. \A t \in stats \cap (Tasks \ late) :
            ask[t].of \in del.ids =>
                tdel[t] # "idle" \/ t \in cut \cup TasksOf(del.ids)
    BY <2>1 DEF Related, FreshInv, LossInv, TasksOf
  <2>5. ListedInv'
    BY <2>1, <2>4 DEF ListedInv, TasksOf
  <2> QED
    BY <2>2, <2>3, <2>5 DEF Related
<1>4. CASE DeleteTasks
  <2>1. /\ del.pc = "tasks" /\ del'.pc = "stats"
        /\ del'.ids = del.ids /\ del'.list = del.list
        /\ \A t \in Tasks : task'[t] = IF t \in del.list THEN "absent" ELSE task[t]
        /\ UNCHANGED <<spider, stats, ask, tdel, late, gone, cut>>
    BY <1>4 DEF DeleteTasks, DelStep, TypeOK, Del, docs, files, history
  <2>2. FreshInv' /\ ScopeInv'
    BY <2>1 DEF Related, FreshInv, ScopeInv
  <2>3. LossInv'
    BY <2>1 DEF Related, LossInv, ScopeInv
  <2>4. ListedInv'
    BY <2>1 DEF Related, ListedInv
  <2> QED
    BY <2>2, <2>3, <2>4 DEF Related
<1>5. CASE DeleteTaskStats
  <2>1. /\ del.pc = "stats" /\ del'.pc = "logs"
        /\ del'.ids = del.ids /\ del'.list = del.list
        /\ stats' = stats \ del.list
        /\ UNCHANGED <<spider, task, ask, tdel, late, gone, cut>>
    BY <1>5 DEF DeleteTaskStats, DelStep, TypeOK, Del, docs, files, history
  <2>2. FreshInv' /\ ScopeInv' /\ LossInv'
    BY <2>1 DEF Related, FreshInv, ScopeInv, LossInv
  <2>3. ListedInv'
    BY <2>1 DEF Related, ListedInv
  <2> QED
    BY <2>2, <2>3 DEF Related
<1>6. CASE DeleteLogs
  <2>1. /\ del.pc = "logs" /\ del'.pc = "dir"
        /\ del'.ids = del.ids /\ del'.list = {}
        /\ UNCHANGED <<spider, task, stats, ask, tdel, late, gone, cut>>
    BY <1>6 DEF DeleteLogs, TypeOK, Del, docs, taskDocs, history
  <2>2. FreshInv' /\ ScopeInv' /\ LossInv' /\ ListedInv'
    BY <2>1 DEF Related, FreshInv, ScopeInv, LossInv, ListedInv
  <2> QED
    BY <2>2 DEF Related
<1>7. CASE DeleteFails
  <2>1. /\ del'.pc = "failed" /\ del'.ids = {} /\ del'.list = {}
        /\ cut \subseteq cut'
        /\ del.pc = "stats" => del.list \subseteq cut'
        /\ UNCHANGED <<spider, task, stats, ask, tdel, late, gone>>
    BY <1>7 DEF DeleteFails, TypeOK, Del, docs, taskDocs, files, history
  <2>2. FreshInv' /\ ScopeInv' /\ LossInv' /\ ListedInv'
    BY <2>1 DEF Related, FreshInv, ScopeInv, LossInv, ListedInv
  <2> QED
    BY <2>2 DEF Related
<1> QED
  BY <1>1, <1>2, <1>3, <1>4, <1>5, <1>6, <1>7 DEF Deletion

\* A step after which every log without a task is one that was there before,
\* or one that a user, or the deletion, has made so.
LEMMA LogStep ==
    ASSUME LogInv,
           \A u \in Tasks : tdel'[u] = "idle" => tdel[u] = "idle",
           cut \subseteq cut', wrote \subseteq wrote',
           \A u \in Tasks :
              u \in logs' /\ task'[u] = "absent" =>
                 \/ u \in logs /\ task[u] = "absent"
                 \/ tdel'[u] # "idle" \/ u \in wrote',
           \/ UNCHANGED del
           \/ del.pc \notin {"stats", "logs"}
           \/ del.pc = "stats" /\ del.list \subseteq cut'
    PROVE  LogInv'
BY DEF LogInv

LEMMA LogsKept ==
    ASSUME TypeOK, LogInv, [Next]_vars
    PROVE  LogInv'
<1>1. ASSUME NEW c \in Schedules, DeleteSchedule(c)
      PROVE  LogInv'
  BY <1>1, LogStep DEF DeleteSchedule, taskDocs, files, history
<1>2. CASE UNCHANGED vars
  BY <1>2, LogStep DEF vars
<1>3. ASSUME NEW s \in Spiders, SpiderRequest(s)
      PROVE  LogInv'
  BY <1>3, LogStep
     DEF SpiderRequest, PostSpider, AddStat, CreateFolder, OpenSource,
         SaveSource, docs, taskDocs, files, history
<1>4. ASSUME NEW t \in Tasks, TaskRequest(t)
      PROVE  LogInv'
  <2>1. CASE MakesRequest(t)
    <3>1. PICK pc \in {"fired", "asked"}, s \in Spiders \cup {NoSpider} :
             Request(t, pc, s)
      BY <2>1, MakesRequestType
    <3> QED
      BY <3>1, LogStep DEF Request, docs, taskDocs, files, history
  <2>2. CASE Load(t) \/ InsertItem(t) \/ AskFails(t) \/ InsertStat(t)
    BY <2>2, LogStep
       DEF Load, InsertItem, AskFails, InsertStat, docs, taskDocs, files, history
  <2>3. CASE InsertTask(t)
    <3>1. /\ \A u \in Tasks : task'[u] = "absent" => task[u] = "absent"
          /\ UNCHANGED <<logs, del, tdel, cut, wrote>>
      BY <2>3 DEF InsertTask, TypeOK, files
    <3> QED
      BY <3>1, LogStep
  <2>4. CASE DeleteTask(t) \/ DeleteListed(t)
    <3>1. /\ task' = [task EXCEPT ![t] = "absent"] /\ tdel'[t] # "idle"
          /\ \A u \in Tasks \ {t} : tdel'[u] = tdel[u]
          /\ UNCHANGED <<logs, del, cut, wrote>>
      BY <2>4 DEF DeleteTask, DeleteListed, TaskStep, TypeOK, files, history
    <3> QED
      BY <3>1, LogStep DEF TypeOK
  <2>5. CASE DeleteTaskStat(t) \/ DeleteTaskLogs(t)
    <3>1. /\ tdel'[t] # "idle" /\ \A u \in Tasks \ {t} : tdel'[u] = tdel[u]
          /\ logs' \subseteq logs
          /\ UNCHANGED <<task, del, cut, wrote>>
      BY <2>5 DEF DeleteTaskStat, DeleteTaskLogs, TaskStep, TypeOK, taskDocs,
                  files, history
    <3> QED
      BY <3>1, LogStep
  <2> QED
    BY <1>4, <2>1, <2>2, <2>3, <2>4, <2>5 DEF TaskRequest, MakesRequest
<1>5. ASSUME NEW t \in Tasks, Life(t)
      PROVE  LogInv'
  <2>1. CASE WriteLog(t)
    BY <2>1, LogStep DEF WriteLog, taskDocs
  <2>2. CASE Launch(t) \/ End(t) \/ CleanUp(t)
    <3>1. /\ \A u \in Tasks : task'[u] = "absent" => task[u] = "absent"
          /\ logs' \subseteq logs
          /\ UNCHANGED <<del, tdel, cut, wrote>>
      BY <2>2 DEF Launch, End, CleanUp, TypeOK, taskDocs, history
    <3> QED
      BY <3>1, LogStep
  <2> QED
    BY <1>5, <2>1, <2>2 DEF Life
<1>6. CASE Deletion
  <2>1. ASSUME NEW S \in SUBSET Spiders, DeleteSpiders(S)
        PROVE  LogInv'
    BY <2>1, LogStep DEF DeleteSpiders, taskDocs, files
  <2>2. CASE DeleteSpiderStats \/ DeleteFolders \/ ListTasks
    BY <2>2, LogStep
       DEF DeleteSpiderStats, DeleteFolders, ListTasks, DelStep, docs, taskDocs,
           files, history
  <2>3. CASE DeleteTasks
    <3>1. /\ del.pc = "tasks" /\ del'.pc = "stats" /\ del'.list = del.list
          /\ \A u \in Tasks : task'[u] = IF u \in del.list THEN "absent" ELSE task[u]
          /\ UNCHANGED <<logs, tdel, cut, wrote>>
      BY <2>3 DEF DeleteTasks, DelStep, TypeOK, Del, files, history
    <3> QED
      BY <3>1 DEF LogInv
  <2>4. CASE DeleteTaskStats
    <3>1. /\ del.pc = "stats" /\ del'.pc = "logs" /\ del'.list = del.list
          /\ UNCHANGED <<task, logs, tdel, cut, wrote>>
      BY <2>4 DEF DeleteTaskStats, DelStep, TypeOK, Del, files, history
    <3> QED
      BY <3>1 DEF LogInv
  <2>5. CASE DeleteLogs
    <3>1. /\ logs' = logs \ del.list
          /\ UNCHANGED <<task, tdel, cut, wrote>>
      BY <2>5 DEF DeleteLogs, taskDocs, history
    <3> QED
      BY <3>1 DEF LogInv
  <2>6. CASE DeleteFails
    <3>1. /\ del.pc \in {"stat", "list", "tasks", "stats"}
          /\ cut \subseteq cut' /\ (del.pc = "stats" => del.list \subseteq cut')
          /\ UNCHANGED <<task, logs, tdel, wrote>>
      BY <2>6 DEF DeleteFails, taskDocs, files
    <3> QED
      BY <3>1, LogStep
  <2> QED
    BY <1>6, <2>1, <2>2, <2>3, <2>4, <2>5, <2>6 DEF Deletion
<1> QED
  BY <1>1, <1>2, <1>3, <1>4, <1>5, <1>6 DEF Next

LEMMA IInvStep == IInv /\ [Next]_vars => IInv'
<1> SUFFICES ASSUME TypeOK, Related, LogInv, [Next]_vars
             PROVE  TypeOK' /\ Related' /\ LogInv'
  BY DEF IInv, Related
<1>1. ASSUME NEW c \in Schedules, DeleteSchedule(c)
      PROVE  Related'
  BY <1>1, SpiderComes DEF DeleteSchedule, taskDocs, files, history
<1>2. ASSUME UNCHANGED vars
      PROVE  Related'
  BY <1>2, SpiderComes DEF vars
<1> QED
  BY <1>1, <1>2, NextType, SpiderRequestRelated, TaskRequestRelated,
     LifeRelated, DeletionRelated, LogsKept DEF Next

LEMMA IInvInit == Init => IInv
<1> SUFFICES ASSUME Init
             PROVE  Related /\ LogInv
  BY InitType DEF IInv, Related
<1>1. \A t \in Tasks : /\ task[t] # "absent" <=> Old(t)
                       /\ ask[t].pc = IF Old(t) THEN "done" ELSE "idle"
  BY DEF Init
<1>2. stats = DOMAIN OldTasks
  BY DEF Init
<1>3. FreshInv /\ LossInv
  BY <1>1, <1>2 DEF FreshInv, LossInv, Old
<1>4. ScopeInv /\ ListedInv
  BY DEF Init, ScopeInv, ListedInv
<1>5. LogInv
  BY <1>1 DEF Init, LogInv, Old
<1> QED
  BY <1>3, <1>4, <1>5 DEF Related

THEOREM Inductive == Spec => []IInv
BY IInvInit, IInvStep, PTL DEF Spec

\* A deletion that has gone through leaves tasks of its spiders only if their
\* documents came after the spider was gone, and stats and logs only of these,
\* of tasks it could not list, and of tasks that went on writing.
THEOREM DeletionClean == Spec => []DeletionLeavesOnlyLate
<1>1. IInv => DeletionLeavesOnlyLate
  BY DEF IInv, ListedInv, LogInv, DeletionLeavesOnlyLate
<1> QED
  BY <1>1, Inductive, PTL

\* No deletion takes a task of another spider with it.
THEOREM OthersSafe == Spec => []OthersUntouched
<1>1. IInv => OthersUntouched
  BY DEF IInv, LossInv, OthersUntouched
<1> QED
  BY <1>1, Inductive, PTL

=============================================================================
