--------------------------- MODULE FileSyncProofs ---------------------------
(***************************************************************************)
(* Proofs about FileSync, for any set of paths, runners and edits.         *)
(***************************************************************************)
EXTENDS FileSync, TLAPS

\* A file that is being written is there, as long as it is not removed.
OpenInv ==
    /\ saving # NotSaving => master[saving.path] \in File
    /\ \A r \in Runners, p \in Paths : Holds(r, p) => worker[p] \in File

\* The file at p is one that the master has had, or a directory to be removed,
\* unless it was saved while it was downloaded.
Fresh(r, p) ==
    \/ p \in run[r].torn
    \/ worker[p] \in Answers(r, p)
    \/ worker[p] = "dir" /\ "absent" \in since[r][p]

\* The list of the master, which the scan turns into removals and goroutines.
ListInv(r) ==
    /\ \A p \in Paths : run[r].list[p] \in since[r][p] /\ run[r].job[p] = "none"
    /\ Shaped(run[r].list)
    /\ run[r].del = {} /\ ~run[r].err

\* What is still to be done for p, or was.
PathInv(r, p) ==
    /\ run[r].job[p] \in {"none", "mkdir", "get", "got", "open", "done"}
    /\ run[r].pc = "delete" => run[r].job[p] \in {"none", "mkdir", "get"}
    /\ run[r].pc = "ok" => run[r].job[p] = "none" /\ ~run[r].err
    /\ p \in run[r].del =>
          /\ run[r].pc = "delete" /\ run[r].job[p] = "none"
          /\ "absent" \in since[r][p]
    /\ run[r].job[p] = "mkdir" => "dir" \in since[r][p]
    /\ run[r].job[p] \in {"mkdir", "get", "got", "open"}
          => \A q \in Above[p] : "dir" \in since[r][q]
    /\ run[r].job[p] \in {"got", "open"}
          => p \in run[r].torn \/ run[r].body[p] \subseteq Answers(r, p)
    /\ run[r].job[p] \in {"none", "done"} /\ p \notin run[r].del /\ ~run[r].err
          => Fresh(r, p)

\* No file is where the other side has a directory, and what is to be
\* downloaded is there.
QuietPath(r, p) ==
    /\ run[r].job[p] = "mkdir" => master[p] = "dir"
    /\ run[r].job[p] \in {"get", "got", "open"} => master[p] \in File
    /\ master[p] = "dir" => worker[p] \in {"absent", "dir"}
    /\ master[p] \in File => worker[p] # "dir"

\* As long as nothing has interfered.
QuietInv(r) ==
    /\ run[r].pc # "failed"
    /\ run[r].pc = "scan" => run[r].list = master
    /\ run[r].pc \in {"delete", "sync"} =>
          ~run[r].err /\ \A p \in Paths : QuietPath(r, p)

\* A runner that alone writes to the worker since its scan.
AloneInv(r) ==
    /\ Busy(r)
    /\ \A p \in Paths : master[p] \in since[r][p]
    /\ run[r].pc = "scan" => ListInv(r)
    /\ run[r].pc \in {"delete", "sync", "ok"} => \A p \in Paths : PathInv(r, p)
    /\ ~run[r].excused => QuietInv(r)

IInv == TypeOK /\ OpenInv /\ \A r \in Runners : alone[r] => AloneInv(r)

-----------------------------------------------------------------------------
(* Trees.                                                                  *)

LEMMA AboveType ==
    ASSUME NEW p \in Paths
    PROVE  /\ Above[p] \subseteq Paths /\ p \notin Above[p]
           /\ \A q \in Above[p] : Above[q] \subseteq Above[p]
BY FileAssumption

\* A tree has directories above everything that is there.
LEMMA AboveDir ==
    ASSUME NEW tree, Shaped(tree), NEW p \in Paths, tree[p] # "absent"
    PROVE  \A q \in Above[p] : q \in Paths /\ tree[q] = "dir"
BY AboveType DEF Shaped, Present

\* Making the directories above p keeps the shape of a tree.
LEMMA PutShape ==
    ASSUME NEW tree \in Tree, Shaped(tree), NEW p \in Paths,
           NEW c \in File \cup {"dir"},
           c # "dir" => tree[p] # "dir"
    PROVE  Put(tree, p, c) \in Tree /\ Shaped(Put(tree, p, c))
<1>1. Put(tree, p, c) \in Tree
  BY DEF Put, Tree
<1>2. ASSUME NEW x \in Paths, Put(tree, p, c)[x] # "absent", NEW q \in Above[x]
      PROVE  Put(tree, p, c)[q] = "dir"
  <2>1. q \in Paths
    BY AboveType
  <2>2. CASE x = p \/ x \in Above[p]
    BY <2>1, <2>2, AboveType DEF Put
  <2>3. CASE x # p /\ x \notin Above[p]
    BY <1>2, <2>1, <2>3 DEF Put, Shaped, Present
  <2> QED
    BY <2>2, <2>3
<1> QED
  BY <1>1, <1>2 DEF Shaped, Present, Tree

\* So does a file that takes the place of a file, or of nothing.
LEMMA FileShape ==
    ASSUME NEW tree \in Tree, Shaped(tree), NEW p \in Paths, NEW c \in File,
           tree[p] # "dir", \A q \in Above[p] : tree[q] = "dir"
    PROVE  [tree EXCEPT ![p] = c] \in Tree /\ Shaped([tree EXCEPT ![p] = c])
<1>1. [tree EXCEPT ![p] = c] \in Tree
  BY DEF Tree
<1>2. ASSUME NEW x \in Paths, [tree EXCEPT ![p] = c][x] # "absent",
             NEW q \in Above[x]
      PROVE  [tree EXCEPT ![p] = c][q] = "dir"
  <2>1. q \in Paths /\ p \notin Above[p]
    BY AboveType
  <2> QED
    BY <1>2, <2>1 DEF Shaped, Present, Tree
<1> QED
  BY <1>1, <1>2 DEF Shaped, Present, Tree

\* So does taking away a part with all that is below it.
LEMMA WithoutShape ==
    ASSUME NEW tree \in Tree, Shaped(tree), NEW S \in SUBSET Paths,
           \A p \in S : \A q \in Below(p) \ S : tree[q] = "absent"
    PROVE  Without(tree, S) \in Tree /\ Shaped(Without(tree, S))
<1>1. Without(tree, S) \in Tree
  BY DEF Without, Tree
<1>2. ASSUME NEW x \in Paths, Without(tree, S)[x] # "absent", NEW q \in Above[x]
      PROVE  Without(tree, S)[q] = "dir"
  <2>1. q \in Paths /\ x \in Below(q)
    BY AboveType DEF Below
  <2> QED
    BY <1>2, <2>1 DEF Without, Shaped, Present
<1> QED
  BY <1>1, <1>2 DEF Shaped, Present, Tree

-----------------------------------------------------------------------------
(* Types, with OpenInv: a goroutine writes to a file only.                 *)

LEMMA Sentinels == Empty \in Tree /\ NoBody \in [Paths -> SUBSET File] /\ Idle \in Sync
<1>1. Empty \in Tree
  BY DEF Empty, Tree
<1>2. NoBody \in [Paths -> SUBSET File]
  BY DEF NoBody
<1> QED
  BY <1>1, <1>2 DEF Idle, Sync, Jobs

LEMMA RunType ==
    ASSUME TypeOK, NEW r \in Runners
    PROVE  /\ run[r] \in Sync
           /\ run[r].list \in Tree /\ run[r].del \subseteq Paths
           /\ run[r].job \in [Paths -> Jobs]
           /\ run[r].body \in [Paths -> SUBSET File]
           /\ run[r].live \subseteq Paths /\ run[r].torn \subseteq Paths
           /\ run[r].err \in BOOLEAN /\ run[r].excused \in BOOLEAN
BY DEF TypeOK, Sync

\* What an edit of the master does to a runner.
LEMMA MasterRun ==
    ASSUME TypeOK, NEW tree, NEW cut, NEW more \in SUBSET File, NEW gone,
           MasterBecomes(tree, cut, more, gone), NEW s \in Runners
    PROVE  /\ run'[s] \in Sync
           /\ run'[s].pc = run[s].pc /\ run'[s].list = run[s].list
           /\ run'[s].del = run[s].del /\ run'[s].job = run[s].job
           /\ run'[s].err = run[s].err /\ run'[s].excused = Busy(s)
           /\ run[s].torn \subseteq run'[s].torn
           /\ \A p \in Paths : p \in run'[s].torn \/ run'[s].body[p] = run[s].body[p]
<1> DEFINE torn == run[s].torn \cup From(s, cut)
           live == run[s].live \ From(s, gone)
           body == [p \in Paths |-> IF p \in From(s, cut)
                                    THEN run[s].body[p] \cup more
                                    ELSE run[s].body[p]]
           new == [run[s] EXCEPT !.excused = Busy(s), !.torn = torn,
                                 !.body = body, !.live = live]
<1>1. run'[s] = new
  BY Zenon DEF MasterBecomes
<1>2. torn \in SUBSET Paths /\ live \in SUBSET Paths
  BY RunType DEF From
<1>3. body \in [Paths -> SUBSET File]
  BY RunType
<1>4. \A p \in Paths : p \in torn \/ body[p] = run[s].body[p]
  OBVIOUS
<1>5. run[s].torn \subseteq torn
  OBVIOUS
<1>6. Busy(s) \in BOOLEAN /\ run[s] \in Sync
  BY RunType DEF Busy
<1> HIDE DEF torn, live, body
<1>7. new \in Sync
  BY <1>2, <1>3, <1>6, ZenonT(60) DEF Sync
<1>8. /\ new.pc = run[s].pc /\ new.list = run[s].list
      /\ new.del = run[s].del /\ new.job = run[s].job
      /\ new.err = run[s].err /\ new.torn = torn /\ new.body = body
  BY <1>6 DEF Sync
<1>9. new.excused = Busy(s)
  BY <1>6 DEF Sync
<1> HIDE DEF new
<1> QED
  BY <1>1, <1>4, <1>5, <1>7, <1>8, <1>9

\* The runners around an edit of the master.
LEMMA MasterBecomesType ==
    ASSUME TypeOK, NEW tree \in Tree, Shaped(tree),
           NEW cut, NEW more \in SUBSET File, NEW gone,
           MasterBecomes(tree, cut, more, gone)
    PROVE  /\ master' \in Tree /\ Shaped(master)'
           /\ since' \in [Runners -> [Paths -> SUBSET (File \cup {"absent", "dir"})]]
           /\ run' \in [Runners -> Sync]
           /\ worker' \in Tree /\ Shaped(worker)'
           /\ alone' \in [Runners -> BOOLEAN]
<1>1. master' = tree /\ worker' = worker /\ alone' = alone
  BY Zenon DEF MasterBecomes
<1>2. \A p \in Paths : tree[p] \in File \cup {"absent", "dir"}
  BY DEF Tree
<1>3. since' \in [Runners -> [Paths -> SUBSET (File \cup {"absent", "dir"})]]
  <2>1. since' = [r \in Runners |-> [p \in Paths |->
                     IF Busy(r) THEN since[r][p] \cup {tree[p]} ELSE {}]]
    BY Zenon DEF MasterBecomes
  <2> QED
    BY <1>2, <2>1 DEF TypeOK
<1>4. \A r \in Runners : run'[r] \in Sync
  BY MasterRun
<1>5. DOMAIN run' = Runners /\ run' = [r \in DOMAIN run' |-> run'[r]]
  BY Zenon DEF MasterBecomes
<1>6. run' \in [Runners -> Sync]
  BY <1>4, <1>5, Zenon
<1> QED
  BY <1>1, <1>3, <1>6 DEF TypeOK, Shaped, Present

LEMMA OpenKept ==
    ASSUME TypeOK, OpenInv, NEW tree, NEW cut, NEW more \in SUBSET File, NEW gone,
           MasterBecomes(tree, cut, more, gone),
           saving' # NotSaving => tree[saving'.path] \in File
    PROVE  OpenInv'
<1>1. \A r \in Runners : run'[r].job = run[r].job
  BY MasterRun
<1>2. worker' = worker /\ master' = tree
  BY Zenon DEF MasterBecomes
<1> QED
  BY <1>1, <1>2 DEF OpenInv, Holds

LEMMA EditType ==
    ASSUME TypeOK, Edit
    PROVE  edits' \in 0..MaxEdits
BY FileAssumption DEF TypeOK, Edit

\* Versions are not among the words for other states of a path.
LEMMA Words == /\ \A c \in File : c \notin {"absent", "dir"}
               /\ Versions \subseteq File /\ "empty" \in File /\ "other" \in File
BY FileAssumption DEF File

LEMMA UserType ==
    ASSUME TypeOK, OpenInv, User
    PROVE  TypeOK' /\ OpenInv'
<1>0. master \in Tree /\ Shaped(master)
  BY DEF TypeOK
<1>1. CASE SaveWrite
  <2> DEFINE tree == [master EXCEPT ![saving.path] = saving.to]
  <2>1. saving.path \in Paths /\ saving.to \in File
    BY <1>1, Words DEF SaveWrite, TypeOK
  <2>2. master[saving.path] \in File
    BY <1>1 DEF SaveWrite, OpenInv
  <2>3. \A q \in Above[saving.path] : master[q] = "dir"
    BY <1>0, <2>1, <2>2, Words DEF Shaped, Present
  <2>4. tree \in Tree /\ Shaped(tree)
    BY <1>0, <2>1, <2>2, <2>3, FileShape, Words
  <2>5. /\ MasterBecomes(tree, {saving.path}, Rewritten, {})
        /\ saving' = NotSaving /\ edits' = edits
    BY <1>1 DEF SaveWrite
  <2>6. Rewritten \subseteq File
    BY <2>1, Words DEF Rewritten
  <2>7. OpenInv'
    BY <2>5, <2>6, OpenKept
  <2>8. /\ master' \in Tree /\ Shaped(master)'
        /\ since' \in [Runners -> [Paths -> SUBSET (File \cup {"absent", "dir"})]]
        /\ run' \in [Runners -> Sync]
        /\ worker' \in Tree /\ Shaped(worker)'
        /\ alone' \in [Runners -> BOOLEAN]
    BY <2>4, <2>5, <2>6, MasterBecomesType, Zenon
  <2> QED
    BY <2>5, <2>7, <2>8 DEF TypeOK
<1>2. ASSUME NEW p \in Paths, NEW v \in Versions, SaveOpen(p, v)
      PROVE  TypeOK' /\ OpenInv'
  <2> DEFINE tree == Put(master, p, "empty")
  <2>1. tree \in Tree /\ Shaped(tree) /\ tree[p] = "empty"
    BY <1>0, <1>2, PutShape, Words DEF SaveOpen, Put
  <2>2. /\ MasterBecomes(tree, {p}, {}, {}) /\ saving' = [path |-> p, to |-> v]
        /\ edits' \in 0..MaxEdits
    BY <1>2, EditType DEF SaveOpen
  <2>3. OpenInv'
    BY <2>1, <2>2, OpenKept, Words
  <2> QED
    BY <2>1, <2>2, <2>3, MasterBecomesType DEF TypeOK
<1>3. ASSUME NEW p \in Paths, CreateDir(p)
      PROVE  TypeOK' /\ OpenInv'
  <2> DEFINE tree == Put(master, p, "dir")
  <2>1. tree \in Tree /\ Shaped(tree)
    BY <1>0, PutShape
  <2>2. /\ MasterBecomes(tree, {}, {}, {}) /\ saving' = saving /\ edits' \in 0..MaxEdits
        /\ Free(master, p) /\ master[p] = "absent"
    BY <1>3, EditType DEF CreateDir
  <2>3. saving # NotSaving => tree[saving.path] \in File
    BY <2>2, Words DEF OpenInv, TypeOK, Put, Free
  <2>4. OpenInv'
    BY <2>2, <2>3, OpenKept
  <2> QED
    BY <2>1, <2>2, <2>4, MasterBecomesType DEF TypeOK
<1>4. ASSUME NEW p \in Paths, Delete(p)
      PROVE  TypeOK' /\ OpenInv'
  <2> DEFINE S == Below(p) \cup {p}
  <2> DEFINE tree == Without(master, S)
  <2>1. S \subseteq Paths /\ \A x \in S : Below(x) \subseteq S
    BY AboveType DEF Below
  <2>2. tree \in Tree /\ Shaped(tree)
    BY <1>0, <2>1, WithoutShape
  <2>3. /\ MasterBecomes(tree, {saving.path} \cap S, Rewritten, S)
        /\ edits' \in 0..MaxEdits
        /\ saving' = IF saving.path \in S THEN NotSaving ELSE saving
    BY <1>4, EditType DEF Delete
  <2>4. saving' # NotSaving => tree[saving'.path] \in File
    BY <2>3 DEF OpenInv, TypeOK, Without
  <2>5. Rewritten \subseteq File
    BY Words DEF TypeOK, NotSaving, Rewritten
  <2>6. OpenInv'
    BY <2>3, <2>4, <2>5, OpenKept
  <2>7. /\ master' \in Tree /\ Shaped(master)'
        /\ since' \in [Runners -> [Paths -> SUBSET (File \cup {"absent", "dir"})]]
        /\ run' \in [Runners -> Sync]
        /\ worker' \in Tree /\ Shaped(worker)'
        /\ alone' \in [Runners -> BOOLEAN]
    BY <2>2, <2>3, <2>5, MasterBecomesType, Zenon
  <2>8. saving' \in [path : Paths, to : Versions] \cup {NotSaving}
    BY <2>3 DEF TypeOK
  <2> QED
    BY <2>3, <2>6, <2>7, <2>8 DEF TypeOK
<1>5. ASSUME NEW p \in Paths, NEW v \in Versions, RenameTo(p, v)
      PROVE  TypeOK' /\ OpenInv'
  <2> DEFINE tree == [master EXCEPT ![p] = v]
  <2>1. tree \in Tree /\ Shaped(tree)
    BY <1>0, <1>5, FileShape, Words DEF RenameTo
  <2>2. /\ MasterBecomes(tree, {}, {}, {p}) /\ edits' \in 0..MaxEdits
        /\ saving' = saving /\ saving.path # p
    BY <1>5, EditType DEF RenameTo
  <2>3. saving # NotSaving => tree[saving.path] \in File
    BY <1>0, <2>2 DEF OpenInv, TypeOK, Tree
  <2>4. OpenInv'
    BY <2>2, <2>3, OpenKept
  <2> QED
    BY <2>1, <2>2, <2>4, MasterBecomesType DEF TypeOK
<1> QED
  BY <1>1, <1>2, <1>3, <1>4, <1>5 DEF User

\* The types of what the steps of runners share.
LEMMA AloneType ==
    ASSUME TypeOK, NEW r \in Runners, NEW tree, NEW others,
           WorkerBecomes(r, tree, others)
    PROVE  /\ alone' \in [Runners -> BOOLEAN]
           /\ worker' = tree
           /\ master' = master /\ saving' = saving
           /\ since' = since /\ edits' = edits
BY DEF WorkerBecomes, TypeOK

LEMMA KeptType ==
    ASSUME TypeOK, run' \in [Runners -> Sync],
           UNCHANGED <<master, saving, worker, since, alone, edits>>
    PROVE  TypeOK'
BY DEF TypeOK, Shaped, Present

LEMMA WorkerType ==
    ASSUME TypeOK, run' \in [Runners -> Sync], NEW r \in Runners,
           NEW tree \in Tree, Shaped(tree), NEW others,
           WorkerBecomes(r, tree, others)
    PROVE  TypeOK'
<1>1. worker' \in Tree /\ Shaped(worker)'
  BY AloneType DEF Shaped, Present
<1> QED
  BY <1>1, AloneType DEF TypeOK, Shaped, Present

\* What a goroutine that has p open finds there, and what surrounds it.
LEMMA HeldPlace ==
    ASSUME TypeOK, OpenInv, NEW p \in Paths, worker[p] \in File
    PROVE  worker[p] # "dir" /\ \A q \in Above[p] : worker[q] = "dir"
BY Words DEF TypeOK, Shaped, Present

LEMMA ListType ==
    ASSUME TypeOK, OpenInv, NEW r \in Runners,
           \/ GetList(r) \/ GetListFails(r) \/ Scan(r) \/ StartDownloads(r)
           \/ Finish(r) \/ Leave(r)
    PROVE  TypeOK' /\ OpenInv'
<1>1. CASE GetList(r)
  <2>1. [Idle EXCEPT !.pc = "scan", !.list = master] \in Sync
    BY Sentinels DEF Sync, TypeOK
  <2>2. [p \in Paths |-> {master[p]}] \in [Paths -> SUBSET (File \cup {"absent", "dir"})]
    BY DEF TypeOK, Tree
  <2>3. TypeOK'
    BY <1>1, <2>1, <2>2 DEF GetList, TypeOK, Shaped, Present
  <2>4. OpenInv'
    BY <1>1 DEF GetList, OpenInv, Holds, Idle, TypeOK
  <2> QED
    BY <2>3, <2>4
<1>2. CASE GetListFails(r)
  <2>1. [Idle EXCEPT !.pc = "failed", !.excused = TRUE] \in Sync
    BY Sentinels DEF Sync
  <2>2. TypeOK'
    BY <1>2, <2>1, KeptType DEF GetListFails, TypeOK
  <2>3. OpenInv'
    BY <1>2 DEF GetListFails, OpenInv, Holds, Idle, TypeOK
  <2> QED
    BY <2>2, <2>3
<1>3. CASE Scan(r)
  <2>1. /\ run'[r].pc = "delete" /\ run'[r].list = Empty
        /\ run'[r].del = Present(worker) \ Present(run[r].list)
        /\ run'[r].body = run[r].body /\ run'[r].err = run[r].err
        /\ run'[r].excused \in BOOLEAN
        /\ run'[r].job \in [Paths -> {"none", "mkdir", "get"}]
        /\ \A s \in Runners \ {r} : run'[s] = run[s]
    BY <1>3, RunType, ZenonT(60) DEF Scan, TypeOK, Sync
  <2>2. run' \in [Runners -> Sync]
    <3>1. ASSUME NEW d \in SUBSET Paths, NEW e \in BOOLEAN,
                 NEW j \in [Paths -> Jobs],
                 run' = [run EXCEPT ![r].pc = "delete", ![r].list = Empty,
                                    ![r].del = d, ![r].excused = e,
                                    ![r].job = j]
          PROVE  run' \in [Runners -> Sync]
      <4>1. [run[r] EXCEPT !.pc = "delete", !.list = Empty, !.del = d,
                           !.excused = e, !.job = j] \in Sync
        BY RunType, Sentinels DEF Sync
      <4> QED
        BY <3>1, <4>1 DEF TypeOK
    <3>2. \E d \in SUBSET Paths, e \in BOOLEAN, j \in [Paths -> Jobs] :
             run' = [run EXCEPT ![r].pc = "delete", ![r].list = Empty,
                                ![r].del = d, ![r].excused = e,
                                ![r].job = j]
      BY <1>3, RunType, Zenon DEF Scan, Present, Jobs
    <3> QED
      BY <3>1, <3>2, Zenon
  <2>3. OpenInv'
    BY <1>3, <2>1, ZenonT(60) DEF Scan, OpenInv, Holds
  <2> QED
    BY <1>3, <2>2, <2>3, KeptType, Zenon DEF Scan
<1>4. CASE StartDownloads(r)
  <2>1. [run[r] EXCEPT !.pc = "sync"] \in Sync
    BY RunType DEF Sync
  <2>2. TypeOK'
    BY <1>4, <2>1, KeptType DEF StartDownloads, TypeOK
  <2>3. OpenInv'
    BY <1>4, RunType DEF StartDownloads, OpenInv, Holds, TypeOK, Sync
  <2> QED
    BY <2>2, <2>3
<1>5. CASE Finish(r)
  <2>1. [run[r] EXCEPT !.pc = IF run[r].err THEN "failed" ELSE "ok",
                       !.job = Idle.job, !.body = NoBody, !.err = FALSE] \in Sync
    <3>1. Idle.job \in [Paths -> Jobs] /\ NoBody \in [Paths -> SUBSET File]
      BY Sentinels DEF Idle, Jobs
    <3> QED
      BY <3>1, RunType, ZenonT(60) DEF Sync
  <2>2. TypeOK'
    BY <1>5, <2>1, KeptType DEF Finish, TypeOK
  <2>3. \A p \in Paths : run'[r].job[p] = "none"
    BY <1>5, RunType DEF Finish, Idle, TypeOK, Sync
  <2>4. OpenInv'
    BY <1>5, <2>3, RunType DEF Finish, OpenInv, Holds, TypeOK
  <2> QED
    BY <2>2, <2>4
<1>6. CASE Leave(r)
  <2>1. TypeOK'
    BY <1>6, Sentinels DEF Leave, TypeOK, Shaped, Present
  <2>2. OpenInv'
    BY <1>6 DEF Leave, OpenInv, Holds, Idle, TypeOK
  <2> QED
    BY <2>1, <2>2
<1> QED
  BY <1>1, <1>2, <1>3, <1>4, <1>5, <1>6

\* A step of the goroutine of p, and what it leaves alone.
Stepped(r, p, j, f, x) ==
    /\ run' \in [Runners -> Sync]
    /\ \A s \in Runners \ {r} : run'[s] = run[s]
    /\ run'[r].job[p] = j
    /\ run'[r].err <=> run[r].err \/ f
    /\ run'[r].excused <=> run[r].excused \/ x
    /\ \A q \in Paths \ {p} : run'[r].job[q] = run[r].job[q]
    /\ run'[r].pc = run[r].pc /\ run'[r].list = run[r].list
    /\ run'[r].del = run[r].del /\ run'[r].body = run[r].body
    /\ run'[r].torn = run[r].torn

LEMMA JobStep ==
    ASSUME TypeOK, NEW r \in Runners, NEW p \in Paths, NEW j \in Jobs,
           NEW f \in BOOLEAN, NEW x \in BOOLEAN, JobBecomes(r, p, j, f, x)
    PROVE  Stepped(r, p, j, f, x)
<1> DEFINE new == [run[r] EXCEPT !.job = [@ EXCEPT ![p] = j], !.live = @ \ {p},
                                 !.err = @ \/ f, !.excused = @ \/ x]
<1>1. run' = [run EXCEPT ![r] = new]
  BY DEF JobBecomes
<1>2. [run[r].job EXCEPT ![p] = j] \in [Paths -> Jobs]
  BY RunType
<1>3. new \in Sync
  <2>1. ASSUME NEW e \in BOOLEAN, NEW y \in BOOLEAN
        PROVE  [run[r] EXCEPT !.job = [@ EXCEPT ![p] = j], !.live = @ \ {p},
                              !.err = e, !.excused = y] \in Sync
    <3>1. run[r].live \ {p} \in SUBSET Paths
      BY RunType
    <3> QED
      BY <1>2, <3>1, RunType, ZenonT(60) DEF Sync
  <2>2. (run[r].err \/ f) \in BOOLEAN /\ (run[r].excused \/ x) \in BOOLEAN
    BY RunType, ZenonT(20)
  <2> QED
    BY <2>1, <2>2, Zenon
<1>4. run'[r] = new /\ run' \in [Runners -> Sync]
  BY <1>1, <1>3 DEF TypeOK
<1>5. \A s \in Runners \ {r} : run'[s] = run[s]
  BY <1>1 DEF TypeOK
<1>6. run[r] \in Sync
  BY RunType
<1>7. /\ new.job = [run[r].job EXCEPT ![p] = j]
      /\ new.err = (run[r].err \/ f) /\ new.excused = (run[r].excused \/ x)
      /\ new.pc = run[r].pc /\ new.list = run[r].list
      /\ new.del = run[r].del /\ new.body = run[r].body
      /\ new.torn = run[r].torn
  BY <1>6 DEF Sync
<1>8. /\ new.job[p] = j
      /\ \A q \in Paths \ {p} : new.job[q] = run[r].job[q]
  BY <1>7, RunType
<1> HIDE DEF new
<1> QED
  BY <1>4, <1>5, <1>7, <1>8 DEF Stepped

\* A goroutine that is done keeps OpenInv, unless it takes a file away.
LEMMA DoneOpen ==
    ASSUME TypeOK, OpenInv, NEW r \in Runners, NEW p \in Paths,
           NEW f \in BOOLEAN, NEW x \in BOOLEAN,
           JobBecomes(r, p, "done", f, x),
           master' = master, saving' = saving,
           \A q \in Paths : worker[q] \in File => worker'[q] \in File
    PROVE  run' \in [Runners -> Sync] /\ OpenInv'
<1>1. Stepped(r, p, "done", f, x)
  BY JobStep DEF Jobs
<1>2. /\ run' \in [Runners -> Sync]
      /\ \A s \in Runners :
            \A q \in Paths : \/ run'[s].job[q] = run[s].job[q]
                             \/ run'[s].job[q] = "done"
  BY <1>1 DEF Stepped
<1> QED
  BY <1>2 DEF OpenInv, Holds

LEMMA RemoveType ==
    ASSUME TypeOK, OpenInv, NEW r \in Runners, NEW p \in Paths, Remove(r, p)
    PROVE  TypeOK' /\ OpenInv'
<1> DEFINE gone == worker[p] # "absent" /\ \A q \in Below(p) : worker[q] = "absent"
           tree == IF gone THEN Without(worker, {p}) ELSE worker
<1>1. tree \in Tree /\ Shaped(tree)
  BY WithoutShape DEF TypeOK
<1>2. /\ WorkerBecomes(r, tree, {})
      /\ run' = [s \in Runners |->
                   [run[s] EXCEPT !.del = IF s = r THEN @ \ {p} ELSE @,
                                  !.job[p] = IF gone /\ Holds(s, p)
                                             THEN "unlinked" ELSE @]]
  BY ZenonT(60) DEF Remove
<1>3. run' \in [Runners -> Sync]
  <2>1. ASSUME NEW s \in Runners
        PROVE  [run[s] EXCEPT !.del = IF s = r THEN @ \ {p} ELSE @,
                              !.job[p] = IF gone /\ Holds(s, p)
                                         THEN "unlinked" ELSE @] \in Sync
    <3>1. [run[s].job EXCEPT ![p] = IF gone /\ Holds(s, p) THEN "unlinked" ELSE @]
             \in [Paths -> Jobs]
      BY RunType DEF Jobs
    <3>2. (IF s = r THEN run[s].del \ {p} ELSE run[s].del) \in SUBSET Paths
      BY RunType
    <3> QED
      BY <3>1, <3>2, RunType, ZenonT(60) DEF Sync
  <2> QED
    BY <1>2, <2>1, ZenonT(60)
<1>4. TypeOK'
  BY <1>1, <1>2, <1>3, WorkerType, Zenon
<1>5. \A s \in Runners :
         /\ \A q \in Paths \ {p} : run'[s].job[q] = run[s].job[q]
         /\ run'[s].job[p] = IF gone /\ Holds(s, p) THEN "unlinked" ELSE run[s].job[p]
  BY <1>2, RunType, ZenonT(60) DEF Sync
<1>6. \A q \in Paths : worker'[q] = IF gone /\ q = p THEN "absent" ELSE worker[q]
  <2>1. worker' = tree
    BY <1>2, AloneType, Zenon
  <2> QED
    BY <2>1 DEF Without
<1>7. master' = master /\ saving' = saving
  BY <1>2, AloneType, Zenon
<1>8. OpenInv'
  BY <1>5, <1>6, <1>7 DEF OpenInv, Holds
<1> QED
  BY <1>4, <1>8

LEMMA MakeDirType ==
    ASSUME TypeOK, OpenInv, NEW r \in Runners, NEW p \in Paths, MakeDir(r, p)
    PROVE  TypeOK' /\ OpenInv'
<1> DEFINE able == Free(worker, p) /\ worker[p] \in {"absent", "dir"}
           tree == IF able THEN Put(worker, p, "dir") ELSE worker
<1>1. tree \in Tree /\ Shaped(tree)
  BY PutShape DEF TypeOK
<1>2. WorkerBecomes(r, tree, {}) /\ JobBecomes(r, p, "done", ~able, FALSE)
  BY DEF MakeDir
<1>3. worker' = tree /\ master' = master /\ saving' = saving
  BY <1>2, AloneType
<1>4. \A q \in Paths : worker[q] \in File => worker'[q] \in File
  BY <1>3, Words DEF Put, Free
<1>5. run' \in [Runners -> Sync] /\ OpenInv'
  BY <1>2, <1>3, <1>4, DoneOpen
<1> QED
  BY <1>1, <1>2, <1>5, WorkerType

\* What the master takes for the path of p, and whether it is a file.
Found(p) == Asked[p] \in Paths /\ master[Asked[p]] \in File

\* The step of a download that is answered.
LEMMA GetStep ==
    ASSUME TypeOK, NEW r \in Runners, NEW p \in Paths, Get(r, p), Found(p)
    PROVE  /\ run' \in [Runners -> Sync]
           /\ \A s \in Runners \ {r} : run'[s] = run[s]
           /\ run'[r].pc = run[r].pc /\ run'[r].err = run[r].err
           /\ run'[r].excused = run[r].excused /\ run'[r].del = run[r].del
           /\ run'[r].torn = run[r].torn
           /\ run'[r].job[p] = "got" /\ run'[r].body[p] = {master[Asked[p]]}
           /\ \A q \in Paths \ {p} : /\ run'[r].job[q] = run[r].job[q]
                                     /\ run'[r].body[q] = run[r].body[q]
<1> DEFINE c == master[Asked[p]]
<1>1. run' = [run EXCEPT ![r].job[p] = "got", ![r].body[p] = {c},
                         ![r].live = IF c = "empty" THEN @ ELSE @ \cup {p}]
  BY Zenon DEF Get, Found
<1>2. /\ [run[r].job EXCEPT ![p] = "got"] \in [Paths -> Jobs]
      /\ [run[r].body EXCEPT ![p] = {c}] \in [Paths -> SUBSET File]
      /\ (IF c = "empty" THEN run[r].live ELSE run[r].live \cup {p}) \in SUBSET Paths
  BY RunType DEF Jobs, Found
<1> HIDE DEF c
<1>3. [run[r] EXCEPT !.job = [@ EXCEPT ![p] = "got"],
                     !.body = [@ EXCEPT ![p] = {c}],
                     !.live = IF c = "empty" THEN @ ELSE @ \cup {p}] \in Sync
  BY <1>2, RunType, ZenonT(60) DEF Sync
<1>4. run' \in [Runners -> Sync]
  BY <1>1, <1>3 DEF TypeOK
<1>5. /\ run'[r].job = [run[r].job EXCEPT ![p] = "got"]
      /\ run'[r].body = [run[r].body EXCEPT ![p] = {c}]
      /\ run'[r].pc = run[r].pc /\ run'[r].err = run[r].err
      /\ run'[r].excused = run[r].excused /\ run'[r].del = run[r].del
      /\ run'[r].torn = run[r].torn
      /\ \A s \in Runners \ {r} : run'[s] = run[s]
  BY <1>1 DEF TypeOK, Sync
<1>6. /\ run'[r].job[p] = "got" /\ run'[r].body[p] = {c}
      /\ \A q \in Paths \ {p} : /\ run'[r].job[q] = run[r].job[q]
                                /\ run'[r].body[q] = run[r].body[q]
  BY <1>5, RunType
<1> QED
  BY <1>4, <1>5, <1>6 DEF c

LEMMA GetType ==
    ASSUME TypeOK, OpenInv, NEW r \in Runners, NEW p \in Paths,
           Get(r, p) \/ GetFails(r, p)
    PROVE  TypeOK' /\ OpenInv'
<1>0. UNCHANGED <<master, saving, worker, since, alone, edits>>
  BY Zenon DEF Get, GetFails
<1>1. CASE Get(r, p) /\ Found(p)
  <2>1. /\ run' \in [Runners -> Sync]
        /\ \A s \in Runners, q \in Paths : Holds(s, q)' => Holds(s, q)
    BY <1>1, GetStep DEF Holds
  <2>2. OpenInv'
    BY <1>0, <2>1 DEF OpenInv
  <2> QED
    BY <1>0, <2>1, <2>2, KeptType
<1>2. ASSUME NEW x \in BOOLEAN, JobBecomes(r, p, "done", TRUE, x)
      PROVE  TypeOK' /\ OpenInv'
  BY <1>0, <1>2, DoneOpen, KeptType
<1>3. CASE Get(r, p) /\ ~Found(p)
  <2>1. JobBecomes(r, p, "done", TRUE, Asked[p] # p)
    BY <1>3, Zenon DEF Get, Found
  <2>2. (Asked[p] # p) \in BOOLEAN
    OBVIOUS
  <2> QED
    BY <1>2, <2>1, <2>2, Zenon
<1>4. CASE GetFails(r, p)
  BY <1>2, <1>4 DEF GetFails
<1> QED
  BY <1>1, <1>3, <1>4

LEMMA OpenType ==
    ASSUME TypeOK, OpenInv, NEW r \in Runners, NEW p \in Paths, Open(r, p)
    PROVE  TypeOK' /\ OpenInv'
<1> DEFINE able == Free(worker, p) /\ worker[p] # "dir"
           others == {s \in Runners \ {r} : Holds(s, p)}
           job == IF ~able THEN "done" ELSE IF others = {} THEN "open" ELSE "shared"
           tree == IF able THEN Put(worker, p, "empty") ELSE worker
<1>1. tree \in Tree /\ Shaped(tree)
  BY PutShape, Words DEF TypeOK
<1>2. /\ WorkerBecomes(r, tree, others)
      /\ run' = [s \in Runners |->
                   IF s = r
                   THEN [run[r] EXCEPT !.job[p] = job, !.err = @ \/ ~able]
                   ELSE IF able /\ s \in others
                   THEN [run[s] EXCEPT !.job[p] = "shared"] ELSE run[s]]
      /\ run[r].job[p] = "got"
  BY Zenon DEF Open, Turn
<1>3. run' \in [Runners -> Sync]
  <2>1. [run[r] EXCEPT !.job[p] = job, !.err = @ \/ ~able] \in Sync
    <3>1. [run[r].job EXCEPT ![p] = job] \in [Paths -> Jobs]
      BY RunType DEF Jobs
    <3> QED
      BY <3>1, RunType, ZenonT(60) DEF Sync
  <2>2. ASSUME NEW s \in Runners
        PROVE  [run[s] EXCEPT !.job[p] = "shared"] \in Sync
    <3>1. [run[s].job EXCEPT ![p] = "shared"] \in [Paths -> Jobs]
      BY RunType DEF Jobs
    <3> QED
      BY <3>1, RunType DEF Sync
  <2> QED
    BY <1>2, <2>1, <2>2, RunType, Zenon
<1>4. TypeOK'
  BY <1>1, <1>2, <1>3, WorkerType, Zenon
<1>5. /\ \A s \in Runners :
            \A q \in Paths \ {p} : run'[s].job[q] = run[s].job[q]
      /\ run'[r].job[p] = job
      /\ \A s \in Runners \ {r} :
            run'[s].job[p] = IF able /\ Holds(s, p) THEN "shared" ELSE run[s].job[p]
  BY <1>2, RunType, ZenonT(60) DEF Sync
<1>6. /\ able => worker'[p] = "empty"
      /\ \A q \in Paths \ {p} : worker[q] \in File => worker'[q] = worker[q]
      /\ ~able => worker' = worker
  <2>1. worker' = tree
    BY <1>2, AloneType, Zenon
  <2> QED
    BY <2>1, Words DEF Put, Free
<1>7. master' = master /\ saving' = saving
  BY <1>2, AloneType, Zenon
<1>8. ASSUME NEW s \in Runners, NEW q \in Paths
      PROVE  Holds(s, q)' => worker'[q] \in File
  <2>1. CASE q # p
    BY <1>5, <1>6, <2>1 DEF OpenInv, Holds
  <2>2. CASE q = p /\ s = r
    <3>1. job \in {"open", "shared"} => able
      OBVIOUS
    <3> HIDE DEF job, able
    <3> QED
      BY <1>5, <1>6, <2>2, <3>1, Words DEF Holds
  <2>3. CASE q = p /\ s # r
    BY <1>5, <1>6, <2>3, Words DEF OpenInv, Holds
  <2> QED
    BY <2>1, <2>2, <2>3
<1>9. OpenInv'
  BY <1>7, <1>8 DEF OpenInv
<1> QED
  BY <1>4, <1>9

LEMMA CopyType ==
    ASSUME TypeOK, OpenInv, NEW r \in Runners, NEW p \in Paths,
           Copy(r, p) \/ CopyFails(r, p)
    PROVE  TypeOK' /\ OpenInv'
<1>1. /\ run[r].job[p] \in {"open", "shared", "unlinked"}
      /\ run[r].body[p] \subseteq File
  BY RunType, Zenon DEF Copy, CopyFails
<1>2. PICK c : /\ WorkerBecomes(r, [worker EXCEPT ![p] = c], {})
               /\ c = worker[p] \/ (Holds(r, p) /\ c \in File)
               /\ \/ JobBecomes(r, p, "done", FALSE, FALSE)
                  \/ JobBecomes(r, p, "done", TRUE, TRUE)
  <2>1. CASE Copy(r, p)
    <3>1. PICK c \in Written(r, p) : WorkerBecomes(r, [worker EXCEPT ![p] = c], {})
      BY <2>1 DEF Copy
    <3>2. c = worker[p] \/ (Holds(r, p) /\ c \in File)
      BY <1>1, Words DEF Written, Holds
    <3> QED
      BY <2>1, <3>1, <3>2 DEF Copy
  <2>2. CASE CopyFails(r, p)
    <3>1. PICK c \in {worker[p], IF Holds(r, p) THEN "other" ELSE worker[p]} :
             WorkerBecomes(r, [worker EXCEPT ![p] = c], {})
      BY <2>2 DEF CopyFails
    <3>2. c = worker[p] \/ (Holds(r, p) /\ c \in File)
      BY Words
    <3> QED
      BY <2>2, <3>1, <3>2 DEF CopyFails
  <2> QED
    BY <2>1, <2>2
<1> DEFINE tree == [worker EXCEPT ![p] = c]
<1>3. worker \in Tree /\ Shaped(worker)
  BY DEF TypeOK
<1>4. tree \in Tree /\ Shaped(tree)
  <2>1. CASE c = worker[p]
    <3>1. tree = worker
      BY <1>3, <2>1 DEF Tree
    <3> QED
      BY <1>3, <3>1
  <2>2. CASE Holds(r, p) /\ c \in File
    <3>1. worker[p] \in File
      BY <2>2 DEF OpenInv
    <3> QED
      BY <1>3, <2>2, <3>1, HeldPlace, FileShape
  <2> QED
    BY <1>2, <2>1, <2>2
<1>5. worker' = tree /\ master' = master /\ saving' = saving
  BY <1>2, AloneType
<1>6. \A q \in Paths : worker[q] \in File => worker'[q] \in File
  BY <1>2, <1>3, <1>5 DEF Tree
<1>7. run' \in [Runners -> Sync] /\ OpenInv'
  BY <1>2, <1>5, <1>6, DoneOpen
<1> QED
  BY <1>2, <1>4, <1>7, WorkerType

LEMMA SpiderType ==
    ASSUME TypeOK, OpenInv, NEW r \in Runners, NEW p \in Paths, SpiderWrites(r, p)
    PROVE  TypeOK' /\ OpenInv'
<1> DEFINE tree == Put(worker, p, "other")
<1>1. tree \in Tree /\ Shaped(tree)
  BY PutShape, Words DEF SpiderWrites, TypeOK
<1>2. /\ worker' = tree /\ alone' \in [Runners -> BOOLEAN]
      /\ UNCHANGED <<master, saving, run, since>>
      /\ edits' \in 0..MaxEdits
  BY EditType DEF SpiderWrites
<1>3. TypeOK'
  BY <1>1, <1>2 DEF TypeOK, Shaped, Present
<1>4. \A q \in Paths : worker[q] \in File => worker'[q] \in File
  BY <1>2, Words DEF SpiderWrites, Put, Free
<1>5. OpenInv'
  BY <1>2, <1>4 DEF OpenInv, Holds
<1> QED
  BY <1>3, <1>5

LEMMA CrashType ==
    ASSUME TypeOK, OpenInv, Crash
    PROVE  TypeOK' /\ OpenInv'
<1>1. PICK S \in SUBSET {p \in Paths : \E r \in Runners : Holds(r, p)} :
         worker' = [p \in Paths |-> IF p \in S THEN "other" ELSE worker[p]]
  BY DEF Crash
<1>2. \A p \in S : worker[p] \in File
  BY DEF OpenInv
<1>3. worker' \in Tree
  BY <1>1, Words DEF TypeOK, Tree
<1>4. \A x \in Paths : worker'[x] # "absent" => \A q \in Above[x] : worker'[q] = "dir"
  <2>1. \A x \in Paths : /\ worker'[x] # "absent" => worker[x] # "absent"
                         /\ worker[x] = "dir" => worker'[x] = "dir"
    BY <1>1, <1>2, Words
  <2>2. ASSUME NEW x \in Paths, worker'[x] # "absent", NEW q \in Above[x]
        PROVE  worker'[q] = "dir"
    <3>1. worker[x] # "absent"
      BY <2>1, <2>2
    <3>2. Shaped(worker)
      BY DEF TypeOK
    <3>3. q \in Paths /\ worker[q] = "dir"
      BY <2>2, <3>1, <3>2, AboveDir
    <3> QED
      BY <2>1, <3>3
  <2> QED
    BY <2>2
<1>5. Shaped(worker)'
  BY <1>4 DEF Shaped, Present
<1>6. TypeOK'
  BY <1>3, <1>5, Sentinels DEF Crash, TypeOK, Shaped, Present
<1>7. OpenInv'
  BY DEF Crash, OpenInv, Holds, Idle
<1> QED
  BY <1>6, <1>7

\* Every step keeps the types, and writes to files only.
LEMMA NextType ==
    ASSUME TypeOK, OpenInv, [Next]_vars
    PROVE  TypeOK' /\ OpenInv'
<1>1. CASE UNCHANGED vars
  BY <1>1 DEF vars, TypeOK, OpenInv, Holds, Shaped, Present
<1>2. CASE User
  BY <1>2, UserType
<1>3. CASE Crash
  BY <1>3, CrashType
<1>4. ASSUME NEW r \in Runners,
             \/ GetList(r) \/ GetListFails(r) \/ Scan(r) \/ StartDownloads(r)
             \/ Finish(r) \/ Leave(r)
      PROVE  TypeOK' /\ OpenInv'
  BY <1>4, ListType
<1>5. ASSUME NEW r \in Runners, NEW p \in Paths,
             Remove(r, p) \/ SpiderWrites(r, p) \/ Goroutine(r, p)
      PROVE  TypeOK' /\ OpenInv'
  BY <1>5, RemoveType, SpiderType, MakeDirType, GetType, OpenType, CopyType
     DEF Goroutine
<1> QED
  BY <1>1, <1>2, <1>3, <1>4, <1>5 DEF Next, SyncFiles

-----------------------------------------------------------------------------
(* AloneInv, step by step.                                                 *)

\* An edit of the master excuses everybody, and adds to what it has had.
LEMMA EditGood ==
    ASSUME TypeOK, NEW tree \in Tree, NEW cut, NEW more \in SUBSET File, NEW gone,
           MasterBecomes(tree, cut, more, gone), NEW s \in Runners, AloneInv(s)
    PROVE  AloneInv(s)'
<1>1. /\ run'[s].pc = run[s].pc /\ run'[s].list = run[s].list
      /\ run'[s].del = run[s].del /\ run'[s].job = run[s].job
      /\ run'[s].err = run[s].err /\ run'[s].excused = Busy(s)
      /\ run[s].torn \subseteq run'[s].torn
      /\ \A p \in Paths : p \in run'[s].torn \/ run'[s].body[p] = run[s].body[p]
  BY MasterRun
<1>2. Busy(s) /\ worker' = worker /\ master' = tree
  BY Zenon DEF AloneInv, MasterBecomes
<1>3. \A p \in Paths : since'[s][p] = since[s][p] \cup {tree[p]}
  <2>1. since' = [r \in Runners |-> [p \in Paths |->
                     IF Busy(r) THEN since[r][p] \cup {tree[p]} ELSE {}]]
    BY Zenon DEF MasterBecomes
  <2> QED
    BY <1>2, <2>1
<1>4. \A p \in Paths : /\ since[s][p] \subseteq since'[s][p]
                       /\ master'[p] \in since'[s][p]
  BY <1>2, <1>3
<1>5. ListInv(s) => ListInv(s)'
  BY <1>1, <1>4 DEF ListInv, Shaped, Present
<1>6. ASSUME NEW p \in Paths, PathInv(s, p)
      PROVE  PathInv(s, p)'
  <2>1. \A q \in Above[p] : since[s][q] \subseteq since'[s][q]
    BY <1>4, AboveType
  <2>2. Answers(s, p) \subseteq Answers(s, p)'
    BY <1>4 DEF Answers
  <2>3. Fresh(s, p) => Fresh(s, p)'
    BY <1>1, <1>2, <1>4, <2>2 DEF Fresh
  <2>4. p \in run[s].torn \/ run[s].body[p] \subseteq Answers(s, p)
        => p \in run'[s].torn \/ run'[s].body[p] \subseteq Answers(s, p)'
    BY <1>1, <2>2
  <2> QED
    BY <1>1, <1>4, <1>6, <2>1, <2>3, <2>4 DEF PathInv
<1> QED
  BY <1>1, <1>2, <1>4, <1>5, <1>6 DEF AloneInv, Busy

\* A step that touches neither a runner nor a file.
LEMMA SameGood ==
    ASSUME NEW s \in Runners, AloneInv(s),
           run'[s] = run[s], since'[s] = since[s],
           worker' = worker, master' = master
    PROVE  AloneInv(s)'
BY DEF AloneInv, Busy, ListInv, PathInv, Fresh, Answers, QuietInv, QuietPath, Shaped,
       Present

LEMMA GetListGood ==
    ASSUME TypeOK, NEW r \in Runners, GetList(r)
    PROVE  AloneInv(r)'
<1>1. /\ run'[r] = [Idle EXCEPT !.pc = "scan", !.list = master]
      /\ since'[r] = [p \in Paths |-> {master[p]}]
      /\ master' = master
  BY DEF GetList, TypeOK
<1>2. /\ run'[r].pc = "scan" /\ run'[r].list = master /\ run'[r].del = {}
      /\ run'[r].err = FALSE /\ \A p \in Paths : run'[r].job[p] = "none"
  BY <1>1 DEF Idle
<1>3. ListInv(r)'
  BY <1>1, <1>2 DEF ListInv, TypeOK, Shaped, Present
<1>4. QuietInv(r)'
  BY <1>1, <1>2 DEF QuietInv
<1> QED
  BY <1>1, <1>2, <1>3, <1>4 DEF AloneInv, Busy

LEMMA ScanGood ==
    ASSUME TypeOK, NEW r \in Runners, AloneInv(r), Scan(r)
    PROVE  AloneInv(r)'
<1> DEFINE list == run[r].list
           clash == \E p \in Present(list) \cap Present(worker) :
                       (list[p] = "dir") # (worker[p] = "dir")
           job(p) == IF p \notin Present(list) \/ ~Differs(list, p)
                     THEN "none"
                     ELSE IF list[p] = "dir" THEN "mkdir" ELSE "get"
<1>1. ListInv(r) /\ run[r].pc = "scan"
  BY ZenonT(60) DEF Scan, AloneInv
<1>2. /\ run'[r].pc = "delete" /\ run'[r].del = Present(worker) \ Present(list)
      /\ run'[r].err = run[r].err
      /\ run'[r].excused <=> run[r].excused \/ clash
      /\ \A p \in Paths : run'[r].job[p] = job(p)
      /\ UNCHANGED <<master, worker, since>>
  BY RunType, ZenonT(60) DEF Scan, TypeOK, Sync
<1>3. list \in Tree /\ worker \in Tree /\ master \in Tree
  BY RunType DEF TypeOK
<1>4. \A p \in Paths : list[p] \in since[r][p]
  BY <1>1, Zenon DEF ListInv
<1>5. ~run[r].err /\ Shaped(list)
  BY <1>1 DEF ListInv
<1>6. ASSUME NEW p \in Paths
      PROVE  PathInv(r, p)'
  <2>1. \A q \in Above[p] : p \in Present(list) => list[q] \in since[r][q] /\ list[q] = "dir"
    BY <1>4, <1>5, AboveDir DEF Present
  <2>2. CASE job(p) = "none"
    <3>1. p \notin Present(worker) \ Present(list) => list[p] = worker[p]
      BY <2>2 DEF Differs, Present
    <3>2. p \in Present(worker) \ Present(list) => list[p] = "absent"
      BY DEF Present
    <3> HIDE DEF job
    <3> QED
      BY <1>2, <1>4, <1>5, <2>2, <3>1, <3>2 DEF PathInv, Fresh, Answers
  <2>3. CASE job(p) # "none"
    <3>1. /\ p \in Present(list) /\ p \notin Present(worker) \ Present(list)
          /\ job(p) \in {"mkdir", "get"} /\ (job(p) = "mkdir" => list[p] = "dir")
      BY <2>3
    <3> HIDE DEF job
    <3> QED
      BY <1>2, <1>4, <1>5, <2>1, <3>1 DEF PathInv
  <2> QED
    BY <2>2, <2>3
<1>7. ASSUME ~run'[r].excused
      PROVE  QuietInv(r)'
  <2>1. list = master /\ ~clash
    BY <1>1, <1>2, <1>7 DEF AloneInv, QuietInv
  <2>2. ASSUME NEW p \in Paths
        PROVE  QuietPath(r, p)'
    <3>1. /\ job(p) = "mkdir" => master[p] = "dir"
          /\ job(p) = "get" => master[p] \in File
          /\ job(p) \in {"none", "mkdir", "get"}
      BY <1>3, <2>1 DEF Present, Tree
    <3>2. /\ master[p] = "dir" => worker[p] \in {"absent", "dir"}
          /\ master[p] \in File => worker[p] # "dir"
      BY <2>1, Words DEF Present
    <3> HIDE DEF job
    <3> QED
      BY <1>2, <3>1, <3>2 DEF QuietPath
  <2> QED
    BY <1>2, <1>5, <2>2 DEF QuietInv
<1>8. Busy(r)' /\ \A p \in Paths : (master[p] \in since[r][p])'
  BY <1>2 DEF Busy, AloneInv
<1> QED
  BY <1>2, <1>6, <1>7, <1>8 DEF AloneInv

\* os.Remove leaves a directory, or nothing, and the master has nothing there.
LEMMA RemoveGood ==
    ASSUME TypeOK, NEW r \in Runners, AloneInv(r), NEW p \in Paths, Remove(r, p)
    PROVE  AloneInv(r)'
<1> DEFINE gone == worker[p] # "absent" /\ \A q \in Below(p) : worker[q] = "absent"
           tree == IF gone THEN Without(worker, {p}) ELSE worker
<1>1. /\ WorkerBecomes(r, tree, {})
      /\ run[r].pc = "delete" /\ p \in run[r].del
      /\ run' = [s \in Runners |->
                   [run[s] EXCEPT !.del = IF s = r THEN @ \ {p} ELSE @,
                                  !.job[p] = IF gone /\ Holds(s, p)
                                             THEN "unlinked" ELSE @]]
  BY Zenon DEF Remove
<1>2. \A q \in Paths : PathInv(r, q)
  BY <1>1, Zenon DEF AloneInv
<1>3. /\ run[r].job[p] = "none" /\ "absent" \in since[r][p]
      /\ ~Holds(r, p)
  BY <1>1, <1>2, Zenon DEF PathInv, Holds
<1>4. /\ run'[r].pc = "delete" /\ run'[r].del = run[r].del \ {p}
      /\ run'[r].err = run[r].err /\ run'[r].excused = run[r].excused
      /\ run'[r].body = run[r].body /\ run'[r].torn = run[r].torn
      /\ \A q \in Paths : run'[r].job[q] = run[r].job[q]
  BY <1>1, <1>3, RunType, ZenonT(60) DEF Sync
<1>5. UNCHANGED <<master, since>> /\ worker' = tree
  BY <1>1, AloneType, Zenon
<1>6. /\ \A q \in Paths \ {p} : worker'[q] = worker[q]
      /\ worker'[p] = worker[p] \/ worker'[p] = "absent"
      /\ worker'[p] \in {"absent", "dir"}
  <2>1. CASE gone
    BY <1>5, <2>1 DEF Without
  <2>2. CASE worker[p] = "absent"
    BY <1>5, <2>2
  <2>3. CASE ~gone /\ worker[p] # "absent"
    <3>1. PICK q \in Below(p) : worker[q] # "absent"
      BY <2>3
    <3>2. worker[p] = "dir"
      BY <3>1, AboveDir DEF Below, TypeOK
    <3> QED
      BY <1>5, <2>3, <3>2
  <2> QED
    BY <2>1, <2>2, <2>3
<1> HIDE DEF tree
<1>7. ASSUME NEW q \in Paths
      PROVE  PathInv(r, q)' /\ (QuietPath(r, q) => QuietPath(r, q)')
  <2>1. CASE q = p
    <3>1. run'[r].job[p] = "none" /\ Fresh(r, p)'
      BY <1>2, <1>3, <1>4, <1>5, <1>6 DEF Fresh, PathInv, Answers
    <3> QED
      BY <1>3, <1>4, <1>5, <1>6, <2>1, <3>1, Words DEF PathInv, QuietPath
  <2>2. CASE q # p
    <3>1. worker'[q] = worker[q] /\ run'[r].job[q] = run[r].job[q]
      BY <1>4, <1>6, <2>2
    <3>2. q \in run'[r].del <=> q \in run[r].del
      BY <1>4, <2>2
    <3>3. PathInv(r, q)'
      BY <1>1, <1>2, <1>4, <1>5, <3>1, <3>2, ZenonT(60) DEF PathInv, Fresh, Answers
    <3> QED
      BY <1>4, <1>5, <3>1, <3>3 DEF QuietPath
  <2> QED
    BY <2>1, <2>2
<1>8. QuietInv(r) => QuietInv(r)'
  BY <1>1, <1>4, <1>5, <1>7, Zenon DEF QuietInv
<1> QED
  BY <1>4, <1>5, <1>7, <1>8 DEF AloneInv, Busy

LEMMA StartDownloadsGood ==
    ASSUME TypeOK, NEW r \in Runners, AloneInv(r), StartDownloads(r)
    PROVE  AloneInv(r)'
<1>1. /\ run[r].pc = "delete" /\ run'[r].pc = "sync"
      /\ run[r].del = {} /\ run'[r].del = {}
      /\ run'[r].err = run[r].err /\ run'[r].excused = run[r].excused
      /\ run'[r].body = run[r].body /\ run'[r].job = run[r].job
      /\ run'[r].torn = run[r].torn
      /\ UNCHANGED <<master, worker, since>>
  BY RunType DEF StartDownloads, TypeOK, Sync
<1>2. \A p \in Paths : PathInv(r, p)'
  BY <1>1 DEF AloneInv, PathInv, Fresh, Answers
<1>3. QuietInv(r) => QuietInv(r)'
  BY <1>1 DEF QuietInv, QuietPath
<1> QED
  BY <1>1, <1>2, <1>3 DEF AloneInv, Busy

LEMMA FinishGood ==
    ASSUME TypeOK, NEW r \in Runners, AloneInv(r), Finish(r)
    PROVE  AloneInv(r)'
<1>1. /\ run[r].pc = "sync"
      /\ run'[r].pc = IF run[r].err THEN "failed" ELSE "ok"
      /\ run'[r].err = FALSE /\ run'[r].del = run[r].del
      /\ run'[r].excused = run[r].excused /\ run'[r].torn = run[r].torn
      /\ \A p \in Paths : /\ run[r].job[p] \in {"none", "done"}
                          /\ run'[r].job[p] = "none"
      /\ UNCHANGED <<master, worker, since>>
  BY RunType DEF Finish, TypeOK, Sync, Idle
<1>2. \A p \in Paths : PathInv(r, p)
  BY <1>1 DEF AloneInv
<1>3. ASSUME ~run[r].err, NEW p \in Paths
      PROVE  PathInv(r, p)'
  BY <1>1, <1>2, <1>3 DEF PathInv, Fresh, Answers
<1>4. QuietInv(r) => QuietInv(r)'
  BY <1>1 DEF QuietInv
<1> QED
  BY <1>1, <1>3, <1>4 DEF AloneInv, Busy

-----------------------------------------------------------------------------
(* AloneInv and the goroutines.                                            *)

\* A goroutine that fails: nothing is said of the files any more.
LEMMA FailedGood ==
    ASSUME TypeOK, NEW r \in Runners, AloneInv(r), run[r].pc = "sync",
           NEW p \in Paths, NEW f \in BOOLEAN, NEW x \in BOOLEAN,
           JobBecomes(r, p, "done", f, x), f, run[r].excused \/ x,
           UNCHANGED <<master, since>>
    PROVE  AloneInv(r)'
<1>1. Stepped(r, p, "done", f, x)
  BY JobStep DEF Jobs
<1>2. /\ run'[r].err /\ run'[r].excused
      /\ run'[r].pc = run[r].pc /\ run'[r].del = run[r].del
      /\ run'[r].body = run[r].body /\ run'[r].torn = run[r].torn
      /\ run'[r].job[p] = "done"
      /\ \A q \in Paths \ {p} : run'[r].job[q] = run[r].job[q]
  BY <1>1 DEF Stepped
<1>3. \A q \in Paths : PathInv(r, q)
  BY DEF AloneInv
<1>4. ASSUME NEW q \in Paths
      PROVE  PathInv(r, q)'
  BY <1>2, <1>3, <1>4 DEF PathInv, Answers
<1> QED
  BY <1>2, <1>4 DEF AloneInv, Busy

LEMMA GetGood ==
    ASSUME TypeOK, NEW r \in Runners, AloneInv(r), NEW p \in Paths,
           Get(r, p) \/ GetFails(r, p)
    PROVE  AloneInv(r)'
<1>1. /\ run[r].pc = "sync" /\ run[r].job[p] = "get"
      /\ UNCHANGED <<master, worker, since>>
  BY DEF Get, GetFails, Turn
<1>2. /\ \A q \in Paths : PathInv(r, q) /\ master[q] \in since[r][q]
      /\ ~run[r].excused => ~run[r].err /\ \A q \in Paths : QuietPath(r, q)
  BY <1>1 DEF AloneInv, QuietInv
<1>3. CASE Get(r, p) /\ Found(p)
  <2>1. /\ run'[r].pc = "sync" /\ run'[r].err = run[r].err
        /\ run'[r].excused = run[r].excused /\ run'[r].del = run[r].del
        /\ run'[r].torn = run[r].torn
        /\ run'[r].job[p] = "got" /\ run'[r].body[p] = {master[Asked[p]]}
        /\ \A q \in Paths \ {p} : /\ run'[r].job[q] = run[r].job[q]
                                  /\ run'[r].body[q] = run[r].body[q]
    BY <1>1, <1>3, GetStep
  <2>2. {master[Asked[p]]} \subseteq Answers(r, p)
    BY <1>2, <1>3 DEF Answers, Found
  <2>3. ASSUME NEW q \in Paths
        PROVE  PathInv(r, q)'
    <3>1. Answers(r, q)' = Answers(r, q) /\ Fresh(r, q)' = Fresh(r, q)
      BY <1>1, <2>1 DEF Answers, Fresh
    <3> QED
      BY <1>1, <1>2, <2>1, <2>2, <3>1 DEF PathInv
  <2>4. ASSUME NEW q \in Paths, QuietPath(r, q)
        PROVE  QuietPath(r, q)'
    BY <1>1, <2>1, <2>4 DEF QuietPath
  <2> QED
    BY <1>1, <1>2, <2>1, <2>3, <2>4 DEF AloneInv, QuietInv, Busy
<1>4. CASE Get(r, p) /\ ~Found(p)
  <2>1. JobBecomes(r, p, "done", TRUE, Asked[p] # p)
    BY <1>4, Zenon DEF Get, Found
  <2>2. run[r].excused \/ Asked[p] # p
    BY <1>1, <1>2, <1>4 DEF QuietPath, Found
  <2>3. (Asked[p] # p) \in BOOLEAN
    OBVIOUS
  <2> QED
    BY <1>1, <2>1, <2>2, <2>3, FailedGood
<1>5. CASE GetFails(r, p)
  BY <1>1, <1>5, FailedGood DEF GetFails
<1> QED
  BY <1>3, <1>4, <1>5

LEMMA MakeDirGood ==
    ASSUME TypeOK, NEW r \in Runners, AloneInv(r), NEW p \in Paths, MakeDir(r, p)
    PROVE  AloneInv(r)'
<1> DEFINE able == Free(worker, p) /\ worker[p] \in {"absent", "dir"}
<1>1. /\ run[r].pc = "sync" /\ run[r].job[p] = "mkdir"
      /\ JobBecomes(r, p, "done", ~able, FALSE)
      /\ UNCHANGED <<master, since>>
      /\ worker' = IF able THEN Put(worker, p, "dir") ELSE worker
  BY AloneType DEF MakeDir, Turn
<1>2. /\ \A q \in Paths : PathInv(r, q) /\ master[q] \in since[r][q]
      /\ ~run[r].excused => ~run[r].err /\ \A q \in Paths : QuietPath(r, q)
  BY <1>1 DEF AloneInv, QuietInv
<1>3. CASE able
  <2>1. Stepped(r, p, "done", ~able, FALSE)
    BY <1>1, JobStep DEF Jobs
  <2>2. /\ run'[r].pc = "sync" /\ run'[r].err = run[r].err
        /\ run'[r].excused = run[r].excused
        /\ run'[r].del = run[r].del /\ run'[r].body = run[r].body /\ run'[r].torn = run[r].torn
        /\ run'[r].job[p] = "done"
        /\ \A q \in Paths \ {p} : run'[r].job[q] = run[r].job[q]
    BY <1>1, <1>3, <2>1, RunType DEF Stepped, Sync
  <2>3. \A q \in Paths : \/ worker'[q] = worker[q] /\ q # p
                         \/ worker'[q] = "dir" /\ "dir" \in since[r][q]
    BY <1>1, <1>2, <1>3 DEF Put, PathInv
  <2>4. ASSUME NEW q \in Paths
        PROVE  PathInv(r, q)'
    BY <1>1, <1>2, <2>2, <2>3 DEF PathInv, Fresh, Answers
  <2>5. ASSUME ~run[r].excused, NEW q \in Paths
        PROVE  QuietPath(r, q)'
    <3>1. master[p] = "dir" /\ \A a \in Above[p] : master[a] = "dir"
      BY <1>1, <1>2, <2>5, AboveDir DEF QuietPath, TypeOK
    <3>2. \/ worker'[q] = worker[q] /\ q # p
          \/ worker'[q] = "dir" /\ master[q] = "dir"
      BY <1>1, <1>3, <3>1 DEF Put
    <3> QED
      BY <1>1, <1>2, <2>2, <2>5, <3>2, Words DEF QuietPath
  <2> QED
    BY <1>1, <1>2, <2>2, <2>4, <2>5 DEF AloneInv, QuietInv, Busy
<1>4. CASE ~able
  <2>1. run[r].excused
    <3>1. SUFFICES ASSUME ~run[r].excused PROVE able
      BY <1>4
    <3>2. master[p] = "dir" /\ \A a \in Above[p] : a \in Paths /\ master[a] = "dir"
      BY <1>1, <1>2, <3>1, AboveDir DEF QuietPath, TypeOK
    <3> QED
      BY <1>2, <3>1, <3>2 DEF QuietPath, Free
  <2>2. (~able) \in BOOLEAN
    OBVIOUS
  <2> HIDE DEF able
  <2> QED
    BY <1>1, <1>4, <2>1, <2>2, FailedGood
<1> QED
  BY <1>3, <1>4

LEMMA OpenGood ==
    ASSUME TypeOK, NEW r \in Runners, AloneInv(r), NEW p \in Paths, Open(r, p),
           alone'[r]
    PROVE  AloneInv(r)'
<1> DEFINE able == Free(worker, p) /\ worker[p] # "dir"
           others == {s \in Runners \ {r} : Holds(s, p)}
           job == IF ~able THEN "done" ELSE IF others = {} THEN "open" ELSE "shared"
           new == [run[r] EXCEPT !.job = [@ EXCEPT ![p] = job], !.err = @ \/ ~able]
<1>1. /\ run[r].pc = "sync" /\ run[r].job[p] = "got"
      /\ UNCHANGED <<master, since>>
      /\ worker' = IF able THEN Put(worker, p, "empty") ELSE worker
      /\ others = {}
      /\ run'[r] = new
  <2>1. alone'[r] => others = {}
    BY Zenon DEF Open, WorkerBecomes
  <2> QED
    BY <2>1, AloneType, ZenonT(60) DEF Open, Turn
<1>2. /\ \A q \in Paths : PathInv(r, q) /\ master[q] \in since[r][q]
      /\ ~run[r].excused => ~run[r].err /\ \A q \in Paths : QuietPath(r, q)
  BY <1>1 DEF AloneInv, QuietInv
<1>3. able \/ run[r].excused
  <2>1. SUFFICES ASSUME ~run[r].excused PROVE able
    OBVIOUS
  <2>2. master[p] \in File /\ worker[p] # "dir"
    BY <1>1, <1>2, <2>1 DEF QuietPath
  <2>3. \A a \in Above[p] : a \in Paths /\ master[a] = "dir"
    BY <2>2, AboveDir, Words DEF TypeOK
  <2> QED
    BY <1>2, <2>1, <2>2, <2>3 DEF QuietPath, Free
<1>4. /\ run'[r].pc = "sync" /\ run'[r].excused = run[r].excused
      /\ run'[r].del = run[r].del /\ run'[r].body = run[r].body /\ run'[r].torn = run[r].torn
      /\ run'[r].err <=> run[r].err \/ ~able
      /\ run'[r].job[p] = IF able THEN "open" ELSE "done"
      /\ \A q \in Paths \ {p} : run'[r].job[q] = run[r].job[q]
  <2>1. /\ new.job = [run[r].job EXCEPT ![p] = job]
        /\ new.err = (run[r].err \/ ~able) /\ new.pc = run[r].pc
        /\ new.excused = run[r].excused
        /\ new.del = run[r].del /\ new.body = run[r].body
        /\ new.torn = run[r].torn
    BY RunType DEF Sync
  <2>2. job = IF able THEN "open" ELSE "done"
    BY <1>1
  <2>3. /\ new.job[p] = job
        /\ \A q \in Paths \ {p} : new.job[q] = run[r].job[q]
    BY <2>1, RunType
  <2> HIDE DEF new, able, job
  <2> QED
    BY <1>1, <2>1, <2>2, <2>3
<1>5. \A q \in Paths :
         \/ worker'[q] = worker[q]
         \/ able /\ q = p /\ worker'[q] = "empty"
         \/ q # p /\ worker'[q] = "dir" /\ q \in Above[p]
  BY <1>1 DEF Put
<1>6. able => worker'[p] = "empty"
  BY <1>1 DEF Put
<1> HIDE DEF able
<1>7. ASSUME NEW q \in Paths
      PROVE  PathInv(r, q)'
  <2>1. CASE q = p
    BY <1>1, <1>2, <1>4, <2>1 DEF PathInv, Answers
  <2>2. CASE q # p
    <3>1. worker'[q] = worker[q] \/ (worker'[q] = "dir" /\ "dir" \in since[r][q])
      BY <1>1, <1>2, <1>5, <2>2 DEF PathInv
    <3> QED
      BY <1>1, <1>2, <1>4, <2>2, <3>1 DEF PathInv, Fresh, Answers
  <2> QED
    BY <2>1, <2>2
<1>8. ASSUME ~run[r].excused, NEW q \in Paths
      PROVE  QuietPath(r, q)'
  <2>1. master[p] \in File /\ \A a \in Above[p] : master[a] = "dir"
    BY <1>1, <1>2, <1>8, AboveDir, Words DEF QuietPath, TypeOK
  <2>2. CASE q = p
    BY <1>1, <1>2, <1>3, <1>4, <1>6, <1>8, <2>1, <2>2, Words DEF QuietPath
  <2>3. CASE q # p
    <3>1. worker'[q] = worker[q] \/ (worker'[q] = "dir" /\ master[q] = "dir")
      BY <1>5, <2>1, <2>3
    <3> QED
      BY <1>1, <1>2, <1>4, <1>8, <2>3, <3>1, Words DEF QuietPath
  <2> QED
    BY <2>2, <2>3
<1> QED
  BY <1>1, <1>2, <1>3, <1>4, <1>7, <1>8 DEF AloneInv, QuietInv, Busy

LEMMA CopyGood ==
    ASSUME TypeOK, NEW r \in Runners, AloneInv(r), NEW p \in Paths,
           Copy(r, p) \/ CopyFails(r, p)
    PROVE  AloneInv(r)'
<1>1. CASE Copy(r, p)
  <2>1. /\ run[r].pc = "sync" /\ run[r].job[p] = "open"
        /\ JobBecomes(r, p, "done", FALSE, FALSE)
        /\ UNCHANGED <<master, since>>
        /\ \E c \in run[r].body[p] : worker' = [worker EXCEPT ![p] = c]
    <3>1. run[r].pc = "sync" /\ run[r].job[p] = "open"
      BY <1>1 DEF Copy, AloneInv, PathInv
    <3>2. Written(r, p) = run[r].body[p]
      BY <3>1 DEF Written
    <3> QED
      BY <1>1, <3>1, <3>2, AloneType DEF Copy
  <2>2. Stepped(r, p, "done", FALSE, FALSE)
    BY <2>1, JobStep DEF Jobs
  <2>3. /\ run'[r].pc = "sync" /\ run'[r].err = run[r].err
        /\ run'[r].excused = run[r].excused
        /\ run'[r].del = run[r].del /\ run'[r].body = run[r].body /\ run'[r].torn = run[r].torn
        /\ run'[r].job[p] = "done"
        /\ \A q \in Paths \ {p} : run'[r].job[q] = run[r].job[q]
    BY <2>1, <2>2, RunType DEF Stepped, Sync
  <2>4. /\ \A q \in Paths : PathInv(r, q) /\ master[q] \in since[r][q]
        /\ ~run[r].excused => ~run[r].err /\ \A q \in Paths : QuietPath(r, q)
    BY <2>1 DEF AloneInv, QuietInv
  <2>5. /\ \A q \in Paths \ {p} : worker'[q] = worker[q]
        /\ worker'[p] \in run[r].body[p]
    BY <2>1 DEF TypeOK, Tree
  <2>6. ASSUME NEW q \in Paths
        PROVE  PathInv(r, q)'
    BY <2>1, <2>3, <2>4, <2>5 DEF PathInv, Fresh, Answers
  <2>7. ASSUME ~run[r].excused, NEW q \in Paths
        PROVE  QuietPath(r, q)'
    <3>1. master[p] \in File
      BY <2>1, <2>4, <2>7 DEF QuietPath
    <3>2. worker'[p] # "dir"
      BY <2>5, RunType, Words
    <3> QED
      BY <2>1, <2>3, <2>4, <2>5, <2>7, <3>1, <3>2, Words DEF QuietPath
  <2> QED
    BY <2>1, <2>3, <2>4, <2>6, <2>7 DEF AloneInv, QuietInv, Busy
<1>2. CASE CopyFails(r, p)
  <2>1. /\ run[r].pc = "sync" /\ JobBecomes(r, p, "done", TRUE, TRUE)
        /\ UNCHANGED <<master, since>>
    BY <1>2 DEF CopyFails, WorkerBecomes
  <2> QED
    BY <2>1, FailedGood
<1> QED
  BY <1>1, <1>2

-----------------------------------------------------------------------------
(* The invariant of the specification.                                     *)

\* Every edit of a user is an edit of the tree of the master.
LEMMA UserMaster ==
    ASSUME TypeOK, User
    PROVE  \E tree \in Tree, cut \in SUBSET (Paths \cup {"none"}),
              more \in SUBSET File, gone \in SUBSET Paths :
             MasterBecomes(tree, cut, more, gone)
<1>1. /\ \A p \in Paths, c \in File \cup {"dir"} : Put(master, p, c) \in Tree
      /\ \A S : Without(master, S) \in Tree
      /\ \A p, c : c \in File => [master EXCEPT ![p] = c] \in Tree
  BY DEF TypeOK, Put, Without, Tree
<1>2. /\ saving.path \in Paths \cup {"none"} /\ Rewritten \subseteq File
      /\ saving.to \in File
  BY Words DEF TypeOK, NotSaving, Rewritten
<1>3. \A p \in Paths : Below(p) \subseteq Paths
  BY DEF Below
<1>4. CASE SaveWrite
  BY <1>1, <1>2, <1>4 DEF SaveWrite
<1>5. ASSUME NEW p \in Paths, NEW v \in Versions, SaveOpen(p, v)
      PROVE  \E tree \in Tree : MasterBecomes(tree, {p}, {}, {})
  BY <1>1, <1>5, Words DEF SaveOpen
<1>6. ASSUME NEW p \in Paths, CreateDir(p)
      PROVE  \E tree \in Tree : MasterBecomes(tree, {}, {}, {})
  BY <1>1, <1>6 DEF CreateDir
<1>7. ASSUME NEW p \in Paths, Delete(p)
      PROVE  \E tree \in Tree, S \in SUBSET Paths :
                MasterBecomes(tree, {saving.path} \cap S, Rewritten, S)
  BY <1>1, <1>3, <1>7 DEF Delete
<1>8. ASSUME NEW p \in Paths, NEW v \in Versions, RenameTo(p, v)
      PROVE  \E tree \in Tree : MasterBecomes(tree, {}, {}, {p})
  BY <1>1, <1>8, Words DEF RenameTo
<1> QED
  <2>1. {} \in SUBSET (Paths \cup {"none"}) /\ {} \in SUBSET File /\ {} \in SUBSET Paths
    OBVIOUS
  <2>2. \A p \in Paths : {p} \in SUBSET (Paths \cup {"none"}) /\ {p} \in SUBSET Paths
    OBVIOUS
  <2>3. \A S \in SUBSET Paths : {saving.path} \cap S \in SUBSET (Paths \cup {"none"})
    OBVIOUS
  <2> QED
    BY <1>2, <1>4, <1>5, <1>6, <1>7, <1>8, <2>1, <2>2, <2>3 DEF User

\* A runner that is still alone after a step.
LEMMA AloneKept ==
    ASSUME IInv, [Next]_vars, NEW s \in Runners, alone'[s]
    PROVE  AloneInv(s)'
<1>0. TypeOK /\ (alone[s] => AloneInv(s))
  BY DEF IInv
<1>1. CASE UNCHANGED vars
  BY <1>0, <1>1, SameGood DEF vars
<1>2. CASE User
  <2>1. \E tree \in Tree, cut \in SUBSET (Paths \cup {"none"}),
            more \in SUBSET File, gone \in SUBSET Paths :
           MasterBecomes(tree, cut, more, gone)
    BY <1>0, <1>2, UserMaster
  <2>2. alone[s]
    BY <2>1 DEF MasterBecomes
  <2> QED
    BY <1>0, <2>1, <2>2, EditGood
<1>3. CASE Crash
  BY <1>3 DEF Crash
<1>4. ASSUME NEW r \in Runners, NEW p \in Paths, SpiderWrites(r, p)
      PROVE  FALSE
  BY <1>4 DEF SpiderWrites
<1>5. ASSUME NEW r \in Runners,
             \/ GetList(r) \/ GetListFails(r) \/ Scan(r) \/ StartDownloads(r)
             \/ Finish(r) \/ Leave(r) \/ \E p \in Paths : Get(r, p) \/ GetFails(r, p)
      PROVE  AloneInv(s)'
  <2>1. CASE s = r
    <3>1. CASE GetList(r)
      BY <1>0, <2>1, <3>1, GetListGood
    <3>2. CASE GetListFails(r)
      BY <1>0, <2>1, <3>2 DEF GetListFails, AloneInv, Busy
    <3>3. CASE Leave(r)
      BY <1>0, <2>1, <3>3 DEF Leave, TypeOK
    <3>4. ASSUME \/ Scan(r) \/ StartDownloads(r) \/ Finish(r)
                 \/ \E p \in Paths : Get(r, p) \/ GetFails(r, p)
          PROVE  alone[s]
      BY <3>4, Zenon DEF Scan, StartDownloads, Finish, Get, GetFails
    <3> QED
      BY <1>0, <1>5, <2>1, <3>1, <3>2, <3>3, <3>4,
         ScanGood, StartDownloadsGood, FinishGood, GetGood
  <2>2. CASE s # r
    <3>1. /\ run'[s] = run[s] /\ since'[s] = since[s] /\ alone'[s] = alone[s]
          /\ worker' = worker /\ master' = master
      BY <1>0, <1>5, <2>2, ZenonT(60)
         DEF GetList, GetListFails, Scan, StartDownloads, Finish, Leave, Get,
             GetFails, JobBecomes, TypeOK
    <3> QED
      BY <1>0, <3>1, SameGood
  <2> QED
    BY <2>1, <2>2
<1>6. ASSUME NEW r \in Runners, NEW p \in Paths,
             \/ Remove(r, p) \/ MakeDir(r, p) \/ Open(r, p)
             \/ Copy(r, p) \/ CopyFails(r, p)
      PROVE  AloneInv(s)'
  <2>1. s = r /\ alone[r]
    BY <1>6, Zenon DEF Remove, MakeDir, Open, Copy, CopyFails, WorkerBecomes
  <2> QED
    BY <1>0, <1>6, <2>1, RemoveGood, MakeDirGood, OpenGood, CopyGood
<1> QED
  BY <1>1, <1>2, <1>3, <1>4, <1>5, <1>6 DEF Next, SyncFiles, Goroutine

LEMMA InitInv == Init => IInv
<1> SUFFICES ASSUME Init PROVE IInv
  OBVIOUS
<1>1. Empty \in Tree /\ Shaped(Empty)
  BY Sentinels DEF Empty, Shaped, Present
<1>2. master \in Tree /\ Shaped(master)
  BY Words DEF Init, Tree
<1>3. edits \in 0..MaxEdits
  BY FileAssumption DEF Init
<1>4. TypeOK
  BY <1>1, <1>2, <1>3, Sentinels DEF Init, TypeOK
<1>5. OpenInv
  BY DEF Init, OpenInv, Holds, Idle
<1> QED
  BY <1>4, <1>5 DEF Init, IInv

\* IInv holds in every state, whatever the users, spiders, other runners and
\* crashes do.
THEOREM Inductive == Spec => []IInv
<1>1. IInv /\ [Next]_vars => IInv'
  BY NextType, AloneKept DEF IInv
<1> QED
  BY InitInv, <1>1, PTL DEF Spec

\* Files and synchronisations have their types, and both trees are trees:
\* above everything that is there, there are directories.
THEOREM TypeCorrect == Spec => []TypeOK
<1>1. IInv => TypeOK
  BY DEF IInv
<1> QED
  BY Inductive, <1>1, PTL

\* A spider starts with files the master has had since the scan, however many
\* files, runners, edits, failures and crashes there are, but for files that
\* were saved while they were downloaded and names a query does not carry.
THEOREM FreshStart == Spec => []StartsFresh
<1>1. IInv => StartsFresh
  <2> SUFFICES ASSUME IInv, NEW r \in Runners, run[r].pc = "ok", alone[r],
                      NEW p \in Paths
               PROVE  Fresh(r, p)
    BY DEF StartsFresh, Fresh, Answers
  <2>1. PathInv(r, p)
    BY DEF IInv, AloneInv
  <2> QED
    BY <2>1 DEF PathInv
<1> QED
  BY Inductive, <1>1, PTL

\* Synchronisations fail only for a reason outside them.
THEOREM FailureHasReason == Spec => []FailsForAReason
<1>1. IInv => FailsForAReason
  BY DEF IInv, AloneInv, QuietInv, FailsForAReason
<1> QED
  BY Inductive, <1>1, PTL

=============================================================================
