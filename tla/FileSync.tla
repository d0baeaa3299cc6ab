------------------------------ MODULE FileSync ------------------------------
(***************************************************************************)
(* How the files of a spider get from the master to one worker: before it  *)
(* starts the spider, every runner of the worker scans the directory of    *)
(* the master over HTTP, scans its own, removes what the master does not   *)
(* have and downloads what is missing or differs (syncFiles, downloadFile  *)
(* in core/task/handler/runner_v2.go).  Meanwhile users edit the files of  *)
(* the master (core/controllers/base_file_v2.go, core/fs), other runners   *)
(* of the same spider do the same in the same directory, and spiders that  *)
(* run there write files of their own.  The locks for a synchronisation    *)
(* (LockSync of the task handler) are taken by nobody.                     *)
(*                                                                         *)
(* A download is a stream: the master answers with the length of the file  *)
(* and then reads it while the worker makes directories and writes, so a   *)
(* file that is saved meanwhile may arrive as a mixture.  A scan is one    *)
(* step; an edit in the middle of it can make it fail, which HttpErrors    *)
(* stands for, and so are os.MkdirAll and os.OpenFile of a download.  The  *)
(* root of the spider exists on both sides.  Modes are left out.           *)
(***************************************************************************)
EXTENDS Naturals

CONSTANTS
    Paths,      \* paths of files and directories, relative to the root
    Above,      \* Above[p]: the directories on the way from the root to p
    Asked,      \* Asked[p]: the path the master takes out of the query for p
    Versions,   \* contents of files
    Runners,    \* bound: runners of the spider on the worker at a time
    MaxEdits,   \* bound: edits on the master and by spiders
    HttpErrors, \* BOOLEAN: a request to the master or a copy may fail
    MayCrash    \* BOOLEAN: the worker may crash

ASSUME FileAssumption ==
    /\ Above \in [Paths -> SUBSET Paths]
    /\ Asked \in [Paths -> Paths \cup {"none"}]
    /\ \A p \in Paths : p \notin Above[p]
    /\ \A p \in Paths : \A q \in Above[p] : Above[q] \subseteq Above[p]
    /\ {"absent", "dir", "empty", "other"} \cap Versions = {}
    /\ MaxEdits \in Nat
    /\ HttpErrors \in BOOLEAN
    /\ MayCrash \in BOOLEAN

VARIABLES
    master, \* the spider's files on the master
    saving, \* a Save that has truncated its file and not written it yet
    worker, \* the spider's files on the worker
    run,    \* the synchronisation of every runner
    since,  \* since[r][p]: what the master had at p since the scan of r
    alone,  \* nothing but r has written to the worker since that scan
    edits   \* edits so far

vars == <<master, saving, worker, run, since, alone, edits>>

-----------------------------------------------------------------------------
(* Files.  A file holds a version, nothing (it was truncated) or something *)
(* the master never had: the rest of an interrupted or shared write, or    *)
(* what a spider wrote.                                                    *)

File == Versions \cup {"empty", "other"}
Tree == [Paths -> File \cup {"absent", "dir"}]

Present(tree) == {p \in Paths : tree[p] # "absent"}
Below(p) == {q \in Paths : p \in Above[q]}
Shaped(tree) == \A p \in Present(tree) : \A q \in Above[p] : tree[q] = "dir"

\* A directory can be made at or above p: no file is in the way.
Free(tree, p) == \A q \in Above[p] : tree[q] \in {"absent", "dir"}

\* Mutant: nothing is made above p.
PutAlone(tree, p, c) == [tree EXCEPT ![p] = c]

\* tree with c at p, and the directories above p made.
Put(tree, p, c) ==
    [q \in Paths |-> IF q = p THEN c
                     ELSE IF q \in Above[p] THEN "dir" ELSE tree[q]]

Without(tree, S) == [q \in Paths |-> IF q \in S THEN "absent" ELSE tree[q]]

-----------------------------------------------------------------------------
Jobs == {"none", "mkdir", "get", "got", "open", "shared", "unlinked", "done"}

\* list is the answer of the master, del the paths still to be removed, job
\* the goroutine of each path, body what may reach it as the answer, live the
\* paths whose answer is still read from the file in its place, torn those
\* whose file was saved while it was read, err whether a goroutine failed.
\* excused is history: the master, the network or another writer interfered,
\* a file is in the place of a directory, or a name is not asked for as it is.
Sync == [pc : {"idle", "scan", "delete", "sync", "ok", "failed"},
         list : Tree, del : SUBSET Paths, job : [Paths -> Jobs],
         body : [Paths -> SUBSET File], live : SUBSET Paths,
         torn : SUBSET Paths, err : BOOLEAN, excused : BOOLEAN]

Empty == [p \in Paths |-> "absent"]
NoBody == [p \in Paths |-> {}]
Idle == [pc |-> "idle", list |-> Empty, del |-> {},
         job |-> [p \in Paths |-> "none"], body |-> NoBody, live |-> {},
         torn |-> {}, err |-> FALSE, excused |-> FALSE]

NotSaving == [path |-> "none", to |-> "empty"]

TypeOK ==
    /\ master \in Tree /\ Shaped(master)
    /\ saving \in [path : Paths, to : Versions] \cup {NotSaving}
    /\ worker \in Tree /\ Shaped(worker)
    /\ run \in [Runners -> Sync]
    /\ since \in [Runners -> [Paths -> SUBSET (File \cup {"absent", "dir"})]]
    /\ alone \in [Runners -> BOOLEAN]
    /\ edits \in 0..MaxEdits

Init ==
    /\ master \in {t \in [Paths -> Versions \cup {"absent", "dir"}] : Shaped(t)}
    /\ saving = NotSaving
    /\ worker = Empty
    /\ run = [r \in Runners |-> Idle]
    /\ since = [r \in Runners |-> [p \in Paths |-> {}]]
    /\ alone = [r \in Runners |-> FALSE]
    /\ edits = 0

Busy(r) == run[r].pc # "idle"
Holds(r, p) == run[r].job[p] \in {"open", "shared"}

-----------------------------------------------------------------------------
(* Edits of users on the master.                                           *)

\* Answers that are still read from a file in S.
From(r, S) == {p \in run[r].live : Asked[p] \in S}

\* Answers read from the files in cut lose their end, and may go on with what
\* is in more; those read from files in gone go on with the file as it was.
MasterBecomes(tree, cut, more, gone) ==
    /\ master' = tree
    /\ since' = [r \in Runners |-> [p \in Paths |->
                    IF Busy(r) THEN since[r][p] \cup {tree[p]} ELSE {}]]
    /\ run' = [r \in Runners |->
                 [run[r] EXCEPT !.excused = Busy(r),
                                !.torn = @ \cup From(r, cut),
                                !.body = [p \in Paths |->
                                    IF p \in From(r, cut) THEN @[p] \cup more
                                                          ELSE @[p]],
                                !.live = @ \ From(r, gone)]]
    /\ UNCHANGED <<worker, alone>>

Edit ==
    /\ edits < MaxEdits
    /\ edits' = edits + 1

\* Save: make the directories, then os.WriteFile, which truncates first.
SaveOpen(p, v) ==
    /\ Edit
    /\ saving = NotSaving
    /\ Free(master, p) /\ master[p] # "dir"
    /\ MasterBecomes(Put(master, p, "empty"), {p}, {}, {})
    /\ saving' = [path |-> p, to |-> v]

\* What an answer goes on with after a Save: all new, or old and new.
Rewritten == {saving.to, "other"}

SaveWrite ==
    /\ saving # NotSaving
    /\ MasterBecomes([master EXCEPT ![saving.path] = saving.to],
                     {saving.path}, Rewritten, {})
    /\ saving' = NotSaving
    /\ UNCHANGED edits

CreateDir(p) ==
    /\ Edit
    /\ Free(master, p) /\ master[p] = "absent"
    /\ MasterBecomes(Put(master, p, "dir"), {}, {}, {})
    /\ UNCHANGED saving

\* os.RemoveAll; a Save that has opened a file in there writes to a file that
\* only answers which are being read still see.
Delete(p) ==
    LET S == Below(p) \cup {p}
    IN  /\ Edit
        /\ master[p] # "absent"
        /\ MasterBecomes(Without(master, S), {saving.path} \cap S, Rewritten, S)
        /\ saving' = IF saving.path \in S THEN NotSaving ELSE saving

\* os.Rename of a file to p, from a path that is not in Paths: it is there
\* at once, without directories being made.  To rename a file or directory
\* to such a path is, for the others, to delete it.
RenameTo(p, v) ==
    /\ Edit
    /\ saving.path # p
    /\ \A q \in Above[p] : master[q] = "dir"
    /\ master[p] # "dir"
    /\ MasterBecomes([master EXCEPT ![p] = v], {}, {}, {p})
    /\ UNCHANGED saving

-----------------------------------------------------------------------------
(* The synchronisation of runner r.                                        *)

\* syncFiles gets the list of the master, with a hash for every file.
GetList(r) ==
    /\ run[r].pc = "idle"
    /\ run' = [run EXCEPT ![r] = [Idle EXCEPT !.pc = "scan", !.list = master]]
    /\ since' = [since EXCEPT ![r] = [p \in Paths |-> {master[p]}]]
    /\ alone' = [alone EXCEPT ![r] = TRUE]
    /\ UNCHANGED <<master, saving, worker, edits>>

GetListFails(r) ==
    /\ HttpErrors
    /\ run[r].pc = "idle"
    /\ run' = [run EXCEPT ![r] = [Idle EXCEPT !.pc = "failed", !.excused = TRUE]]
    /\ UNCHANGED <<master, saving, worker, since, alone, edits>>

\* Mutant: by existence only.
DiffersInPresence(list, p) == (list[p] = "absent") # (worker[p] = "absent")

\* A directory has no hash: only two directories are equal.
Differs(list, p) == list[p] # worker[p]

\* It scans the directory of the worker and compares.
Scan(r) ==
    LET list == run[r].list
        old == Present(worker) \ Present(list)
        clash == \E p \in Present(list) \cap Present(worker) :
                    (list[p] = "dir") # (worker[p] = "dir")
    IN  /\ run[r].pc = "scan"
        /\ run' = [run EXCEPT ![r].pc = "delete", ![r].list = Empty,
                              ![r].del = old,
                              ![r].excused = @ \/ clash,
                              ![r].job =
                    [p \in Paths |->
                        IF p \notin Present(list) \/ ~Differs(list, p)
                        THEN "none"
                        ELSE IF list[p] = "dir" THEN "mkdir" ELSE "get"]]
        /\ UNCHANGED <<master, saving, worker, since, alone, edits>>

\* r writes to the files of the worker, and with it the runners in others.
WorkerBecomes(r, tree, others) ==
    /\ worker' = tree
    /\ alone' = [s \in Runners |-> s = r /\ alone[r] /\ others = {}]
    /\ UNCHANGED <<master, saving, since, edits>>

\* os.Remove, in the order of a map: a directory with anything in it stays,
\* and that is only logged.
Remove(r, p) ==
    LET gone == worker[p] # "absent" /\ \A q \in Below(p) : worker[q] = "absent"
    IN  /\ run[r].pc = "delete"
        /\ p \in run[r].del
        /\ WorkerBecomes(r, IF gone THEN Without(worker, {p}) ELSE worker, {})
        /\ run' = [s \in Runners |->
                     [run[s] EXCEPT !.del = IF s = r THEN @ \ {p} ELSE @,
                                    !.job[p] = IF gone /\ Holds(s, p)
                                               THEN "unlinked" ELSE @]]

StartDownloads(r) ==
    /\ run[r].pc = "delete"
    /\ run[r].del = {}
    /\ run' = [run EXCEPT ![r].pc = "sync"]
    /\ UNCHANGED <<master, saving, worker, since, alone, edits>>

\* A goroutine for each path; the pool has room for ten at a time.
Turn(r, p, job) ==
    /\ run[r].pc = "sync"
    /\ run[r].job[p] = job

\* The goroutine of p goes on, or is done; failed is the error it returns.
\* Errors are joined without a lock: one may replace another, but the result
\* is an error still, and that is all that counts.
JobBecomes(r, p, job, failed, excuse) ==
    run' = [run EXCEPT ![r].job[p] = job, ![r].live = @ \ {p},
                       ![r].err = @ \/ failed, ![r].excused = @ \/ excuse]

\* The goroutine of a directory: os.MkdirAll.
MakeDir(r, p) ==
    LET able == Free(worker, p) /\ worker[p] \in {"absent", "dir"}
    IN  /\ Turn(r, p, "mkdir")
        /\ WorkerBecomes(r, IF able THEN Put(worker, p, "dir") ELSE worker, {})
        /\ JobBecomes(r, p, "done", ~able, FALSE)

\* downloadFile puts the path into the query as it is, so that the master may
\* understand another one ('a' for 'a&b' or 'a#b').  Not found if that is gone;
\* a directory is redirected for ever, which is an error too.  An empty file
\* has been answered with the header.
Get(r, p) ==
    LET a == Asked[p]
        found == a \in Paths /\ master[a] \in File
    IN  /\ Turn(r, p, "get")
        /\ IF found
           THEN run' = [run EXCEPT ![r].job[p] = "got",
                                   ![r].body[p] = {master[a]},
                                   ![r].live = IF master[a] = "empty" THEN @
                                               ELSE @ \cup {p}]
           ELSE JobBecomes(r, p, "done", TRUE, a # p)
        /\ UNCHANGED <<master, saving, worker, since, alone, edits>>

GetFails(r, p) ==
    /\ HttpErrors
    /\ Turn(r, p, "get")
    /\ JobBecomes(r, p, "done", TRUE, TRUE)
    /\ UNCHANGED <<master, saving, worker, since, alone, edits>>

\* Mutant: the directories above are left to their own goroutines.
OpenInPlace(r, p) ==
    LET able == worker[p] # "dir" /\ \A q \in Above[p] : worker[q] = "dir"
        others == {s \in Runners \ {r} : Holds(s, p)}
        job == IF ~able THEN "done" ELSE IF others = {} THEN "open" ELSE "shared"
    IN  /\ Turn(r, p, "got")
        /\ WorkerBecomes(r, IF able THEN Put(worker, p, "empty") ELSE worker,
                         others)
        /\ run' = [s \in Runners |->
                     IF s = r
                     THEN [run[r] EXCEPT !.job[p] = job, !.err = @ \/ ~able]
                     ELSE IF able /\ s \in others
                     THEN [run[s] EXCEPT !.job[p] = "shared"] ELSE run[s]]

\* It makes the directories above and opens the file, which truncates it; a
\* goroutine of another runner that has it open writes to the same file.
Open(r, p) ==
    LET able == Free(worker, p) /\ worker[p] # "dir"
        others == {s \in Runners \ {r} : Holds(s, p)}
        job == IF ~able THEN "done" ELSE IF others = {} THEN "open" ELSE "shared"
    IN  /\ Turn(r, p, "got")
        /\ WorkerBecomes(r, IF able THEN Put(worker, p, "empty") ELSE worker,
                         others)
        /\ run' = [s \in Runners |->
                     IF s = r
                     THEN [run[r] EXCEPT !.job[p] = job, !.err = @ \/ ~able]
                     ELSE IF able /\ s \in others
                     THEN [run[s] EXCEPT !.job[p] = "shared"] ELSE run[s]]

\* io.Copy, of as many bytes as the header said: what two goroutines write to
\* one file may be a mixture, and what goes to a file that was removed is lost.
Written(r, p) ==
    CASE run[r].job[p] = "open"     -> run[r].body[p]
      [] run[r].job[p] = "shared"   -> run[r].body[p] \cup {"other"}
      [] run[r].job[p] = "unlinked" -> {worker[p]}

Copy(r, p) ==
    /\ run[r].pc = "sync"
    /\ run[r].job[p] \in {"open", "shared", "unlinked"}
    /\ \E c \in Written(r, p) : WorkerBecomes(r, [worker EXCEPT ![p] = c], {})
    /\ JobBecomes(r, p, "done", FALSE, FALSE)

\* The connection breaks, or the file on the master became too short while it
\* was read: the part that came stays in the file.
CopyFails(r, p) ==
    /\ HttpErrors \/ p \in run[r].torn
    /\ run[r].pc = "sync"
    /\ run[r].job[p] \in {"open", "shared", "unlinked"}
    /\ \E c \in {worker[p], IF Holds(r, p) THEN "other" ELSE worker[p]} :
          WorkerBecomes(r, [worker EXCEPT ![p] = c], {})
    /\ JobBecomes(r, p, "done", TRUE, TRUE)

\* Mutant: the error of a goroutine stays in the goroutine.
FinishBlind(r) ==
    /\ run[r].pc = "sync"
    /\ \A p \in Paths : run[r].job[p] \in {"none", "done"}
    /\ run' = [run EXCEPT ![r].pc = "ok",
                          ![r].job = Idle.job, ![r].body = NoBody,
                          ![r].err = FALSE]
    /\ UNCHANGED <<master, saving, worker, since, alone, edits>>

\* All goroutines are done: the spider is started, or the task is in error.
Finish(r) ==
    /\ run[r].pc = "sync"
    /\ \A p \in Paths : run[r].job[p] \in {"none", "done"}
    /\ run' = [run EXCEPT ![r].pc = IF run[r].err THEN "failed" ELSE "ok",
                          ![r].job = Idle.job, ![r].body = NoBody,
                          ![r].err = FALSE]
    /\ UNCHANGED <<master, saving, worker, since, alone, edits>>

\* The spider runs in the directory and may write there.
SpiderWrites(r, p) ==
    /\ Edit
    /\ run[r].pc = "ok"
    /\ Free(worker, p) /\ worker[p] # "dir"
    /\ worker' = Put(worker, p, "other")
    /\ alone' = [s \in Runners |-> FALSE]
    /\ UNCHANGED <<master, saving, run, since>>

\* The task is over, in one way or another.
Leave(r) ==
    /\ run[r].pc \in {"ok", "failed"}
    /\ run' = [run EXCEPT ![r] = Idle]
    /\ since' = [since EXCEPT ![r] = [p \in Paths |-> {}]]
    /\ alone' = [alone EXCEPT ![r] = FALSE]
    /\ UNCHANGED <<master, saving, worker, edits>>

\* The worker crashes, and files that were being written stay as they are.
Crash ==
    /\ MayCrash
    /\ \E S \in SUBSET {p \in Paths : \E r \in Runners : Holds(r, p)} :
          worker' = [p \in Paths |-> IF p \in S THEN "other" ELSE worker[p]]
    /\ run' = [r \in Runners |-> Idle]
    /\ since' = [r \in Runners |-> [p \in Paths |-> {}]]
    /\ alone' = [r \in Runners |-> FALSE]
    /\ UNCHANGED <<master, saving, edits>>

-----------------------------------------------------------------------------
User ==
    \/ SaveWrite
    \/ \E p \in Paths :
          \/ \E v \in Versions : SaveOpen(p, v) \/ RenameTo(p, v)
          \/ CreateDir(p)
          \/ Delete(p)

Goroutine(r, p) ==
    \/ MakeDir(r, p)
    \/ Get(r, p)
    \/ GetFails(r, p)
    \/ Open(r, p)
    \/ Copy(r, p)
    \/ CopyFails(r, p)

SyncFiles(r) ==
    \/ Scan(r)
    \/ \E p \in Paths : Remove(r, p)
    \/ StartDownloads(r)
    \/ \E p \in Paths : Goroutine(r, p)
    \/ Finish(r)

Next ==
    \/ User
    \/ Crash
    \/ \E r \in Runners :
          \/ GetList(r)
          \/ GetListFails(r)
          \/ SyncFiles(r)
          \/ \E p \in Paths : SpiderWrites(r, p)
          \/ Leave(r)

Spec == Init /\ [][Next]_vars

-----------------------------------------------------------------------------
(* Properties.                                                             *)

\* What the master has had since the scan at the path of p, and at the path it
\* is asked for.
Answers(r, p) ==
    since[r][p] \cup (IF Asked[p] \in Paths THEN since[r][Asked[p]] ELSE {})

\* When syncFiles returns no error and no other runner or spider wrote to
\* the directory meanwhile, the spider starts with files that the master has
\* had since the scan: nothing older, nothing cut off by a failure or a crash
\* of an earlier synchronisation, and no file the master does not have.  Only
\* directories may be left over, for they are removed before their contents.
\* Two exceptions: a file that was saved while it was downloaded, and one with
\* a name that the query does not carry, which may hold another file.  (Two
\* files may be of different times: the master is not a snapshot.)
StartsFresh ==
    \A r \in Runners :
        run[r].pc = "ok" /\ alone[r] =>
            \A p \in Paths \ run[r].torn :
                \/ worker[p] \in Answers(r, p)
                \/ worker[p] = "dir" /\ "absent" \in since[r][p]

\* A synchronisation fails for a reason outside it: the master was edited, a
\* request failed, somebody else wrote to the directory, a file is where the
\* other side has a directory, or the query does not carry a name.  What
\* failed synchronisations, crashes and spiders left behind is no reason.
FailsForAReason ==
    \A r \in Runners :
        run[r].pc = "failed" => run[r].excused \/ ~alone[r]
=============================================================================
