------------------------------ MODULE DataDir ------------------------------
(***************************************************************************)
(* The scratch directory of a cluster node that several training jobs      *)
(* share (scripts/copy_datadir.py, called by scripts/sbatch_train.sh):     *)
(* every job copies or links its datasets into it, trains on them, and     *)
(* removes the directory at its end unless other jobs use it.  The file    *)
(* .lock holds one line "<model>.<time>.write" or ".read" per job, and     *)
(* nothing makes looking at it and writing it one step.                    *)
(*                                                                         *)
(* A job may be killed at any moment; its lines stay.  Time is left out    *)
(* but for the age of a line: a day after the line was written, the time   *)
(* limit of a job, its job has ended.                                      *)
(***************************************************************************)
EXTENDS Naturals, Sequences, FiniteSets, FiniteSetsExt

CONSTANTS
    Jobs,           \* the models that are trained here; the name is the --lock
    Files,          \* the datasets of a job, in the order copy_datasets visits them
    Size,           \* their sizes
    Begins,         \* pairs <<a, b>>: the name of b begins with the name of a
    Dotted,         \* the names that contain a dot
    TestFiles,      \* the ones with "test" in their path
    MaxBytes,       \* --max-gb
    MaxTries,       \* how often has_locks waits (9 in the code)
    MaxRuns         \* bound on the jobs that are submitted

VARIABLES
    dir,            \* does target_dir exist?
    lockFile,       \* the lines of .lock, or NoFile
    data,           \* what target_dir holds of each dataset
    task,           \* what a job runs: copy_datasets or cleanup
    pc,             \* where it stands
    tries,          \* tries of has_locks, remove_lock's rounds in cleanup
    readLocks,      \* have_read_locks, as it was when has_locks returned
    writeLocks,     \* have_write_locks
    curB,           \* cur_b
    next,           \* the dataset that is visited next
    futures,        \* submitted copies: dataset, try_other_hosts
    seen,           \* the lines remove_lock has read
    doomed,         \* the entries rmtree has listed
    runs,           \* history: jobs submitted
    harm            \* history: how jobs came to overlap

diskVars == <<dir, lockFile, data>>
copyVars == <<curB, next, futures>>
lookVars == <<readLocks, writeLocks>>
vars == <<diskVars, task, pc, tries, lookVars, copyVars, seen, doomed, runs, harm>>

LockEntry == ".lock"
Line(j, kind) == [job |-> j, kind |-> kind, old |-> FALSE]
NoFile == {Line("nobody", "nothing")}
DatasetsOf(j) == {Files[j][i] : i \in DOMAIN Files[j]}
Datasets == UNION {DatasetsOf(j) : j \in Jobs}

\* A dataset is a file of its own name in the directory; the limits are
\* numbers, of any size.
ASSUME DataDirAssumption ==
    /\ Size \in [DOMAIN Size -> Nat]
    /\ \A j \in Jobs : Files[j] \in Seq(DOMAIN Size)
    /\ LockEntry \notin DOMAIN Size
    /\ Begins \subseteq Jobs \X Jobs
    /\ MaxBytes \in Nat /\ MaxTries \in Nat /\ MaxRuns \in Nat

\* line.startswith(lock)
StartsWith(line, j) == line.job = j \/ <<j, line.job>> \in Begins

Init ==
    /\ dir = FALSE /\ lockFile = NoFile /\ data = [f \in Datasets |-> "none"]
    /\ task = [j \in Jobs |-> "copy"] /\ pc = [j \in Jobs |-> "off"]
    /\ tries = [j \in Jobs |-> 0]
    /\ readLocks = [j \in Jobs |-> FALSE] /\ writeLocks = [j \in Jobs |-> FALSE]
    /\ curB = [j \in Jobs |-> 0] /\ next = [j \in Jobs |-> 1]
    /\ futures = [j \in Jobs |-> {}]
    /\ seen = [j \in Jobs |-> {}] /\ doomed = [j \in Jobs |-> {}]
    /\ runs = 0 /\ harm = {}

\* What a process that has ended leaves behind of itself: nothing.
Reset(j) ==
    /\ pc' = [pc EXCEPT ![j] = "off"] /\ task' = [task EXCEPT ![j] = "copy"]
    /\ tries' = [tries EXCEPT ![j] = 0]
    /\ readLocks' = [readLocks EXCEPT ![j] = FALSE]
    /\ writeLocks' = [writeLocks EXCEPT ![j] = FALSE]
    /\ curB' = [curB EXCEPT ![j] = 0] /\ next' = [next EXCEPT ![j] = 1]
    /\ futures' = [futures EXCEPT ![j] = {}]
    /\ seen' = [seen EXCEPT ![j] = {}] /\ doomed' = [doomed EXCEPT ![j] = {}]

\* An exception ends the script of the job ("set -e").
Raise(j) == Reset(j) /\ UNCHANGED <<diskVars, runs, harm>>

GoTo(j, to) == pc' = [pc EXCEPT ![j] = to]

Writing(k) == task[k] = "copy" /\ pc[k] \in {"measure", "plan", "note", "rewrite"}

\* A process that has looked at the locks and has not acted on what it saw.
Looked(k) == pc[k] \in {"lock", "remove", "rmtree"} \/ (pc[k] = "look" /\ task[k] = "copy")

-----------------------------------------------------------------------------
\* The job is submitted to this node: os.makedirs, then has_locks.
Start(j) ==
    /\ pc[j] = "off" /\ runs < MaxRuns
    /\ runs' = runs + 1
    /\ dir' = TRUE
    /\ GoTo(j, "wait")
    /\ UNCHANGED <<lockFile, data, task, tries, lookVars, copyVars, seen, doomed, harm>>

ForeignWrite(j) == lockFile # NoFile /\ \E l \in lockFile : l.kind = "write" /\ ~StartsWith(l, j)

AfterLook(j) == IF task[j] = "copy" THEN "lock" ELSE "remove"

\* Mutant: no bound on the tries.
WaitForEver(j) ==
    /\ pc[j] = "wait"
    /\ IF lockFile = NoFile THEN GoTo(j, AfterLook(j)) ELSE ~ForeignWrite(j) /\ GoTo(j, "look")
    /\ UNCHANGED <<diskVars, task, tries, lookVars, copyVars, seen, doomed, runs, harm>>

\* Mutant: nobody waits for a write lock.
WaitNot(j) ==
    /\ pc[j] = "wait"
    /\ GoTo(j, IF lockFile = NoFile THEN AfterLook(j) ELSE "look")
    /\ writeLocks' = [writeLocks EXCEPT ![j] = ForeignWrite(j)]
    /\ UNCHANGED <<diskVars, task, tries, readLocks, copyVars, seen, doomed, runs, harm>>

(* has_locks up to the end of its loop: no lock file at the first look, no  *)
(* lock at all; otherwise wait for the write locks of others to go, but not *)
(* for ever, and look at the other lines afterwards.                        *)
Wait(j) ==
    /\ pc[j] = "wait"
    /\ IF lockFile = NoFile /\ tries[j] = 0
       THEN GoTo(j, AfterLook(j)) /\ UNCHANGED <<tries, writeLocks, harm>>
       ELSE IF ForeignWrite(j) /\ tries[j] < MaxTries
       THEN tries' = [tries EXCEPT ![j] = @ + 1] /\ UNCHANGED <<pc, writeLocks, harm>>
       ELSE /\ GoTo(j, "look")
            /\ tries' = [tries EXCEPT ![j] = 0]
            /\ writeLocks' = [writeLocks EXCEPT ![j] = ForeignWrite(j)]
            /\ harm' = IF task[j] = "copy" /\ ForeignWrite(j)
                          /\ \E k \in Jobs \ {j} : Writing(k)
                       THEN harm \cup {"gave up"} ELSE harm
    /\ UNCHANGED <<diskVars, task, readLocks, copyVars, seen, doomed, runs>>

\* Lines of others that has_locks can parse and that are not a day old.
ForeignLines(j) == {l \in lockFile : ~StartsWith(l, j) /\ l.job \notin Dotted /\ ~l.old}

\* The rest of has_locks; cleanup gives up when there are any locks.
Look(j) ==
    /\ pc[j] = "look"
    /\ IF lockFile = NoFile \/ (task[j] = "cleanup" /\ (writeLocks[j] \/ ForeignLines(j) # {}))
       THEN Raise(j)
       ELSE /\ readLocks' = [readLocks EXCEPT ![j] = ForeignLines(j) # {}]
            /\ GoTo(j, AfterLook(j))
            /\ UNCHANGED <<diskVars, task, tries, writeLocks, copyVars, seen, doomed,
                           runs, harm>>

-----------------------------------------------------------------------------
(* copy_datasets with its own write lock. *)

\* open(lock_f, "a+").write(...)
Lock(j) ==
    /\ pc[j] = "lock"
    /\ IF ~dir THEN Raise(j)
       ELSE /\ lockFile' = (IF lockFile = NoFile THEN {} ELSE lockFile) \cup {Line(j, "write")}
            /\ GoTo(j, "measure")
            /\ harm' = IF \E k \in Jobs \ {j} : Looked(k) THEN harm \cup {"raced"} ELSE harm
            /\ UNCHANGED <<dir, data, task, tries, lookVars, copyVars, seen, doomed, runs>>

\* du(target_dir) follows the links.
Used == MapThenSumSet(LAMBDA f : Size[f], {f \in Datasets : data[f] # "none"})

\* A directory that was removed since the lock was written is made again, empty.
Measure(j) ==
    /\ pc[j] = "measure"
    /\ dir' = TRUE
    /\ curB' = [curB EXCEPT ![j] = Used]
    /\ GoTo(j, "plan")
    /\ UNCHANGED <<lockFile, data, task, tries, lookVars, next, futures, seen, doomed, runs, harm>>

Submit(j, f, hosts) == futures' = [futures EXCEPT ![j] = @ \cup {<<f, hosts>>}]

\* A dataset that does not fit, and every test dataset, is linked; a copy that
\* is there already is checked.
LinkOrCheck(j, f) ==
    /\ curB[j] + Size[f] > MaxBytes \/ f \in TestFiles
    /\ IF data[f] = "none"
       THEN data' = [data EXCEPT ![f] = IF dir THEN "link" ELSE "none"] /\ UNCHANGED futures
       ELSE /\ UNCHANGED data
            /\ IF data[f] = "copy" /\ ~readLocks[j] THEN Submit(j, f, FALSE) ELSE UNCHANGED futures
    /\ UNCHANGED curB

\* Mutant: the size of what is submitted is not added up.
CopyUncounted(j, f) ==
    /\ curB[j] + Size[f] <= MaxBytes /\ f \notin TestFiles
    /\ data' = [data EXCEPT ![f] = IF @ = "link" /\ ~readLocks[j] THEN "none" ELSE @]
    /\ IF readLocks[j] /\ data[f] # "none" THEN UNCHANGED futures ELSE Submit(j, f, TRUE)
    /\ UNCHANGED curB

\* Mutant: the link is removed although others read it.
CopyOverLink(j, f) ==
    /\ curB[j] + Size[f] <= MaxBytes /\ f \notin TestFiles
    /\ data' = [data EXCEPT ![f] = IF @ = "link" THEN "none" ELSE @]
    /\ IF readLocks[j] /\ data[f] = "copy" THEN UNCHANGED <<curB, futures>>
       ELSE Submit(j, f, TRUE) /\ curB' = [curB EXCEPT ![j] = @ + Size[f]]

\* A dataset that fits is copied, also in the place of a link, unless somebody
\* reads what is there.
Copy(j, f) ==
    /\ curB[j] + Size[f] <= MaxBytes /\ f \notin TestFiles
    /\ data' = [data EXCEPT ![f] = IF @ = "link" /\ ~readLocks[j] THEN "none" ELSE @]
    /\ IF readLocks[j] /\ data[f] # "none" THEN UNCHANGED <<curB, futures>>
       ELSE Submit(j, f, TRUE) /\ curB' = [curB EXCEPT ![j] = @ + Size[f]]

Plan(j) ==
    /\ pc[j] = "plan" /\ next[j] <= Len(Files[j])
    /\ LinkOrCheck(j, Files[j][next[j]]) \/ Copy(j, Files[j][next[j]])
    /\ next' = [next EXCEPT ![j] = @ + 1]
    /\ UNCHANGED <<dir, lockFile, task, pc, tries, lookVars, seen, doomed, runs, harm>>

\* _cp: rsync from another host fails, and what is there is removed.
HostFails(j) ==
    /\ \E c \in futures[j] : c[2] /\ data' = [data EXCEPT ![c[1]] = "none"]
    /\ UNCHANGED <<dir, lockFile, task, pc, tries, lookVars, copyVars, seen, doomed,
                   runs, harm>>

\* rsync succeeds, or _cp_or_link links instead.
CopyEnds(j) ==
    /\ \E c \in futures[j], how \in {"copy", "link"} :
          /\ data' = [data EXCEPT ![c[1]] = IF dir THEN how ELSE "none"]
          /\ futures' = [futures EXCEPT ![j] = @ \ {c}]
    /\ UNCHANGED <<dir, lockFile, task, pc, tries, lookVars, curB, next, seen, doomed,
                   runs, harm>>

\* All copies have ended.
Copied(j) ==
    /\ pc[j] = "plan" /\ next[j] > Len(Files[j]) /\ futures[j] = {}
    /\ GoTo(j, "note")
    /\ UNCHANGED <<diskVars, task, tries, lookVars, copyVars, seen, doomed, runs, harm>>

-----------------------------------------------------------------------------
(* remove_lock reads the lines, then writes the file from its start and cuts *)
(* it off behind them.                                                       *)

Note(j) ==
    /\ pc[j] = "note"
    /\ IF lockFile = NoFile THEN Raise(j)
       ELSE /\ seen' = [seen EXCEPT ![j] = lockFile]
            /\ GoTo(j, "rewrite")
            /\ UNCHANGED <<diskVars, task, tries, lookVars, copyVars, doomed, runs, harm>>

\* The copy leaves a read lock.  The cleanup removes nothing, in two rounds:
\* no line starts with "<model>.read" or "<model>.write".
Kept(j) ==
    IF task[j] = "copy" THEN {l \in seen[j] : ~StartsWith(l, j)} \cup {Line(j, "read")}
    ELSE seen[j]

\* A file that was removed since it was opened stays removed.
Rewrite(j) ==
    LET same == seen[j] # NoFile IN
    /\ pc[j] = "rewrite"
    /\ lockFile' = IF same THEN Kept(j) ELSE lockFile
    /\ harm' = IF same /\ \E l \in lockFile \ seen[j] : l.job # j /\ ~l.old
               THEN harm \cup {"overwritten"} ELSE harm
    /\ seen' = [seen EXCEPT ![j] = {}]
    /\ IF task[j] = "copy" THEN GoTo(j, "train") /\ UNCHANGED tries
       ELSE IF tries[j] = 0 THEN GoTo(j, "note") /\ tries' = [tries EXCEPT ![j] = 1]
       ELSE GoTo(j, "wait") /\ tries' = [tries EXCEPT ![j] = 0]
    /\ UNCHANGED <<dir, data, task, lookVars, copyVars, doomed, runs>>

-----------------------------------------------------------------------------
\* _at_exit: a job that has to go on is submitted again, wherever, and leaves
\* the directory as it is; one that is complete cleans up.
EndTraining(j) ==
    /\ pc[j] = "train"
    /\ \/ Raise(j)
       \/ /\ GoTo(j, "note") /\ task' = [task EXCEPT ![j] = "cleanup"]
          /\ readLocks' = [readLocks EXCEPT ![j] = FALSE]
          /\ curB' = [curB EXCEPT ![j] = 0] /\ next' = [next EXCEPT ![j] = 1]
          /\ UNCHANGED <<diskVars, tries, writeLocks, futures, seen, doomed, runs, harm>>

Entries ==
    {f \in Datasets : data[f] # "none"} \cup (IF lockFile = NoFile THEN {} ELSE {LockEntry})

\* shutil.rmtree lists the directory ...
Remove(j) ==
    /\ pc[j] = "remove"
    /\ IF ~dir THEN Raise(j)
       ELSE /\ doomed' = [doomed EXCEPT ![j] = Entries]
            /\ GoTo(j, "rmtree")
            /\ UNCHANGED <<diskVars, task, tries, lookVars, copyVars, seen, runs, harm>>

\* ... removes one entry after the other ...
RemoveEntry(j) ==
    /\ pc[j] = "rmtree"
    /\ \E e \in doomed[j] :
          IF e \notin Entries THEN Raise(j)
          ELSE /\ doomed' = [doomed EXCEPT ![j] = @ \ {e}]
               /\ IF e = LockEntry
                  THEN /\ lockFile' = NoFile /\ UNCHANGED data
                       /\ seen' = [k \in Jobs |-> IF pc[k] = "rewrite" THEN NoFile ELSE seen[k]]
                  ELSE data' = [data EXCEPT ![e] = "none"] /\ UNCHANGED <<lockFile, seen>>
               /\ UNCHANGED <<dir, task, pc, tries, lookVars, copyVars, runs, harm>>

\* ... and the directory, or raises when it is not empty.
RemoveDir(j) ==
    /\ pc[j] = "rmtree" /\ doomed[j] = {}
    /\ dir' = (Entries # {})
    /\ Reset(j)
    /\ UNCHANGED <<lockFile, data, runs, harm>>

\* The job is killed, and its rsync processes with it.
Kill(j) == pc[j] # "off" /\ Raise(j)

\* A day has gone by since the job wrote its lines: it has ended before.
Age(j) ==
    /\ pc[j] = "off" /\ lockFile # NoFile
    /\ lockFile' = {[l EXCEPT !.old = @ \/ l.job = j] : l \in lockFile}
    /\ UNCHANGED <<dir, data, task, pc, tries, lookVars, copyVars, seen, doomed, runs, harm>>

Work(j) ==
    \/ Wait(j)
    \/ Look(j)
    \/ Lock(j)
    \/ Measure(j)
    \/ Plan(j)
    \/ CopyEnds(j)
    \/ Copied(j)
    \/ Note(j)
    \/ Rewrite(j)
    \/ Remove(j)
    \/ RemoveEntry(j)
    \/ RemoveDir(j)

Next ==
    \E j \in Jobs :
        \/ Work(j)
        \/ Start(j)
        \/ HostFails(j)
        \/ EndTraining(j)
        \/ Kill(j)
        \/ Age(j)

\* The scripts run; nobody has to submit, end or kill a job.
Spec == Init /\ [][Next]_vars /\ \A j \in Jobs : WF_vars(Work(j))

-----------------------------------------------------------------------------
(* Properties. *)

\* A write lock gives "exclusive access" (copy_datadir.py:110): two jobs fill
\* the directory at a time only after a race between looking and locking, after
\* a wait that was given up, or when a line was overwritten.  This is about
\* jobs whose names has_locks can tell apart and parse (Begins, Dotted).
WritersAlone ==
    harm = {} => Cardinality({k \in Jobs : Writing(k)}) <= 1

\* A job that trains keeps its datasets whatever the others copy, link and
\* clean up (copy_datadir.py:227), and whoever was killed before, under the
\* same conditions and with a name of its own.
ReadersKeepFiles ==
    harm = {} =>
        \A j \in Jobs : pc[j] = "train" => dir /\ \A f \in DatasetsOf(j) : data[f] # "none"

\* The copies stay within --max-gb, however often jobs come back to a directory
\* that holds copies and links already.
WithinBudget ==
    harm = {} =>
        MapThenSumSet(LAMBDA f : Size[f], {f \in Datasets : data[f] = "copy"}) <= MaxBytes

\* A job gets past the locks of jobs that were killed, and starts to train
\* unless its script fails.
CopyComesToAnEnd == \A j \in Jobs : pc[j] = "wait" ~> pc[j] \in {"train", "off"}
=============================================================================
