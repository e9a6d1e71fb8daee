--------------------------- MODULE DataDirProofs ----------------------------
(***************************************************************************)
(* Proofs that the lock file of a node's data directory does what it is    *)
(* for, for any jobs and datasets, as long as no two jobs race between     *)
(* looking at it and writing it (harm) and every job has a name of its own *)
(* (OwnNames): the lines of .lock carry what one job knows of another, and *)
(* the one job that may write counts what it copies against the budget.    *)
(***************************************************************************)
EXTENDS DataDir, FiniteSetTheorems, NaturalsInduction, TLAPS

\* No name begins with another one, and none has a dot: has_locks recognises
\* every line, and its own lines only as its own.
OwnNames == (\A a, b \in Jobs : <<a, b>> \in Begins => a = b) /\ Dotted = {}

-----------------------------------------------------------------------------
(* The invariant. *)

Lines == [job : Jobs, kind : {"write", "read"}, old : BOOLEAN]
LockFiles == (SUBSET Lines) \cup {NoFile}

DirType ==
    /\ dir \in BOOLEAN /\ lockFile \in LockFiles
    /\ data \in [Datasets -> {"none", "link", "copy"}]
    /\ task \in [Jobs -> {"copy", "cleanup"}]
    /\ pc \in [Jobs -> {"off", "wait", "look", "lock", "measure", "plan", "note", "rewrite",
                        "train", "remove", "rmtree"}]
    /\ tries \in [Jobs -> Nat]
    /\ readLocks \in [Jobs -> BOOLEAN] /\ writeLocks \in [Jobs -> BOOLEAN]
    /\ next \in [Jobs -> Nat \ {0}]
    /\ futures \in [Jobs -> SUBSET (Datasets \X BOOLEAN)]
    /\ seen \in [Jobs -> LockFiles]

\* Which variables a job uses where.
PhaseOf(p, t, n, fs) ==
    /\ p # "plan" => fs = {}
    /\ t = "cleanup" => p \in {"note", "rewrite", "wait", "look", "remove", "rmtree"}
    /\ p \in {"off", "wait", "look", "lock", "measure"} \/ t = "cleanup" => n = 1
Phases == \A j \in Jobs : PhaseOf(pc[j], task[j], next[j], futures[j])

\* A job that writes or trains has its line in the file.
Locked ==
    /\ \A k \in Jobs : Writing(k) => Line(k, "write") \in lockFile
    /\ \A k \in Jobs : pc[k] = "train" => Line(k, "read") \in lockFile
    /\ \A k \in Jobs : Writing(k) /\ pc[k] = "rewrite" => seen[k] # NoFile

\* Beside a job that writes no other one writes, or is about to act on what it
\* saw of the locks.
Alone == \A k \in Jobs : Writing(k) => \A j \in Jobs \ {k} : ~Writing(j) /\ ~Looked(j)

\* Beside a job that trains nobody removes the directory or replaces a link, and
\* a copy that may fail on another host is of a dataset that job does not use.
Spared ==
    \A k \in Jobs : pc[k] = "train" =>
        \A j \in Jobs \ {k} :
            /\ pc[j] \notin {"remove", "rmtree"}
            /\ pc[j] \in {"lock", "measure", "plan"} => readLocks[j]
            /\ \A c \in futures[j] : c[2] => c[1] \notin DatasetsOf(k)

\* What a job has visited is there or will be, and is there when it trains.
Present ==
    \A k \in Jobs :
        /\ Writing(k) \/ pc[k] = "train" => dir
        /\ pc[k] = "plan" =>
              \A i \in 1 .. next[k] - 1 :
                  data[Files[k][i]] # "none" \/ \E c \in futures[k] : c[1] = Files[k][i]
        /\ (Writing(k) /\ pc[k] \in {"note", "rewrite"}) \/ pc[k] = "train" =>
              \A f \in DatasetsOf(k) : data[f] # "none"

Respected == Locked /\ Alone /\ Spared /\ Present
DirInv == DirType /\ Phases /\ (harm = {} => Respected)

-----------------------------------------------------------------------------
(* Types, and which variables a step changes. *)

Step(j) == Work(j) \/ Start(j) \/ HostFails(j) \/ EndTraining(j) \/ Kill(j) \/ Age(j)

LEMMA DatasetNames == \A j \in Jobs : DatasetsOf(j) \subseteq Datasets /\ LockEntry \notin Datasets
PROOF BY DataDirAssumption DEF Datasets, DatasetsOf

\* A dataset a job visits.
LEMMA Visited == \A j \in Jobs : \A i \in 1 .. Len(Files[j]) : Files[j][i] \in DatasetsOf(j)
PROOF BY DataDirAssumption DEF DatasetsOf

LEMMA ResetType ==
    ASSUME DirType, NEW j \in Jobs, Reset(j), UNCHANGED <<dir, lockFile, data>>
    PROVE  DirType'
PROOF BY DEF DirType, Reset, LockFiles

LEMMA TypeStep ==
    ASSUME DirType, NEW j \in Jobs, Step(j)
    PROVE  DirType'
PROOF
<1>1. ASSUME Raise(j) PROVE DirType'
  BY <1>1, ResetType DEF Raise, diskVars
<1>2. ASSUME NEW l, NEW k \in {"write", "read"}, l = Line(j, k) PROVE l \in Lines
  BY <1>2 DEF Line, Lines
<1>3. CASE Wait(j)
  <2>1. /\ pc' \in [Jobs -> {"off", "wait", "look", "lock", "measure", "plan", "note", "rewrite",
                            "train", "remove", "rmtree"}]
        /\ UNCHANGED <<dir, lockFile, data, task, readLocks, next, futures, seen>>
    BY <1>3 DEF Wait, DirType, GoTo, AfterLook, diskVars, copyVars
  <2>2. tries' \in [Jobs -> Nat]
    <3>1. UNCHANGED tries \/ tries' = [tries EXCEPT ![j] = @ + 1] \/ tries' = [tries EXCEPT ![j] = 0]
      BY <1>3 DEF Wait
    <3> QED BY <3>1 DEF DirType
  <2>3. writeLocks' \in [Jobs -> BOOLEAN]
    <3>1. ForeignWrite(j) \in BOOLEAN
      BY DEF ForeignWrite
    <3> QED BY <1>3, <3>1 DEF Wait, DirType
  <2> QED BY <2>1, <2>2, <2>3 DEF DirType
<1>4. CASE Look(j)
  BY <1>4, <1>1 DEF Look, DirType, GoTo, AfterLook, diskVars, copyVars
<1>5. CASE Lock(j)
  BY <1>5, <1>1, <1>2 DEF Lock, DirType, GoTo, LockFiles, lookVars, copyVars
<1>6. CASE Measure(j)
  BY <1>6 DEF Measure, DirType, GoTo, diskVars, lookVars
<1>7. CASE Plan(j)
  <2> DEFINE f == Files[j][next[j]]
  <2>1. f \in Datasets /\ next[j] \in Nat \ {0}
    BY <1>7, Visited, DatasetNames, DataDirAssumption DEF Plan, DirType
  <2>2. LinkOrCheck(j, f) \/ Copy(j, f)
    BY <1>7 DEF Plan
  <2> HIDE DEF f
  <2>3. data' \in [Datasets -> {"none", "link", "copy"}]
    BY <2>1, <2>2 DEF LinkOrCheck, Copy, DirType
  <2>4. ASSUME NEW b \in BOOLEAN, Submit(j, f, b)
        PROVE  futures' \in [Jobs -> SUBSET (Datasets \X BOOLEAN)]
    <3>1. <<f, b>> \in Datasets \X BOOLEAN
      BY <2>1
    <3> QED BY <2>4, <3>1 DEF Submit, DirType
  <2>5. futures' \in [Jobs -> SUBSET (Datasets \X BOOLEAN)]
    <3>1. Submit(j, f, TRUE) \/ Submit(j, f, FALSE) \/ UNCHANGED futures
      BY <2>2 DEF LinkOrCheck, Copy
    <3> QED BY <2>4, <3>1 DEF DirType
  <2>6. next' = [next EXCEPT ![j] = @ + 1] /\ UNCHANGED <<dir, lockFile, task, pc, tries, lookVars, seen>>
    BY <1>7 DEF Plan
  <2> QED BY <2>1, <2>3, <2>5, <2>6 DEF DirType, lookVars
<1>8. CASE CopyEnds(j)
  BY <1>8 DEF CopyEnds, DirType, lookVars
<1>9. CASE Copied(j)
  BY <1>9 DEF Copied, DirType, GoTo, diskVars, lookVars, copyVars
<1>10. CASE Note(j)
  BY <1>10, <1>1 DEF Note, DirType, GoTo, diskVars, lookVars, copyVars
<1>11. CASE Rewrite(j)
  BY <1>11, <1>2 DEF Rewrite, Kept, DirType, GoTo, LockFiles, lookVars, copyVars
<1>12. CASE Remove(j)
  BY <1>12, <1>1 DEF Remove, DirType, GoTo, diskVars, lookVars, copyVars
<1>13. CASE RemoveEntry(j)
  <2>1. PICK e \in doomed[j] :
          IF e \notin Entries THEN Raise(j)
          ELSE /\ IF e = LockEntry
                  THEN lockFile' = NoFile /\ UNCHANGED data
                       /\ seen' = [k \in Jobs |-> IF pc[k] = "rewrite" THEN NoFile ELSE seen[k]]
                  ELSE data' = [data EXCEPT ![e] = "none"] /\ UNCHANGED <<lockFile, seen>>
               /\ UNCHANGED <<dir, task, pc, tries, lookVars, copyVars>>
    BY <1>13 DEF RemoveEntry
  <2>2. CASE e \notin Entries
    BY <1>1, <2>1, <2>2
  <2>3. CASE e \in Entries /\ e = LockEntry
    <3>1. lockFile' \in LockFiles /\ NoFile \in LockFiles
      <4>1. lockFile' = NoFile
        BY <2>1, <2>3
      <4> QED BY <4>1, Zenon DEF LockFiles
    <3>2. seen' \in [Jobs -> LockFiles]
      BY <2>1, <2>3, <3>1 DEF DirType
    <3> QED BY <2>1, <2>3, <3>1, <3>2 DEF DirType, lookVars, copyVars
  <2>4. CASE e \in Entries /\ e # LockEntry
    BY <2>1, <2>4 DEF DirType, lookVars, copyVars
  <2> QED BY <2>2, <2>3, <2>4
<1>14. CASE RemoveDir(j)
  BY <1>14 DEF RemoveDir, Reset, DirType, LockFiles
<1>15. CASE Start(j)
  BY <1>15 DEF Start, DirType, GoTo, lookVars, copyVars
<1>16. CASE HostFails(j)
  BY <1>16 DEF HostFails, DirType, lookVars, copyVars
<1>17. CASE EndTraining(j)
  <2>1. CASE Raise(j)
    BY <1>1, <2>1
  <2>2. CASE ~Raise(j)
    <3>1. /\ pc' = [pc EXCEPT ![j] = "note"] /\ task' = [task EXCEPT ![j] = "cleanup"]
          /\ readLocks' = [readLocks EXCEPT ![j] = FALSE] /\ next' = [next EXCEPT ![j] = 1]
          /\ UNCHANGED <<dir, lockFile, data, tries, writeLocks, futures, seen>>
      BY <1>17, <2>2 DEF EndTraining, GoTo, diskVars
    <3> QED BY <3>1 DEF DirType
  <2> QED BY <2>1, <2>2
<1>18. CASE Kill(j)
  BY <1>18, <1>1 DEF Kill
<1>19. CASE Age(j)
  <2>1. \A l \in Lines : [l EXCEPT !.old = @ \/ l.job = j] \in Lines
    BY DEF Lines
  <2>2. lockFile \subseteq Lines
    <3>1. lockFile # NoFile /\ lockFile \in LockFiles
      BY <1>19 DEF Age, DirType
    <3> QED BY <3>1, Zenon DEF LockFiles
  <2>3. lockFile' \subseteq Lines
    BY <1>19, <2>1, <2>2 DEF Age
  <2> QED BY <1>19, <2>3 DEF Age, DirType, LockFiles, lookVars, copyVars
<1> QED BY <1>3, <1>4, <1>5, <1>6, <1>7, <1>8, <1>9, <1>10, <1>11, <1>12, <1>13, <1>14, <1>15, <1>16, <1>17, <1>18, <1>19 DEF Step, Work

\* A step of one job leaves the others where they are.
OthersSame(j) ==
    \A k \in Jobs \ {j} :
        /\ pc'[k] = pc[k] /\ task'[k] = task[k] /\ next'[k] = next[k]
        /\ futures'[k] = futures[k] /\ readLocks'[k] = readLocks[k]

LEMMA OthersKept ==
    ASSUME DirType, NEW j \in Jobs, Step(j)
    PROVE  OthersSame(j)
PROOF
<1>1. ASSUME Reset(j) PROVE OthersSame(j)
  BY <1>1 DEF Reset, DirType, OthersSame
<1>2. ASSUME Raise(j) PROVE OthersSame(j)
  BY <1>1, <1>2 DEF Raise
<1>3. CASE Wait(j)
  BY <1>3 DEF Wait, OthersSame, DirType, GoTo, diskVars, lookVars, copyVars
<1>4. CASE Look(j)
  BY <1>4, <1>2 DEF Look, OthersSame, DirType, GoTo, diskVars, lookVars, copyVars
<1>5. CASE Lock(j)
  BY <1>5, <1>2 DEF Lock, OthersSame, DirType, GoTo, diskVars, lookVars, copyVars
<1>6. CASE Measure(j)
  BY <1>6 DEF Measure, OthersSame, DirType, GoTo, diskVars, lookVars, copyVars
<1>7. CASE Plan(j)
  BY <1>7 DEF Plan, LinkOrCheck, Copy, Submit, OthersSame, DirType, GoTo, diskVars, lookVars, copyVars
<1>8. CASE CopyEnds(j)
  BY <1>8 DEF CopyEnds, OthersSame, DirType, GoTo, diskVars, lookVars, copyVars
<1>9. CASE Copied(j)
  BY <1>9 DEF Copied, OthersSame, DirType, GoTo, diskVars, lookVars, copyVars
<1>10. CASE Note(j)
  BY <1>10, <1>2 DEF Note, OthersSame, DirType, GoTo, diskVars, lookVars, copyVars
<1>11. CASE Rewrite(j)
  BY <1>11 DEF Rewrite, OthersSame, DirType, GoTo, diskVars, lookVars, copyVars
<1>12. CASE Remove(j)
  BY <1>12, <1>2 DEF Remove, OthersSame, DirType, GoTo, diskVars, lookVars, copyVars
<1>13. CASE RemoveEntry(j)
  BY <1>13, <1>2 DEF RemoveEntry, OthersSame, DirType, GoTo, diskVars, lookVars, copyVars
<1>14. CASE RemoveDir(j)
  BY <1>14, <1>1 DEF RemoveDir, OthersSame, DirType, GoTo, diskVars, lookVars, copyVars
<1>15. CASE Start(j)
  BY <1>15 DEF Start, OthersSame, DirType, GoTo, diskVars, lookVars, copyVars
<1>16. CASE HostFails(j)
  BY <1>16 DEF HostFails, OthersSame, DirType, GoTo, diskVars, lookVars, copyVars
<1>17. CASE EndTraining(j)
  BY <1>17, <1>2 DEF EndTraining, OthersSame, DirType, GoTo, diskVars, lookVars, copyVars
<1>18. CASE Kill(j)
  BY <1>18, <1>2 DEF Kill, OthersSame, DirType, GoTo, diskVars, lookVars, copyVars
<1>19. CASE Age(j)
  BY <1>19 DEF Age, OthersSame, DirType, GoTo, diskVars, lookVars, copyVars
<1> QED BY <1>3, <1>4, <1>5, <1>6, <1>7, <1>8, <1>9, <1>10, <1>11, <1>12, <1>13, <1>14, <1>15, <1>16, <1>17, <1>18, <1>19 DEF Step, Work

LEMMA PhasesStep ==
    ASSUME DirType, Phases, NEW j \in Jobs, Step(j)
    PROVE  Phases'
PROOF
<1>0. PhaseOf(pc[j], task[j], next[j], futures[j])
  BY DEF Phases
<1>1. \A k \in Jobs \ {j} : PhaseOf(pc'[k], task'[k], next'[k], futures'[k])
  BY OthersKept DEF OthersSame, Phases
<1> SUFFICES PhaseOf(pc'[j], task'[j], next'[j], futures'[j])
  BY <1>1 DEF Phases
<1>2. ASSUME Reset(j) PROVE PhaseOf(pc'[j], task'[j], next'[j], futures'[j])
  BY <1>2 DEF Reset, DirType, PhaseOf
<1>3. CASE Wait(j)
  BY <1>0, <1>3 DEF Wait, AfterLook, DirType, PhaseOf, GoTo, diskVars, lookVars, copyVars
<1>4. CASE Look(j)
  BY <1>0, <1>4, <1>2 DEF Look, AfterLook, Raise, DirType, PhaseOf, GoTo, diskVars, lookVars, copyVars
<1>5. CASE Lock(j)
  BY <1>0, <1>5, <1>2 DEF Lock, Raise, DirType, PhaseOf, GoTo, diskVars, lookVars, copyVars
<1>6. CASE Measure(j)
  BY <1>0, <1>6 DEF Measure, DirType, PhaseOf, GoTo, diskVars, lookVars, copyVars
<1>7. CASE Plan(j)
  BY <1>0, <1>7 DEF Plan, LinkOrCheck, Copy, Submit, DirType, PhaseOf, GoTo, diskVars, lookVars, copyVars
<1>8. CASE CopyEnds(j)
  BY <1>0, <1>8 DEF CopyEnds, DirType, PhaseOf, GoTo, diskVars, lookVars, copyVars
<1>9. CASE Copied(j)
  BY <1>0, <1>9 DEF Copied, DirType, PhaseOf, GoTo, diskVars, lookVars, copyVars
<1>10. CASE Note(j)
  BY <1>0, <1>10, <1>2 DEF Note, Raise, DirType, PhaseOf, GoTo, diskVars, lookVars, copyVars
<1>11. CASE Rewrite(j)
  BY <1>0, <1>11 DEF Rewrite, DirType, PhaseOf, GoTo, diskVars, lookVars, copyVars
<1>12. CASE Remove(j)
  BY <1>0, <1>12, <1>2 DEF Remove, Raise, DirType, PhaseOf, GoTo, diskVars, lookVars, copyVars
<1>13. CASE RemoveEntry(j)
  BY <1>0, <1>13, <1>2 DEF RemoveEntry, Raise, DirType, PhaseOf, GoTo, diskVars, lookVars, copyVars
<1>14. CASE RemoveDir(j)
  BY <1>0, <1>14, <1>2 DEF RemoveDir, DirType, PhaseOf, GoTo, diskVars, lookVars, copyVars
<1>15. CASE Start(j)
  BY <1>0, <1>15 DEF Start, DirType, PhaseOf, GoTo, diskVars, lookVars, copyVars
<1>16. CASE HostFails(j)
  BY <1>0, <1>16 DEF HostFails, DirType, PhaseOf, GoTo, diskVars, lookVars, copyVars
<1>17. CASE EndTraining(j)
  BY <1>0, <1>17, <1>2 DEF EndTraining, Raise, DirType, PhaseOf, GoTo, diskVars, lookVars, copyVars
<1>18. CASE Kill(j)
  BY <1>0, <1>18, <1>2 DEF Kill, Raise, DirType, PhaseOf, GoTo, diskVars, lookVars, copyVars
<1>19. CASE Age(j)
  BY <1>0, <1>19 DEF Age, DirType, PhaseOf, GoTo, diskVars, lookVars, copyVars
<1> QED BY <1>3, <1>4, <1>5, <1>6, <1>7, <1>8, <1>9, <1>10, <1>11, <1>12, <1>13, <1>14, <1>15, <1>16, <1>17, <1>18, <1>19 DEF Step, Work

-----------------------------------------------------------------------------
(* The lines of the file. *)

\* Who writes or trains is seen by everybody else.
LEMMA Foreign ==
    ASSUME DirType, OwnNames, Locked, NEW j \in Jobs, NEW k \in Jobs \ {j}
    PROVE  /\ Writing(k) => ForeignWrite(j)
           /\ Writing(k) \/ pc[k] = "train" => lockFile # NoFile /\ ForeignLines(j) # {}
PROOF
<1>1. ASSUME NEW x \in {"write", "read"}, Line(k, x) \in lockFile
      PROVE  /\ lockFile # NoFile /\ ForeignLines(j) # {}
             /\ x = "write" => ForeignWrite(j)
  <2>1. ~StartsWith(Line(k, x), j)
    BY DEF StartsWith, Line, OwnNames
  <2>2. Line(k, x).job \notin Dotted /\ ~Line(k, x).old /\ Line(k, x).kind = x
    BY DEF Line, OwnNames
  <2>3. lockFile # NoFile
    BY <1>1 DEF NoFile, Line
  <2> QED BY <1>1, <2>1, <2>2, <2>3 DEF ForeignLines, ForeignWrite
<1> QED BY <1>1 DEF Locked

\* Nobody removes the line of a job that writes or trains.
LEMMA LineKept ==
    ASSUME DirType, OwnNames, Respected, NEW j \in Jobs, Step(j), harm' = {},
           NEW k \in Jobs \ {j}, Writing(k) \/ pc[k] = "train",
           NEW x \in {"write", "read"}, Line(k, x) \in lockFile
    PROVE  Line(k, x) \in lockFile'
PROOF
<1>0. lockFile # NoFile /\ Line(k, x).job = k /\ ~Line(k, x).old
  BY DEF NoFile, Line
<1>1. CASE UNCHANGED lockFile
  BY <1>1
<1>2. CASE Lock(j)
  BY <1>0, <1>1, <1>2 DEF Lock, Raise, diskVars
<1>3. CASE Rewrite(j)
  <2>1. CASE seen[j] = NoFile
    BY <1>1, <1>3, <2>1 DEF Rewrite
  <2>2. CASE seen[j] # NoFile
    <3>1. lockFile' = Kept(j)
      BY <1>3, <2>2 DEF Rewrite
    <3>2. Line(k, x) \in seen[j]
      BY <1>0, <1>3, <2>2 DEF Rewrite
    <3>3. ~StartsWith(Line(k, x), j)
      BY <1>0 DEF StartsWith, OwnNames
    <3> QED BY <3>1, <3>2, <3>3 DEF Kept
  <2> QED BY <2>1, <2>2
<1>4. pc[j] # "rmtree"
  BY DEF Respected, Alone, Spared, Looked
<1>5. CASE Age(j)
  <2>1. [Line(k, x) EXCEPT !.old = @ \/ Line(k, x).job = j] = Line(k, x)
    <3> DEFINE l == Line(k, x)
               m == [l EXCEPT !.old = @ \/ l.job = j]
    <3>1. l \in Lines /\ l.job = k /\ l.kind = x /\ l.old = FALSE
      BY DEF Line, Lines
    <3> HIDE DEF l
    <3>2. m \in Lines /\ m.job = l.job /\ m.kind = l.kind /\ m.old = FALSE
      BY <3>1 DEF Lines
    <3> HIDE DEF m
    <3>3. m = l
      BY <3>1, <3>2 DEF Lines
    <3> QED BY <3>3 DEF m, l
  <2> QED BY <1>5, <2>1 DEF Age
<1> QED
  BY <1>1, <1>2, <1>3, <1>4, <1>5 DEF Step, Work, Wait, Look, Measure, Plan, CopyEnds, Copied, Note, Remove,
     RemoveEntry, RemoveDir, Start, HostFails, EndTraining, Kill, Raise, diskVars

\* What a job comes to write or to train by.
LEMMA Enters ==
    ASSUME DirType, Phases, NEW j \in Jobs, Step(j)
    PROVE  /\ Writing(j)' => (Writing(j) /\ UNCHANGED lockFile) \/ (Lock(j) /\ dir)
           /\ pc'[j] = "train" => (pc[j] = "train" /\ UNCHANGED lockFile) \/ (Rewrite(j) /\ Writing(j))
           /\ pc'[j] = "rewrite" => (pc[j] = "rewrite" /\ UNCHANGED seen) \/ (Note(j) /\ lockFile # NoFile)
PROOF
<1>0. PhaseOf(pc[j], task[j], next[j], futures[j])
  BY DEF Phases
<1>1. ASSUME Reset(j) PROVE pc'[j] = "off"
  BY <1>1 DEF Reset, DirType
<1>2. ASSUME Raise(j) PROVE pc'[j] = "off"
  BY <1>1, <1>2 DEF Raise
<1>3. CASE Wait(j)
  BY <1>0, <1>3 DEF Wait, DirType, PhaseOf, Writing, GoTo, diskVars, lookVars, copyVars, AfterLook
<1>4. CASE Look(j)
  BY <1>0, <1>4, <1>2 DEF Look, DirType, PhaseOf, Writing, GoTo, diskVars, lookVars, copyVars, AfterLook
<1>5. CASE Lock(j)
  BY <1>0, <1>5, <1>2 DEF Lock, DirType, PhaseOf, Writing, GoTo, diskVars, lookVars, copyVars
<1>6. CASE Measure(j)
  BY <1>0, <1>6 DEF Measure, DirType, PhaseOf, Writing, GoTo, diskVars, lookVars, copyVars
<1>7. CASE Plan(j)
  BY <1>0, <1>7 DEF Plan, DirType, PhaseOf, Writing, GoTo, diskVars, lookVars, copyVars
<1>8. CASE CopyEnds(j)
  BY <1>0, <1>8 DEF CopyEnds, DirType, PhaseOf, Writing, GoTo, diskVars, lookVars, copyVars
<1>9. CASE Copied(j)
  BY <1>0, <1>9 DEF Copied, DirType, PhaseOf, Writing, GoTo, diskVars, lookVars, copyVars
<1>10. CASE Note(j)
  BY <1>0, <1>10, <1>2 DEF Note, DirType, PhaseOf, Writing, GoTo, diskVars, lookVars, copyVars
<1>11. CASE Rewrite(j)
  BY <1>0, <1>11 DEF Rewrite, DirType, PhaseOf, Writing, GoTo, diskVars, lookVars, copyVars
<1>12. CASE Remove(j)
  BY <1>0, <1>12, <1>2 DEF Remove, DirType, PhaseOf, Writing, GoTo, diskVars, lookVars, copyVars
<1>13. CASE RemoveEntry(j)
  BY <1>0, <1>13, <1>2 DEF RemoveEntry, DirType, PhaseOf, Writing, GoTo, diskVars, lookVars, copyVars
<1>14. CASE RemoveDir(j)
  BY <1>0, <1>14, <1>1 DEF RemoveDir, DirType, PhaseOf, Writing, GoTo, diskVars, lookVars, copyVars
<1>15. CASE Start(j)
  BY <1>0, <1>15 DEF Start, DirType, PhaseOf, Writing, GoTo, diskVars, lookVars, copyVars
<1>16. CASE HostFails(j)
  BY <1>0, <1>16 DEF HostFails, DirType, PhaseOf, Writing, GoTo, diskVars, lookVars, copyVars
<1>17. CASE EndTraining(j)
  BY <1>0, <1>17, <1>2 DEF EndTraining, DirType, PhaseOf, Writing, GoTo, diskVars, lookVars, copyVars
<1>18. CASE Kill(j)
  BY <1>0, <1>18, <1>2 DEF Kill, DirType, PhaseOf, Writing, GoTo, diskVars, lookVars, copyVars
<1>19. CASE Age(j)
  BY <1>0, <1>19 DEF Age, DirType, PhaseOf, Writing, GoTo, diskVars, lookVars, copyVars
<1> QED BY <1>3, <1>4, <1>5, <1>6, <1>7, <1>8, <1>9, <1>10, <1>11, <1>12, <1>13, <1>14, <1>15, <1>16, <1>17, <1>18, <1>19 DEF Step, Work

LEMMA LockedStep ==
    ASSUME DirType, Phases, OwnNames, Respected, NEW j \in Jobs, Step(j), harm' = {}
    PROVE  Locked'
PROOF
<1>1. ASSUME NEW k \in Jobs \ {j}
      PROVE  /\ Writing(k)' => Line(k, "write") \in lockFile'
             /\ pc'[k] = "train" => Line(k, "read") \in lockFile'
             /\ Writing(k)' /\ pc'[k] = "rewrite" => seen'[k] # NoFile
  <2>1. pc'[k] = pc[k] /\ task'[k] = task[k]
    BY OthersKept DEF OthersSame
  <2>2. Writing(k)' = Writing(k)
    BY <2>1 DEF Writing
  <2>3. ASSUME Writing(k) PROVE seen'[k] = seen[k]
    <3>1. pc[j] # "rmtree"
      BY <2>3 DEF Respected, Alone, Looked
    <3> QED BY <3>1 DEF Step, Work, Wait, Look, Lock, Measure, Plan, CopyEnds, Copied, Note, Rewrite, Remove, RemoveEntry,
                 RemoveDir, Start, HostFails, EndTraining, Kill, Age, Raise, Reset, DirType
  <2> QED BY <2>1, <2>2, <2>3, LineKept DEF Respected, Locked
<1>2. /\ Writing(j)' => Line(j, "write") \in lockFile'
      /\ pc'[j] = "train" => Line(j, "read") \in lockFile'
      /\ Writing(j)' /\ pc'[j] = "rewrite" => seen'[j] # NoFile
  <2>1. CASE Lock(j) /\ Writing(j)'
    <3>1. ~Raise(j)
      BY <2>1 DEF Raise, Reset, Writing, DirType
    <3>2. pc'[j] = "measure"
      BY <2>1, <3>1 DEF Lock, GoTo, DirType
    <3> QED BY <2>1, <3>1, <3>2 DEF Lock
  <2>2. CASE Rewrite(j) /\ Writing(j)
    <3>1. seen[j] # NoFile /\ pc'[j] = "train"
      BY <2>2 DEF Rewrite, Respected, Locked, Writing, GoTo, DirType
    <3> QED BY <2>2, <3>1 DEF Rewrite, Kept, Writing
  <2>3. CASE Note(j) /\ lockFile # NoFile
    <3>1. seen'[j] = lockFile /\ UNCHANGED lockFile /\ task'[j] = task[j] /\ pc'[j] = "rewrite" /\ pc[j] = "note"
      BY <2>3 DEF Note, DirType, GoTo, diskVars
    <3> QED BY <2>3, <3>1 DEF Respected, Locked, Writing
  <2>4. CASE ~Lock(j) /\ ~Rewrite(j) /\ ~Note(j)
    <3>1. /\ Writing(j)' => Writing(j) /\ UNCHANGED lockFile
          /\ pc'[j] = "train" => pc[j] = "train" /\ UNCHANGED lockFile
          /\ pc'[j] = "rewrite" => pc[j] = "rewrite" /\ UNCHANGED seen
      BY <2>4, Enters
    <3> QED BY <3>1 DEF Respected, Locked
  <2>5. CASE Lock(j) /\ ~Writing(j)'
    BY <2>5, Enters DEF Lock, Rewrite, Note
  <2>6. CASE Rewrite(j) /\ ~Writing(j)
    BY <2>6, Enters DEF Lock, Rewrite, Note, Writing
  <2>7. CASE Note(j) /\ lockFile = NoFile
    BY <2>7 DEF Note, Raise, Reset, DirType, Writing
  <2> QED BY <2>1, <2>2, <2>3, <2>4, <2>5, <2>6, <2>7
<1> QED BY <1>1, <1>2 DEF Locked

-----------------------------------------------------------------------------
(* Who is where at a time. *)

\* While a job writes no other one comes to write or to act on the locks, and
\* while a job trains none comes to remove, or to fill the directory without
\* knowing of it.
LEMMA HeldOff ==
    ASSUME DirType, Phases, OwnNames, Respected, NEW j \in Jobs, Step(j), harm' = {}, NEW k \in Jobs \ {j}
    PROVE  /\ Writing(k) => ~Writing(j)' /\ ~Looked(j)'
           /\ pc[k] = "train" =>
                 /\ pc'[j] \notin {"remove", "rmtree"}
                 /\ pc'[j] \in {"lock", "measure", "plan"} => readLocks'[j]
PROOF
<1>0. /\ PhaseOf(pc[j], task[j], next[j], futures[j])
      /\ Writing(k) => ~Writing(j) /\ ~Looked(j)
      /\ pc[k] = "train" => pc[j] \notin {"remove", "rmtree"} /\ (pc[j] \in {"lock", "measure", "plan"} => readLocks[j])
  BY DEF Phases, Respected, Alone, Spared
<1>1. /\ Writing(k) => ForeignWrite(j)
      /\ Writing(k) \/ pc[k] = "train" => lockFile # NoFile /\ ForeignLines(j) # {}
  BY Foreign DEF Respected
<1>2. ASSUME Raise(j) \/ Reset(j) PROVE pc'[j] = "off"
  BY <1>2 DEF Raise, Reset, DirType
<1>3. CASE Wait(j)
  <2> SUFFICES ASSUME Writing(k) \/ pc[k] = "train"
               PROVE  /\ Writing(k) => pc'[j] = "wait" \/ (pc'[j] = "look" /\ task'[j] = "cleanup")
                      /\ pc'[j] \in {"wait", "look"}
    BY DEF Looked, Writing
  <2>1. pc'[j] \in {"wait", "look"}
    BY <1>1, <1>3 DEF Wait, GoTo, DirType
  <2>2. ASSUME Writing(k), pc'[j] # "wait" PROVE task'[j] = "cleanup"
    <3>1. lockFile # NoFile /\ ForeignWrite(j) /\ task' = task
      BY <1>1, <1>3, <2>2 DEF Wait
    <3>2. pc[j] = "wait" /\ ~(tries[j] < MaxTries)
      BY <1>3, <2>2, <3>1 DEF Wait
    <3>3. task[j] # "copy"
      BY <1>3, <2>2, <3>1, <3>2 DEF Wait
    <3> QED BY <3>1, <3>3 DEF DirType
  <2> QED BY <2>1, <2>2
<1>4. CASE Look(j)
  <2> SUFFICES ASSUME Writing(k) \/ pc[k] = "train", ~Raise(j)
               PROVE  task[j] = "copy" /\ pc[j] = "look" /\ pc'[j] = "lock" /\ readLocks'[j]
    BY <1>0, <1>2 DEF Looked, Writing
  <2>1. task[j] # "cleanup" /\ readLocks' = [readLocks EXCEPT ![j] = ForeignLines(j) # {}] /\ GoTo(j, AfterLook(j))
    BY <1>1, <1>4 DEF Look
  <2> QED BY <1>1, <1>4, <2>1 DEF Look, GoTo, AfterLook, DirType
<1>5. CASE UNCHANGED <<pc, task, readLocks>>
  BY <1>0, <1>5 DEF Writing, Looked
<1>6. CASE Lock(j)
  BY <1>0, <1>6, <1>2 DEF Lock, DirType, PhaseOf, Writing, Looked, GoTo, diskVars, lookVars, copyVars
<1>7. CASE Measure(j)
  BY <1>0, <1>7 DEF Measure, DirType, PhaseOf, Writing, Looked, GoTo, diskVars, lookVars, copyVars
<1>8. CASE Copied(j)
  BY <1>0, <1>8 DEF Copied, DirType, PhaseOf, Writing, Looked, GoTo, diskVars, lookVars, copyVars
<1>9. CASE Note(j)
  BY <1>0, <1>9, <1>2 DEF Note, DirType, PhaseOf, Writing, Looked, GoTo, diskVars, lookVars, copyVars
<1>10. CASE Rewrite(j)
  BY <1>0, <1>10 DEF Rewrite, DirType, PhaseOf, Writing, Looked, GoTo, diskVars, lookVars, copyVars
<1>11. CASE Remove(j)
  BY <1>0, <1>11, <1>2 DEF Remove, DirType, PhaseOf, Writing, Looked, GoTo, diskVars, lookVars, copyVars
<1>12. CASE RemoveEntry(j)
  BY <1>0, <1>12, <1>2 DEF RemoveEntry, DirType, PhaseOf, Writing, Looked, GoTo, diskVars, lookVars, copyVars
<1>13. CASE RemoveDir(j)
  BY <1>0, <1>13, <1>2 DEF RemoveDir, DirType, PhaseOf, Writing, Looked, GoTo, diskVars, lookVars, copyVars
<1>14. CASE Start(j)
  BY <1>0, <1>14 DEF Start, DirType, PhaseOf, Writing, Looked, GoTo, diskVars, lookVars, copyVars
<1>15. CASE EndTraining(j)
  BY <1>0, <1>15, <1>2 DEF EndTraining, DirType, PhaseOf, Writing, Looked, GoTo, diskVars, lookVars, copyVars
<1>16. CASE Kill(j)
  BY <1>0, <1>16, <1>2 DEF Kill, DirType, PhaseOf, Writing, Looked, GoTo, diskVars, lookVars, copyVars
<1> QED BY <1>3, <1>4, <1>5, <1>6, <1>7, <1>8, <1>9, <1>10, <1>11, <1>12, <1>13, <1>14, <1>15, <1>16
    DEF Step, Work, Plan, CopyEnds, HostFails, Age, lookVars

LEMMA AloneStep ==
    ASSUME DirType, Phases, OwnNames, Respected, NEW j \in Jobs, Step(j), harm' = {}
    PROVE  Alone'
PROOF
<1>1. ASSUME NEW k \in Jobs \ {j} PROVE Writing(k)' = Writing(k) /\ Looked(k)' = Looked(k)
  BY OthersKept DEF OthersSame, Writing, Looked
<1> SUFFICES ASSUME NEW k \in Jobs, Writing(k)', NEW i \in Jobs \ {k}
             PROVE  ~Writing(i)' /\ ~Looked(i)'
  BY DEF Alone
<1>2. CASE k # j /\ i # j
  BY <1>1, <1>2 DEF Respected, Alone
<1>3. CASE k # j /\ i = j
  BY <1>1, <1>3, HeldOff
<1>4. CASE k = j /\ Writing(j)
  BY <1>1, <1>4 DEF Respected, Alone
<1>5. CASE k = j /\ ~Writing(j)
  <2>1. Lock(j)
    BY <1>5, Enters
  <2>2. ~Looked(i)
    <3>1. ~Raise(j)
      BY <1>5 DEF Raise, Reset, Writing, DirType
    <3> QED BY <1>5, <2>1, <3>1 DEF Lock
  <2>3. Looked(j)
    BY <2>1 DEF Lock, Looked
  <2> QED BY <1>1, <1>5, <2>2, <2>3 DEF Respected, Alone
<1> QED BY <1>2, <1>3, <1>4, <1>5

-----------------------------------------------------------------------------
(* The datasets. *)

\* While a job writes no other one touches the directory; while it trains none
\* takes away what it uses.
LEMMA DataKept ==
    ASSUME DirType, Phases, Respected, NEW j \in Jobs, Step(j), NEW k \in Jobs \ {j}
    PROVE  /\ Writing(k) => UNCHANGED data
           /\ pc[k] = "train" => \A f \in DatasetsOf(k) : data'[f] # "none"
           /\ (Writing(k) \/ pc[k] = "train") /\ dir => dir'
PROOF
<1> SUFFICES ASSUME Writing(k) \/ pc[k] = "train"
             PROVE  /\ Writing(k) => UNCHANGED data
                    /\ pc[k] = "train" => \A f \in DatasetsOf(k) : data'[f] # "none"
                    /\ dir => dir'
  OBVIOUS
<1>0. /\ PhaseOf(pc[j], task[j], next[j], futures[j])
      /\ pc[j] # "rmtree"
      /\ Writing(k) => ~Writing(j)
      /\ pc[k] = "train" => /\ \A f \in DatasetsOf(k) : data[f] # "none"
                            /\ pc[j] = "plan" => readLocks[j]
                            /\ \A c \in futures[j] : c[2] => c[1] \notin DatasetsOf(k)
  BY DEF Phases, Respected, Alone, Spared, Present, Looked
<1>1. pc[j] = "plan" => Writing(j) /\ pc[k] = "train" /\ dir
  BY <1>0 DEF PhaseOf, Writing, DirType, Respected, Present
<1>2. CASE UNCHANGED <<dir, data>> \/ Start(j)
  BY <1>0, <1>2 DEF Start
<1>3. CASE Plan(j)
  <2>1. LinkOrCheck(j, Files[j][next[j]]) \/ Copy(j, Files[j][next[j]])
    BY <1>3 DEF Plan
  <2>2. pc[k] = "train" /\ dir /\ readLocks[j] /\ dir' = dir /\ ~Writing(k)
    BY <1>0, <1>1, <1>3 DEF Plan
  <2>3. ASSUME NEW f \in DatasetsOf(k) PROVE data'[f] # "none"
    <3>1. f \in Datasets /\ data[f] # "none"
      BY <1>0, <2>2, DatasetNames
    <3> QED BY <2>1, <2>2, <3>1 DEF LinkOrCheck, Copy, DirType
  <2> QED BY <2>2, <2>3
<1>4. CASE CopyEnds(j) \/ HostFails(j)
  <2>1. PICK c \in futures[j] :
            \/ c[2] /\ data' = [data EXCEPT ![c[1]] = "none"]
            \/ \E how \in {"copy", "link"} : data' = [data EXCEPT ![c[1]] = IF dir THEN how ELSE "none"]
    BY <1>4 DEF CopyEnds, HostFails
  <2>2. pc[j] = "plan" /\ dir' = dir
    BY <1>0, <1>4, <2>1 DEF PhaseOf, CopyEnds, HostFails
  <2>3. pc[k] = "train" /\ dir /\ ~Writing(k)
    BY <1>0, <1>1, <2>2
  <2>4. ASSUME NEW f \in DatasetsOf(k) PROVE data'[f] # "none"
    <3>1. f \in Datasets /\ data[f] # "none" /\ (c[2] => c[1] # f)
      BY <1>0, <2>3, DatasetNames
    <3> QED BY <2>1, <2>3, <3>1 DEF DirType
  <2> QED BY <2>2, <2>3, <2>4
<1> QED
  BY <1>0, <1>2, <1>3, <1>4 DEF Step, Work, Wait, Look, Lock, Measure, Copied, Note, Rewrite, Remove, RemoveEntry,
     RemoveDir, EndTraining, Kill, Age, Raise, diskVars

LEMMA SparedStep ==
    ASSUME DirType, Phases, OwnNames, Respected, NEW j \in Jobs, Step(j), harm' = {}, Phases'
    PROVE  Spared'
PROOF
<1> SUFFICES ASSUME NEW k \in Jobs, pc'[k] = "train", NEW i \in Jobs \ {k}
             PROVE  /\ pc'[i] \notin {"remove", "rmtree"}
                    /\ pc'[i] \in {"lock", "measure", "plan"} => readLocks'[i]
                    /\ \A c \in futures'[i] : c[2] => c[1] \notin DatasetsOf(k)
  BY DEF Spared
<1>0. OthersSame(j)
  BY OthersKept
<1>1. CASE k # j /\ i # j
  BY <1>0, <1>1 DEF OthersSame, Respected, Spared
<1>2. CASE k = j /\ pc[j] = "train"
  BY <1>0, <1>2 DEF OthersSame, Respected, Spared
<1>3. CASE k = j /\ pc[j] # "train"
  <2>1. Writing(j)
    BY <1>3, Enters
  <2>2. ~Writing(i) /\ ~Looked(i) /\ PhaseOf(pc[i], task[i], next[i], futures[i])
    BY <1>3, <2>1 DEF Respected, Alone, Phases
  <2>3. pc[i] \notin {"remove", "rmtree", "lock", "measure", "plan"} /\ futures[i] = {}
    BY <2>2 DEF PhaseOf, Writing, Looked, DirType
  <2> QED BY <1>0, <1>3, <2>3 DEF OthersSame
<1>4. CASE k # j /\ i = j
  <2>1. pc[k] = "train"
    BY <1>0, <1>4 DEF OthersSame
  <2>2. \A c \in futures'[j] : c[2] => c[1] \notin DatasetsOf(k)
    <3>0. /\ \A c \in futures[j] : c[2] => c[1] \notin DatasetsOf(k)
          /\ pc[j] = "plan" => readLocks[j]
          /\ \A f \in DatasetsOf(k) : data[f] # "none"
      BY <1>4, <2>1 DEF Respected, Spared, Present
    <3>1. CASE Plan(j)
      <4> DEFINE f == Files[j][next[j]]
      <4>1. LinkOrCheck(j, f) \/ Copy(j, f)
        BY <3>1 DEF Plan
      <4>2. readLocks[j]
        BY <3>0, <3>1 DEF Plan
      <4> HIDE DEF f
      <4>3. \/ UNCHANGED futures \/ Submit(j, f, FALSE)
            \/ Submit(j, f, TRUE) /\ data[f] = "none"
        BY <4>1, <4>2 DEF LinkOrCheck, Copy
      <4>4. ASSUME NEW b \in BOOLEAN, Submit(j, f, b), b => data[f] = "none", NEW c \in futures'[j], c[2]
            PROVE  c[1] \notin DatasetsOf(k)
        <5>1. futures'[j] = futures[j] \cup {<<f, b>>}
          BY <4>4 DEF Submit, DirType
        <5>2. CASE c \in futures[j]
          BY <3>0, <4>4, <5>2
        <5>3. CASE c = <<f, b>>
          <6>1. c[1] = f /\ c[2] = b
            BY <5>3
          <6> QED BY <3>0, <4>4, <6>1
        <5> QED BY <4>4, <5>1, <5>2, <5>3
      <4>5. CASE UNCHANGED futures
        BY <3>0, <4>5
      <4> QED BY <4>3, <4>4, <4>5
    <3>2. CASE futures'[j] \subseteq futures[j]
      BY <3>0, <3>2
    <3>3. ASSUME Reset(j) PROVE futures'[j] = {}
      BY <3>3 DEF Reset, DirType
    <3>4. CASE CopyEnds(j)
      BY <3>2, <3>4 DEF CopyEnds, DirType
    <3> QED
      BY <3>1, <3>2, <3>3, <3>4 DEF Step, Work, Wait, Look, Lock, Measure, Copied, Note, Rewrite, Remove,
         RemoveEntry, RemoveDir, Start, HostFails, EndTraining, Kill, Age, Raise, copyVars
  <2> QED BY <1>4, <2>1, <2>2, HeldOff
<1> QED BY <1>1, <1>2, <1>3, <1>4

\* The job itself finds what it has visited, until it trains.
LEMMA PresentStep ==
    ASSUME DirType, Phases, OwnNames, Respected, NEW j \in Jobs, Step(j), harm' = {}, DirType', Phases'
    PROVE  Present'
PROOF
<1> DEFINE V(k, i) == data[Files[k][i]] # "none" \/ \E c \in futures[k] : c[1] = Files[k][i]
<1>0. OthersSame(j)
  BY OthersKept
<1>1. ASSUME NEW k \in Jobs \ {j}
      PROVE  /\ Writing(k)' \/ pc'[k] = "train" => dir'
             /\ pc'[k] = "plan" =>
                   \A i \in 1 .. next'[k] - 1 :
                       data'[Files[k][i]] # "none" \/ \E c \in futures'[k] : c[1] = Files[k][i]
             /\ (Writing(k)' /\ pc'[k] \in {"note", "rewrite"}) \/ pc'[k] = "train" =>
                   \A f \in DatasetsOf(k) : data'[f] # "none"
  <2>1. /\ pc'[k] = pc[k] /\ task'[k] = task[k] /\ next'[k] = next[k] /\ futures'[k] = futures[k]
        /\ Writing(k)' = Writing(k)
    BY <1>0 DEF OthersSame, Writing
  <2>2. pc[k] = "plan" => Writing(k)
    <3>1. PhaseOf(pc[k], task[k], next[k], futures[k])
      BY DEF Phases
    <3> QED BY <3>1 DEF PhaseOf, Writing, DirType
  <2> QED BY <2>1, <2>2, DataKept DEF Respected, Present
<1>2. Writing(j)' \/ pc'[j] = "train" => dir'
  <2>1. Writing(j)' \/ pc'[j] = "train" => dir
    BY Enters DEF Respected, Present
  <2>2. ASSUME Reset(j) PROVE ~Writing(j)' /\ pc'[j] # "train"
    BY <2>2 DEF Reset, Writing, DirType
  <2>3. dir' = dir \/ dir' = TRUE \/ Reset(j)
    BY DEF Step, Work, Wait, Look, Lock, Measure, Plan, CopyEnds, Copied, Note, Rewrite, Remove, RemoveEntry,
       RemoveDir, Start, HostFails, EndTraining, Kill, Age, Raise, diskVars
  <2> QED BY <2>1, <2>2, <2>3
<1>3. ASSUME pc'[j] = "plan", NEW i \in 1 .. next'[j] - 1
      PROVE  data'[Files[j][i]] # "none" \/ \E c \in futures'[j] : c[1] = Files[j][i]
  <2>1. ASSUME Raise(j) \/ Reset(j) PROVE FALSE
    BY <1>3, <2>1 DEF Raise, Reset, DirType
  <2>2. CASE Measure(j)
    <3>1. next'[j] = 1
      BY <2>2 DEF Measure, Phases, PhaseOf
    <3> QED BY <1>3, <3>1
  <2>3. CASE pc[j] = "plan" /\ UNCHANGED <<data, next, futures>>
    BY <1>3, <2>3 DEF Respected, Present
  <2>4. CASE Plan(j)
    <3> DEFINE n == next[j]
               f == Files[j][n]
    <3>1. n \in Nat \ {0} /\ next'[j] = n + 1 /\ n \in 1 .. Len(Files[j]) /\ pc[j] = "plan" /\ dir
      BY <2>4, DataDirAssumption DEF Plan, DirType, Respected, Present, Phases, PhaseOf, Writing
    <3>2. LinkOrCheck(j, f) \/ Copy(j, f)
      BY <2>4 DEF Plan
    <3>3. f \in Datasets
      BY <3>1, Visited, DatasetNames
    <3>4. i \in 1 .. n - 1 \/ i = n
      BY <1>3, <3>1
    <3>5. i \in 1 .. n - 1 => V(j, i)
      BY <3>1 DEF Respected, Present
    <3> HIDE DEF f, n
    <3>6. data'[f] # "none" \/ \E c \in futures'[j] : c[1] = f
      <4>1. ASSUME NEW b \in BOOLEAN, Submit(j, f, b) PROVE \E c \in futures'[j] : c[1] = f
        <5>1. <<f, b>> \in futures'[j] /\ <<f, b>>[1] = f
          BY <4>1 DEF Submit, DirType
        <5> QED BY <5>1
      <4>2. CASE LinkOrCheck(j, f)
        BY <3>1, <3>3, <4>1, <4>2 DEF LinkOrCheck, DirType
      <4>3. CASE Copy(j, f)
        BY <3>3, <4>1, <4>3 DEF Copy, DirType
      <4> QED BY <3>2, <4>2, <4>3
    <3>7. futures[j] \subseteq futures'[j] /\ \A g \in Datasets \ {f} : data'[g] = data[g]
      <4>1. \A g \in Datasets \ {f} : data'[g] = data[g]
        BY <3>2 DEF LinkOrCheck, Copy, DirType
      <4>2. UNCHANGED futures \/ \E b \in BOOLEAN : Submit(j, f, b)
        BY <3>2 DEF LinkOrCheck, Copy
      <4>3. futures[j] \subseteq futures'[j]
        BY <4>2 DEF Submit, DirType
      <4> QED BY <4>1, <4>3
    <3>8. CASE i \in 1 .. n - 1
      <4>1. Files[j][i] \in Datasets
        BY <3>1, <3>8, Visited, DatasetNames
      <4> QED BY <3>5, <3>6, <3>7, <3>8, <4>1
    <3>9. CASE i = n
      BY <3>6, <3>9 DEF f
    <3> QED BY <3>4, <3>8, <3>9
  <2>5. CASE HostFails(j) \/ CopyEnds(j)
    <3>1. PICK c \in futures[j] :
              \/ HostFails(j) /\ data' = [data EXCEPT ![c[1]] = "none"]
              \/ \E how \in {"copy", "link"} : data' = [data EXCEPT ![c[1]] = IF dir THEN how ELSE "none"]
                     /\ futures' = [futures EXCEPT ![j] = @ \ {c}]
      BY <2>5 DEF HostFails, CopyEnds
    <3>2. pc[j] = "plan" /\ next'[j] = next[j] /\ dir /\ c[1] \in Datasets
      BY <2>5, <3>1 DEF HostFails, CopyEnds, copyVars, DirType, Respected, Present, Phases, PhaseOf, Writing
    <3>3. V(j, i)
      BY <1>3, <3>2 DEF Respected, Present
    <3>4. CASE HostFails(j) /\ data' = [data EXCEPT ![c[1]] = "none"]
      <4>1. futures'[j] = futures[j]
        BY <3>4 DEF HostFails, copyVars
      <4> QED BY <3>1, <3>3, <3>4, <4>1 DEF DirType
    <3>5. CASE \E how \in {"copy", "link"} : data' = [data EXCEPT ![c[1]] = IF dir THEN how ELSE "none"]
                     /\ futures' = [futures EXCEPT ![j] = @ \ {c}]
      <4>1. futures'[j] = futures[j] \ {c} /\ data'[c[1]] # "none" /\ \A g \in Datasets \ {c[1]} : data'[g] = data[g]
        BY <3>2, <3>5 DEF DirType
      <4>2. Files[j][i] # c[1] => data'[Files[j][i]] = data[Files[j][i]]
        BY <3>5 DEF DirType
      <4> QED BY <3>3, <4>1, <4>2
    <3> QED BY <3>1, <3>4, <3>5
  <2> QED
    BY <1>3, <2>1, <2>2, <2>3, <2>4, <2>5 DEF Step, Work, Wait, Look, Lock, Copied, Note, Rewrite, Remove, RemoveEntry,
       RemoveDir, Start, EndTraining, Kill, Age, GoTo, AfterLook, diskVars, copyVars, DirType
<1>4. ASSUME (Writing(j)' /\ pc'[j] \in {"note", "rewrite"}) \/ pc'[j] = "train", NEW f \in DatasetsOf(j)
      PROVE  data'[f] # "none"
  <2>1. ASSUME Raise(j) \/ Reset(j) PROVE FALSE
    BY <1>4, <2>1 DEF Raise, Reset, DirType
  <2>2. CASE Copied(j)
    <3>1. /\ pc[j] = "plan" /\ next[j] > Len(Files[j]) /\ futures[j] = {} /\ data' = data
          /\ next[j] \in Nat /\ Len(Files[j]) \in Nat /\ DOMAIN Files[j] = 1 .. Len(Files[j])
      BY <2>2, DataDirAssumption DEF Copied, diskVars, DirType
    <3>2. PICK i \in 1 .. Len(Files[j]) : f = Files[j][i]
      BY <1>4, <3>1 DEF DatasetsOf
    <3>3. i \in 1 .. next[j] - 1
      BY <3>1
    <3> QED BY <3>1, <3>2, <3>3 DEF Respected, Present
  <2>3. CASE UNCHANGED data /\ ((Writing(j) /\ pc[j] \in {"note", "rewrite"}) \/ pc[j] = "train")
    BY <2>3 DEF Respected, Present
  <2>4. CASE Note(j)
    <3>1. pc[j] = "note" /\ task' = task /\ data' = data /\ pc'[j] = "rewrite"
      BY <2>1, <2>4 DEF Note, GoTo, diskVars, DirType
    <3>2. Writing(j)
      BY <1>4, <3>1 DEF Writing
    <3> QED BY <2>3, <3>1, <3>2
  <2>5. CASE Rewrite(j)
    <3>1. pc[j] = "rewrite" /\ task' = task /\ data' = data
      BY <2>5 DEF Rewrite
    <3>2. task[j] = "copy"
      BY <1>4, <2>5, <3>1 DEF Rewrite, GoTo, Writing, DirType
    <3> QED BY <2>3, <3>1, <3>2 DEF Writing
  <2>6. CASE EndTraining(j)
    BY <1>4, <2>1, <2>6 DEF EndTraining, GoTo, Writing, DirType
  <2>7. CASE UNCHANGED <<pc, task>>
    <3>1. pc[j] # "plan" /\ futures[j] = {}
      BY <1>4, <2>7 DEF Phases, PhaseOf
    <3>2. pc[j] # "rmtree"
      BY <1>4, <2>7
    <3>3. UNCHANGED data
      BY <2>1, <3>1, <3>2 DEF Step, Work, Wait, Look, Lock, Measure, Plan, CopyEnds, Copied, Note, Rewrite, Remove,
         RemoveEntry, RemoveDir, Start, HostFails, EndTraining, Kill, Age, diskVars
    <3> QED BY <1>4, <2>3, <2>7, <3>3 DEF Writing
  <2>8. CASE Wait(j) \/ Look(j) \/ Lock(j) \/ Measure(j) \/ Remove(j) \/ Start(j)
    <3>1. CASE Wait(j) \/ Look(j)
      <4>1. pc[j] \in {"wait", "look"} /\ ~Raise(j)
        BY <2>1, <3>1 DEF Wait, Look
      <4>2. pc' = pc \/ GoTo(j, "look") \/ GoTo(j, AfterLook(j))
        BY <3>1, <4>1 DEF Wait, Look
      <4>3. pc'[j] \in {"wait", "look", "lock", "remove"}
        BY <4>1, <4>2 DEF GoTo, AfterLook, DirType
      <4> QED BY <1>4, <4>3 DEF Writing
    <3>2. CASE Lock(j) \/ Measure(j) \/ Remove(j) \/ Start(j)
      BY <1>4, <2>1, <3>2 DEF Lock, Measure, Remove, Start, GoTo, DirType
    <3> QED BY <2>8, <3>1, <3>2
  <2> QED
    BY <2>1, <2>2, <2>4, <2>5, <2>6, <2>7, <2>8 DEF Step, Work, Plan, CopyEnds, RemoveEntry, RemoveDir, HostFails, Kill, Age
<1> QED BY <1>1, <1>2, <1>3, <1>4 DEF Present

-----------------------------------------------------------------------------
(* What holds of every node. *)

LEMMA DirInit == Init => DirInv
PROOF
<1> SUFFICES ASSUME Init PROVE DirInv
  OBVIOUS
<1>1. DirType
  <2>1. {} \in LockFiles /\ NoFile \in LockFiles
    BY Zenon DEF LockFiles
  <2>2. lockFile \in LockFiles /\ seen \in [Jobs -> LockFiles]
    BY <2>1 DEF Init
  <2>3. /\ dir \in BOOLEAN /\ data \in [Datasets -> {"none", "link", "copy"}]
    BY DEF Init
  <2>7. tries \in [Jobs -> Nat] /\ next \in [Jobs -> Nat \ {0}]
    <3>1. tries = [j \in Jobs |-> 0] /\ next = [j \in Jobs |-> 1]
      BY DEF Init
    <3> QED BY <3>1
  <2>6. futures \in [Jobs -> SUBSET (Datasets \X BOOLEAN)]
    <3>1. futures = [j \in Jobs |-> {}]
      BY DEF Init
    <3> QED BY <3>1
  <2>4. /\ task \in [Jobs -> {"copy", "cleanup"}]
        /\ readLocks \in [Jobs -> BOOLEAN] /\ writeLocks \in [Jobs -> BOOLEAN]
    BY DEF Init
  <2>5. pc = [j \in Jobs |-> "off"]
    BY DEF Init
  <2> QED BY <2>2, <2>3, <2>4, <2>5, <2>6, <2>7 DEF DirType
<1>2. Phases
  BY DEF Init, Phases, PhaseOf
<1>3. \A k \in Jobs : pc[k] = "off" /\ ~Writing(k)
  BY DEF Init, Writing
<1>4. Respected
  BY <1>3 DEF Respected, Locked, Alone, Spared, Present
<1> QED BY <1>1, <1>2, <1>4 DEF DirInv

LEMMA DirStep ==
    ASSUME OwnNames, DirInv, [Next]_vars
    PROVE  DirInv'
PROOF
<1>1. CASE UNCHANGED vars
  BY <1>1 DEF vars, diskVars, lookVars, copyVars, DirInv, DirType, Phases, Respected, Locked, Alone, Spared, Present,
     Writing, Looked
<1>2. ASSUME NEW j \in Jobs, Step(j) PROVE DirInv'
  <2>1. DirType' /\ Phases'
    BY <1>2, TypeStep, PhasesStep DEF DirInv
  <2>2. harm \subseteq harm'
    BY <1>2 DEF Step, Work, Wait, Look, Lock, Measure, Plan, CopyEnds, Copied, Note, Rewrite, Remove, RemoveEntry,
       RemoveDir, Start, HostFails, EndTraining, Kill, Age, Raise
  <2>3. ASSUME harm' = {} PROVE Respected'
    <3>1. Respected
      BY <2>2, <2>3 DEF DirInv
    <3> QED BY <1>2, <2>1, <2>3, <3>1, LockedStep, AloneStep, SparedStep, PresentStep DEF DirInv, Respected
  <2> QED BY <2>1, <2>3 DEF DirInv
<1> QED BY <1>1, <1>2 DEF Next, Step

\* The lines of .lock and what each job knows of them, at every moment of the
\* life of a node, for any jobs, datasets and kills.
THEOREM DirInvariant == OwnNames => (Spec => []DirInv)
PROOF
<1> SUFFICES ASSUME OwnNames PROVE Spec => []DirInv
  OBVIOUS
<1>1. DirInv /\ [Next]_vars => DirInv'
  BY DirStep
<1>2. Spec => Init /\ [][Next]_vars
  BY PTL DEF Spec
<1> QED BY <1>1, <1>2, DirInit, PTL

\* No two jobs fill the directory at a time, unless they raced.
THEOREM WritersAloneHolds == OwnNames => (Spec => []WritersAlone)
PROOF
<1> SUFFICES ASSUME OwnNames PROVE Spec => []WritersAlone
  OBVIOUS
<1>1. DirInv => WritersAlone
  <2> SUFFICES ASSUME DirInv, harm = {} PROVE Cardinality({k \in Jobs : Writing(k)}) <= 1
    BY DEF WritersAlone
  <2> DEFINE W == {k \in Jobs : Writing(k)}
  <2>1. \A j, k \in W : j = k
    BY DEF DirInv, Respected, Alone
  <2> HIDE DEF W
  <2>2. ASSUME W = {} PROVE Cardinality(W) \in {0, 1}
    BY <2>2, FS_EmptySet
  <2>3. ASSUME W # {} PROVE Cardinality(W) \in {0, 1}
    <3>1. PICK k \in W : W = {k}
      BY <2>1, <2>3
    <3> QED BY <3>1, FS_Singleton
  <2>4. Cardinality(W) <= 1
    <3>1. \A n \in {0, 1} : n <= 1
      OBVIOUS
    <3> QED BY <2>2, <2>3, <3>1
  <2> QED BY <2>4 DEF W
<1> QED BY <1>1, DirInvariant, PTL

\* A job that trains finds all its datasets, whatever the others copy, link and
\* clean up, unless jobs raced.
THEOREM ReadersKeepFilesHolds == OwnNames => (Spec => []ReadersKeepFiles)
PROOF
<1> SUFFICES ASSUME OwnNames PROVE Spec => []ReadersKeepFiles
  OBVIOUS
<1>1. DirInv => ReadersKeepFiles
  BY DEF DirInv, Respected, Present, ReadersKeepFiles
<1> QED BY <1>1, DirInvariant, PTL

-----------------------------------------------------------------------------
(* Sums of sizes.  MapThenSumSet takes one element after the other out of a *)
(* set, the one CHOOSE gives; what it sums up to does not depend on which.  *)

SizeOf(S) == MapThenSumSet(LAMBDA f : Size[f], S)

\* What the recursion says, for the subsets of S.
Some(s) == CHOOSE x \in s : TRUE
Sums(g, S) ==
    g = [s \in SUBSET S |-> IF s = {} THEN 0 ELSE Size[Some(s)] + g[s \ {Some(s)}]]

LEMMA SizeOfDef == \A S : SizeOf(S) = (CHOOSE g : Sums(g, S))[S]
PROOF BY DEF SizeOf, MapThenSumSet, MapThenFoldSet, Sums, Some

LEMMA SumsAt ==
    ASSUME NEW g, NEW S, NEW s \in SUBSET S, Sums(g, S)
    PROVE  g[s] = IF s = {} THEN 0 ELSE Size[Some(s)] + g[s \ {Some(s)}]
PROOF BY DEF Sums

LEMMA LeastOf ==
    ASSUME NEW T, T \subseteq Nat, T # {}
    PROVE  \E x \in T : \A y \in T : x <= y
PROOF
<1>1. \E x \in T : \A y \in T : <<y, x>> \notin OpToRel(<, Nat)
  BY NatLessThanWellFounded, WFMin
<1>2. PICK x \in T : \A y \in T : <<y, x>> \notin OpToRel(<, Nat)
  BY <1>1
<1>3. \A y \in T : ~(y < x)
  BY <1>2 DEF OpToRel
<1> QED BY <1>3

\* Of some finite sets there is one that is no longer among them when an
\* element is taken out of it.
LEMMA Minimal ==
    ASSUME NEW F, F # {}, \A A \in F : IsFiniteSet(A)
    PROVE  \E A \in F : \A x \in A : A \ {x} \notin F
PROOF
<1> DEFINE T == {n \in Nat : \E A \in F : Cardinality(A) = n}
<1>1. PICK n \in T : \A m \in T : n <= m
  <2>1. T # {}
    <3>1. PICK A \in F : TRUE
      OBVIOUS
    <3>2. Cardinality(A) \in Nat
      BY FS_CardinalityType
    <3> QED BY <3>1, <3>2
  <2>2. T \subseteq Nat
    OBVIOUS
  <2> HIDE DEF T
  <2> QED BY <2>1, <2>2, LeastOf
<1>2. PICK A \in F : Cardinality(A) = n
  BY <1>1
<1>3. ASSUME NEW x \in A, A \ {x} \in F PROVE FALSE
  <2>1. Cardinality(A \ {x}) = n - 1
    BY <1>2, <1>3, FS_RemoveElement
  <2>2. Cardinality(A \ {x}) \in Nat
    BY <1>3, FS_CardinalityType
  <2>3. n - 1 \in T
    BY <1>3, <2>1, <2>2
  <2> QED BY <1>1, <2>1, <2>3
<1> QED BY <1>2, <1>3

LEMMA Parts ==
    ASSUME NEW S, IsFiniteSet(S)
    PROVE  \A A \in SUBSET S : IsFiniteSet(A)
PROOF BY FS_Subset

LEMMA SomeOf == \A s : s # {} => Some(s) \in s
PROOF BY DEF Some

\* Two solutions agree on the sets both know.
LEMMA SumsUnique ==
    ASSUME NEW g, NEW h, NEW S, NEW T, Sums(g, S), Sums(h, T),
           NEW U \in SUBSET (S \cap T), IsFiniteSet(U)
    PROVE  g[U] = h[U]
PROOF
<1> DEFINE F == {A \in SUBSET U : g[A] # h[A]}
<1> SUFFICES ASSUME F # {} PROVE FALSE
  OBVIOUS
<1>1. PICK A \in F : \A x \in A : A \ {x} \notin F
  <2>1. \A B \in F : IsFiniteSet(B)
    BY Parts
  <2> HIDE DEF F
  <2> QED BY <2>1, Minimal
<1>2. /\ g[A] = IF A = {} THEN 0 ELSE Size[Some(A)] + g[A \ {Some(A)}]
      /\ h[A] = IF A = {} THEN 0 ELSE Size[Some(A)] + h[A \ {Some(A)}]
  <2>1. A \in SUBSET S /\ A \in SUBSET T
    BY <1>1
  <2> HIDE DEF F
  <2> QED BY <2>1, SumsAt
<1>3. A # {} => g[A \ {Some(A)}] = h[A \ {Some(A)}]
  BY <1>1, SomeOf
<1> QED BY <1>1, <1>2, <1>3

\* The recursion has a solution for every finite set.
LEMMA SumsExists ==
    ASSUME NEW S, IsFiniteSet(S)
    PROVE  \E g : Sums(g, S)
PROOF
<1> DEFINE F == {A \in SUBSET S : ~ \E g : Sums(g, A)}
<1> SUFFICES ASSUME F # {} PROVE FALSE
  OBVIOUS
<1>1. PICK A \in F : \A x \in A : A \ {x} \notin F
  <2>1. \A B \in F : IsFiniteSet(B)
    BY Parts
  <2> HIDE DEF F
  <2> QED BY <2>1, Minimal
<1>2. A \in SUBSET S /\ IsFiniteSet(A)
  BY <1>1, Parts
<1> DEFINE G(x) == CHOOSE g : Sums(g, A \ {x})
           Left(s) == CHOOSE x \in A : x \notin s
           h == [s \in SUBSET A |->
                    IF s = A THEN IF A = {} THEN 0 ELSE Size[Some(A)] + G(Some(A))[A \ {Some(A)}]
                    ELSE G(Left(s))[s]]
<1>3. ASSUME NEW x \in A PROVE Sums(G(x), A \ {x})
  <2>1. \E g : Sums(g, A \ {x})
    BY <1>1, <1>2
  <2> QED BY <2>1
<1>4. ASSUME NEW s \in SUBSET A, s # A PROVE Left(s) \in A /\ Left(s) \notin s
  BY <1>4
<1>5. ASSUME NEW s \in SUBSET A
      PROVE  h[s] = IF s = {} THEN 0 ELSE Size[Some(s)] + h[s \ {Some(s)}]
  <2>1. ASSUME NEW x \in A, NEW t \in SUBSET A, x \notin t PROVE h[t] = G(x)[t]
    <3>1. t # A /\ h[t] = G(Left(t))[t] /\ Left(t) \in A /\ Left(t) \notin t
      BY <1>4, <2>1
    <3>2. Sums(G(x), A \ {x}) /\ Sums(G(Left(t)), A \ {Left(t)})
      BY <1>3, <3>1
    <3>3. t \in SUBSET ((A \ {x}) \cap (A \ {Left(t)}))
      BY <2>1, <3>1
    <3>4. IsFiniteSet(t)
      BY <1>2, Parts
    <3> HIDE DEF G, Left, h
    <3>5. G(x)[t] = G(Left(t))[t]
      BY <3>2, <3>3, <3>4, SumsUnique
    <3> QED BY <3>1, <3>5
  <2>2. CASE s = A
    <3>1. A # {} => h[A \ {Some(A)}] = G(Some(A))[A \ {Some(A)}]
      <4> SUFFICES ASSUME A # {} PROVE h[A \ {Some(A)}] = G(Some(A))[A \ {Some(A)}]
        OBVIOUS
      <4>1. Some(A) \in A /\ A \ {Some(A)} \in SUBSET A /\ Some(A) \notin A \ {Some(A)}
        BY SomeOf
      <4> HIDE DEF G, Left, h
      <4> QED BY <2>1, <4>1
    <3>2. h[A] = IF A = {} THEN 0 ELSE Size[Some(A)] + G(Some(A))[A \ {Some(A)}]
      OBVIOUS
    <3> HIDE DEF h, G
    <3> QED BY <2>2, <3>1, <3>2
  <2>3. CASE s # A
    <3> DEFINE x == Left(s)
    <3>1. x \in A /\ x \notin s
      BY <1>4, <2>3
    <3> HIDE DEF x, G, Left, h
    <3>2. s \in SUBSET (A \ {x}) /\ s \ {Some(s)} \in SUBSET A /\ x \notin s \ {Some(s)}
      BY <3>1
    <3>3. Sums(G(x), A \ {x})
      BY <1>3, <3>1
    <3>4. G(x)[s] = IF s = {} THEN 0 ELSE Size[Some(s)] + G(x)[s \ {Some(s)}]
      BY <3>2, <3>3, SumsAt
    <3>5. h[s] = G(x)[s]
      BY <2>1, <3>1
    <3>6. h[s \ {Some(s)}] = G(x)[s \ {Some(s)}]
      BY <2>1, <3>1, <3>2
    <3> QED BY <3>4, <3>5, <3>6
  <2> QED BY <2>2, <2>3
<1>6. h = [s \in SUBSET A |-> h[s]]
  OBVIOUS
<1> HIDE DEF h
<1>7. Sums(h, A)
  BY <1>5, <1>6 DEF Sums
<1> QED BY <1>1, <1>7

\* SizeOf one element at a time.
LEMMA SizeOfSome ==
    ASSUME NEW S, IsFiniteSet(S)
    PROVE  SizeOf(S) = IF S = {} THEN 0 ELSE Size[Some(S)] + SizeOf(S \ {Some(S)})
PROOF
<1>1. PICK g : Sums(g, S)
  BY SumsExists
<1>2. ASSUME NEW T \in SUBSET S PROVE SizeOf(T) = g[T]
  <2>1. IsFiniteSet(T)
    BY Parts
  <2> DEFINE h == CHOOSE h : Sums(h, T)
  <2>2. Sums(h, T)
    BY <2>1, SumsExists
  <2>3. SizeOf(T) = h[T]
    BY SizeOfDef
  <2> HIDE DEF h
  <2>4. T \in SUBSET (T \cap S)
    OBVIOUS
  <2>5. h[T] = g[T]
    BY <1>1, <2>1, <2>2, <2>4, SumsUnique
  <2> QED BY <2>3, <2>5
<1>3. S \in SUBSET S /\ S \ {Some(S)} \in SUBSET S
  OBVIOUS
<1>4. g[S] = IF S = {} THEN 0 ELSE Size[Some(S)] + g[S \ {Some(S)}]
  BY <1>1, <1>3, SumsAt
<1> QED BY <1>2, <1>3, <1>4

LEMMA SizeOfType ==
    ASSUME NEW S, IsFiniteSet(S), S \subseteq DOMAIN Size
    PROVE  SizeOf(S) \in Nat
PROOF
<1> DEFINE F == {A \in SUBSET S : SizeOf(A) \notin Nat}
<1> SUFFICES ASSUME F # {} PROVE FALSE
  OBVIOUS
<1>1. PICK A \in F : \A x \in A : A \ {x} \notin F
  <2>1. \A B \in F : IsFiniteSet(B)
    BY Parts
  <2> HIDE DEF F
  <2> QED BY <2>1, Minimal
<1>2. A \in SUBSET S /\ IsFiniteSet(A)
  BY <1>1, Parts
<1>3. SizeOf(A) = IF A = {} THEN 0 ELSE Size[Some(A)] + SizeOf(A \ {Some(A)})
  BY <1>2, SizeOfSome
<1>4. A # {} => Size[Some(A)] \in Nat /\ SizeOf(A \ {Some(A)}) \in Nat
  BY <1>1, <1>2, SomeOf, DataDirAssumption
<1> QED BY <1>1, <1>3, <1>4

\* The same for any element.
LEMMA SizeOfWithout ==
    ASSUME NEW S, IsFiniteSet(S), S \subseteq DOMAIN Size, NEW x \in S
    PROVE  SizeOf(S) = Size[x] + SizeOf(S \ {x})
PROOF
<1> DEFINE F == {A \in SUBSET S : \E y \in A : SizeOf(A) # Size[y] + SizeOf(A \ {y})}
<1> SUFFICES ASSUME F # {} PROVE FALSE
  OBVIOUS
<1>1. PICK A \in F : \A y \in A : A \ {y} \notin F
  <2>1. \A B \in F : IsFiniteSet(B)
    BY Parts
  <2> HIDE DEF F
  <2> QED BY <2>1, Minimal
<1>2. A \in SUBSET S /\ \A B \in SUBSET A : IsFiniteSet(B) /\ SizeOf(B) \in Nat
  <2>1. A \in SUBSET S /\ IsFiniteSet(A)
    BY <1>1, Parts
  <2>2. ASSUME NEW B \in SUBSET A PROVE IsFiniteSet(B) /\ SizeOf(B) \in Nat
    <3>1. IsFiniteSet(B) /\ B \subseteq DOMAIN Size
      BY <2>1, FS_Subset
    <3> QED BY <3>1, SizeOfType
  <2> QED BY <2>1, <2>2
<1>3. PICK y \in A : SizeOf(A) # Size[y] + SizeOf(A \ {y})
  BY <1>1
<1> DEFINE z == Some(A)
<1>4. z \in A
  BY <1>3, SomeOf
<1>5. SizeOf(A) = Size[z] + SizeOf(A \ {z})
  BY <1>2, <1>3, SizeOfSome
<1> HIDE DEF z
<1>6. y # z
  BY <1>3, <1>5
<1>7. SizeOf(A \ {z}) = Size[y] + SizeOf((A \ {z}) \ {y})
  BY <1>1, <1>2, <1>3, <1>4, <1>6
<1>8. SizeOf(A \ {y}) = Size[z] + SizeOf((A \ {y}) \ {z})
  BY <1>1, <1>2, <1>3, <1>4, <1>6
<1>9. (A \ {y}) \ {z} = (A \ {z}) \ {y}
  OBVIOUS
<1>10. Size[y] \in Nat /\ Size[z] \in Nat /\ SizeOf((A \ {z}) \ {y}) \in Nat
  <2>1. (A \ {z}) \ {y} \in SUBSET A /\ y \in DOMAIN Size /\ z \in DOMAIN Size
    BY <1>2, <1>3, <1>4
  <2> QED BY <1>2, <2>1, DataDirAssumption
<1> QED BY <1>3, <1>5, <1>7, <1>8, <1>9, <1>10

LEMMA SizeOfMonotonic ==
    ASSUME NEW S, IsFiniteSet(S), S \subseteq DOMAIN Size, NEW T \in SUBSET S
    PROVE  SizeOf(T) <= SizeOf(S)
PROOF
<1> DEFINE F == {A \in SUBSET S : T \subseteq A /\ ~(SizeOf(T) <= SizeOf(A))}
<1> SUFFICES ASSUME F # {} PROVE FALSE
  OBVIOUS
<1>1. PICK A \in F : \A y \in A : A \ {y} \notin F
  <2>1. \A B \in F : IsFiniteSet(B)
    BY Parts
  <2> HIDE DEF F
  <2> QED BY <2>1, Minimal
<1>2. \A B \in SUBSET S : IsFiniteSet(B) /\ SizeOf(B) \in Nat
  <2>1. ASSUME NEW B \in SUBSET S PROVE IsFiniteSet(B) /\ B \subseteq DOMAIN Size
    BY FS_Subset
  <2> QED BY <2>1, SizeOfType
<1>3. A # T
  BY <1>1, <1>2
<1>4. PICK x \in A : x \notin T
  BY <1>1, <1>3
<1>5. SizeOf(T) <= SizeOf(A \ {x})
  BY <1>1, <1>4
<1>6. SizeOf(A) = Size[x] + SizeOf(A \ {x})
  <2>1. A \subseteq DOMAIN Size /\ IsFiniteSet(A)
    BY <1>1, <1>2
  <2> QED BY <2>1, SizeOfWithout
<1>7. Size[x] \in Nat /\ SizeOf(A \ {x}) \in Nat /\ SizeOf(T) \in Nat
  BY <1>1, <1>2, DataDirAssumption
<1> QED BY <1>1, <1>5, <1>6, <1>7

LEMMA SizeOfOneMore ==
    ASSUME NEW S, IsFiniteSet(S), S \subseteq DOMAIN Size, NEW x \in DOMAIN Size
    PROVE  SizeOf(S \cup {x}) <= SizeOf(S) + Size[x]
PROOF
<1> DEFINE T == S \cup {x}
<1>1. Size[x] \in Nat /\ SizeOf(S) \in Nat
  BY SizeOfType, DataDirAssumption
<1>2. IsFiniteSet(T) /\ T \subseteq DOMAIN Size /\ x \in T
  BY FS_AddElement
<1>3. T = S \/ T \ {x} = S
  OBVIOUS
<1> HIDE DEF T
<1>4. SizeOf(T) = Size[x] + SizeOf(T \ {x})
  BY <1>2, SizeOfWithout
<1>5. SizeOf(T) = SizeOf(S) \/ SizeOf(T) = Size[x] + SizeOf(S)
  BY <1>3, <1>4
<1>6. SizeOf(T) <= SizeOf(S) + Size[x]
  <2> DEFINE a == SizeOf(S)
             b == SizeOf(T)
             c == Size[x]
  <2>1. a \in Nat /\ c \in Nat /\ (b = a \/ b = c + a)
    BY <1>1, <1>5
  <2> HIDE DEF a, b, c
  <2>2. b <= a + c
    BY <2>1
  <2> QED BY <2>2 DEF a, b, c
<1> QED BY <1>6 DEF T

-----------------------------------------------------------------------------
(* The budget: what a job holds of the directory while it fills it, copies   *)
(* and the ones it has submitted, is never more than it has counted.         *)

Copies == {f \in Datasets : data[f] = "copy"}
Pending(j) == {c[1] : c \in futures[j]}
Held(j) == Copies \cup Pending(j)

Budgeted ==
    /\ SizeOf(Copies) <= MaxBytes
    /\ \A j \in Jobs : pc[j] = "plan" => SizeOf(Held(j)) <= curB[j] /\ SizeOf(Held(j)) <= MaxBytes

BudgetInv == curB \in [Jobs -> Nat] /\ (harm = {} => Budgeted)

\* There are finitely many datasets, and each has a size.
LEMMA DatasetSizes ==
    ASSUME IsFiniteSet(Jobs)
    PROVE  /\ IsFiniteSet(Datasets) /\ Datasets \subseteq DOMAIN Size
           /\ \A S \in SUBSET Datasets : SizeOf(S) \in Nat /\ IsFiniteSet(S) /\ S \subseteq DOMAIN Size
PROOF
<1>1. Datasets \subseteq DOMAIN Size
  BY DataDirAssumption DEF Datasets, DatasetsOf
<1>2. ASSUME NEW j \in Jobs PROVE IsFiniteSet(DatasetsOf(j))
  <2> DEFINE n == Len(Files[j])
             D == DatasetsOf(j)
             f == [i \in 1 .. n |-> Files[j][i]]
  <2>1. n \in Nat /\ DOMAIN Files[j] = 1 .. n
    BY DataDirAssumption
  <2>2. IsFiniteSet(1 .. n)
    BY <2>1, FS_Interval
  <2>3. f \in Surjection(1 .. n, D)
    BY <2>1 DEF DatasetsOf, Surjection
  <2> HIDE DEF n, D, f
  <2>4. IsFiniteSet(D)
    BY <2>2, <2>3, FS_Surjection
  <2> QED BY <2>4 DEF D
\* The datasets of all jobs but those of K are finitely many.
<1>3. IsFiniteSet(Datasets)
  <2> DEFINE Of(K) == UNION {DatasetsOf(j) : j \in K}
             F == {K \in SUBSET Jobs : ~IsFiniteSet(Of(K))}
  <2>1. SUFFICES ASSUME F # {} PROVE FALSE
    BY DEF Datasets
  <2>2. PICK K \in F : \A j \in K : K \ {j} \notin F
    <3>1. \A K \in F : IsFiniteSet(K)
      BY Parts
    <3> HIDE DEF F
    <3> QED BY <2>1, <3>1, Minimal
  <2>3. K # {}
    BY <2>2, FS_EmptySet
  <2>4. PICK j \in K : TRUE
    BY <2>3
  <2>5. IsFiniteSet(Of(K \ {j})) /\ IsFiniteSet(DatasetsOf(j))
    BY <1>2, <2>2, <2>4
  <2>6. Of(K) = Of(K \ {j}) \cup DatasetsOf(j)
    BY <2>4
  <2>7. IsFiniteSet(Of(K))
    <3> HIDE DEF Of
    <3>1. IsFiniteSet(Of(K \ {j}) \cup DatasetsOf(j))
      BY <2>5, FS_Union
    <3> QED BY <2>6, <3>1
  <2> QED BY <2>2, <2>7
<1> QED BY <1>1, <1>3, Parts, SizeOfType

LEMMA HeldDatasets == DirType => \A j \in Jobs : Held(j) \subseteq Datasets /\ Copies \subseteq Held(j)
PROOF BY DEF DirType, Held, Copies, Pending

\* Used is what there is, links as well.
LEMMA CopiesUsed ==
    ASSUME IsFiniteSet(Jobs), DirType
    PROVE  Used \in Nat /\ SizeOf(Copies) <= Used
PROOF
<1> DEFINE U == {f \in Datasets : data[f] # "none"}
<1>1. Used = SizeOf(U)
  BY DEF Used, SizeOf
<1>2. Copies \in SUBSET U /\ U \in SUBSET Datasets
  BY DEF Copies
<1> HIDE DEF U
<1>3. SizeOf(U) \in Nat /\ IsFiniteSet(U) /\ U \subseteq DOMAIN Size
  BY <1>2, DatasetSizes
<1>4. SizeOf(Copies) <= SizeOf(U)
  BY <1>2, <1>3, SizeOfMonotonic
<1> QED BY <1>1, <1>3, <1>4

\* What a step of a job makes of its curB and of what it holds: du, a dataset
\* that fits, or nothing more than before.
Counts(j) ==
    \/ Measure(j)
    \/ /\ pc[j] = "plan" /\ curB'[j] = curB[j]
       /\ Held(j)' \subseteq Held(j)
    \/ \E f \in Datasets :
          /\ pc[j] = "plan" /\ curB'[j] = curB[j] + Size[f] /\ curB'[j] <= MaxBytes
          /\ Held(j)' \subseteq Held(j) \cup {f}

LEMMA CountsStep ==
    ASSUME DirType, Phases, NEW j \in Jobs, Step(j), curB \in [Jobs -> Nat], pc'[j] = "plan"
    PROVE  Counts(j)
PROOF
<1>1. ASSUME Raise(j) \/ Reset(j) PROVE FALSE
  BY <1>1 DEF Raise, Reset, DirType
<1>2. CASE Measure(j)
  BY <1>2 DEF Counts
<1>3. CASE pc[j] = "plan" /\ UNCHANGED <<data, futures, curB>>
  BY <1>3 DEF Counts, Held, Copies, Pending
<1>4. CASE Plan(j)
  <2> DEFINE f == Files[j][next[j]]
  <2>1. f \in Datasets /\ pc[j] = "plan"
    BY <1>4, Visited, DatasetNames, DataDirAssumption DEF Plan, DirType
  <2>2. LinkOrCheck(j, f) \/ Copy(j, f)
    BY <1>4 DEF Plan
  <2> HIDE DEF f
  <2>3. ASSUME NEW b \in BOOLEAN, Submit(j, f, b) PROVE Pending(j)' = Pending(j) \cup {f}
    <3>1. futures'[j] = futures[j] \cup {<<f, b>>}
      BY <2>3 DEF Submit, DirType
    <3> DEFINE c == <<f, b>>
    <3>2. c[1] = f
      OBVIOUS
    <3> HIDE DEF c
    <3>3. futures'[j] = futures[j] \cup {c}
      BY <3>1 DEF c
    <3> QED BY <3>2, <3>3 DEF Pending
  <2>4. CASE LinkOrCheck(j, f)
    <3>1. Copies' \subseteq Copies
      BY <2>1, <2>4 DEF LinkOrCheck, Copies, DirType
    <3>2. Pending(j)' \subseteq Pending(j) \cup Copies
      <4>1. UNCHANGED futures \/ (data[f] = "copy" /\ Submit(j, f, FALSE))
        BY <2>4 DEF LinkOrCheck
      <4>2. CASE UNCHANGED futures
        BY <4>2 DEF Pending
      <4>3. CASE data[f] = "copy" /\ Submit(j, f, FALSE)
        BY <2>1, <2>3, <4>3 DEF Copies
      <4> QED BY <4>1, <4>2, <4>3
    <3> QED BY <2>1, <2>4, <3>1, <3>2 DEF LinkOrCheck, Counts, Held
  <2>5. CASE Copy(j, f)
    <3>1. Copies' \subseteq Copies
      BY <2>1, <2>5 DEF Copy, Copies, DirType
    <3>2. CASE UNCHANGED <<curB, futures>>
      <4>1. Pending(j)' = Pending(j)
        BY <3>2 DEF Pending
      <4> QED BY <2>1, <3>1, <3>2, <4>1 DEF Counts, Held
    <3>3. CASE Submit(j, f, TRUE) /\ curB' = [curB EXCEPT ![j] = @ + Size[f]]
      <4>1. Pending(j)' = Pending(j) \cup {f}
        BY <2>3, <3>3
      <4>2. curB[j] + Size[f] <= MaxBytes
        BY <2>5 DEF Copy
      <4> QED BY <2>1, <3>1, <3>3, <4>1, <4>2 DEF Counts, Held
    <3> QED BY <2>5, <3>2, <3>3 DEF Copy
  <2> QED BY <2>2, <2>4, <2>5
<1>5. CASE HostFails(j)
  <2>1. PICK c \in futures[j] : data' = [data EXCEPT ![c[1]] = "none"]
    BY <1>5 DEF HostFails
  <2>2. Copies' \subseteq Copies
    BY <2>1 DEF Copies, DirType
  <2>3. Pending(j)' = Pending(j) /\ pc[j] = "plan" /\ UNCHANGED curB
    BY <1>5 DEF HostFails, copyVars, Pending
  <2> QED BY <2>2, <2>3 DEF Counts, Held
<1>6. CASE CopyEnds(j)
  <2>1. PICK c \in futures[j], how \in {"copy", "link"} :
            /\ data' = [data EXCEPT ![c[1]] = IF dir THEN how ELSE "none"]
            /\ futures' = [futures EXCEPT ![j] = @ \ {c}]
    BY <1>6 DEF CopyEnds
  <2>2. Copies' \subseteq Copies \cup {c[1]}
    BY <2>1 DEF Copies, DirType
  <2>3. Pending(j)' \subseteq Pending(j) /\ c[1] \in Pending(j)
    BY <2>1 DEF Pending, DirType
  <2> QED BY <1>6, <2>2, <2>3 DEF Counts, Held, CopyEnds
<1> QED
  BY <1>1, <1>2, <1>3, <1>4, <1>5, <1>6 DEF Step, Work, Wait, Look, Lock, Copied, Note, Rewrite, Remove,
     RemoveEntry, RemoveDir, Start, EndTraining, Kill, Age, GoTo, AfterLook, diskVars, copyVars, DirType

\* No step makes a copy of what the job has not submitted.
LEMMA CopiesStep ==
    ASSUME DirType, NEW j \in Jobs, Step(j)
    PROVE  Copies' \subseteq Held(j)
PROOF
<1>1. CASE Copies' \subseteq Copies
  BY <1>1 DEF Held
<1>2. CASE CopyEnds(j)
  <2>1. PICK c \in futures[j], how \in {"copy", "link"} :
            data' = [data EXCEPT ![c[1]] = IF dir THEN how ELSE "none"]
    BY <1>2 DEF CopyEnds
  <2>2. Copies' \subseteq Copies \cup {c[1]}
    BY <2>1 DEF Copies, DirType
  <2> QED BY <2>2 DEF Held, Pending
<1>3. CASE UNCHANGED data
  BY <1>1, <1>3 DEF Copies
<1>4. CASE Plan(j)
  <2>1. LinkOrCheck(j, Files[j][next[j]]) \/ Copy(j, Files[j][next[j]])
    BY <1>4 DEF Plan
  <2>2. Copies' \subseteq Copies
    BY <2>1 DEF LinkOrCheck, Copy, Copies, DirType
  <2> QED BY <1>1, <2>2
<1>5. CASE HostFails(j)
  <2>1. Copies' \subseteq Copies
    BY <1>5 DEF HostFails, Copies, DirType
  <2> QED BY <1>1, <2>1
<1>6. CASE RemoveEntry(j)
  <2>1. UNCHANGED data \/ \E e \in doomed[j] : data' = [data EXCEPT ![e] = "none"]
    BY <1>6 DEF RemoveEntry, Raise, diskVars
  <2>2. Copies' \subseteq Copies
    BY <2>1 DEF Copies, DirType
  <2> QED BY <1>1, <2>2
<1> QED
  BY <1>2, <1>3, <1>4, <1>5, <1>6 DEF Step, Work, Wait, Look, Lock, Measure, Copied, Note, Rewrite, Remove,
     RemoveDir, Start, EndTraining, Kill, Age, Raise, diskVars

\* Only du, a dataset that fits and the end of the job change curB.
LEMMA CountType ==
    ASSUME IsFiniteSet(Jobs), DirType, NEW j \in Jobs, Step(j), curB \in [Jobs -> Nat]
    PROVE  curB' \in [Jobs -> Nat] /\ \A k \in Jobs \ {j} : curB'[k] = curB[k]
PROOF
<1>1. CASE UNCHANGED curB \/ curB' = [curB EXCEPT ![j] = 0]
  BY <1>1
<1>2. CASE Measure(j)
  BY <1>2, CopiesUsed DEF Measure
<1>3. CASE Plan(j)
  <2> DEFINE f == Files[j][next[j]]
  <2>1. f \in Datasets
    BY <1>3, Visited, DatasetNames, DataDirAssumption DEF Plan, DirType
  <2>2. Size[f] \in Nat
    BY <2>1, DatasetSizes, DataDirAssumption
  <2>3. LinkOrCheck(j, f) \/ Copy(j, f)
    BY <1>3 DEF Plan
  <2> HIDE DEF f
  <2>4. UNCHANGED curB \/ curB' = [curB EXCEPT ![j] = @ + Size[f]]
    BY <2>3 DEF LinkOrCheck, Copy
  <2> QED BY <2>2, <2>4
<1> QED
  BY <1>1, <1>2, <1>3 DEF Step, Work, Wait, Look, Lock, CopyEnds, Copied, Note, Rewrite, Remove, RemoveEntry,
     RemoveDir, Start, HostFails, EndTraining, Kill, Age, Raise, Reset, diskVars, copyVars

LEMMA BudgetedStep ==
    ASSUME IsFiniteSet(Jobs), DirType, Phases, Respected, curB \in [Jobs -> Nat], Budgeted,
           DirType', NEW j \in Jobs, Step(j)
    PROVE  Budgeted'
PROOF
<1>0. MaxBytes \in Nat
  BY DataDirAssumption
<1>1. SizeOf(Held(j)) <= MaxBytes
  <2>1. CASE pc[j] = "plan"
    BY <2>1 DEF Budgeted
  <2>2. CASE pc[j] # "plan"
    <3>1. Pending(j) = {}
      BY <2>2 DEF Phases, PhaseOf, Pending
    <3>2. Held(j) = Copies
      BY <3>1 DEF Held
    <3> QED BY <3>2 DEF Budgeted
  <2> QED BY <2>1, <2>2
<1>2. SizeOf(Copies') <= MaxBytes
  <2> DEFINE C == Copies'
             H == Held(j)
  <2>1. C \in SUBSET H /\ H \in SUBSET Datasets
    BY CopiesStep, HeldDatasets
  <2> HIDE DEF C, H
  <2>2. SizeOf(C) \in Nat /\ SizeOf(H) \in Nat /\ IsFiniteSet(H) /\ H \subseteq DOMAIN Size
    BY <2>1, DatasetSizes
  <2>3. SizeOf(C) <= SizeOf(H)
    BY <2>1, <2>2, SizeOfMonotonic
  <2>4. SizeOf(H) <= MaxBytes
    BY <1>1 DEF H
  <2>5. SizeOf(C) <= MaxBytes
    BY <1>0, <2>2, <2>3, <2>4
  <2> QED BY <2>5 DEF C
<1>3. ASSUME NEW k \in Jobs \ {j}, pc'[k] = "plan"
      PROVE  SizeOf(Held(k)') <= curB'[k] /\ SizeOf(Held(k)') <= MaxBytes
  <2>1. pc[k] = "plan" /\ futures'[k] = futures[k] /\ curB'[k] = curB[k]
    BY <1>3, OthersKept, CountType DEF OthersSame
  <2>2. Writing(k)
    BY <2>1 DEF Phases, PhaseOf, Writing, DirType
  <2>3. data' = data
    BY <2>2, DataKept
  <2>4. Held(k)' = Held(k)
    BY <2>1, <2>3 DEF Held, Copies, Pending
  <2> QED BY <2>1, <2>4 DEF Budgeted
<1>4. ASSUME pc'[j] = "plan"
      PROVE  SizeOf(Held(j)') <= curB'[j] /\ SizeOf(Held(j)') <= MaxBytes
  <2> DEFINE P == Held(j)'
             H == Held(j)
             u == curB'[j]
  <2>1. P \in SUBSET Datasets /\ H \in SUBSET Datasets
    BY HeldDatasets DEF DirType, Held, Copies, Pending
  <2>2. CASE Measure(j)
    <3>1. P = Copies /\ H = Copies
      BY <2>2 DEF Measure, Held, Copies, Pending, diskVars, Phases, PhaseOf
    <3>2. u = Used
      BY <2>2 DEF Measure
    <3> HIDE DEF P, u
    <3>3. SizeOf(P) <= u /\ SizeOf(P) <= MaxBytes
      BY <3>1, <3>2, CopiesUsed DEF Budgeted
    <3> QED BY <3>3 DEF P, u
  <2>3. CASE pc[j] = "plan" /\ u = curB[j] /\ P \subseteq H
    <3>1. SizeOf(H) <= curB[j] /\ SizeOf(H) <= MaxBytes /\ curB[j] \in Nat
      BY <2>3 DEF Budgeted
    <3> HIDE DEF P, H, u
    <3>2. SizeOf(P) \in Nat /\ SizeOf(H) \in Nat /\ IsFiniteSet(H) /\ H \subseteq DOMAIN Size
      BY <2>1, DatasetSizes
    <3>3. SizeOf(P) <= SizeOf(H)
      BY <2>3, <3>2, SizeOfMonotonic
    <3>4. SizeOf(P) <= u /\ SizeOf(P) <= MaxBytes
      BY <1>0, <2>3, <3>1, <3>2, <3>3
    <3> QED BY <3>4 DEF P, u
  <2>4. ASSUME NEW f \in Datasets, pc[j] = "plan", u = curB[j] + Size[f], u <= MaxBytes, P \subseteq H \cup {f}
        PROVE  SizeOf(P) <= u /\ SizeOf(P) <= MaxBytes
    <3>1. SizeOf(H) <= curB[j] /\ curB[j] \in Nat
      BY <2>4 DEF Budgeted
    <3> DEFINE I == H \cup {f}
               s == Size[f]
               b == curB[j]
    <3>2. s \in Nat /\ f \in DOMAIN Size
      BY DatasetSizes, DataDirAssumption
    <3>3. u = b + s /\ b \in Nat /\ SizeOf(H) <= b
      BY <2>4, <3>1
    <3> HIDE DEF P, H, u, s, b
    <3>4. I \in SUBSET Datasets
      BY <2>1
    <3>5. /\ SizeOf(P) \in Nat /\ SizeOf(H) \in Nat /\ SizeOf(I) \in Nat
          /\ IsFiniteSet(H) /\ H \subseteq DOMAIN Size /\ IsFiniteSet(I) /\ I \subseteq DOMAIN Size
      BY <2>1, <3>4, DatasetSizes
    <3>6. SizeOf(I) <= SizeOf(H) + s
      BY <3>2, <3>5, SizeOfOneMore DEF s
    <3>7. P \in SUBSET I
      BY <2>4
    <3> HIDE DEF I
    <3>8. SizeOf(P) <= SizeOf(I)
      BY <3>5, <3>7, SizeOfMonotonic
    <3> QED BY <1>0, <2>4, <3>2, <3>3, <3>5, <3>6, <3>8
  <2>5. Counts(j)
    BY <1>4, CountsStep
  <2> QED BY <2>2, <2>3, <2>4, <2>5 DEF Counts
<1>5. Budgeted' = (/\ SizeOf(Copies') <= MaxBytes
                   /\ \A k \in Jobs : pc'[k] = "plan" =>
                         SizeOf(Held(k)') <= curB'[k] /\ SizeOf(Held(k)') <= MaxBytes)
  BY DEF Budgeted
<1> QED BY <1>2, <1>3, <1>4, <1>5

LEMMA BudgetInit == Init => BudgetInv
PROOF
<1> SUFFICES ASSUME Init PROVE BudgetInv
  OBVIOUS
<1>1. curB \in [Jobs -> Nat]
  BY DEF Init
<1>2. Copies = {} /\ \A j \in Jobs : pc[j] # "plan"
  BY DEF Init, Copies
<1>3. SizeOf({}) = 0
  BY SizeOfSome, FS_EmptySet
<1>4. Budgeted
  BY <1>2, <1>3, DataDirAssumption DEF Budgeted
<1> QED BY <1>1, <1>4 DEF BudgetInv

LEMMA BudgetStep ==
    ASSUME IsFiniteSet(Jobs), DirInv, DirInv', BudgetInv, [Next]_vars
    PROVE  BudgetInv'
PROOF
<1>1. CASE UNCHANGED vars
  <2>1. Copies' = Copies /\ \A j \in Jobs : Held(j)' = Held(j)
    BY <1>1 DEF vars, diskVars, copyVars, Copies, Held, Pending
  <2>2. Budgeted => Budgeted'
    BY <1>1, <2>1 DEF Budgeted, vars, copyVars
  <2> QED BY <1>1, <2>2 DEF vars, copyVars, BudgetInv
<1>2. ASSUME NEW j \in Jobs, Step(j) PROVE BudgetInv'
  <2>1. harm \subseteq harm'
    BY <1>2 DEF Step, Work, Wait, Look, Lock, Measure, Plan, CopyEnds, Copied, Note, Rewrite, Remove, RemoveEntry,
       RemoveDir, Start, HostFails, EndTraining, Kill, Age, Raise
  <2>2. curB' \in [Jobs -> Nat]
    BY <1>2, CountType DEF DirInv, BudgetInv
  <2>3. ASSUME harm' = {} PROVE Budgeted'
    <3>1. harm = {}
      BY <2>1, <2>3
    <3> QED BY <1>2, <3>1, BudgetedStep DEF DirInv, BudgetInv
  <2> QED BY <2>2, <2>3 DEF BudgetInv
<1> QED BY <1>1, <1>2 DEF Next, Step

\* The copies of all jobs together stay within --max-gb, whatever was copied,
\* linked, killed and cleaned up before, unless jobs raced.
THEOREM WithinBudgetHolds == OwnNames /\ IsFiniteSet(Jobs) => (Spec => []WithinBudget)
PROOF
<1> SUFFICES ASSUME OwnNames, IsFiniteSet(Jobs) PROVE Spec => []WithinBudget
  OBVIOUS
<1>1. DirInv /\ DirInv' /\ BudgetInv /\ [Next]_vars => BudgetInv'
  BY BudgetStep
<1>2. BudgetInv => WithinBudget
  BY DEF BudgetInv, Budgeted, SizeOf, Copies, WithinBudget
<1>3. Spec => Init /\ [][Next]_vars
  BY PTL DEF Spec
<1>4. Spec => []DirInv
  BY DirInvariant
<1> QED BY <1>1, <1>2, <1>3, <1>4, BudgetInit, PTL

=============================================================================
