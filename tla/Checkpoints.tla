---------------------------- MODULE Checkpoints ----------------------------
(***************************************************************************)
(* The checkpoint directory (df/checkpoint.py): model and optimizer files, *)
(* the history of best metrics and the patience file.                      *)
(*                                                                         *)
(* torch.save and np.savetxt write in place, so a process killed while it  *)
(* writes leaves a cut file.  What a write_cp or write_patience call does  *)
(* to the disk is a sequence of operations in todo; DiskStep performs the  *)
(* first one, and a crash may come between any two.                        *)
(***************************************************************************)
EXTENDS Naturals, Sequences, FiniteSets

CONSTANTS
    NKeep,          \* n_checkpoint_history
    NKeepBest,      \* n_best_checkpoint_history
    MaxPatience,    \* EARLY_STOPPING_PATIENCE
    Metrics         \* the values the validation metric takes, less is better

ASSUME CheckpointAssumption ==
    /\ NKeep \in Nat \ {0} /\ NKeepBest \in Nat \ {0}
    /\ MaxPatience \in Nat \ {0}
    /\ Metrics \subseteq Nat \ {0}

VARIABLES
    files,          \* the checkpoint files on disk
    bestLog,        \* the metrics in .best
    patience,       \* .patience: count and metric, none or cut
    todo            \* the disk operations the process still has to perform

disk == <<files, bestLog, patience>>

NaN == 0
Better(a, b) == a # NaN /\ b # NaN /\ a < b

NoPatience == [count |-> 0, metric |-> NaN, state |-> "none"]
CutPatience == [count |-> 0, metric |-> NaN, state |-> "cut"]
Patience(c, m) == [count |-> c, metric |-> m, state |-> "whole"]

\* trained counts the epochs of training that went into the content
File(name, epoch, best, trained) ==
    [name |-> name, epoch |-> epoch, best |-> best, trained |-> trained, whole |-> TRUE]
NoFile == File("none", 0, FALSE, 0)

Family(name, best) == {f \in files : f.name = name /\ f.best = best}
Others(f) == {g \in files : <<g.name, g.epoch, g.best>> # <<f.name, f.epoch, f.best>>}

-----------------------------------------------------------------------------
(* read_cp: the file it chooses; torch.load fails when that one is cut.    *)
(* A plain file comes before the best file of the same epoch.              *)

\* Mutant: the lowest epoch.
Lowest(pool) ==
    IF pool = {} THEN NoFile ELSE CHOOSE f \in pool : \A g \in pool : f.epoch <= g.epoch

Latest(pool) ==
    LET top == {f \in pool : \A g \in pool : g.epoch <= f.epoch}
    IN  IF pool = {} THEN NoFile
        ELSE IF \E f \in top : ~f.best THEN CHOOSE f \in top : ~f.best
        ELSE CHOOSE f \in top : TRUE

AllFiles(name) == Family(name, FALSE) \cup Family(name, TRUE)

ReadLatest(name) == Latest(AllFiles(name))

ReadBest(name) ==
    Latest(IF Family(name, TRUE) # {} THEN Family(name, TRUE) ELSE AllFiles(name))

\* load_model: a new model at epoch 0 without a checkpoint
LoadModelCp(which) ==
    LET f == IF which = "best" THEN ReadBest("model") ELSE ReadLatest("model")
    IN  [fails |-> ~f.whole, epoch |-> f.epoch, trained |-> f.trained]

\* load_opt: a new optimizer without a checkpoint; its epoch is not returned
LoadOptCp ==
    LET f == ReadLatest("opt") IN [fails |-> ~f.whole, trained |-> f.trained]

-----------------------------------------------------------------------------
(* write_cp and write_patience as disk operations. *)

Op(what, file, line) == [what |-> what, file |-> file, line |-> line]

SaveOps(f) ==
    <<Op("open", f, NoPatience), Op("written", f, NoPatience), Op("cleanup", f, NoPatience)>>

PrevBest == bestLog[Len(bestLog)]
IsBest(metric) ==
    IF bestLog = <<>> THEN metric # NaN ELSE Better(metric, PrevBest)

\* Without a metric: after a training epoch.
WriteCp(name, epoch, trained) == SaveOps(File(name, epoch, FALSE, trained))

\* With a metric: first the best file, its line in .best (which stays in the
\* buffer until the with block ends), then the plain file once more.
WriteCpMetric(name, epoch, trained, metric) ==
    LET best == File(name, epoch, TRUE, trained)
    IN  (IF IsBest(metric) THEN SaveOps(best) \o <<Op("log", best, Patience(0, metric))>> ELSE <<>>)
        \o SaveOps(File(name, epoch, FALSE, trained))

\* check_patience: what it writes, and whether training goes on
Improved(metric) == patience.state = "none" \/ Better(metric, patience.metric)
\* Mutant: the file remembers the last metric instead of the best one.
NewPatienceLast(metric) ==
    IF Improved(metric) THEN Patience(0, metric) ELSE Patience(patience.count + 1, metric)

NewPatience(metric) ==
    IF Improved(metric) THEN Patience(0, metric)
    ELSE Patience(patience.count + 1, patience.metric)
OutOfPatience(metric) == ~Improved(metric) /\ patience.count + 1 >= MaxPatience

WritePatience(line) == <<Op("truncate", NoFile, line), Op("patience", NoFile, line)>>

-----------------------------------------------------------------------------
\* Mutant: one file too few.
KeptTooFew(f) ==
    LET n == IF f.best THEN NKeepBest ELSE NKeep
        family == Family(f.name, f.best)
    IN  {g \in family : Cardinality({h \in family : h.epoch >= g.epoch}) < n}

(* cleanup: keep the nkeep files of the highest epochs. *)
Kept(f) ==
    LET n == IF f.best THEN NKeepBest ELSE NKeep
        family == Family(f.name, f.best)
    IN  {g \in family : Cardinality({h \in family : h.epoch > g.epoch}) < n}

DiskStep ==
    /\ todo # <<>>
    /\ todo' = Tail(todo)
    /\ LET op == Head(todo) IN
       \/ /\ op.what = "open"
          /\ files' = Others(op.file) \cup {[op.file EXCEPT !.whole = FALSE]}
          /\ UNCHANGED <<bestLog, patience>>
       \/ /\ op.what = "written"
          /\ files' = Others(op.file) \cup {op.file}
          /\ UNCHANGED <<bestLog, patience>>
       \/ /\ op.what = "cleanup"
          /\ files' = (files \ Family(op.file.name, op.file.best)) \cup Kept(op.file)
          /\ UNCHANGED <<bestLog, patience>>
       \/ /\ op.what = "log"
          /\ bestLog' = Append(bestLog, op.line.metric)
          /\ UNCHANGED <<files, patience>>
       \/ /\ op.what = "truncate"
          /\ patience' = CutPatience
          /\ UNCHANGED <<files, bestLog>>
       \/ /\ op.what = "patience"
          /\ patience' = op.line
          /\ UNCHANGED <<files, bestLog>>

DiskInit ==
    /\ files = {} /\ bestLog = <<>> /\ patience = NoPatience
    /\ todo = <<>>
=============================================================================
