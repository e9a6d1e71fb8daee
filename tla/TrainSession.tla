--------------------------- MODULE TrainSession ---------------------------
(***************************************************************************)
(* A training run (df/train.py) from its first submission to its end: the  *)
(* epochs, the checkpoints, early stopping, the SIGUSR1 that announces the *)
(* time limit, the continue file, and the batch script that resubmits the  *)
(* job (scripts/sbatch_train.sh, scripts/has_continue_file.py).  The       *)
(* process may be killed at any point and is then resumed from the disk.   *)
(*                                                                         *)
(* Checkpoints holds the directory, PinMemoryLoader the iteration over an  *)
(* epoch, LrSchedule the lengths of the schedules, RunConfig the batch     *)
(* size.  The options are the defaults where they matter: resume,          *)
(* START_EVAL off, metric "loss", rule "min".                              *)
(***************************************************************************)
EXTENDS LrSchedule, Checkpoints, RunConfig

CONSTANTS
    TrainSamples,   \* samples of the training split
    BatchSchedule,  \* train.batch_size_scheduling: epoch and batch size pairs
    MaxNans,        \* MAX_NANS
    Prefetch,       \* NUM_PREFETCH_BATCHES
    MaxErrors,      \* bound on the errors of the native loader
    MaxKills        \* bound on the times the process is killed

VARIABLES
    pc,             \* where main() stands, "off" without a process
    epoch,          \* the loop variable
    model, opt,     \* epochs of training in the model and in the optimizer
    bs,             \* scheduling_bs, the loader's training batch size
    lrs,            \* the schedules of setup_lrs and setup_wds
    nans,           \* n_nans of the running epoch
    summed,         \* is l_mem non-empty?
    shouldStop,     \* should_stop
    continueFile,   \* does base_dir/continue exist?
    job,            \* the batch job: none, queued or running
    exit,           \* how the last process ended
    vals,           \* history: the validation metrics so far
    saved,          \* history: highest epoch with a complete model file
    kills,          \* history: how often the process was killed
    pin, native, mpc, batch, queue, done, tpc, item, got, lost, errors

Loader == INSTANCE PinMemoryLoader
    WITH Epochs <- 1 .. 2 * MaxEpochs + 1, MaxBatches <- TrainSamples

ASSUME SessionAssumption ==
    /\ TrainSamples \in Nat \ {0}
    /\ MaxNans \in Nat /\ MaxKills \in Nat
    /\ BatchSchedule \in Seq(Nat \X (Nat \ {0}))
    /\ BatchSchedule = <<>> \/ BatchSchedule[1][1] = 0
    /\ Loader!LoaderConstants

progress == <<epoch, model, opt, bs, lrs, nans, summed>>
scheduler == <<job, exit, continueFile, shouldStop>>
sessionVars == <<pc, progress, scheduler, vals, saved, kills>>
diskVars == <<disk, todo>>
loaderVars == <<pin, native, mpc, batch, queue, done, tpc, item, got, lost, errors>>
vars == <<sessionVars, diskVars, loaderVars, configVars>>

\* The epochs of the loader: train e, valid e, and the final test.
TrainEpoch(e) == e + 1
ValidEpoch(e) == MaxEpochs + e + 1
TestEpoch == 2 * MaxEpochs + 1
TrainLen(b) == CeilDiv(TrainSamples, b)
EvalLen == 1

NoSchedule == [niter |-> 0, lr |-> 0, wd |-> 0]

\* scheduling_bs for an epoch: the last entry that has begun, at most bs
ScheduledBs(e) ==
    LET begun == {i \in 1 .. Len(BatchSchedule) : BatchSchedule[i][1] <= e}
        size == BatchSchedule[CHOOSE i \in begun : \A j \in begun : j <= i][2]
    IN  IF begun = {} THEN base ELSE IF size < base THEN size ELSE base

Init ==
    /\ pc = "off"
    /\ epoch = 0 /\ model = 0 /\ opt = 0
    /\ bs = None /\ lrs = NoSchedule
    /\ nans = 0 /\ summed = FALSE
    /\ job = "queued" /\ exit = "none" /\ continueFile = FALSE /\ shouldStop = FALSE
    /\ vals = <<>> /\ saved = 0 /\ kills = 0
    /\ DiskInit /\ ConfigInit
    /\ Loader!LoaderInit

\* The loader of a new process.
FreshLoader ==
    /\ native' = [epoch |-> 0, next |-> 1, n |-> 0]
    /\ mpc' = "idle" /\ batch' = <<0, 0>> /\ queue' = <<>> /\ done' = FALSE
    /\ tpc' = "dead" /\ item' = <<0, 0>> /\ got' = {} /\ lost' = {}
    /\ UNCHANGED <<pin, errors>>

\* The process is gone and with it everything it held.
Exit(how) ==
    /\ pc' = "off" /\ exit' = how
    /\ todo' = <<>>
    /\ epoch' = 0 /\ model' = 0 /\ opt' = 0
    /\ bs' = None /\ lrs' = NoSchedule /\ base' = None
    /\ nans' = 0 /\ summed' = FALSE /\ shouldStop' = FALSE
    /\ FreshLoader
    /\ UNCHANGED <<ini, hostBs>>

\* An exception that reaches main() is logged and ends the process.
Raise == Exit("failed") /\ UNCHANGED <<job, continueFile, vals, saved, kills, disk>>

-----------------------------------------------------------------------------
(* Start-up. *)

Boot ==
    /\ job = "queued"
    /\ job' = "running" /\ exit' = "none" /\ pc' = "boot"
    /\ UNCHANGED <<progress, continueFile, shouldStop, vals, saved, kills,
                   diskVars, loaderVars, configVars>>

\* The host's batch size, then the handler of SIGUSR1.
InstallHandler ==
    /\ pc = "boot"
    /\ \E h \in Hosts : SetBatchSize(h)
    /\ pc' = "load_model"
    /\ UNCHANGED <<progress, scheduler, vals, saved, kills, diskVars, loaderVars, base>>

\* load_model, and the batch size of the config
LoadModel ==
    LET f == LoadModelCp("latest") IN
    /\ pc = "load_model"
    /\ IF ~f.fails
       THEN /\ epoch' = f.epoch /\ model' = f.trained
            /\ base' = ConfigCall(ini, 1)
            /\ pc' = "load_opt"
            /\ UNCHANGED <<opt, bs, lrs, nans, summed, scheduler, vals, saved, kills,
                           diskVars, loaderVars, ini, hostBs>>
       ELSE Raise

\* Mutant: the optimizer starts anew.
LoadOptFresh ==
    /\ pc = "load_opt"
    /\ opt' = 0
    /\ bs' = base /\ lrs' = Schedule(TrainLen(base))
    /\ ConfigSave
    /\ pc' = "epoch"
    /\ UNCHANGED <<epoch, model, nans, summed, scheduler, vals, saved, kills, diskVars,
                   loaderVars, hostBs, base>>

\* load_opt reads the latest optimizer file, whatever epoch the model had;
\* the schedules follow, and the config is saved
LoadOpt ==
    LET f == LoadOptCp IN
    /\ pc = "load_opt"
    /\ IF ~f.fails
       THEN /\ opt' = f.trained
            /\ bs' = base /\ lrs' = Schedule(TrainLen(base))
            /\ ConfigSave
            /\ pc' = "epoch"
            /\ UNCHANGED <<epoch, model, nans, summed, scheduler, vals, saved, kills,
                           diskVars, loaderVars, hostBs, base>>
       ELSE Raise

-----------------------------------------------------------------------------
(* The loop over the epochs. *)

\* Mutant: a new batch size without new schedules.
BeginEpochOldLrs ==
    /\ pc = "epoch" /\ epoch < MaxEpochs
    /\ bs' = ScheduledBs(epoch)
    /\ nans' = 0 /\ summed' = FALSE
    /\ Loader!StartEpoch(TrainEpoch(epoch), TrainLen(ScheduledBs(epoch)))
    /\ pc' = "train"
    /\ UNCHANGED <<epoch, model, opt, lrs, scheduler, vals, saved, kills, diskVars, configVars>>

\* The batch size of the epoch; the schedules follow the loader's length.
BeginEpoch ==
    LET b == ScheduledBs(epoch) IN
    /\ pc = "epoch" /\ epoch < MaxEpochs
    /\ bs' = b
    /\ lrs' = IF b # bs THEN Schedule(TrainLen(b)) ELSE lrs
    /\ nans' = 0 /\ summed' = FALSE
    /\ Loader!StartEpoch(TrainEpoch(epoch), TrainLen(b))
    /\ pc' = "train"
    /\ UNCHANGED <<epoch, model, opt, scheduler, vals, saved, kills, diskVars, configVars>>

InRunEpoch == pc \in {"train", "valid", "test"}

\* A batch counts, or its loss or gradient is not finite and it is skipped.
Step ==
    /\ InRunEpoch /\ mpc = "busy"
    /\ summed' = TRUE
    /\ Loader!Resume
    /\ UNCHANGED <<pc, epoch, model, opt, bs, lrs, nans, scheduler, vals, saved, kills,
                   diskVars, configVars>>

StepNaN ==
    /\ InRunEpoch /\ mpc = "busy"
    /\ IF nans + 1 > MaxNans
       THEN Raise
       ELSE /\ nans' = nans + 1
            /\ Loader!Resume
            /\ UNCHANGED <<pc, epoch, model, opt, bs, lrs, summed, scheduler, vals, saved,
                           kills, diskVars, configVars>>

\* The loader raises in the main thread.
LoaderRaises == InRunEpoch /\ mpc = "raised" /\ Raise

\* An epoch with no finite batch: torch.stack of an empty list raises.
NoLoss == InRunEpoch /\ mpc = "idle" /\ ~summed /\ Raise

EndTrain ==
    /\ pc = "train" /\ mpc = "idle" /\ summed
    /\ model' = model + 1 /\ opt' = opt + 1
    /\ todo' = WriteCp("model", epoch + 1, model + 1) \o WriteCp("opt", epoch + 1, opt + 1)
    /\ pc' = "save_train"
    /\ UNCHANGED <<epoch, bs, lrs, nans, summed, scheduler, vals, saved, kills, disk,
                   loaderVars, configVars>>

\* One disk operation of the process.
Write ==
    /\ DiskStep
    /\ saved' = IF Head(todo).what = "written" /\ Head(todo).file.name = "model"
                   /\ Head(todo).file.epoch > saved
                THEN Head(todo).file.epoch ELSE saved
    /\ UNCHANGED <<pc, progress, scheduler, vals, kills, loaderVars, configVars>>

BeginValid ==
    /\ pc = "save_train" /\ todo = <<>>
    /\ nans' = 0 /\ summed' = FALSE
    /\ Loader!StartEpoch(ValidEpoch(epoch), EvalLen)
    /\ pc' = "valid"
    /\ UNCHANGED <<epoch, model, opt, bs, lrs, scheduler, vals, saved, kills, diskVars, configVars>>

EndValid ==
    /\ pc = "valid" /\ mpc = "idle" /\ summed
    /\ \E m \in Metrics \cup {NaN} :
          /\ vals' = Append(vals, m)
          /\ todo' = WriteCpMetric("model", epoch + 1, model, m)
    /\ pc' = "save_valid"
    /\ UNCHANGED <<progress, scheduler, saved, kills, disk, loaderVars, configVars>>

Last(s) == s[Len(s)]

\* check_patience reads the file before it writes; a cut file raises.
CheckPatience ==
    LET m == Last(vals) IN
    /\ pc = "save_valid" /\ todo = <<>>
    /\ IF patience.state = "cut"
       THEN Raise
       ELSE /\ todo' = WritePatience(NewPatience(m))
            /\ pc' = IF OutOfPatience(m) THEN "break" ELSE "checked"
            /\ UNCHANGED <<progress, scheduler, vals, saved, kills, disk, loaderVars, configVars>>

\* should_stop is looked at only here.
StopForTimeout ==
    /\ pc = "checked" /\ todo = <<>> /\ shouldStop
    /\ Exit("timeout")
    /\ UNCHANGED <<job, continueFile, vals, saved, kills, disk>>

NextEpoch ==
    /\ pc = "checked" /\ todo = <<>> /\ ~shouldStop
    /\ epoch' = epoch + 1
    /\ pc' = "epoch"
    /\ UNCHANGED <<model, opt, bs, lrs, nans, summed, scheduler, vals, saved, kills,
                   diskVars, loaderVars, configVars>>

\* After the loop: test the best model.
LoadBest ==
    LET f == LoadModelCp("best") IN
    /\ \/ pc = "epoch" /\ epoch >= MaxEpochs
       \/ pc = "break" /\ todo = <<>>
    /\ IF ~f.fails
       THEN /\ epoch' = f.epoch /\ model' = f.trained
            /\ nans' = 0 /\ summed' = FALSE
            /\ Loader!StartEpoch(TestEpoch, EvalLen)
            /\ pc' = "test"
            /\ UNCHANGED <<opt, bs, lrs, scheduler, vals, saved, kills, diskVars, configVars>>
       ELSE Raise

Finish ==
    /\ pc = "test" /\ mpc = "idle" /\ summed
    /\ Exit("finished")
    /\ UNCHANGED <<job, continueFile, vals, saved, kills, disk>>

-----------------------------------------------------------------------------
(* The environment of the process. *)

\* Mutant: the handler stops the training and leaves no continue file.
Sigusr1NoFile ==
    /\ job = "running" /\ pc \notin {"off", "boot"} /\ ~shouldStop
    /\ shouldStop' = TRUE
    /\ UNCHANGED <<pc, progress, job, exit, continueFile, vals, saved, kills,
                   diskVars, loaderVars, configVars>>

\* The handler runs between any two steps; before it is installed the signal
\* ends the process.
Sigusr1 ==
    /\ job = "running"
    /\ \/ /\ pc = "boot"
          /\ Exit("killed")
          /\ UNCHANGED <<job, continueFile, vals, saved, kills, disk>>
       \/ /\ pc \notin {"off", "boot"} /\ ~shouldStop
          /\ shouldStop' = TRUE /\ continueFile' = TRUE
          /\ UNCHANGED <<pc, progress, job, exit, vals, saved, kills,
                         diskVars, loaderVars, configVars>>

\* The process alone is killed, or the node with the batch script.
Kill ==
    /\ job = "running" /\ kills < MaxKills
    /\ kills' = kills + 1
    /\ job' \in {"running", "none"}
    /\ Exit("killed")
    /\ UNCHANGED <<continueFile, vals, saved, disk>>

\* _at_exit of the batch script: has_continue_file removes the file and the
\* job is submitted again
AtExit ==
    /\ job = "running" /\ pc = "off"
    /\ IF continueFile THEN job' = "queued" /\ continueFile' = FALSE
       ELSE job' = "none" /\ UNCHANGED continueFile
    /\ UNCHANGED <<pc, progress, exit, shouldStop, vals, saved, kills,
                   diskVars, loaderVars, configVars>>

\* The user submits a job that ended without a continue file.
Submit ==
    /\ job = "none"
    /\ job' = "queued"
    /\ UNCHANGED <<pc, progress, exit, shouldStop, continueFile, vals, saved, kills,
                   diskVars, loaderVars, configVars>>

-----------------------------------------------------------------------------
LoaderStep ==
    /\ pc # "off"
    /\ Loader!ConsumerNext \/ Loader!ThreadNext
    /\ UNCHANGED <<sessionVars, diskVars, configVars>>

Process ==
    \/ InstallHandler
    \/ LoadModel
    \/ LoadOpt
    \/ BeginEpoch
    \/ Step
    \/ StepNaN
    \/ LoaderRaises
    \/ NoLoss
    \/ EndTrain
    \/ Write
    \/ BeginValid
    \/ EndValid
    \/ CheckPatience
    \/ StopForTimeout
    \/ NextEpoch
    \/ LoadBest
    \/ Finish

Next ==
    \/ Process
    \/ LoaderStep
    \/ Boot
    \/ AtExit
    \/ Submit
    \/ Sigusr1
    \/ Kill

\* The process runs, its threads run, the batch script and the scheduler
\* work; nobody has to submit, signal or kill anything.
ConsumerStep == pc # "off" /\ Loader!ConsumerNext /\ UNCHANGED <<sessionVars, diskVars, configVars>>
ThreadStep == pc # "off" /\ Loader!ThreadNext /\ UNCHANGED <<sessionVars, diskVars, configVars>>

Spec ==
    /\ Init /\ [][Next]_vars
    /\ WF_vars(Process) /\ WF_vars(ConsumerStep) /\ WF_vars(ThreadStep)
    /\ WF_vars(AtExit) /\ WF_vars(Boot)

-----------------------------------------------------------------------------
(* Properties. *)

\* Once an epoch has been saved, a complete model file is on disk at every
\* moment, whatever write a kill cuts short (write_cp rewrites the file of the
\* epoch in place after the validation).  The exceptions, as long as .best is
\* empty: the first epoch, when its metric is not a number and no best file was
\* written before the rewrite, and a history of a single file.
SomeModelSurvives ==
    saved > 0 =>
        \/ \E f \in files : f.name = "model" /\ f.whole
        \/ bestLog = <<>> /\ (NKeep = 1 \/ (saved = 1 /\ vals = <<NaN>>))

\* A restarted process goes on after the last epoch that was saved: it trains
\* none of them again and skips none (read_cp takes the highest epoch, cleanup
\* keeps it).
ResumesWhereItStopped ==
    [][pc = "load_model" /\ pc' = "load_opt" => epoch' = saved /\ model' = epoch']_vars

\* The optimizer file of an epoch lacks at most one epoch of training per kill:
\* the model is written before the optimizer, and the two are read back
\* independently of each other.
OptimizerLag ==
    \A f \in files : f.name = "opt" => f.epoch - f.trained \in 0 .. kills

BestIndex ==
    CHOOSE i \in DOMAIN vals :
        /\ \A j \in 1 .. i - 1 : ~Better(vals[j], vals[i]) /\ vals[j] # vals[i]
        /\ \A j \in DOMAIN vals : ~Better(vals[j], vals[i])
        /\ vals[i] # NaN

\* Without kills the two files that survive a restart agree with the history
\* of the run: .patience counts the validations since the best one, .best ends
\* with its metric, and load_model(epoch="best") loads that epoch.  The
\* exception: when the first metric is not a number it stays in .patience and
\* no later metric ever counts as better.
HistoriesAgree ==
    kills = 0 /\ vals # <<>> /\ vals[1] # NaN
    /\ pc \notin {"save_valid", "checked", "break"} /\ patience.state = "whole" =>
        /\ patience = Patience(Len(vals) - BestIndex, vals[BestIndex])
        /\ Last(bestLog) = vals[BestIndex]
        /\ ReadBest("model").whole

\* Every training step finds its learning rate: the arrays were computed for
\* the loader's present length, after a resume and after a change of the batch
\* size, and the global iteration number lies inside them.
LrCoversStep ==
    pc = "train" /\ mpc = "busy" =>
        /\ lrs.niter = Loader!EpochLen
        /\ epoch * lrs.niter + Cardinality(got) <= lrs.lr
        /\ epoch * lrs.niter + Cardinality(got) <= lrs.wd

\* The batches of a step belong to its epoch, and an epoch misses at most one.
BatchesOfTheEpoch ==
    /\ mpc = "busy" => batch[1] = CASE pc = "train" -> TrainEpoch(epoch)
                                    [] pc = "valid" -> ValidEpoch(epoch)
                                    [] pc = "test" -> TestEpoch
    /\ Loader!AtMostOneLost

\* A process that stopped because of the time-limit signal is started again,
\* unless the node dies in between.
StopIsResumed == exit = "timeout" ~> pc = "boot" \/ exit = "killed"

\* A running process ends: no step waits for ever, except for the batch of a
\* pin-memory thread that died of a loader error.
ProcessEnds == pc # "off" ~> pc = "off" \/ (mpc = "get" /\ errors > 0)
=============================================================================
