# denoise-plugin: TLA+ models, model checking and proofs

This directory holds TLA+ models of the noise suppression plugin in this repository, TLC configurations that check
them on small instances, and TLAPS proofs of what matters most for every instance. The models follow the web plugin
(`js/src`) and the Python package that trains, evaluates and runs the DeepFilterNet models
(`DeepFilterNet/DeepFilterNet/df`, `pyDF-data`, `scripts`); `PROJECT.json` maps every definition to the lines it stands
for.

## 1. The system

The repository ships one product, an audio track processor that removes noise, for the web (`js`) and for Android
(`kotlin`, `jni`), around two engines: RNNoise (`rnnoise`, C) and DeepFilterNet (`DeepFilterNet`, Rust and Python,
with a LADSPA plugin and a desktop demo of its own). The core logic of the product is the web pipeline: three threads
that talk by messages.

```
 main thread                         audio thread                     worker thread
 AudioPipelineTrackProcessor  --->   AudioPipelineWorklet     --->    AudioPipelineWorker
   CommandTransport           port     MonoRingBuffer x 2     port      RnnoiseModule
   wasm-loader, normalize     <---     Float32ArrayPool       <---      DeepFilterModule
                                                                        Float32ArrayPool
```

| component | state | operations | what is hard | what makes it correct |
|---|---|---|---|---|
| Track processor | options, enabled flag, node, worker, published track, operation queue | `init`, `restart`, `destroy`, `setEnabled`, `setStageModule`, `setModuleConfig` | calls interleave at every `await`; loading, fetching and the worker fail or hang | all runtimes converge to the options; nothing leaks; every call settles |
| Command transport | map of pending requests, next id | `send`, `resolve`, `reject`, timer, `close` | late replies, the timer racing the reply, close during both | a promise settles once, none is forgotten |
| Worklet, control side | current module, VAD settings, worker port, ready and destroyed flags | dispatch of five commands | commands before the worker port arrives, after a failure, after destroy | forwards what it confirms |
| Worker runtime | active module, enabled flag, configs, the two modules | INIT, SET_MODULE, SET_MODULE_CONFIG, SET_ENABLED, DESTROY, batches | configs of the inactive module; live parameters | holds what the main thread has |
| Audio path | two sample queues, batch, pools, recycle lists, frame length | `process`, results, rebuild | quanta of 128 against frames of 480; late or lost batches; switches with batches in flight; arrays transferred back and forth | nothing lost, reordered or played twice; no underrun; arrays owned once |
| Ring buffer | array, two indices, a count | `push`, `pull`, `drainInto`, `clear` | wrap-around, overrun | it is a queue |
| Android processor | native contexts, active module, config | initialize, reset, release, setters, `processAudio` | calls before and after the contexts exist | not modelled yet |
| LADSPA plugin | two queues, processing delay | `run`, worker thread | two threads, delay accounting | not modelled yet |
| Native data loader | index queue, bounded channel, reordering buffer, drained flag, pool workers | `start_epoch`, `get_batch`, `cleanup`, `set_batch_size` | samples and the end marker arrive in any order; a full channel; samples that fail or hang | complete epochs in order; every call returns |
| Engines, bindings, losses, speech metrics | - | - | numerical code on floats | not modelled: outside what TLC explores |

The models that DeepFilterNet runs come from the Python package, whose processes talk through files.

```
 sbatch_train.sh -> copy_datadir.py  -> the node's scratch directory, .lock      (shared by the jobs of a node)
        |  ^
        v  | continue file, resubmission
 train.py -> PytorchDataLoader -> native loader       set_batch_size.py -> config.ini, table of the hosts
        |         pin-memory thread
        v
 checkpoints/, .best, .patience  ->  enhance.py (files), evaluation_utils.py (pool of workers), model cache
```

| component | state | operations | what is hard | what makes it correct |
|---|---|---|---|---|
| Training session | epoch, model, optimizer, schedules, signal flag, continue file, job | start-up, epochs, validation, early stopping, test, SIGUSR1, resubmission | killed at any point and resumed from the disk; signal at any point; a batch size that changes between epochs and hosts | resumes where it stopped; every step has its learning rate; a stopped run is resumed; the process ends |
| Checkpoints | model and optimizer files, `.best`, `.patience` | `write_cp`, `cleanup`, `read_cp`, `check_patience` | files are written in place, one after the other, and cleaned up | a complete model survives; the histories agree |
| Batch loading | native epoch, queue, done event, thread | `iter_epoch`, `_get_batch`, replacing the thread | the thread of the last epoch still runs when the next begins; loader errors | batches of the epoch, at most one lost |
| Networks and filters | sizes of layers, lookahead | constructors, forward pass, the forms of the filter | a dozen options whose combinations only partly pass assertions | accepted configurations run; all forms agree |
| Enhancement | model cache, filter buffer | download, `init_df`, `enhance` | interrupted downloads; delays of padding, overlap and lookahead | the output is aligned and as long as the input |
| Evaluation | values and results of each metric, pool | three loops, `add`, `join_pool`, `flattend`, `mean` | one pool for all metrics; order of results; errors and dead workers | complete reports, failures for a cause |
| Data directory | datasets, `.lock`, reader lists | `copy_datasets`, `has_locks`, `remove_lock`, `cleanup` | several jobs, no atomic lock, kills | one writer, readers keep their files, a budget |

## 2. Modules

| module | models | source |
|---|---|---|
| `CommandTransport` | the request map; also the abstract specification of the transport | `js/src/shared/command-transport.ts` |
| `PipelineTypes` | modules, configs and their merging, shapes of commands and messages | `js/src/shared/normalize.ts`, `contracts.ts`, `worker-contracts.ts` |
| `AudioPipelineWorker` | control state of each worker and of the ports | `js/src/AudioPipelineWorker.ts` |
| `AudioPipelineWorklet` | control state of each worklet node and its command queue | `js/src/AudioPipelineWorklet.ts` |
| `AudioPipelineTrackProcessor` | the main thread, composed with the three above | `js/src/AudioPipelineTrackProcessor.ts` |
| `ControlProperties` | properties and fairness of that composition | - |
| `SampleQueue` | abstract: a bounded first-in-first-out queue of samples | how the worklet uses its buffers |
| `MonoRingBuffer` | the ring buffer, refining `SampleQueue` | `js/src/worklet/MonoRingBuffer.ts` |
| `FramePipeline` | the audio path of worklet and worker | `AudioPipelineWorklet.ts`, `AudioPipelineWorker.ts`, `worklet/Float32ArrayPool.ts` |
| `TrainSession` | `main()` and `run_epoch()`, the signal, the batch script; composes `Checkpoints`, `LrSchedule`, `RunConfig` and `PinMemoryLoader` | `df/train.py`, `scripts/sbatch_train.sh`, `has_continue_file.py` |
| `Checkpoints` | the checkpoint directory | `df/checkpoint.py` |
| `LrSchedule` | lengths of the schedules | `df/lr.py` |
| `RunConfig` | the batch size in `config.ini` and in the table of the hosts | `scripts/set_batch_size.py`, `df/config.py` |
| `BatchSource` | abstract: a source of the batches of an epoch | what the callers of `get_batch()` rely on |
| `NativeLoader` | the pool workers, their channel and the batches cut from it, refining `BatchSource` | `libDF/src/dataloader.rs`, `pyDF-data/src/lib.rs` |
| `PinMemoryLoader` | an epoch's iteration and its thread | `pyDF-data/libdfdata/torch_dataloader.py` |
| `TensorOps`, `ErbUNet` | layers on sizes of tensors; what three networks share | `df/modules.py`, `df/deepfilternet2.py` |
| `DeepFilterNet`, `2`, `3`, `MF` | the four networks | `df/deepfilternet*.py`, `df/multiframe.py` |
| `DfOps` | the eight forms of the filter on frame numbers | `df/modules.py`, `df/multiframe.py` |
| `EnhanceFile`, `ModelCache` | enhancing files with a downloaded model | `df/enhance.py`, `df/io.py`, `df/utils.py`, `df/model.py` |
| `Evaluation` | loops, metrics, pool, tables | `df/evaluation_utils.py` |
| `DataDir` | the scratch directory of a node | `scripts/copy_datadir.py` |
| `MC...` | the instances for TLC | - |
| `ControlProofs` | TLAPS proofs of the control plane | - |
| `FramePipelineProofs`, `TrainSessionProofs`, `PinMemoryLoaderProofs`, `NativeLoaderProofs`, `DataDirProofs`, `EvaluationProofs`, `EnhanceFileProofs` | TLAPS proofs of the module each is named after (`FramePipelineProofs` also of `MonoRingBuffer`) | - |

**Control plane.** Every `init()` and `restart()` call has a number; its node, worker and message channel carry the
same one, so objects that an overtaken call leaves behind stay in the model. Each `await` of `_initInternal` is a
program counter value of the call (`loading`, `fetching`, `workerInit`, `pipelineInit`), and each action runs from
one `await` to the next, as the event loop does. What a reply triggers through resolved promises (`resolve`, the
continuation of the setter, of `init`) belongs to the same microtask checkpoint and to the same action;
`NoMicrotask` keeps other actions from running in between. The two directions of both ports are queues, and
`toMain` replies may be delivered at any later time. Failures are selected by `Faults`: `load` (`addModule` rejects),
`fetch`, `wasm` (the worker answers INIT with ERROR), `pipeline` (INIT_PIPELINE is answered with COMMAND_ERROR), `timeout`
(timers may fire). `Rules` are the orders of calls an application keeps to: `oneAtATime` (a
lifecycle call waits for the one before it, `init` and `restart` also for the setters, and `init` is not called on a
pipeline that is up), `initFirst` (no setter during `init`), `initEnabled` (`init` and `restart` only while enabled). A run with no rules lets the application do anything. Abstracted: one `AudioContext`; calls that throw for their
arguments alone; the contents of WASM binaries; logging. Configs are records of small numbers: what matters is which
copy has which value.

**Audio path.** Samples are numbered as they enter and 0 is silence; a denoised sample keeps the number of the input
it replaces, so the delay inside DeepFilterNet is not part of the model. `input` is a sequence, which is what the ring
buffer provides (the refinement below); it never holds more than a frame and a quantum. `output` is bounded as in the
code, by 64 frames of RNNoise and then 128 frames (`CapacityOf`). More can be pushed: results that were late come at once,
and the prefill grows with `batchFrames` while the queue does not. `Pushed` is the queue with what the ring buffer then
makes of it: the count stops at the capacity, the read index stays, the oldest samples are overwritten, and from then on
the write index is `skew` slots past the last sample. `overrun` remembers that it happened. A prefill that does not fit the
array twice makes `push` raise, and INIT_PIPELINE fails with the port installed. An `ASSUME` of `MCFramePipeline` compares
`Pushed` with the array and the indices of `MonoRingBuffer`, for all states of buffers of up to 5 slots and all pushes they
take. Each frame carries the identity of its
`Float32Array`, so that pools, recycle lists and transfers can be checked for ownership; arrays that are no longer
reachable are garbage and their identity is free. The pool of the worker starts empty (128 arrays in the code; an
empty pool allocates). `Process` is the whole callback including `_sendBatch` and the final pull. A `build` with
`timely` promises that a batch sent in one `process()` call is back before the `2 * batchFrames`-th later call, that is,
within the `2 * batchFrames` quanta of time `_rebuildForFrameLength` prefills for.

**Ring buffer.** The array, indices and count of the code, with wrap-around split as in the code. `passed` is the
interface: the samples of the last call, pushed, pulled or drained, so that refinement compares what goes in and out
and not only the contents. `intact` is false from a push that exceeds the capacity to the next clear.

**Training session.** `pc` is where `main()` stands. A checkpoint write is a list of disk operations (`todo`): opening
truncates the file, writing completes it, and a kill may come between any two, after which only the disk remains.
`trained` in a file counts the epochs of training in its content, so that a model paired with an older optimizer is
visible. The native loader serves the batches of an epoch in order and may raise; the pin-memory thread, its queue and
the done event are as in the code, every `get`, `put` and look at the event a step. `Drained` assumes one timing: while
the consumer sleeps after emptying the queue, a thread that was about to put has put or has looked at the event. The
batch script, the scheduler and the signal are the environment. `LrSchedule` keeps the lengths of the arrays; its weight
decay case assumes that the option is set. In `RunConfig` the config belongs to the run and the table of the hosts
outlives it; a config without a batch size trains its first process with the default and later ones with the host's.

**Native data loader.** The samples of an epoch are numbered in the order of the shuffle, and the channel of the indices,
filled and closed before the workers start, is the next number. Every worker computes a sample (which may fail, panic or
hang), waits for room in the channel, sends; the one that takes the end marker sends it and stops. `get_batch` is as many
steps as it receives items. A thousand time-outs in a row are one step, possible at any moment at the cost of a fault,
and without one when nothing can come any more. `IsSource` says that all of this is a `BatchSource`: four operators map the
loader to the state of the epoch, the samples still to come, the batch size and the batch handed out; workers, channel and
buffer do not show, the join at the end still belongs to the epoch, and an error shows only when the epoch is given up.
`PinMemoryLoader` takes the loader as such a source, its batches numbered, that may raise.

**Networks.** A tensor is a record of channels, features, lookahead and a mark for features that some layer did not
read, and the number of its frames: a lookahead is a negative padding, which raises on a recording that has fewer frames
than it cuts off (`TimePad`). `...Ok` operators are the constructors' assertions, the others the forward passes; a size that
does not fit is `Err`, and every operator of `TensorOps` hands an `Err` on. Without a band to mask, the third network returns
a number for its mask (`Scalar`). `EnhanceFile` builds a network from a configuration, runs it on the features of a recording and follows single
samples: which input sample an output sample shows, through every frame that overlaps it. `ModelCache` is the
directory the model is downloaded to.

**Evaluation.** Values are file numbers. Workers take tasks in order, finish in any order, may raise or die; the result
handler is a thread of its own that a raising callback ends. The three loops are one action per `add()`, `call.loop` says
which: `pairs` compares lengths after analysis and synthesis, in whole hops (`Hop`); `dir` compares them as they are, asserts
that its lists are as long as each other and names the rows after the clean files; `dns` has no clean files and no
assertions in `add()`, but compares the length it is given with the number of a metric's columns. `add()` of the other two
also asserts that the enhanced signal is finite. `pairs` takes lists of different length silently (`zip`): the pairs are
the test set then.

**Data directory.** Each look at `.lock`, each write to it and each copied dataset is a step of one job; a directory that another job removed
after the lock was written is made again, empty, without the lock (`Measure`). `harm` records
the three ways in which the code lets jobs overlap (`raced`: look and lock are two steps; `gave up`: the wait for a write
lock ends; `overwritten`: a rewrite drops a line), so that the properties say what holds apart from them.

## 3. Runs

| run | properties | bounds and what they allow |
|---|---|---|
| `control_steady` | `ModuleConverged`, `EnabledConverged`, `ConfigConverged`, `NoOrphan`, `PublishedIsServed` | two init/restart calls, one destroy, two setters of any of the four kinds, every failure of init: enough for a setter before and after a failed init, a restart, and a config set for the inactive module and then switched to |
| `control_overlap` | `PendingIsAwaited`, `DestroyIsLast`, `HandlesAreLive`, `TransportImplemented`, `OptionsNeedConsent` | two init/restart calls, one destroy, two setters, no rules, timers at any moment: two inits overlapping each other, a destroy in between, and a reply after its timer |
| `control_liveness` | `CallsSettle` | two init/restart calls and two setters, no rules, worklets and workers that may never answer |
| `ring_buffer` | `RingInvariant`, `IsQueue` | capacity 4, pushes and pulls of 1 to 4 samples, two sample values: every position of both indices, wraps of both, overruns |
| `frames` | `TypeOK`, `NothingLost`, `NoUnderrun`, `OrderKept`, `ArraysOwnedOnce` | quantum 4, up to two switches or bypasses, destroy, seven builds. In time: frames of 15 (4 to 15 as 128 to 480), one per batch, 12 quanta, more than the 6 that the prefill lasts; frames of 6, two per batch, 9 quanta, more than its 7. Late without limit: frames of 6 and 4 with denoisers that throw, 4 quanta, queues of 7 and of 3 frames; frames of 6, 10 quanta, a queue of 5 that the prefill does not fill and a stall overruns; a queue of 3 that two frames per batch overrun with the prefill (as 84 frames of 480 do) and three have refused (as 167 do) |
| `train_session` | `SomeModelSurvives`, `OptimizerLag`, `HistoriesAgree`, `LrCoversStep`, `BatchesOfTheEpoch`, `ResumesWhereItStopped`, `StopIsResumed`, `ProcessEnds` | 3 epochs of 1 or 2 batches, 2 files kept and 1 best, patience 1, metrics 1, 2 and NaN, one skipped batch, one loader error, one kill, any number of signals and resubmissions: enough for a kill between any two writes and a clean-up with something to remove, a batch size that changes with the epoch and with the restart, a queue of one batch that is full when the epoch changes |
| `native_loader` | `EpochDelivered`, `CallsReturn`, `IsSource` | two workers, a channel of one item, splits of 0 and 3 samples, batches of 1 and 2, two epochs, one sample that fails, panics or hangs or one call that times out: the end marker before and after the last sample, a worker that waits for room when the loader stops, a short last batch, an epoch abandoned for the next |
| `enhance_file` | `AcceptedRuns`, `LookaheadDeclared`, `FormsAgree`, `Aligned` | some 10,400 configurations: the defaults and seven variants with up to two of 35 options changed; recordings of 1.5 and 4 hops at the model's rate, of 44.1 and 88.2 kHz padded, of 16 kHz not padded (one hop: fewer frames than a lookahead), and a missing file; files enhanced after one another with one model; one interrupted start |
| `evaluation` | `ReportComplete`, `RaisesForCause`, `EvaluationEnds` | the calls of the test scripts and of `evaluation_loop_dir_only` (also with uneven lists) with up to three metrics and two workers, a length to assert that fits no metric, one of two, or all; two files (also with one base name, of lengths that differ by more or less than a hop, with an enhanced signal that is not finite) or none; one raising computation, one killed worker |
| `data_dir` | `WritersAlone`, `ReadersKeepFiles`, `WithinBudget`, `CopyComesToAnEnd` | two jobs, one needs the noise (size 1), the other noise and speech (size 3), a budget of 3, one retry of the wait for a lock, three submissions, a kill at any step |
| `control_module_during_init` | `ModuleConverged` (violated) | finding 1 |
| `control_disabled_init` | `EnabledConverged` (violated) | finding 2 |

Deadlock is not checked: the bounds end every behaviour, and a destroyed pipeline stops.

`NoUnderrun` is tight: if a batch may still be in flight in the `2 * batchFrames`-th later call, TLC finds an underrun in
the tenth call with frames of 15 for quanta of 4, which is the ratio of the product. It is claimed for a cushion (the prefill,
a quantum and a frame) that fits the output queue, which is up to 82 frames of 480 per batch: from 84 the queue of 128 frames
cuts the prefill.

`OrderKept` claims order until the output queue is overrun, and says what that takes: the speaker starves for as many quanta
as the queue is longer than the cushion (about 1.27 s with a frame per batch). After it order is lost: the ring buffer keeps
its read index, and the newest samples are played before what is left of the older ones.

`NothingLost` is for frames of one length, as both modules of the product have (480). With two lengths the code
truncates (RNNoise reads one frame of a longer input), pads (bypass) or rejects frames that were cut before a switch;
two builds of `frames` show that even then order (until an overrun) and ownership hold.

### Findings

1. A `setStageModule` during `init()` resolves and is lost: the worklet has no worker port yet and confirms anyway,
   and INIT_PIPELINE brings the module captured before.
2. `enable` of INIT_PIPELINE is sent and declared but never read: a pipeline disabled before `init()` or `restart()`
   denoises, while `isEnabled()` says it does not.

Other disagreements, without a run of their own:

- `vadLogs` cannot be changed on a running pipeline (`AudioPipelineWorklet.ts:297`), although `js/README.md:40`
  does so and lines 52-53 list it. The interval can.
- "All forward methods should be mathematically similar" (`df/modules.py:329`): `FormsAgree` says where they are not.
- `AudioDataset` warns "Skipping..." of a missing file and keeps it in the list; the program ends when its turn comes
  (`MissingFile`).
- The evaluation scripts `df/scripts/test_*.py` and `model_summary.py` unpack three values of `init_df()`, which returns
  four.
- `drop_last` of the native loader, which no caller sets, tests whether the end marker has come instead of the size of the
  batch (`dataloader.rs:430`): a short batch is kept when the marker comes after its samples; a whole one is dropped, or
  the assertion after it panics, when the marker comes before. `EpochDelivered` excepts it.
- "During valid/test only return one batch for each epoch" (`dataloader.rs:205`): with `overfit`, `start_epoch` iterates
  over the training set for every split, as it says itself; `dataloader_len` still announces one batch.
- `assert_output_length` of `evaluation_loop_dns` is compared with `len(m.enh_values)` (`evaluation_utils.py:256`), the number
  of a metric's columns: with two metrics of 4 and 3 columns every length but None fails.
- `cleanup` of `copy_datadir.py` removes the line `<model>.read`, which no line with a time in it matches.

Where the networks pass their constructors and fail later, or leave features unread, is listed in `BuiltWrong` and
`BuiltSmall` of `EnhanceFile`, and which recordings are too short for a lookahead in `TooShort`; `AcceptedRuns` says that
these lists are complete and contain nothing else.

## 4. Fairness

Safety runs assume none. `FairSpec` assumes weak fairness of: the first queued setter starting (a promise
continuation); `addModule` and the two fetches settling either way (the browser's task: the code has no timer for
them); the timer of a worker init and of a command firing. Nothing is assumed of worklets and workers, which may hang
or stay silent: this is what the two timers are for. WF suffices since each of these stays enabled until it happens
or the call it serves is settled otherwise.

`TrainSession` assumes weak fairness of the process, of the consumer and of the pin-memory thread (the operating
system runs them), of the batch script's exit handler and of the scheduler; nobody has to submit, signal or kill.
`Evaluation` assumes it of the main thread, of workers taking and finishing tasks, and of the result handler; raising
and dying are never required. `DataDir` assumes it of every job's script while it runs; training may last for ever. `NativeLoader` assumes it of each
pool worker and of the thread that calls, within a call; nothing makes a sample that hangs come, so a join of its worker
may last for ever, the one after a time-out included, which `CallsReturn` allows.

## 5. Proofs

`ControlProofs` first proves the transport alone (`CommandTransport`), for any number of requests:

- `TransportInvariant`: `TransportSpec => []TransportInv`: the map holds exactly the requests whose promise waits, and
  ids are fresh. Both parts are needed for one another when a new id is handed out.
- `SettlesOnce`: `TransportSpec => SettledForGood`: a settled promise stays settled.

`ControlProofs` proves the control plane in three layers, by what the application has to keep to. Every part of the invariants below
was an invariant of a TLC run before it was proved.

First, for every application, every failure and any number of calls and requests:

- `ControlInvariant`: `ControlInv` is inductive: `TransportInv`; the types of all three runtimes (`ControlType`), which
  say of every queue what it can carry; `Requests`, who awaits which request: the running setter or one init call, never
  two; `Handles`, that the node in use has not been told to close and that the worker in use runs. `DestroyIsLast` needs
  the types, since only DESTROY has no id, and the handles, since `destroy()` sends it to the node it holds.
- `AwaitedHolds`, `HandlesHold`, `DestroyLastHolds`: `PendingIsAwaited`, `HandlesAreLive` and `DestroyIsLast` follow.
- `TransportRefined`: `Spec => TransportImplemented`: every step of the composed system is one of `CommandTransport` or
  leaves the map alone, so `ControlSettlesOnce` (no promise of the track processor settles twice) is `SettlesOnce` again.
- `ConsentHolds`: `Spec => OptionsNeedConsent`.

Second, with the rule `oneAtATime`, setters at any time and any failure:

- `LifecycleInvariant`: `LifecycleInv` is inductive together with `ControlInv`: `NoOrphan`; `Serving` (a track that was
  handed out is served); `Alone` (at most one init call in progress, and the handles are its own); `Messages`, for every
  node what its port, its worker's queue and its replies may contain at that point of the init call. `NoOrphan` needs
  `Alone`: a node that `destroy()` overlooked would belong to a second call. `Serving` needs `Messages`: the worker that
  answered INIT has loaded both modules and the confirmed pipeline command was the one that carried its port.
- `NoOrphanHolds`, `PublishedHolds`: `NoOrphan` and `PublishedIsServed`.

Third, with the rules of `control_steady` and without time-outs of commands (`AgreementRules`; where the
application breaks a rule, findings 1 and 2 show the disagreement):

- `AgreementInvariant`: `AgreementInv` is inductive together with the two before. Its idea is `Latest`: of the messages
  of one class in a queue the last one, or what the receiver has now if there is none, is what the main thread believes.
  `Agreed` says this of modules, configs and processing on the way from main thread over worklet to worker, and of
  MODULE_CHANGED on the way back; `Startup` of an init call, whose messages arrive before any other; `Setting` that a
  worklet has at most the command of the running setter to execute and confirms it.
- `ModuleConvergedHolds`, `EnabledConvergedHolds`, `ConfigConvergedHolds`: with nothing on its way the queues are empty
  and `Latest` is what the runtimes hold.

`FramePipelineProofs`, for every quantum, frame lengths, batch size, capacity of the output queue and number of calls and
commands (`PipelineAssumption`; `QueueAssumption` asks for what the code has: a queue holds three frames or more, and the
queue of one module drains into that of the other):

- `PipelineFlow`: `Flow` is inductive. `Types` says of every frame that it fills its array and of every pool that its
  arrays have the length it hands out; `Phase` that nothing is on its way before the worker has answered; `Sorted` that
  the numbered samples of the line increase and come after the last one played, until an overrun, and `Bounded` what is left
  of it then; `Stall` that the line is no longer than the cushion and what entered while the speaker starved, so that an
  overrun takes starvation; `NothingLost` is part of it as it stands. That the queue holds no more than its capacity, and what
  it holds after a push, is `PushedType`.
  The line is the join of the output queue, both channels, the batch and the input queue, and each action is shown to move
  a piece from one part to the next (`ProcessLine`: what is played and the new line are the old line and the quantum;
  `WorkletReceivesLine`, `WorkerReceivesLine`: the line stays), or to thin it, where samples are padded, cut or dropped.
  The batch that is cut from the queue is a sequence of frames, so half of the lemmas are about `FlattenSeq`, which the
  library defines by recursion: the partial joins of a sequence of sequences are unique (by a least counterexample), and
  flattening is the last of them.
- `PipelineTypeOK`, `LineInOrder`, `LineComplete`: `TypeOK`, `OrderKept` and `NothingLost`.
- `PrefillSuffices`: `NoUnderrun`. `Cushioned` is inductive together with `Flow`: once the worker is there the line is never
  shorter than the prefill, and the samples of a batch on its way are no older than a batch of frames and as many quanta
  as `process()` was called since (`Recent`). So when `process()` comes to play, what is behind the output queue is at most
  a batch and a round trip (`ProcessUnplayed`: since nothing is lost, it is a run of numbers, and its first one is
  recent), the output queue has the rest of the prefill and the quantum that has come in, and there is one to play. As long as it does
  not starve, `Stall` keeps the queue from being overrun, if the cushion fits.
  The attempt corrected the model: the guard of `timely` let a batch stay away one call longer than the time that is
  prefilled for, and with the ratio of the product the invariant then fails (section 3).
- `ArraysInOnePlace`: `ArraysOwnedOnce`. `Owned` is inductive together with `Flow`: the identities of the arrays that are
  collected, kept for recycling on either side, on their way in either direction and pooled on either side are seven
  disjoint sets (`Apart`), and no list names one twice. `acquire()` takes from a pool or makes an array with an identity
  that is in none of the seven (`UnusedApart`), so what a step takes leaves one set for one other; an array that a
  resized pool, a failed batch or a closed port drops leaves them all.

The last part of `FramePipelineProofs` is about the ring buffer alone, for every capacity, sample set and call length that
satisfies `BufferAssumption` (the capacity is positive, no call is longer than the buffer, silence is a sample):

- `RingIndicesInRange`: `RingSpec => []RingTypeOK`. `RingTypeOK` is inductive alone: the indices advance by at most the capacity
  (`WrapAround`).
- `RingIndicesAgree`: `RingSpec => []RingInvariant`; `IndicesAgree` is inductive together with `RingTypeOK`. The condition `intact` is needed:
  an overrun caps the count and leaves the read index, and the equation fails from then on.
- `RingIsQueue`: `RingSpec => IsQueue`. The mapping reads the contents of the queue out of the array
  (`Contents`). `PushAppends` (a push that fits appends its input, by comparing position by position) and `ReadTakes`
  (a pull takes the first samples and leaves the rest) rest on the two invariants; `QueueStepMaps` has one step per
  operation.

`TrainSessionProofs`, for every length of the histories, every set of metrics, any number of epochs and of kills, any
warmup, cycles, batch sizes and table of hosts (a batch-size schedule has positive sizes and begins with epoch 0,
`train.py:171-183`):

- `SessionInvariant`: `SessionInv` is inductive. `Disk` and `OptDisk` say what a kill can leave: one file per name, epoch
  and family; the newest model file is of the epoch saved last or is the cut file of the next one; once `.best` has a line
  a best file is complete; with a history longer than one the file before the last is still there; the newest optimizer
  file lags by the kills. `Plans`, `Counts`, `Made` and `Validated` say how far the process is with its writes (what is
  left of a plan is a suffix of it) and what it knows of the files it has made itself: it is this that keeps the clean-up
  from removing the spare of the file that is rewritten next. The loader, the schedules and the batch size have no
  part in it.
- `SomeModelSurvivesHolds`, `OptimizerLagHolds`, `ResumesHolds`: `SomeModelSurvives`, `OptimizerLag` and
  `ResumesWhereItStopped`. The last needs that reading either chooses a cut file and fails or finds the epoch saved
  last (`ModelRead`).
- `HistoriesInvariant`, `HistoriesAgreeHolds`: `HistoriesAgree`. `Histories` says at every place of the process how many
  metrics `.best` and `.patience` already tell: both lag by one from the end of a validation until their line is written,
  `.best` by the writes of the best file, `.patience` until the patience has been checked. The first of the best metrics is
  unique (`OneBest`) and is replaced only by a better one (`NextBest`), so both files are about the same validation.
- `RunInvariant`: beside `SessionInv`, the loader keeps the invariant `PinMemoryLoaderProofs` proves of it alone. What that
  proof assumes of the calls of `iter_epoch` is what the session has to guarantee: no epoch is started twice in a row
  (`LoaderState` says for every place of the process which epoch the loader was started for last; after `load_model` it
  is none), and none is longer than its split (`CeilDivRange`, and `ConfigState`, that the batch size is positive).
  `LrState` ties the schedules to the batch size and both to the epoch of the loader.
- `BatchesOfTheEpochHolds`: `BatchesOfTheEpoch`. `LrCoversStepHolds`: `LrCoversStep`, from `Numbered` (the numbers that
  were yielded are batches of the epoch) and `ScheduleFull`: with any warmup and cycles the arrays are as long as the
  training, so that the last assertion of `cosine_scheduler` never fails. Growing cycles are computed by recursion;
  that the recursion has a solution and that its sums grow is shown by least counterexamples, which the well-foundedness
  of the natural numbers provides without an induction over a predicate.

The proof attempt corrected one property: `SomeModelSurvives` was stated without its exception for a history of one file
(`n_checkpoint_history = 1`). There the clean-up after the training removes the file of the epoch before, and the rewrite
after the validation opens the only complete file in place; until `.best` has a file of its own, a kill in between leaves
no complete model. The instance for TLC keeps two files and could not show it.

`PinMemoryLoaderProofs`, for any epochs, batches per epoch, queue size, with and without pinning, and any number of
loader errors (`LoaderConstants`):

- `LoaderInvariant`: `Inv` is inductive. Beside the types it says where the batches are (`Belongs`: of the running epoch,
  or, while the thread is replaced, of an earlier one), when the old thread has been told to stop (`Stopped`), that the
  end marker is last (`EndLast`), and that every batch the native loader has served was yielded, is queued, is held or is
  the one that was lost (`Accounted`). None of these is inductive alone: that only one batch is lost needs that the old
  thread stops after it, which needs the event, which needs where the consumer stands.
- `OnlyThisEpochHolds`, `AtMostOneLostHolds`, `BlockedOnlyByErrorHolds`, `LoaderTypeCorrect` follow. `Numbered` is a second
  layer over `Inv`. `ProcessEnds` of `train_session` is about the same facts in the composition.

`NativeLoaderProofs`, for any workers, channel capacity, lengths of the splits, batch sizes, epochs and faults
(`NativeLoaderAssumption`):

- `NativeInvariant`: `Inv` is inductive. A number is in one place at a time (`Computed`, `Sent`, `ComputedOnce`,
  `SentOnce`, `Buffered`) and lies between the next one to deliver and the next one to hand out (`Coming`), so that nothing
  below `cur_out_idx` can arrive any more; the batch continues what was returned (`Collected`, `Delivered`); batches but the
  last are full (`Counted`), from which their number follows (`BatchesOf`); and the epoch ends when nothing is left
  (`Noticed`, `Ended`), whether or not the end marker came early. That no sample reappears needs all places at once, and
  that the join empties the channel before a new epoch fills it.
- `EpochDeliveredHolds`: `Spec => []EpochDelivered`.
- `SourceImplemented`: `Spec => IsSource`, the refinement of `BatchSource`, from `Inv` and `SourceInv` (the lengths and batch
  sizes are among those of the constants, and a batch is handed out only while there is a receiver). `SourceSteps` has one
  step per action: those of the workers and of the collecting change nothing the source shows; a batch returned is the
  first part of what was left and full unless it is the last (`FirstOfRun`, `RestOfRun`), because the loader goes on only
  while samples are left; and the join that ends the epoch finds nothing left (`Ended`). It excepts `drop_last`, as
  `EpochDelivered` does.

`DataDirProofs`, for any jobs, datasets, sizes, limits, kills and ages of lines, if no job's name begins with the name of
another or contains a dot (`OwnNames`: `has_locks` could not tell their lines apart):

- `DirInvariant`: `DirInv` is inductive. Types and `Phases` hold always, `Respected` as long as no jobs raced (`harm`):
  who writes or trains has its line in the file, and it is not a day old (`Locked`); beside a job that writes no other
  writes or is about to act on what it saw of the locks (`Alone`); beside one that trains nobody is about to remove the
  directory, everybody who fills it knows of a reader, and a copy that may fail on another host is of a dataset the job
  does not use (`Spared`); what a job has visited is there or a copy of it is on its way (`Present`). The four need each
  other: a line keeps the others off because they saw it, and it stays because those who remove lines were kept off.
- `WritersAloneHolds` and `ReadersKeepFilesHolds` follow.
- `WithinBudgetHolds`, for finitely many jobs: `BudgetInv` says that while a job plans, the copies in the directory and the
  ones it has submitted are together no more than what it has counted (`curB`), and no more than `--max-gb`. It needs
  `DirInv`, by which no other job adds a copy meanwhile, and the sizes of sets of datasets (`SizeOf`): that the sum over a
  finite set is the one function with its equation (`SumsExist`, `SumsUnique`) and grows by the size of what is added
  (`SizeOfOneMore`), by taking a least set for which it would not.

`EvaluationProofs`, for any calls with at least one metric, any test sets, numbers of workers, errors and killed processes
(`CallsAssumption`):

- `EvalInvariant`: `EvalInv` is inductive. Of the pool, `OncePlaced` and `SentOnly` say that a task is queued, in a worker,
  on its way back or settled, once and only after the loop has come to it; `Collected` that the values of a metric are
  those of its tasks that settled with one; `Awaited` that a metric still waits for every task whose value it lacks. So when
  a metric has waited for the last of them, its values are a bijection onto the files (`JoinedHasAll`), although the
  callbacks ran in any order. Of the report, `InOrder`, `Filled` and `Averaged` say which metrics are in the table and the
  means already: of a row the last value with its name, of a column the last metric with it.
- `ReportCompleteHolds` and `RaisesForCauseHolds`. The second needs that a table of all metrics lacks no cell
  (`NoneMissing`): `write_csv` then fails for no other reason than that there are no rows. The causes it lists are the assertions and raises of
  the code: those of `add()` and of `evaluation_loop_dir_only`, `assert_output_length`, and the first row of an empty table.

`EnhanceFileProofs`, for any set of configurations and recordings: of an option only what makes it a size, a lookahead, a
number of iterations or a name is assumed, of a recording a length and a positive rate (`EnhanceAssumption`):

- `FormsOfFilter`: for any number of frames, order and lookahead, which of the eight forms of the deep filter compute the
  same. The padded spectrum holds at each place the frame it should or zeros (`PadAt`), so the strided, unfolded and sliced
  windows are the same windows (`SameWindows`); the buffer of the two streaming forms is given at every frame
  (`SpecBufIs`), by a least frame where the recursion would differ. `FormsAgreeHolds` follows for every accepted
  configuration.
- `AlignedHolds`: `Aligned`. `EnhanceType` is inductive: what the buffer of a stateful filter holds between two files
  (`HeldType`: frames of earlier recordings, or zeros), how many frames a recording has, and that the stateful form never
  ran with a lookahead of twice the order or more, where its index fails. From it follow the frame that is shown
  (`FrameShownIs`), the frames that overlap a sample (`OverlappingFrames`) and the length after two roundings
  (`SavedLength`). The attempt corrected the property: the index of the stateful form wraps around for a lookahead of the
  order or more, so the shift is only the rest; without the padding the samples of a last hop that is not full are lost,
  and what resampling adds depends on the rate.
- `LookaheadDeclaredHolds`: `LookaheadDeclared`. `At(x, a)` says that a tensor depends on input frames up to `a` later,
  unless its block raised; there is one lemma per block of `TensorOps` and `ErbUNet` (`BlockAt`, `JoinAt`, `ConvAt`,
  ...), which the four networks put together (`Parts...`, `Net...`). The iterations of the second network's filter are a
  recursive function: that it has its values is shown first (`IteratesExist`), that each one adds a lookahead by a least
  iteration that would not (`IteratedAt`). Since an output is used only if nothing raised, the statement needs that
  every operator hands an error on, which some operators of `TensorOps` did not say before. `OutputKept` carries the
  output of a network to the end of its recording.
- `ModelFoundHolds`: the part `ModelFound` of `AcceptedRuns`, from `CacheWhole`: before the first interrupt the program looks at no model or at all
  of one, and finds a whole one.

Only model-checked: the rest of `AcceptedRuns`, and liveness (`CallsSettle`, `StopIsResumed`, `ProcessEnds`, `EvaluationEnds`,
`CopyComesToAnEnd`, `CallsReturn`), which TLAPS does not reach. `AcceptedRuns` lists the combinations of up to two
changed options that pass the constructors and fail; with three or more there may be others, so it is a statement about the
listed configurations only. A push longer than the whole buffer is outside the ring buffer model; only the prefill of 84 or
more frames per batch can make one, and `FramePipeline` has it: that its `Pushed` is the ring buffer of the code is compared by
TLC for small buffers (`PushedLikeTheRing`), not proved.

## 6. Not modelled

The Android processor and the LADSPA plugin are not modelled (below). The desktop demo
repeats the structure of the LADSPA plugin. RNNoise, the real-time inference in Rust and its bindings, losses and speech
metrics are numerical code on floats without a state a model checker could explore usefully; of the inference, frame
analysis and synthesis are part of `EnhanceFile`, as it uses them. The export and helper scripts run from start to
end once.

Left out of modelled parts: the shuffle, the generation of keys, the dataset behind `get_sample` and the collation of the
native loader; clamping of option values, URL defaults, log texts and the VAD score of the web plugin;
`START_EVAL`, other metrics than the loss, LSNR dropout, the summaries and all values of losses, gradients and learning
rates of the training; environment overrides, casts and the renaming of old options of the config; the evaluation batch
size of the hosts; names and overwritten files of `save_audio`; the second clean-up of a failed training (the EXIT trap
after the ERR trap); that the continue file is not left for the next job; names that are prefixes of each other or contain a dot in `.lock` (`Begins` and `Dotted` are there,
the instance has none); two hosts in one run (`Hosts` is there, the instance has one).

## 7. Plan

Done, in order of importance: control plane and transport, ring buffer with its refinement and proofs, audio path;
training session with its loaders, checkpoints and config, proofs of both loaders; networks, filters and enhancement;
evaluation; data directory; proofs of the safety of all of them and of the three refinements. Next:

1. Proofs: that `PinMemoryLoader` refines `BatchSource` in its turn, with the thread of the epoch before still calling.
2. `LadspaPlugin`: audio thread and worker thread over the two queues; delay accounting against the samples really
   held (`ladspa/src/lib.rs:434-488`), to be refined to a queue with a delay.
3. `AndroidProcessor`: contexts, reset, release and the module choice under the monitor.
