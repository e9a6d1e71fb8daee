---------------------------- MODULE NativeLoader ----------------------------
(***************************************************************************)
(* DataLoader (libDF/src/dataloader.rs) and its Python class (pyDF-data/   *)
(* src/lib.rs): pool workers compute the samples of an epoch in any order  *)
(* and send them through a bounded channel; get_batch() puts them in order *)
(* and cuts them into batches.  PinMemoryLoader calls it.                  *)
(*                                                                         *)
(* The samples of an epoch are numbered from 0 in the order the shuffle    *)
(* gave them.  Every epoch has its own channels, and the workers of the    *)
(* one before are joined, so a number needs no epoch.                      *)
(***************************************************************************)
EXTENDS Integers, Sequences, FiniteSets

CONSTANTS
    Workers,        \* num_workers, as a set
    Prefetch,       \* num_prefetch, capacity of the channel to get_batch()
    Lengths,        \* lengths a split of the dataset may have
    BatchSizes,     \* batch sizes that are set
    MaxEpochs,      \* bound on calls of start_epoch()
    MaxFaults       \* bound on samples that fail and calls that time out

ASSUME NativeLoaderAssumption ==
    /\ Prefetch \in Nat \ {0}           \* batch_size * num_workers
    /\ Lengths \subseteq Nat
    /\ BatchSizes \subseteq Nat \ {0}
    /\ {MaxEpochs, MaxFaults} \subseteq Nat

VARIABLES
    opts,           \* drop_last, overfit, the lengths and batch sizes of the splits
    call,           \* the call that runs: "idle", "collect", "join" or how it ended
    goal,           \* what the join is for, and the split start_epoch() asked for
    split,          \* current_split
    target,         \* target_idx of the call that collects
    finished,       \* of _FdDataLoader
    drained,        \* the end of the epoch was seen
    open,           \* is there a receiver?
    cur,            \* cur_out_idx
    samples,        \* samples of the batch that is collected
    outBuf,         \* samples that came too early
    indices,        \* the index channel: next number, len for the end marker
    worker,         \* what each worker does
    channel,        \* what the workers have sent
    given,          \* history: samples of the epoch in the batches returned
    early,          \* history: the end marker came before a sample
    used            \* history: epochs, batches of the epoch and as promised, faults

callerVars == <<call, goal, split, target, finished, drained, open, cur, samples, outBuf>>
workVars == <<indices, worker, channel>>
vars == <<opts, callerVars, workVars, given, early, used>>

Splits == {"train", "valid"}
EndMarker == -1         \* ordering_idx of the end, Err(DatasetDrained)
SampleError == -2       \* any other Err

-----------------------------------------------------------------------------
(* Lengths. *)

Least(a, b) == IF a < b THEN a ELSE b
CeilDiv(a, b) == (a + b - 1) \div b

\* dataset_len: with overfit, one batch of the validation set
DatasetLen(s) ==
    IF opts.overfit /\ s # "train" THEN Least(opts.len[s], opts.bs[s]) ELSE opts.len[s]

DataloaderLen(s) ==
    IF opts.dropLast THEN DatasetLen(s) \div opts.bs[s] ELSE CeilDiv(DatasetLen(s), opts.bs[s])

N == DatasetLen(split)

Numbers(n) == [i \in 1 .. n |-> i - 1]

-----------------------------------------------------------------------------
Off == [pc |-> "off", item |-> 0]

Init ==
    /\ opts \in [dropLast : BOOLEAN, overfit : BOOLEAN, len : [Splits -> Lengths], bs : [Splits -> BatchSizes]]
    /\ call = "idle" /\ goal = [after |-> "none", split |-> "train"]
    /\ split = "train" /\ target = 0 /\ finished = FALSE /\ drained = FALSE
    /\ open = FALSE
    /\ cur = 0 /\ samples = <<>> /\ outBuf = {}
    /\ indices = 0 /\ worker = [w \in Workers |-> Off] /\ channel = <<>>
    /\ given = <<>> /\ early = FALSE
    /\ used = [epochs |-> 0, batches |-> 0, promised |-> 0, faults |-> 0]

Idle == call \in {"idle", "batch", "closed"}
Fault == used.faults < MaxFaults /\ used' = [used EXCEPT !.faults = @ + 1]

-----------------------------------------------------------------------------
(* The pool workers, each running the closure of start_idx_worker.  The    *)
(* channel of the indices is full and closed before they start.            *)

Receiving == [pc |-> "recv", item |-> 0]
Sending(item) == [pc |-> "send", item |-> item]

\* recv() and get_sample(), which may fail, panic or never return
Compute(w) ==
    /\ worker[w].pc = "recv" /\ indices < N
    /\ indices' = indices + 1
    /\ \/ worker' = [worker EXCEPT ![w] = Sending(indices)] /\ UNCHANGED used
       \/ \E bad \in {Sending(SampleError), [Off EXCEPT !.pc = "panicked"], [Off EXCEPT !.pc = "stuck"]} :
             worker' = [worker EXCEPT ![w] = bad] /\ Fault
    /\ UNCHANGED <<opts, callerVars, channel, given, early>>

TakeMarker(w) ==
    /\ worker[w].pc = "recv" /\ indices = N
    /\ indices' = indices + 1
    /\ worker' = [worker EXCEPT ![w] = Sending(EndMarker)]
    /\ UNCHANGED <<opts, callerVars, channel, given, early, used>>

NothingLeft(w) ==
    /\ worker[w].pc = "recv" /\ indices > N
    /\ worker' = [worker EXCEPT ![w] = Off]
    /\ UNCHANGED <<opts, callerVars, indices, channel, given, early, used>>

\* send() waits for room, and fails once there is no receiver; either way the
\* worker that has sent the end is done.
Send(w) ==
    /\ worker[w].pc = "send"
    /\ \/ /\ open /\ Len(channel) < Prefetch
          /\ channel' = Append(channel, worker[w].item)
          /\ worker' = [worker EXCEPT ![w] = IF @.item = EndMarker THEN Off ELSE Receiving]
       \/ /\ ~open
          /\ worker' = [worker EXCEPT ![w] = Off]
          /\ UNCHANGED channel
    /\ UNCHANGED <<opts, callerVars, indices, given, early, used>>

WorkerStep(w) == Compute(w) \/ TakeMarker(w) \/ NothingLeft(w) \/ Send(w)

-----------------------------------------------------------------------------
(* The calls of the Python class, one at a time.                           *)

\* Mutant: the workers are joined while their receiver is alive.
JoinOpen(after) ==
    /\ call' = "join" /\ goal' = after
    /\ UNCHANGED <<open, channel>>

\* join_fill_thread: drop the receiver, with what is in the channel, then wait
JoinFillThread(after) ==
    /\ open' = FALSE /\ channel' = <<>>
    /\ call' = "join" /\ goal' = after

\* set_batch_size, "before calling iter_epoch()"
SetBatchSize(s, bs) ==
    /\ Idle /\ (finished \/ ~open)
    /\ opts' = [opts EXCEPT !.bs[s] = bs]
    /\ UNCHANGED <<callerVars, workVars, given, early, used>>

StartEpoch(s) ==
    /\ Idle /\ used.epochs < MaxEpochs
    /\ finished' = FALSE
    /\ used' = [used EXCEPT !.epochs = @ + 1]
    /\ JoinFillThread([after |-> "start", split |-> s])
    /\ UNCHANGED <<opts, split, target, drained, cur, samples, outBuf, indices, worker, given, early>>

\* get_batch: an epoch that has ended stays so; a receiver that is gone is an
\* error
GetBatch ==
    /\ Idle /\ used.epochs > 0 /\ ~finished
    /\ samples' = <<>>
    /\ drained' = (drained \/ cur >= N)
    /\ target' = Least(N, cur + opts.bs[split])
    /\ call' = IF open THEN "collect" ELSE "error"
    /\ UNCHANGED <<opts, goal, split, finished, open, cur, outBuf, workVars, given, early, used>>

Collecting == call = "collect" /\ cur < target
Add(k) == samples' = Append(samples, k) /\ cur' = cur + 1

TakeBuffered ==
    /\ Collecting /\ cur \in outBuf
    /\ Add(cur)
    /\ outBuf' = outBuf \ {cur}
    /\ UNCHANGED <<opts, call, goal, split, target, finished, drained, open, workVars, given, early, used>>

\* Mutant: samples are taken as they come.
KeepAny(k) == Add(k) /\ UNCHANGED outBuf

\* The next sample, or one for later
Keep(k) ==
    \/ k = cur /\ Add(k) /\ UNCHANGED outBuf
    \/ k # cur /\ outBuf' = outBuf \cup {k} /\ UNCHANGED <<samples, cur>>

Receive ==
    /\ Collecting /\ cur \notin outBuf /\ channel # <<>>
    /\ channel' = Tail(channel)
    /\ LET item == Head(channel) IN
       \/ /\ item >= 0 /\ Keep(item)
          /\ UNCHANGED <<call, drained, early>>
       \/ /\ item = EndMarker
          /\ drained' = TRUE /\ early' = TRUE
          /\ UNCHANGED <<call, samples, cur, outBuf>>
       \/ /\ item = SampleError
          /\ call' = "error"
          /\ UNCHANGED <<samples, cur, drained, outBuf, early>>
    /\ UNCHANGED <<opts, goal, split, target, finished, open, indices, worker, given, used>>

\* TimeoutError after 1000 tries: a slow sample, or one that will never come
NoMore == \A w \in Workers : worker[w].pc \in {"off", "stuck", "panicked"}
TimeoutError ==
    /\ Collecting /\ cur \notin outBuf /\ channel = <<>>
    /\ \/ NoMore /\ UNCHANGED used
       \/ ~NoMore /\ Fault
    /\ call' = "error"
    /\ UNCHANGED <<opts, goal, split, target, finished, drained, open, cur, samples, outBuf, workVars,
                   given, early>>

\* Mutant: the marker ends the epoch.
LastAtMarker == drained

Last == drained /\ (opts.dropLast \/ samples = <<>>)

\* None: the epoch is over; its assertion panics on samples that are left.
EndEpoch ==
    /\ call = "collect" /\ cur >= target /\ Last
    /\ \/ /\ outBuf = {}
          /\ JoinFillThread([goal EXCEPT !.after = "end"])
       \/ /\ outBuf # {}
          /\ call' = "panicked" /\ UNCHANGED <<goal, open, channel>>
    /\ UNCHANGED <<opts, split, target, finished, drained, cur, samples, outBuf, indices, worker,
                   given, early, used>>

ReturnBatch ==
    /\ call = "collect" /\ cur >= target /\ ~Last
    /\ call' = "batch"
    /\ given' = given \o samples
    /\ used' = [used EXCEPT !.batches = @ + 1]
    /\ UNCHANGED <<opts, goal, split, target, finished, drained, open, cur, samples, outBuf, workVars, early>>

\* cleanup: after every error of get_batch (torch_dataloader.py), and at exit
Cleanup ==
    /\ call \in {"idle", "batch", "error"} /\ used.epochs > 0
    /\ JoinFillThread([goal EXCEPT !.after = "cleanup"])
    /\ UNCHANGED <<opts, split, target, finished, drained, cur, samples, outBuf, indices, worker,
                   given, early, used>>

\* start_epoch once the workers are gone: new buffers, indices and channel,
\* and workers that begin at once.  With overfit every split is the training
\* set.
Begin(s) ==
    /\ split' = IF opts.overfit THEN "train" ELSE s
    /\ outBuf' = {} /\ cur' = 0 /\ drained' = FALSE
    /\ indices' = 0 /\ open' = TRUE
    /\ worker' = [w \in Workers |-> Receiving]
    /\ given' = <<>> /\ early' = FALSE
    /\ used' = [used EXCEPT !.batches = 0, !.promised = DataloaderLen(s)]
    /\ call' = "idle"

\* The join returns when every worker is done; it fails when one panicked.
JoinEnds ==
    /\ call = "join" /\ \A w \in Workers : worker[w].pc \in {"off", "panicked"}
    /\ LET ok == \A w \in Workers : worker[w].pc = "off" IN
       \/ ok /\ goal.after = "start" /\ Begin(goal.split) /\ UNCHANGED finished
       \/ /\ ~ok \/ goal.after # "start"
          /\ call' = IF goal.after = "end" /\ ~ok THEN "error" ELSE "closed"
          /\ finished' = (finished \/ (ok /\ goal.after = "end"))
          /\ worker' = [w \in Workers |-> Off]
          /\ UNCHANGED <<split, drained, open, cur, outBuf, indices, given, early, used>>
    /\ UNCHANGED <<opts, goal, target, samples, channel>>

-----------------------------------------------------------------------------
LoaderStep == TakeBuffered \/ Receive \/ TimeoutError \/ EndEpoch \/ ReturnBatch \/ JoinEnds

Next ==
    \/ \E w \in Workers : WorkerStep(w)
    \/ LoaderStep
    \/ GetBatch
    \/ Cleanup
    \/ \E s \in Splits : StartEpoch(s)
    \/ \E s \in Splits, bs \in BatchSizes : SetBatchSize(s, bs)

Spec == Init /\ [][Next]_vars

\* The scheduler runs every thread; a sample that is stuck is no step at all.
FairSpec == Spec /\ WF_vars(LoaderStep) /\ \A w \in Workers : WF_vars(WorkerStep(w))

-----------------------------------------------------------------------------
(* Properties. *)

(* What PinMemoryLoader takes for granted.  Whatever order the workers     *)
(* finish in, the batches of an epoch are its samples in order, none twice *)
(* and none left out; get_batch() ends the epoch after the last of them,   *)
(* after as many batches as dataloader_len() says; the assertions of       *)
(* get_batch() hold.                                                       *)
(*                                                                         *)
(* Apart from two options.  drop_last, which no caller sets, tests the     *)
(* marker instead of the size of the batch: it keeps a short batch when    *)
(* the marker comes after it, and drops a whole one, or panics, when the   *)
(* marker comes before.  overfit promises "one batch for each epoch" of    *)
(* the validation set, and iterates over the training set instead.         *)
EpochDelivered ==
    /\ given = Numbers(Len(given)) /\ Len(given) <= N
    /\ call # "collect" \/ given \o samples = Numbers(cur)
    /\ finished /\ ~opts.dropLast => Len(given) = N
    /\ finished /\ ~opts.dropLast /\ (goal.split = "train" \/ ~opts.overfit) =>
          used.batches = used.promised
    /\ call = "panicked" => opts.dropLast /\ early
    /\ outBuf \subseteq cur .. N - 1

(* The loader with all its threads is the source its callers take it for,  *)
(* unless drop_last is set: each call hands out the next batch of the      *)
(* epoch that was started, full but for the last, and the epoch is over    *)
(* once the join after the last batch finds no worker that panicked.       *)
Runs == ~opts.dropLast /\ (open \/ (call = "join" /\ goal.after = "end"))
EpochState == IF Runs THEN "on" ELSE IF finished /\ ~opts.dropLast THEN "over" ELSE "off"
Rest == IF Runs THEN [i \in 1 .. N - Len(given) |-> Len(given) + i - 1] ELSE <<>>
Size == IF Runs THEN opts.bs[split] ELSE 0
HandedOut == IF Runs /\ call = "batch" THEN samples ELSE <<>>

Source == INSTANCE BatchSource WITH
    state <- EpochState, left <- Rest, size <- Size, batch <- HandedOut

IsSource == Source!SourceSpec

(* No deadlock of workers that wait for room in the channel and a loader   *)
(* that waits for one of their samples or joins them: every call returns,  *)
(* the epoch in time or not, unless it joins a worker whose sample never   *)
(* comes; that is where a call that timed out ends as well.                *)
CallsReturn ==
    /\ call = "collect" ~> call # "collect"
    /\ call = "join" ~> (call # "join" \/ \E w \in Workers : worker[w].pc = "stuck")
=============================================================================
