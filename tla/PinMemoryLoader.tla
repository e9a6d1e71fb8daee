-------------------------- MODULE PinMemoryLoader --------------------------
(***************************************************************************)
(* PytorchDataLoader (pyDF-data/libdfdata/torch_dataloader.py): the        *)
(* training script iterates over an epoch while a pin-memory thread moves  *)
(* batches from the native loader into a bounded queue.                    *)
(*                                                                         *)
(* The thread of one epoch is not joined when the epoch ends, only told to *)
(* stop; it is joined when the next epoch starts, AFTER the native loader  *)
(* was started for that epoch.                                             *)
(*                                                                         *)
(* A batch is <<epoch, number>>; number 0 stands for the wrapped           *)
(* StopIteration.  The thread's loop is torch's _pin_memory_loop.          *)
(***************************************************************************)
EXTENDS Naturals, Sequences, FiniteSets

CONSTANTS
    Epochs,         \* the epochs iter_epoch is called for, as numbers above 0
    MaxBatches,     \* bound on the batches of one epoch
    Prefetch,       \* NUM_PREFETCH_BATCHES, maxsize of data_queue
    MaxErrors       \* bound on the errors raised by the native loader

\* What the constants have to be; TrainSession assumes it of its loader.
LoaderConstants ==
    /\ Epochs \subseteq Nat \ {0}
    /\ MaxBatches \in Nat
    /\ Prefetch \in Nat \ {0}
    /\ MaxErrors \in Nat

VARIABLES
    pin,            \* pin_memory: is there a CUDA device?
    native,         \* the native loader: epoch started, next batch, batches
    mpc,            \* where the consumer stands in iter_epoch
    batch,          \* the batch last yielded
    queue,          \* data_queue
    done,           \* pin_memory_thread_done_event
    tpc,            \* where the pin-memory thread stands
    item,           \* what the thread took and has not put yet
    got,            \* history: batch numbers yielded in this epoch
    lost,           \* history: batch numbers of this epoch the thread dropped
    errors          \* history: errors raised by get_batch

loaderVars == <<pin, native, mpc, batch, queue, done, tpc, item, got, lost, errors>>
consumer == <<mpc, batch, got>>
thread == <<tpc, item>>

NoEpoch == 0
None == <<NoEpoch, 0>>
Batch == ({NoEpoch} \cup Epochs) \X (0 .. MaxBatches)
NativeState == [epoch: {NoEpoch} \cup Epochs, next: 1 .. MaxBatches + 1, n: 0 .. MaxBatches]
Ended(b) == b[2] = 0

LoaderInit ==
    /\ pin \in BOOLEAN
    /\ native = [epoch |-> NoEpoch, next |-> 1, n |-> 0]
    /\ mpc = "idle" /\ batch = None
    /\ queue = <<>> /\ done = FALSE
    /\ tpc = "dead" /\ item = None
    /\ got = {} /\ lost = {}
    /\ errors = 0

ThreadAlive == tpc # "dead"

\* loader.len(split): the batches of the epoch that runs
EpochLen == native.n

\* The native get_batch: the next batch, or StopIteration for ever after.
NextItem == <<native.epoch, IF native.next <= native.n THEN native.next ELSE 0>>
Advance == native' = IF native.next <= native.n
                     THEN [native EXCEPT !.next = @ + 1] ELSE native

-----------------------------------------------------------------------------
(* The consumer: iter_epoch and the loop that drives it. *)

StartEpoch(e, n) ==
    /\ mpc = "idle"
    /\ native' = [epoch |-> e, next |-> 1, n |-> n]
    /\ got' = {} /\ lost' = {}
    /\ mpc' = IF pin THEN "setup" ELSE "iter"
    /\ UNCHANGED <<pin, batch, queue, done, thread, errors>>

\* Mutant: the queue of the thread before is used again.
NewThreadOldQueue ==
    /\ done' = FALSE
    /\ tpc' = "check" /\ item' = None
    /\ mpc' = "iter"
    /\ UNCHANGED queue

NewThread ==
    /\ queue' = <<>> /\ done' = FALSE
    /\ tpc' = "check" /\ item' = None
    /\ mpc' = "iter"

\* setup_data_queue, when no earlier thread is alive
SetupQueue ==
    /\ mpc = "setup" /\ ~ThreadAlive
    /\ NewThread
    /\ UNCHANGED <<pin, native, batch, got, lost, errors>>

\* cleanup_pin_memory_thread: tell the thread of the last epoch to stop ...
StopOldThread ==
    /\ mpc = "setup" /\ ThreadAlive
    /\ done' = TRUE
    /\ mpc' = "drain"
    /\ UNCHANGED <<pin, native, batch, queue, thread, got, lost, errors>>

\* ... empty its queue ...
DrainOne ==
    /\ mpc = "drain" /\ queue # <<>>
    /\ queue' = Tail(queue)
    /\ UNCHANGED <<pin, native, consumer, done, thread, lost, errors>>

\* ... until it stays empty for 2 s.  A put that waits for room in an empty
\* queue completes within that time.
Drained ==
    /\ mpc = "drain" /\ queue = <<>> /\ tpc # "putting"
    /\ mpc' = "join"
    /\ UNCHANGED <<pin, native, batch, queue, done, thread, got, lost, errors>>

\* ... and join it.
JoinOldThread ==
    /\ mpc = "join" /\ ~ThreadAlive
    /\ NewThread
    /\ UNCHANGED <<pin, native, batch, got, lost, errors>>

\* while pin_memory_thread.is_alive() ... else raise
CheckThread ==
    /\ mpc = "iter" /\ pin
    /\ mpc' = IF ThreadAlive THEN "get" ELSE "raised"
    /\ UNCHANGED <<pin, native, batch, queue, done, thread, got, lost, errors>>

\* Mutant: the wrapped StopIteration is skipped.
GetPinnedOn ==
    /\ mpc = "get" /\ queue # <<>>
    /\ queue' = Tail(queue)
    /\ IF Ended(Head(queue))
       THEN mpc' = "iter" /\ UNCHANGED <<batch, got>>
       ELSE mpc' = "busy" /\ batch' = Head(queue) /\ got' = got \cup {Head(queue)[2]}
    /\ UNCHANGED <<pin, native, done, thread, lost, errors>>

\* _get_batch: a blocking get, then the batch or the wrapped StopIteration
GetPinned ==
    /\ mpc = "get" /\ queue # <<>>
    /\ queue' = Tail(queue)
    /\ IF Ended(Head(queue))
       THEN mpc' = "idle" /\ done' = TRUE /\ UNCHANGED <<batch, got>>
       ELSE /\ mpc' = "busy" /\ batch' = Head(queue)
            /\ got' = got \cup {Head(queue)[2]}
            /\ UNCHANGED done
    /\ UNCHANGED <<pin, native, thread, lost, errors>>

\* Without pinning the consumer calls the native loader itself.
GetDirect ==
    /\ mpc = "iter" /\ ~pin
    /\ Advance
    /\ IF Ended(NextItem)
       THEN mpc' = "idle" /\ UNCHANGED <<batch, got>>
       ELSE mpc' = "busy" /\ batch' = NextItem /\ got' = got \cup {NextItem[2]}
    /\ UNCHANGED <<pin, queue, done, thread, lost, errors>>

GetDirectFails ==
    /\ mpc = "iter" /\ ~pin /\ errors < MaxErrors
    /\ errors' = errors + 1
    /\ mpc' = "raised"
    /\ UNCHANGED <<pin, native, batch, queue, done, thread, got, lost>>

\* The body of the consumer's loop is over; it asks for the next batch.
Resume ==
    /\ mpc = "busy"
    /\ mpc' = "iter"
    /\ UNCHANGED <<pin, native, batch, queue, done, thread, got, lost, errors>>

-----------------------------------------------------------------------------
(* The pin-memory thread. *)

ThreadCheck ==
    /\ tpc = "check"
    /\ tpc' = IF done THEN "dead" ELSE "get"
    /\ UNCHANGED <<pin, native, consumer, queue, done, item, lost, errors>>

ThreadGet ==
    /\ tpc = "get"
    /\ Advance
    /\ item' = NextItem
    /\ tpc' = "put"
    /\ UNCHANGED <<pin, consumer, queue, done, lost, errors>>

\* get_batch raises: the loader is cleaned up and the thread ends.  After a
\* TimeoutError it first stops and drains itself, and fails to join itself.
ThreadGetFails ==
    /\ tpc = "get" /\ errors < MaxErrors
    /\ errors' = errors + 1
    /\ tpc' = "dead" /\ item' = None
    /\ \/ UNCHANGED <<queue, done>>
       \/ queue' = <<>> /\ done' = TRUE
    /\ UNCHANGED <<pin, native, consumer, lost>>

\* while not done_event.is_set(): put, or drop the item
ThreadPut ==
    /\ tpc = "put"
    /\ IF done
       THEN /\ tpc' = "check" /\ item' = None
            /\ lost' = IF item[1] = native.epoch /\ ~Ended(item)
                       THEN lost \cup {item[2]} ELSE lost
       ELSE tpc' = "putting" /\ UNCHANGED <<item, lost>>
    /\ UNCHANGED <<pin, native, consumer, queue, done, errors>>

ThreadEnqueue ==
    /\ tpc = "putting" /\ Len(queue) < Prefetch
    /\ queue' = Append(queue, item)
    /\ tpc' = "check" /\ item' = None
    /\ UNCHANGED <<pin, native, consumer, done, lost, errors>>

\* queue.Full after 5 s: look at the event again
ThreadFull ==
    /\ tpc = "putting" /\ Len(queue) >= Prefetch
    /\ tpc' = "put"
    /\ UNCHANGED <<pin, native, consumer, queue, done, item, lost, errors>>

ThreadNext ==
    \/ ThreadCheck
    \/ ThreadGet
    \/ ThreadGetFails
    \/ ThreadPut
    \/ ThreadEnqueue
    \/ ThreadFull

ConsumerNext ==
    \/ SetupQueue
    \/ StopOldThread
    \/ DrainOne
    \/ Drained
    \/ JoinOldThread
    \/ CheckThread
    \/ GetPinned
    \/ GetDirect
    \/ GetDirectFails

LoaderNext ==
    \/ \E e \in Epochs, n \in 0 .. MaxBatches :
          e # native.epoch /\ StartEpoch(e, n)
    \/ Resume
    \/ ConsumerNext
    \/ ThreadNext

LoaderSpec == LoaderInit /\ [][LoaderNext]_loaderVars

-----------------------------------------------------------------------------
LoaderTypeOK ==
    /\ pin \in BOOLEAN
    /\ native \in NativeState
    /\ mpc \in {"idle", "setup", "drain", "join", "iter", "get", "busy", "raised"}
    /\ batch \in Batch
    /\ queue \in Seq(Batch)
    /\ done \in BOOLEAN
    /\ tpc \in {"dead", "check", "get", "put", "putting"}
    /\ item \in Batch
    /\ got \subseteq 1 .. MaxBatches
    /\ lost \subseteq 1 .. MaxBatches
    /\ errors \in 0 .. MaxErrors

\* The batches the training step sees belong to the epoch that was asked for,
\* even though the thread of the epoch before may still be running when the
\* native loader starts the new one (iter_epoch, setup_data_queue).
OnlyThisEpoch ==
    mpc = "busy" => batch[1] = native.epoch

\* An epoch that ran to its end yielded every batch, except for at most one
\* that the thread of the epoch before took from the new epoch and dropped
\* (start_epoch is called before cleanup_pin_memory_thread).
AtMostOneLost ==
    /\ Cardinality(lost) <= 1
    /\ mpc = "idle" /\ native.epoch # NoEpoch => 1 .. native.n \subseteq got \cup lost

\* The consumer blocks on the queue of a thread that is gone only when the
\* native loader raised an error in that thread.
BlockedOnlyByError ==
    mpc = "get" /\ queue = <<>> /\ ~ThreadAlive => errors > 0
=============================================================================
