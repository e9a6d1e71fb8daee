--------------------------- MODULE FramePipeline ---------------------------
(***************************************************************************)
(* The audio path of the web pipeline: the process() callback of the       *)
(* worklet cuts the quanta the browser delivers into frames, batches them  *)
(* to the worker, and plays what comes back (js/src/AudioPipelineWorklet.ts*)
(* and AudioPipelineWorker.ts, with worklet/Float32ArrayPool.ts).          *)
(*                                                                         *)
(* Samples are numbered in the order they enter, 0 is silence, and a       *)
(* denoised sample keeps the number of the input it replaces.  The input   *)
(* queue is a sequence, which MonoRingBuffer implements; the output queue  *)
(* is a sequence until more is pushed than it holds, and from then on also *)
(* what a ring buffer leaves of an overrun.  Frames are Float32Arrays,     *)
(* which process() and the worker reuse and transfer, so every frame       *)
(* carries the identity of its array.                                      *)
(***************************************************************************)
EXTENDS Naturals, FiniteSets, SequencesExt

CONSTANTS
    Quantum,            \* QUANTUM_SAMPLES
    Prealloc,           \* arrays a new pool starts with
    InitialFrames,      \* frames of RNNoise that a queue first holds (64)
    MaxBuffers,         \* bound on arrays alive at once
    Builds              \* set of records, one of which is the build that runs:
                        \*   rnnoise, deepfilternet  frame lengths of the modules
                        \*   batch       _batchFrames
                        \*   queue       frames a rebuilt queue holds (128)
                        \*   quanta      bound on process() calls
                        \*   controls    bound on SET_MODULE and SET_ENABLED commands
                        \*   timely      does a batch come back within the round
                        \*               trip that is prefilled for?
                        \*   mayThrow    may processFrame throw?

ASSUME PipelineAssumption ==
    /\ Quantum \in Nat \ {0} /\ MaxBuffers \in Nat /\ Prealloc \in 0 .. MaxBuffers
    /\ Builds \subseteq [rnnoise : Nat \ {0}, deepfilternet : Nat \ {0}, batch : Nat \ {0},
                         queue : Nat, quanta : Nat, controls : Nat, timely : BOOLEAN, mayThrow : BOOLEAN]

Larger(a, b) == IF a >= b THEN a ELSE b

\* A queue holds a few frames, and the queue of one module at most twice what
\* that of the other does, so that a queue can be drained into it.
ASSUME QueueAssumption ==
    /\ InitialFrames \in Nat
    /\ \A b \in Builds :
        /\ b.queue >= 3
        /\ InitialFrames * b.rnnoise >= 2 * Quantum + b.rnnoise
        /\ Larger(b.rnnoise, Quantum) <= 2 * Larger(b.deepfilternet, Quantum)
        /\ Larger(b.deepfilternet, Quantum) <= 2 * Larger(b.rnnoise, Quantum)

VARIABLES
    build,              \* one of Builds, for good
    quanta, controls,   \* process() calls and commands so far
    input,              \* _inputQueue
    output,             \* what _outputQueue holds, next to be played first
    skew,               \* slots between its last sample and its write index: 0
                        \* until it has been overrun
    stale,              \* if there is a skew, the slots behind the last sample
    lastPlayed,         \* the last numbered sample handed to the speaker
    frameLength, workerReady, prefilled, destroyed,     \* of the worklet
    pool, recycles,     \* the worklet's _framePool and _pendingRecycles
    batchQueue,         \* frames collected for the next batch
    toWorker, fromWorker,   \* the two directions of the port
    worker,             \* the fields of the worker runtime
    overrun,            \* history: more was pushed to the output than it holds
    starved,            \* history: underruns after the prefill
    dropped             \* history: samples were lost with a batch that failed

outputVars == <<output, skew, stale, overrun>>
vars == <<build, quanta, controls, input, outputVars, lastPlayed, frameLength, workerReady, prefilled,
          destroyed, pool, recycles, batchQueue, toWorker, fromWorker, worker, starved, dropped>>
controlVars == <<build, quanta, controls, lastPlayed, prefilled, starved, dropped>>

Modules == {"rnnoise", "deepfilternet"}
FrameOf(m) == build[m]

Silent(n) == [k \in 1 .. n |-> 0]
CeilDiv(a, b) == (a + b - 1) \div b

\* An array and its contents.
Frame(buf, samples) == [buf |-> buf, samples |-> samples]
SamplesOf(frames) == FlattenSeq([i \in DOMAIN frames |-> frames[i].samples])
ArraysOf(frames) == [i \in DOMAIN frames |-> frames[i].buf]
Carried(channel) == FlattenSeq([i \in DOMAIN channel |-> SamplesOf(channel[i].frames)])

\* Messages that carry no audio have empty frames and recycles.
Message(type, arg) == [type |-> type, arg |-> arg, frames |-> <<>>, recycles |-> <<>>, age |-> 0]
Batch(type, frames, rec, age) ==
    [type |-> type, arg |-> "none", frames |-> frames, recycles |-> rec, age |-> age]

-----------------------------------------------------------------------------
(* Float32ArrayPool: a pool is a set of arrays [id, len] of one length.    *)

InMessages(channel) ==
    UNION {Range(ArraysOf(channel[i].frames)) \cup Range(channel[i].recycles) : i \in DOMAIN channel}

\* The arrays that are reachable; the others are garbage and their ids free.
Live == pool \cup Range(recycles) \cup Range(ArraysOf(batchQueue)) \cup InMessages(toWorker)
        \cup InMessages(fromWorker) \cup worker.pool \cup Range(worker.recycles)

ById(arrays) ==
    [k \in 1 .. Cardinality(arrays) |->
        CHOOSE b \in arrays : Cardinality({c \in arrays : c.id <= b.id}) = k]

Unused == (1 .. MaxBuffers) \ {b.id : b \in Live}
CanAcquire(free, n) == n <= Cardinality(free) + Cardinality(Unused)     \* bound

\* acquire() n times: pooled arrays first, new ones when the pool is empty.
Acquire(free, n, len) ==
    SubSeq(ById(free) \o ById({[id |-> i, len |-> len] : i \in Unused}), 1, n)

\* release(): an array of another length is left to the garbage collector.
Release(free, arrays, len) == free \cup {b \in Range(arrays) : b.len = len}

\* Mutant: a resized pool keeps its arrays.
ResizedKeeping(free, old, new) == free

\* resize(): a pool of another length starts empty.
Resized(free, old, new) == IF old = new THEN free ELSE {}

-----------------------------------------------------------------------------
InitialWorker(m) == [module |-> m, enabled |-> TRUE, size |-> FrameOf(m), pool |-> {}, recycles |-> <<>>]

Init ==
    /\ build \in Builds
    /\ quanta = 0 /\ controls = 0
    /\ input = <<>> /\ lastPlayed = 0
    /\ output = <<>> /\ skew = 0 /\ stale = <<>> /\ overrun = FALSE
    /\ frameLength = build.rnnoise       \* DEFAULT_FRAME_LENGTH
    /\ workerReady = FALSE /\ prefilled = FALSE /\ destroyed = FALSE
    /\ pool = {[id |-> i, len |-> build.rnnoise] : i \in 1 .. Prealloc}
    /\ recycles = <<>> /\ batchQueue = <<>>
    /\ toWorker = <<>> /\ fromWorker = <<>>
    /\ \E m \in Modules : worker = InitialWorker(m)
    /\ starved = 0 /\ dropped = FALSE

\* Everything between the microphone and the speaker, next to be played first.
Line == output \o Carried(fromWorker) \o Carried(toWorker) \o SamplesOf(batchQueue) \o input
Numbered(seq) == FlattenSeq([i \in DOMAIN seq |-> IF seq[i] = 0 THEN <<>> ELSE <<seq[i]>>])

-----------------------------------------------------------------------------
(* The output queue, a MonoRingBuffer: held from the read index on.        *)

Queue == [held |-> output, skew |-> skew, stale |-> stale]
EmptyQueue == [held |-> <<>>, skew |-> 0, stale |-> <<>>]

\* Of a queue made for frames of this length, and of the one there is.
CapacityOf(len) == build.queue * Larger(len, Quantum)
QueueCapacity == IF prefilled THEN CapacityOf(frameLength) ELSE InitialFrames * build.rnnoise

\* The write index, counted from the read index.
WriteIndex(queue, cap) == (Len(queue.held) + queue.skew) % cap

\* push(), once or several times on end: the slots from the write index on are
\* overwritten, the last sample for a slot stays, and the count stops at the
\* capacity.  The read index does not move.
Pushed(queue, samples, cap) ==
    LET n == Len(samples)
        at == WriteIndex(queue, cap)
        slots == queue.held \o queue.stale
        nth(j) == (j - 1 + cap - at) % cap
        written == [j \in 1 .. cap |->
            IF nth(j) < n THEN samples[nth(j) + cap * ((n - 1 - nth(j)) \div cap) + 1] ELSE slots[j]]
        count == IF Len(queue.held) + n <= cap THEN Len(queue.held) + n ELSE cap
    IN
    IF queue.skew = 0 /\ Len(queue.held) + n <= cap
    THEN [queue EXCEPT !.held = @ \o samples]
    ELSE [held |-> SubSeq(written, 1, count), skew |-> (at + n + cap - count) % cap,
          stale |-> SubSeq(written, count + 1, cap)]

OutputBecomes(queue) == output' = queue.held /\ skew' = queue.skew /\ stale' = queue.stale
Overruns(n, cap) == overrun' = (overrun \/ Len(output) + n > cap)

-----------------------------------------------------------------------------
(* The worklet.                                                            *)

\* What the prefill allows for between sending a batch and its return.
RoundTripQuanta == 2 * build.batch

\* Mutant: only the collection of a batch is prefilled for.
ShortPrefill == CeilDiv(build.batch * frameLength, Quantum) * Quantum

Prefill == (CeilDiv(build.batch * frameLength, Quantum) + RoundTripQuanta) * Quantum

InFlight == toWorker \o fromWorker
Aged(channel) == [i \in DOMAIN channel |-> [channel[i] EXCEPT !.age = IF build.timely THEN @ + 1 ELSE @]]

\* The pull that ends process().
Play(queue) ==
    IF Len(queue.held) >= Quantum
    THEN LET taken == SubSeq(queue.held, 1, Quantum)
             played == Numbered(taken)
         IN
         /\ output' = SubSeq(queue.held, Quantum + 1, Len(queue.held))
         /\ skew' = queue.skew
         /\ stale' = IF queue.skew = 0 THEN <<>> ELSE queue.stale \o taken
         /\ lastPlayed' = IF played = <<>> THEN lastPlayed ELSE Last(played)
         /\ UNCHANGED starved
    ELSE /\ OutputBecomes(queue)
         /\ starved' = IF prefilled THEN starved + 1 ELSE starved
         /\ UNCHANGED lastPlayed

\* Mutant: the batch is sent last frame first.
CollectReversed(frames) ==
    LET batch == batchQueue \o frames IN
    \/ /\ Len(batch) < build.batch
       /\ batchQueue' = batch
       /\ toWorker' = Aged(toWorker)
       /\ UNCHANGED recycles
    \/ /\ Len(batch) >= build.batch
       /\ batchQueue' = <<>> /\ recycles' = <<>>
       /\ toWorker' = Append(Aged(toWorker), Batch("PROCESS_FRAME_BATCH", Reverse(batch), recycles, 0))

\* Frames for the worker: once there are enough, _sendBatch takes all of them
\* and the arrays to give back.
Collect(frames) ==
    LET batch == batchQueue \o frames IN
    \/ /\ Len(batch) < build.batch
       /\ batchQueue' = batch
       /\ toWorker' = Aged(toWorker)
       /\ UNCHANGED recycles
    \/ /\ Len(batch) >= build.batch
       /\ batchQueue' = <<>> /\ recycles' = <<>>
       /\ toWorker' = Append(Aged(toWorker), Batch("PROCESS_FRAME_BATCH", batch, recycles, 0))

Process ==
    /\ ~destroyed
    /\ quanta < build.quanta
    /\ build.timely => \A i \in DOMAIN InFlight :
                    InFlight[i].type \in {"PROCESS_FRAME_BATCH", "FRAME_RESULT_BATCH"}
                        => InFlight[i].age + 1 < RoundTripQuanta
    /\ LET heard == input \o [k \in 1 .. Quantum |-> quanta * Quantum + k]
           count == Len(heard) \div frameLength
           cut(i) == SubSeq(heard, (i - 1) * frameLength + 1, i * frameLength)
           needed == IF workerReady THEN count ELSE 1
           arrays == Acquire(pool, needed, frameLength)
           frames == [i \in 1 .. count |-> Frame(arrays[IF workerReady THEN i ELSE 1], cut(i))]
       IN
       /\ CanAcquire(pool, needed)
       /\ input' = SubSeq(heard, count * frameLength + 1, Len(heard))
       /\ \/ /\ workerReady
             /\ Collect(frames)
             /\ pool' = pool \ Range(arrays)
             /\ Play(Queue)
             /\ UNCHANGED overrun
          \/ /\ ~workerReady        \* played undenoised, one array serves all frames
             /\ pool' = IF count = 0 THEN pool ELSE pool \cup Range(arrays)
             /\ Play(Pushed(Queue, SamplesOf(frames), QueueCapacity))
             /\ Overruns(count * frameLength, QueueCapacity)
             /\ UNCHANGED <<batchQueue, recycles, toWorker>>
    /\ quanta' = quanta + 1
    /\ fromWorker' = Aged(fromWorker)
    /\ UNCHANGED <<build, controls, frameLength, workerReady, prefilled, destroyed, worker, dropped>>

\* Mutant: only the output queue is drained.
RebuildOutput(len) ==
    /\ frameLength' = len
    /\ pool' = Resized(pool, frameLength, len)
    /\ input' = <<>>
    /\ UNCHANGED batchQueue

\* _rebuildForFrameLength: the queues are drained into new ones of this length.
Rebuild(len) ==
    /\ frameLength' = len
    /\ pool' = Resized(pool, frameLength, len)
    /\ UNCHANGED <<input, batchQueue>>

Drained(len) == Pushed(EmptyQueue, output, CapacityOf(len))

\* INIT_PIPELINE: _initPipeline and _onWorkerInitOk, with the frame length of
\* the module the worker was initialised with.  The output gets its cushion; a
\* push raises when what goes behind the wrap is longer than the buffer, and
\* then the command fails with the worker's port installed.
InitPipeline ==
    /\ ~prefilled /\ ~destroyed
    /\ prefilled' = TRUE
    /\ LET len == FrameOf(worker.module)
           cap == CapacityOf(len)
           accepted == 2 * cap - WriteIndex(Drained(len), cap)
       IN
       /\ Rebuild(len)
       /\ UNCHANGED build
       /\ \/ /\ Prefill' <= accepted
             /\ OutputBecomes(Pushed(Drained(len), Silent(Prefill'), cap))
             /\ Overruns(Prefill', cap)
             /\ workerReady' = TRUE
          \/ /\ Prefill' > accepted
             /\ OutputBecomes(Drained(len))
             /\ Overruns(0, cap)
             /\ UNCHANGED workerReady
    /\ UNCHANGED <<quanta, controls, lastPlayed, destroyed, recycles, toWorker, fromWorker, worker,
                   starved, dropped>>

\* The worker's port is installed from INIT_PIPELINE on.
PortOpen == prefilled /\ ~destroyed

\* SET_MODULE and SET_ENABLED, forwarded by the worklet behind the batches.
Control(type, arg) ==
    /\ PortOpen /\ controls < build.controls
    /\ controls' = controls + 1
    /\ toWorker' = Append(toWorker, Message(type, arg))
    /\ UNCHANGED <<build, quanta, input, outputVars, lastPlayed, frameLength, workerReady, prefilled,
                   destroyed, pool, recycles, batchQueue, fromWorker, worker, starved, dropped>>

\* _onFrameResultBatch, _onModuleChanged; an ERROR is only logged.
WorkletReceives ==
    /\ fromWorker # <<>>
    /\ LET msg == Head(fromWorker) IN
       \/ /\ msg.type = "FRAME_RESULT_BATCH"
          /\ OutputBecomes(Pushed(Queue, SamplesOf(msg.frames), QueueCapacity))
          /\ Overruns(Len(SamplesOf(msg.frames)), QueueCapacity)
          /\ recycles' = recycles \o ArraysOf(msg.frames)
          /\ pool' = Release(pool, msg.recycles, frameLength)
          /\ UNCHANGED <<input, batchQueue, frameLength>>
       \/ /\ msg.type = "MODULE_CHANGED" /\ msg.arg # frameLength
          /\ Rebuild(msg.arg)
          /\ OutputBecomes(Drained(msg.arg))
          /\ Overruns(0, CapacityOf(msg.arg))
          /\ UNCHANGED recycles
       \/ /\ msg.type = "ERROR" \/ (msg.type = "MODULE_CHANGED" /\ msg.arg = frameLength)
          /\ UNCHANGED <<input, outputVars, recycles, pool, batchQueue, frameLength>>
    /\ fromWorker' = Tail(fromWorker)
    /\ UNCHANGED <<controlVars, workerReady, destroyed, toWorker, worker>>

\* _destroy: the queues are cleared and the port closed.
Destroy ==
    /\ ~destroyed
    /\ destroyed' = TRUE /\ workerReady' = FALSE
    /\ input' = <<>>
    /\ OutputBecomes(EmptyQueue) /\ UNCHANGED overrun
    /\ toWorker' = IF prefilled THEN Append(toWorker, Message("DESTROY", "none")) ELSE toWorker
    /\ fromWorker' = <<>>
    /\ UNCHANGED <<controlVars, frameLength, pool, recycles, batchQueue, worker>>

-----------------------------------------------------------------------------
(* The worker.                                                             *)

Respond(msg) == fromWorker' = IF destroyed THEN fromWorker ELSE Append(fromWorker, msg)

\* The inputs the loop of _handleProcessFrameBatch cannot process.  A disabled
\* worker copies, which throws when the input is longer than the output; an
\* enabled one rejects short inputs, and DeepFilterNet long ones too.
Unfit(len) ==
    \/ ~worker.enabled /\ len > worker.size
    \/ worker.enabled /\ len < worker.size
    \/ worker.enabled /\ worker.module = "deepfilternet" /\ len > worker.size

\* A copy of a short input leaves the rest of its array silent; RNNoise reads
\* one frame of a long one.
Denoised(samples) ==
    IF Len(samples) < worker.size THEN samples \o Silent(worker.size - Len(samples))
    ELSE SubSeq(samples, 1, worker.size)

\* Mutant: the inputs are kept in the worker's own pool and also sent back.
ProcessBatchKeepingInputs(msg) ==
    LET n == Len(msg.frames)
        free == Release(worker.pool, msg.recycles \o ArraysOf(msg.frames), worker.size)
        arrays == Acquire(free, n, worker.size)
        results == [i \in 1 .. n |-> Frame(arrays[i], Denoised(msg.frames[i].samples))]
    IN
    /\ CanAcquire(free, n)
    /\ \A i \in 1 .. n : ~Unfit(Len(msg.frames[i].samples))
    /\ worker' = [worker EXCEPT !.pool = free \ Range(arrays), !.recycles = <<>>]
    /\ Respond(Batch("FRAME_RESULT_BATCH", results, worker.recycles \o ArraysOf(msg.frames), msg.age))
    /\ UNCHANGED dropped

\* _handleProcessFrameBatch: the first input that fails ends the batch; those
\* before it are kept for recycling, the outputs are lost.
ProcessBatch(msg) ==
    LET n == Len(msg.frames)
        free == Release(worker.pool, msg.recycles, worker.size)
        arrays == Acquire(free, n, worker.size)
        results == [i \in 1 .. n |-> Frame(arrays[i], Denoised(msg.frames[i].samples))]
        failsAt(k) ==
            /\ Unfit(Len(msg.frames[k].samples)) \/ (build.mayThrow /\ worker.enabled)
            /\ \A i \in 1 .. k - 1 : ~Unfit(Len(msg.frames[i].samples))
        short(k) == worker.enabled /\ Len(msg.frames[k].samples) < worker.size
        used(k) == {arrays[i] : i \in 1 .. IF short(k) THEN k - 1 ELSE k}
    IN
    /\ CanAcquire(free, n)
    /\ \/ /\ \A i \in 1 .. n : ~Unfit(Len(msg.frames[i].samples))
          /\ worker' = [worker EXCEPT !.pool = free \ Range(arrays), !.recycles = <<>>]
          /\ Respond(Batch("FRAME_RESULT_BATCH", results, worker.recycles \o ArraysOf(msg.frames), msg.age))
          /\ UNCHANGED dropped
       \/ \E k \in 1 .. n :
          /\ failsAt(k)
          /\ worker' = [worker EXCEPT !.pool = free \ used(k),
                                      !.recycles = @ \o SubSeq(ArraysOf(msg.frames), 1, k - 1)]
          /\ Respond(Message("ERROR", "none"))
          /\ dropped' = TRUE

SetModule(m) ==
    \/ /\ m = worker.module
       /\ UNCHANGED <<worker, fromWorker>>
    \/ /\ m # worker.module
       /\ worker' = [worker EXCEPT !.module = m, !.size = FrameOf(m),
                                   !.pool = Resized(@, worker.size, FrameOf(m))]
       /\ Respond(Message("MODULE_CHANGED", FrameOf(m)))

WorkerReceives ==
    /\ toWorker # <<>>
    /\ LET msg == Head(toWorker) IN
       \/ msg.type = "PROCESS_FRAME_BATCH" /\ ProcessBatch(msg)
       \/ msg.type = "SET_MODULE" /\ SetModule(msg.arg) /\ UNCHANGED dropped
       \/ /\ msg.type = "SET_ENABLED"
          /\ worker' = [worker EXCEPT !.enabled = (msg.arg = "on")]
          /\ UNCHANGED <<fromWorker, dropped>>
       \/ /\ msg.type = "DESTROY"
          /\ worker' = InitialWorker("rnnoise")
          /\ UNCHANGED <<fromWorker, dropped>>
    /\ toWorker' = Tail(toWorker)
    /\ UNCHANGED <<build, quanta, controls, input, outputVars, lastPlayed, frameLength, workerReady,
                   prefilled, destroyed, pool, recycles, batchQueue, starved>>

-----------------------------------------------------------------------------
Next ==
    \/ Process
    \/ InitPipeline
    \/ \E m \in Modules : Control("SET_MODULE", m)
    \/ \E switch \in {"on", "off"} : Control("SET_ENABLED", switch)
    \/ WorkletReceives
    \/ WorkerReceives
    \/ Destroy

Spec == Init /\ [][Next]_vars

-----------------------------------------------------------------------------
Arrays(len) == [id : 1 .. MaxBuffers, len : {len}]
AnyArray == Arrays(build.rnnoise) \cup Arrays(build.deepfilternet)

\* A frame fills its array.
WellFormed(frames) ==
    \A i \in DOMAIN frames : frames[i].buf \in AnyArray /\ Len(frames[i].samples) = frames[i].buf.len

\* Every frame fills its array, and a pool holds arrays of the length it hands
\* out only, across module switches with batches on their way.  The input queue
\* always has room for a quantum, and the output queue holds no more than it can.
TypeOK ==
    /\ quanta \in 0 .. build.quanta /\ controls \in 0 .. build.controls /\ build \in Builds
    /\ Range(Line) \subseteq 0 .. build.quanta * Quantum /\ lastPlayed \in 0 .. build.quanta * Quantum
    /\ Len(input) + Quantum <= QueueCapacity /\ Len(output) <= QueueCapacity
    /\ IF skew = 0 THEN stale = <<>> ELSE skew \in 1 .. QueueCapacity - 1 /\ Len(output) + Len(stale) = QueueCapacity
    /\ {frameLength, worker.size} \subseteq {build.rnnoise, build.deepfilternet}
    /\ {workerReady, prefilled, destroyed, overrun, dropped, worker.enabled} \subseteq BOOLEAN
    /\ starved \in 0 .. quanta
    /\ worker.module \in Modules
    /\ pool \subseteq Arrays(frameLength) /\ worker.pool \subseteq Arrays(worker.size)
    /\ Range(recycles) \cup Range(worker.recycles) \subseteq AnyArray
    /\ WellFormed(batchQueue)
    /\ \A i \in DOMAIN InFlight : WellFormed(InFlight[i].frames)

\* Conservation: as long as the worker drops no batch and the output queue is
\* not overrun, the samples between the microphone and the speaker are exactly
\* those that have entered and have not been played, in order, through batches,
\* recycling, the start of the worker and switches.  (With frames of one length:
\* RNNoise cuts longer ones.)
NothingLost ==
    ~dropped /\ ~overrun /\ ~destroyed /\ build.rnnoise = build.deepfilternet =>
        Numbered(Line) = [k \in 1 .. quanta * Quantum - lastPlayed |-> lastPlayed + k]

\* The most that is ever between the microphone and the speaker, next to what
\* entered while the speaker was starved.
Cushion == Prefill + Quantum + frameLength

\* Whatever is dropped or late, no sample is played twice or after a later one,
\* unless the output queue was overrun; and that takes a stall in which the
\* speaker starves for as long as it takes to fill the queue over the cushion.
OrderKept ==
    LET coming == Numbered(Line) IN
    /\ ~overrun =>
        /\ \A i \in 1 .. Len(coming) - 1 : coming[i] < coming[i + 1]
        /\ coming # <<>> => lastPlayed < coming[1] /\ Last(coming) <= quanta * Quantum
    /\ overrun /\ build.rnnoise = build.deepfilternet =>
        Cushion + starved * Quantum > CapacityOf(frameLength)

\* The prefill is enough: while batches return within the round trip it allows
\* for, none is dropped and the cushion fits the queue, process() never lacks
\* samples to play after it.
NoUnderrun ==
    /\ build.timely /\ ~dropped
    /\ build.rnnoise = build.deepfilternet /\ Cushion <= CapacityOf(frameLength)
    => starved = 0

\* A Float32Array is in one place: it is never pooled, or recycled, while it
\* carries a frame, nor pooled on both sides, so no frame is overwritten and no
\* transferred array is used.
ArraysOwnedOnce ==
    LET onTheWay == FlattenSeq([i \in DOMAIN InFlight |-> ArraysOf(InFlight[i].frames) \o InFlight[i].recycles])
        listed == ArraysOf(batchQueue) \o recycles \o worker.recycles \o onTheWay
        pooled == {b.id : b \in pool} \cup {b.id : b \in worker.pool}
    IN
    /\ \A i, j \in DOMAIN listed : listed[i].id = listed[j].id => i = j
    /\ \A i \in DOMAIN listed : listed[i].id \notin pooled
    /\ Cardinality(pool) + Cardinality(worker.pool) = Cardinality(pooled)

=============================================================================
