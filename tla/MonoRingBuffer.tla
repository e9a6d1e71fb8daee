--------------------------- MODULE MonoRingBuffer ---------------------------
(***************************************************************************)
(* The ring buffer of js/src/worklet/MonoRingBuffer.ts, which queues the   *)
(* samples between the audio quanta of 128 and the frames of the denoise   *)
(* modules.  Array indices start at 0 as in the code, sequences at 1.      *)
(***************************************************************************)
EXTENDS Naturals, Sequences

CONSTANTS Capacity, Samples, Silence, MaxLen

\* A push longer than the buffer is out of scope: see the README.
ASSUME BufferAssumption ==
    /\ Capacity \in Nat \ {0}
    /\ MaxLen \in 1 .. Capacity
    /\ Silence \in Samples

VARIABLES
    data,               \* _data
    readIndex,          \* _readIndex
    writeIndex,         \* _writeIndex
    framesAvailable,    \* _framesAvailable
    passed,             \* the samples of the last call: pushed, pulled or drained
    intact              \* history: no push has exceeded the capacity since the last clear

ringVars == <<data, readIndex, writeIndex, framesAvailable, passed, intact>>

Slots == 0 .. Capacity - 1
Inputs == UNION {[1 .. n -> Samples] : n \in 1 .. MaxLen}

RingInit ==
    /\ data = [j \in Slots |-> Silence]
    /\ readIndex = 0 /\ writeIndex = 0 /\ framesAvailable = 0
    /\ passed = <<>>
    /\ intact = TRUE

-----------------------------------------------------------------------------
\* Math.min
Smaller(a, b) == IF a <= b THEN a ELSE b

\* Mutant: the wrapped part is written at the write index, not at 0.
WrittenNoWrap(input) ==
    [j \in Slots |->
        IF j >= writeIndex /\ j < writeIndex + Len(input) THEN input[j - writeIndex + 1] ELSE data[j]]

\* The array after set() of the input at the write index, the part that does
\* not fit before the end continued at 0.
Written(input) ==
    LET tail == Capacity - writeIndex IN
    [j \in Slots |->
        IF tail + j < Len(input) THEN input[tail + j + 1]
        ELSE IF j >= writeIndex /\ j < writeIndex + Len(input) THEN input[j - writeIndex + 1]
        ELSE data[j]]

\* The n samples from the read index on, continued at 0.
Read(n) ==
    LET tail == Capacity - readIndex IN
    [k \in 1 .. n |-> IF k <= tail THEN data[readIndex + k - 1] ELSE data[k - tail - 1]]

Push(input) ==
    /\ data' = Written(input)
    /\ writeIndex' = (writeIndex + Len(input)) % Capacity
    /\ framesAvailable' = Smaller(framesAvailable + Len(input), Capacity)
    /\ intact' = (intact /\ framesAvailable + Len(input) <= Capacity)
    /\ passed' = input
    /\ UNCHANGED readIndex

\* Too few samples: the target is filled with silence and nothing is taken.
PullSilence(n) ==
    /\ framesAvailable < n
    /\ passed' = [k \in 1 .. n |-> Silence]
    /\ UNCHANGED <<data, readIndex, writeIndex, framesAvailable, intact>>

Pull(n) ==
    /\ framesAvailable >= n
    /\ passed' = Read(n)
    /\ readIndex' = (readIndex + n) % Capacity
    /\ framesAvailable' = framesAvailable - n
    /\ UNCHANGED <<data, writeIndex, intact>>

\* Mutant: a drain forgets to move the read index.
DrainInPlace ==
    /\ framesAvailable > 0
    /\ passed' = Read(framesAvailable)
    /\ framesAvailable' = 0
    /\ UNCHANGED <<data, readIndex, writeIndex, intact>>

\* What the destination is given, in one push or two.
DrainInto ==
    /\ framesAvailable > 0
    /\ passed' = Read(framesAvailable)
    /\ readIndex' = (readIndex + framesAvailable) % Capacity
    /\ framesAvailable' = 0
    /\ UNCHANGED <<data, writeIndex, intact>>

Clear ==
    /\ data' = [j \in Slots |-> Silence]
    /\ readIndex' = 0 /\ writeIndex' = 0 /\ framesAvailable' = 0
    /\ intact' = TRUE
    /\ UNCHANGED passed

RingNext ==
    \/ \E input \in Inputs : Push(input)
    \/ \E n \in 1 .. MaxLen : Pull(n) \/ PullSilence(n)
    \/ DrainInto
    \/ Clear

RingSpec == RingInit /\ [][RingNext]_ringVars

-----------------------------------------------------------------------------
RingTypeOK ==
    /\ data \in [Slots -> Samples]
    /\ readIndex \in Slots
    /\ writeIndex \in Slots
    /\ framesAvailable \in 0 .. Capacity
    /\ passed \in Seq(Samples)
    /\ intact \in BOOLEAN

\* The write index is framesAvailable slots after the read index, as long as no
\* push has exceeded the capacity.
IndicesAgree ==
    intact => writeIndex = (readIndex + framesAvailable) % Capacity

\* The three counters stay inside the array, through overruns as well, and
\* agree: no unread sample is overwritten and no slot is read before it is
\* written, until a push exceeds the capacity.
RingInvariant == RingTypeOK /\ IndicesAgree

\* The samples held, oldest first.
Contents == Read(framesAvailable)

\* The buffer is the queue the worklet takes it for: what is pulled is what was
\* pushed, in order and without gaps, through every wrap, drain and underrun.
Fifo == INSTANCE SampleQueue WITH queue <- Contents
IsQueue == Fifo!QueueSpec

=============================================================================
