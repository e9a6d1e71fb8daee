-------------------------- MODULE MCFramePipeline --------------------------
(* Builds whose batches come back in time, for longer than the prefill     *)
(* lasts; frames of two lengths, batches that are late without limit,      *)
(* denoisers that throw; late batches that overrun the output queue; a     *)
(* prefill longer than the queue, and one that a push refuses.             *)
EXTENDS Integers, FramePipeline

Build(lengths, batchFrames, queueFrames, calls, commands, kind) ==
    [rnnoise |-> lengths[1], deepfilternet |-> lengths[2], batch |-> batchFrames, queue |-> queueFrames,
     quanta |-> calls, controls |-> commands,
     timely |-> (kind = "timely"), mayThrow |-> (kind = "late, throwing")]

MCBuilds ==
    {Build(<<6, 6>>, 2, 7, 9, 2, "timely"), Build(<<15, 15>>, 1, 3, 12, 2, "timely"),
     Build(<<6, 4>>, 1, 7, 4, 2, "late, throwing"), Build(<<6, 4>>, 1, 3, 4, 2, "late, throwing"),
     Build(<<6, 6>>, 1, 5, 10, 0, "late"),
     Build(<<6, 6>>, 2, 3, 4, 1, "late"), Build(<<6, 6>>, 3, 3, 3, 1, "late")}

-----------------------------------------------------------------------------
(* Pushed against the array and the indices of MonoRingBuffer, from every  *)
(* state of a small buffer, for inputs up to the longest that push takes.  *)

\* The slots of the array, n of them from an index on, continued at 0.
SlotsFrom(data, index, n) == [k \in 1 .. n |-> data[(index + k - 1) % Cardinality(DOMAIN data)]]

RingQueue(data, read, write, count) ==
    LET cap == Cardinality(DOMAIN data)
        shift == (write + 2 * cap - read - count) % cap
        behind == (read + count) % cap
    IN [held |-> SlotsFrom(data, read, count), skew |-> shift,
        stale |-> IF shift = 0 THEN <<>> ELSE SlotsFrom(data, behind, cap - count)]

\* set() of the samples at an index.
SetAt(data, samples, index) ==
    [j \in DOMAIN data |-> IF j - index + 1 \in DOMAIN samples THEN samples[j - index + 1] ELSE data[j]]

\* push(): what fits before the end, then the rest from 0 on.
Written(data, samples, write) ==
    LET tail == Cardinality(DOMAIN data) - write IN
    IF Len(samples) <= tail THEN SetAt(data, samples, write)
    ELSE SetAt(SetAt(data, SubSeq(samples, 1, tail), write), SubSeq(samples, tail + 1, Len(samples)), 0)

ASSUME PushedLikeTheRing ==
    \A cap \in 1 .. 5 : \A read, write \in 0 .. cap - 1, count \in 0 .. cap :
        \A n \in 0 .. 2 * cap - write :
            LET data == [j \in 0 .. cap - 1 |-> 10 + j]
                samples == [k \in 1 .. n |-> 20 + k]
                more == IF count + n <= cap THEN count + n ELSE cap
            IN Pushed(RingQueue(data, read, write, count), samples, cap) =
                RingQueue(Written(data, samples, write), read, (write + n) % cap, more)
=============================================================================
