---------------------------- MODULE BatchSource ----------------------------
(***************************************************************************)
(* What the training script takes its data loader for: a source that hands *)
(* out the samples of an epoch in order, in batches that are full but for  *)
(* the last one, and that says the epoch is over after that one and never  *)
(* before.  It may be given up at any moment: an error, a call that times  *)
(* out, the next epoch, the exit.                                          *)
(***************************************************************************)
EXTENDS Integers, Sequences

CONSTANTS
    Lengths,        \* numbers of samples an epoch may have
    BatchSizes

VARIABLES
    state,          \* "off", "on" during an epoch, "over" at its end
    left,           \* the samples of the epoch still to come
    size,           \* of its batches
    batch           \* handed out by the last call

sourceVars == <<state, left, size, batch>>

Nothing == left = <<>> /\ size = 0 /\ batch = <<>>

SourceInit == state = "off" /\ Nothing

Starts(n, b) ==
    /\ state = "off"
    /\ state' = "on" /\ left' = [i \in 1 .. n |-> i - 1] /\ size' = b
    /\ UNCHANGED batch

\* The next call.
Asked ==
    /\ state = "on"
    /\ batch' = <<>>
    /\ UNCHANGED <<state, left, size>>

Serves ==
    LET k == IF Len(left) < size THEN Len(left) ELSE size
    IN  /\ state = "on" /\ batch = <<>> /\ left # <<>>
        /\ batch' = SubSeq(left, 1, k)
        /\ left' = SubSeq(left, k + 1, Len(left))
        /\ UNCHANGED <<state, size>>

EndsEpoch ==
    /\ state = "on" /\ batch = <<>> /\ left = <<>>
    /\ state' = "over" /\ Nothing'

GivesUp == state' = "off" /\ Nothing'

SourceNext ==
    \/ \E n \in Lengths, b \in BatchSizes : Starts(n, b)
    \/ Asked
    \/ Serves
    \/ EndsEpoch
    \/ GivesUp

SourceSpec == SourceInit /\ [][SourceNext]_sourceVars
=============================================================================
