---------------------------- MODULE SampleQueue ----------------------------
(***************************************************************************)
(* What the worklet expects of its two sample buffers: a queue of bounded  *)
(* length, first in first out, that hands out silence when it holds too    *)
(* little.  Pushing more than fits is not refused; it spoils the order of  *)
(* what is pushed until the next clear, but never the count.               *)
(***************************************************************************)
EXTENDS Naturals, Sequences

CONSTANTS
    Capacity,
    Samples,            \* sample values
    Silence,            \* the sample 0
    MaxLen              \* bound on the samples in one call

VARIABLES
    queue,              \* the samples held, oldest first
    passed,             \* the samples the last call took in or handed out
    intact              \* no push has exceeded the capacity since the last clear

queueVars == <<queue, passed, intact>>

Inputs == UNION {[1 .. n -> Samples] : n \in 1 .. MaxLen}

\* What a queue may hold when only its length is certain.
Scrambled(n) == [1 .. n -> Samples]

QueueInit ==
    /\ queue = <<>>
    /\ passed = <<>>
    /\ intact = TRUE

Put(input) ==
    /\ intact /\ Len(queue) + Len(input) <= Capacity
    /\ queue' = queue \o input
    /\ passed' = input
    /\ UNCHANGED intact

Overrun(input) ==
    /\ Len(queue) + Len(input) > Capacity
    /\ intact' = FALSE
    /\ queue' \in Scrambled(Capacity)
    /\ passed' = input

PutScrambled(input) ==
    /\ ~intact /\ Len(queue) + Len(input) <= Capacity
    /\ queue' \in Scrambled(Len(queue) + Len(input))
    /\ passed' = input
    /\ UNCHANGED intact

Take(n) ==
    /\ n <= Len(queue)
    /\ passed' = SubSeq(queue, 1, n)
    /\ queue' = SubSeq(queue, n + 1, Len(queue))
    /\ UNCHANGED intact

Underrun(n) ==
    /\ n > Len(queue)
    /\ passed' = [k \in 1 .. n |-> Silence]
    /\ UNCHANGED <<queue, intact>>

TakeAll ==
    /\ queue # <<>>
    /\ passed' = queue
    /\ queue' = <<>>
    /\ UNCHANGED intact

Empty ==
    /\ queue' = <<>>
    /\ intact' = TRUE
    /\ UNCHANGED passed

QueueNext ==
    \/ \E input \in Inputs : Put(input) \/ Overrun(input) \/ PutScrambled(input)
    \/ \E n \in 1 .. MaxLen : Take(n) \/ Underrun(n)
    \/ TakeAll
    \/ Empty

QueueSpec == QueueInit /\ [][QueueNext]_queueVars

=============================================================================
