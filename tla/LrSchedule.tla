---------------------------- MODULE LrSchedule ----------------------------
(***************************************************************************)
(* The length of the learning-rate and weight-decay schedules (df/lr.py,   *)
(* setup_lrs and setup_wds of df/train.py).  The training loop indexes the *)
(* arrays with the global iteration number, so their length and the number *)
(* of iterations per epoch they were computed for are what matters; the    *)
(* values are left out.                                                    *)
(***************************************************************************)
EXTENDS Integers

CONSTANTS
    MaxEpochs,      \* train.max_epochs
    WarmupEpochs,   \* optim.warmup_epochs
    CycleEpochs,    \* optim.lr_cycle_epochs, -1 for a single cycle
    CycleMul        \* optim.lr_cycle_mul

ASSUME LrAssumption ==
    /\ MaxEpochs \in Nat \ {0}
    /\ WarmupEpochs \in Nat
    /\ CycleEpochs \in (Nat \ {0}) \cup {-1}
    /\ CycleMul \in Nat \ {0}

AtLeastZero(n) == IF n < 0 THEN 0 ELSE n
CeilDiv(a, b) == (a + b - 1) \div b

\* Growing cycles: the length of the next one and the sum of those before it,
\* for as many cycles as there can be.
Cycles(after, cycle, mul) ==
    LET Grown[k \in 0 .. AtLeastZero(after)] ==
            IF k = 0 THEN [sum |-> 0, length |-> cycle]
            ELSE [sum |-> Grown[k - 1].sum + Grown[k - 1].length,
                  length |-> Grown[k - 1].length * mul]
    IN  Grown

\* The iterations of all cosine cycles together: one cycle over the rest, as
\* many equal ones as cover it, or growing ones until their sum does.
CycleIters(after, cycle, mul) ==
    LET grown == Cycles(after, cycle, mul)
        covering == {k \in 0 .. AtLeastZero(after) : grown[k].sum >= after}
    IN  IF cycle < 0 THEN AtLeastZero(after)
        ELSE IF mul = 1 THEN AtLeastZero(CeilDiv(after, cycle) * cycle)
        ELSE grown[CHOOSE k \in covering : \A j \in covering : k <= j].sum

\* Length of the array cosine_scheduler returns; -1 when its last assertion
\* fails.
ScheduleLength(epochs, niter, warmup, cycleEpochs, mul) ==
    LET total == epochs * niter
        warm == warmup * niter
        cycle == IF cycleEpochs = -1 THEN -1 ELSE cycleEpochs * niter
        full == warm + CycleIters(total - warm, cycle, mul)
    IN  IF full >= total THEN total ELSE -1

\* The learning rates and the weight decays are computed for a number of
\* steps per epoch; setup_wds has neither warmup nor cycles.
Schedule(niter) ==
    [niter |-> niter,
     lr |-> ScheduleLength(MaxEpochs, niter, WarmupEpochs, CycleEpochs, CycleMul),
     wd |-> ScheduleLength(MaxEpochs, niter, 0, -1, 1)]
=============================================================================
