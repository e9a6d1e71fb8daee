------------------------------- MODULE DfOps -------------------------------
(***************************************************************************)
(* The forms of the deep filter: DfOp (df/modules.py) chooses one of six   *)
(* for the networks and for an export to ONNX, DF and DFreal               *)
(* (df/multiframe.py) are two more.  A form maps a spectrum of frames      *)
(* 1 .. Len to output frames, each a record of                             *)
(*   on    the frame whose upper bins, and share 1 - alpha, it keeps       *)
(*   taps  the frames its coefficients are applied to, first to last.      *)
(* 0 stands for a frame of zeros, a negative number for one of the         *)
(* spectrum the call before had, which is what a buffer may still hold.    *)
(***************************************************************************)
EXTENDS Integers, Sequences, SequencesExt

Zeros(n) == [i \in 1 .. IF n > 0 THEN n ELSE 0 |-> 0]
Frames(n) == [i \in 1 .. n |-> i]

\* F.pad with `before` and `after` frames; a negative padding cuts.
Pad(x, before, after) ==
    LET y == Zeros(before) \o x \o Zeros(after)
    IN  SubSeq(y, IF before < 0 THEN 1 - before ELSE 1, Len(y) - IF after < 0 THEN -after ELSE 0)

\* Mutant: the two sides are swapped.
SpecPadSwapped(x, window, lookahead) == Pad(x, lookahead, window - lookahead - 1)

\* spec_pad: the window ends lookahead frames after its frame
SpecPad(x, window, lookahead) == Pad(x, window - lookahead - 1, lookahead)

\* x[i], counted from 0, and from the end for a negative i
PyIndex(x, i) == IF i < 0 THEN x[Len(x) + i + 1] ELSE x[i + 1]

Unfold(x, size) == [t \in 1 .. Len(x) - size + 1 |-> SubSeq(x, t, t + size - 1)]
Windows(x, n, size) == [t \in 1 .. n |-> [i \in 1 .. size |-> x[(t - 1) + (i - 1) + 1]]]

\* assign_df
AssignDf(on, taps) == [t \in DOMAIN taps |-> [on |-> on[t], taps |-> taps[t]]]

-----------------------------------------------------------------------------
RealLoop(n, order, lookahead) ==
    LET padded == SpecPad(Frames(n), order, lookahead)
        slice(i) == SubSeq(padded, i, i + n - 1)
    IN  AssignDf(Frames(n), [t \in 1 .. n |-> [i \in 1 .. order |-> slice(i)[t]]])

RealStrided(n, order, lookahead) ==
    AssignDf(Frames(n), Windows(SpecPad(Frames(n), order, lookahead), n, order))

RealUnfold(n, order, lookahead) ==
    AssignDf(Frames(n), Unfold(SpecPad(Frames(n), order, lookahead), order))

ComplexStrided(n, order, lookahead) ==
    AssignDf(Frames(n), Windows(SpecPad(Frames(n), order, lookahead), n, order))

\* The caller pads the spectrum and passes the window of each step.
RealOneStep(n, order, lookahead) ==
    LET padded == SpecPad(Frames(n), order, lookahead)
        window(t) == SubSeq(padded, t, t + order - 1)
    IN  [t \in 1 .. n |-> [on |-> PyIndex(window(t), order - lookahead - 1), taps |-> window(t)]]

\* spec_buf: the last frames, shifted by one for each frame; the window of
\* step t is what it holds then.  `held` is its content when a call begins.
SpecBuf(n, held) ==
    LET buf[t \in 0 .. n] == IF t = 0 THEN held ELSE Append(Tail(buf[t - 1]), t) IN buf

RealHiddenStateLoop(n, order, lookahead, held) ==
    [t \in 1 .. n |->
        LET buf == SpecBuf(n, held)[t]
        IN  [on |-> PyIndex(buf, order - lookahead - 1), taps |-> buf]]

\* What the buffer holds before the first call, and after a call.
Fresh(order) == Zeros(order)
AfterCall(n, held) ==
    LET buf == SpecBuf(n, held)[n]
    IN  [i \in DOMAIN buf |-> IF buf[i] > 0 THEN buf[i] - n - 1 ELSE buf[i]]

-----------------------------------------------------------------------------
(* df/multiframe.py: padding and unfolding only for more than one frame. *)

MultiFramePad(x, frameSize, lookahead) == Pad(x, frameSize - 1 - lookahead, lookahead)
SpecUnfold(x, frameSize, lookahead) ==
    IF frameSize > 1 THEN Unfold(MultiFramePad(x, frameSize, lookahead), frameSize)
    ELSE [t \in DOMAIN x |-> <<x[t]>>]

MultiFrameDF(n, order, lookahead) ==
    AssignDf(Frames(n), SpecUnfold(Frames(n), order, lookahead))

\* spec_unfold_real: a single frame gets an axis at the end instead of the
\* one for the window, which df_real does not accept
MultiFrameDFreal(n, order, lookahead) ==
    IF order > 1 THEN AssignDf(Frames(n), SpecUnfold(Frames(n), order, lookahead)) ELSE <<>>

-----------------------------------------------------------------------------
\* The form DfOp promises, whatever the method: "All forward methods should
\* be mathematically similar" (set_forward).
DeepFilter(n, order, lookahead) ==
    [t \in 1 .. n |->
        [on |-> t,
         taps |-> [i \in 1 .. order |->
                    LET s == t + i - (order - lookahead) IN IF s \in 1 .. n THEN s ELSE 0]]]
=============================================================================
