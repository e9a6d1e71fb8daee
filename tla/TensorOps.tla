----------------------------- MODULE TensorOps -----------------------------
(***************************************************************************)
(* The building blocks of the networks (df/modules.py), reduced to what    *)
(* decides whether a network runs and how far it looks ahead: the sizes of *)
(* a tensor, the latest input frame that one of its frames depends on, and *)
(* whether a layer left a part of its input unread.                        *)
(*                                                                         *)
(* A map [B, C, T, F] has c channels and f > 0 frequencies, a row [B, T, D]*)
(* has c = D features and f = 0.  Frame t of either depends on no input    *)
(* frame after t + ahead.  No block changes the number of frames, and some *)
(* need a least number of them.  A block that raises gives Err, which      *)
(* every later block passes on.                                            *)
(*                                                                         *)
(* For a block X, XOk holds when its constructor accepts its arguments.    *)
(***************************************************************************)
EXTENDS Integers, Sequences

Larger(a, b) == IF a > b THEN a ELSE b

Map(c, f, frames) == [c |-> c, f |-> f, frames |-> frames, ahead |-> 0, cut |-> FALSE]
Err == Map(0, 0, 0)
Runs(x) == x.c > 0

\* x, computed with the help of y
DependsOn(x, y) ==
    IF Runs(x) /\ Runs(y)
    THEN [x EXCEPT !.ahead = Larger(@, y.ahead), !.cut = @ \/ y.cut] ELSE Err

\* A size along which two tensors combine, 0 when they do not.
Broadcast(m, n) == IF m = n \/ n = 1 THEN m ELSE IF m = 1 THEN n ELSE 0

Add(x, y) ==
    LET c == Broadcast(x.c, y.c)
        f == Broadcast(x.f, y.f)
    IN  IF Runs(x) /\ Runs(y) /\ c > 0 /\ (f > 0 \/ x.f = y.f)
        THEN [DependsOn(x, y) EXCEPT !.c = c, !.f = f] ELSE Err

\* x += y: y must fit into x
AddInPlace(x, y) == IF Add(x, y).c = x.c /\ Add(x, y).f = x.f THEN Add(x, y) ELSE Err

Concat(x, y) ==
    IF Runs(x) /\ Runs(y) /\ x.f = y.f THEN [DependsOn(x, y) EXCEPT !.c = x.c + y.c] ELSE Err

\* permute(0, 2, 3, 1).flatten(2)
Flatten(x) == IF Runs(x) THEN [x EXCEPT !.c = x.c * x.f, !.f = 0] ELSE Err

\* view(b, t, f, -1) and view(b, t, c, f) of a row
Unflatten(x, f) ==
    IF Runs(x) /\ f > 0 /\ x.c % f = 0 THEN [x EXCEPT !.c = x.c \div f, !.f = f] ELSE Err
ViewAs(x, c, f) == IF x.c = c * f THEN Unflatten(x, f) ELSE Err

\* A padding of the time axis by `before` and `after` frames: a negative
\* padding cuts, and raises when there is less than it has to cut.
TimePad(x, before, after) ==
    IF -before <= x.frames THEN [x EXCEPT !.ahead = @ + after] ELSE Err

\* Mutant: the padding on the other side.
PadFeatBack(x, n) == TimePad(x, n, -n)

\* ConstantPad2d((0, 0, -n, n)): the features move n frames towards the past
PadFeat(x, n) == TimePad(x, -n, n)

\* The padding for a window, or a kernel, of k frames that ends lookahead
\* frames after its own.
TimeKernel(x, k, lookahead) == TimePad(x, k - 1 - lookahead, lookahead)

-----------------------------------------------------------------------------
(* Convolutions. *)

Conv2dF(f, kf, pad, stride) ==
    IF f + 2 * pad >= kf THEN (f + 2 * pad - kf) \div stride + 1 ELSE 0
ConvTranspose2dF(f, kf, pad, outPad, stride) ==
    IF outPad < stride THEN Larger(0, (f - 1) * stride - 2 * pad + kf + outPad) ELSE 0

Resize(x, in, out, f) ==
    IF Runs(x) /\ x.c = in /\ x.f > 0 /\ f > 0 THEN [x EXCEPT !.c = out, !.f = f] ELSE Err

Conv2dNormAct(x, in, out, kernel, fstride) ==
    LET lookahead == 0
        y == TimeKernel(x, kernel[1], lookahead)
    IN  Resize(y, in, out, Conv2dF(x.f, kernel[2], kernel[2] \div 2, fstride))

ConvTranspose2dNormAct(x, in, out, kernel, fstride) ==
    LET lookahead == 0
        fpad == kernel[2] \div 2
        y == TimeKernel(x, kernel[1], lookahead)
    IN  Resize(y, in, out, ConvTranspose2dF(x.f, kernel[2], fpad, fpad, fstride))

\* nearest neighbour upsampling of the frequency axis
FreqUpsample(f, factor) == f * factor

Convkxf(x, in, out, a) ==
    LET stride == IF a.f = 1 THEN 1 ELSE a.fstride
        fpad == (a.f - 1) \div 2
        y == TimeKernel(x, a.k, a.lookahead)
        f == CASE a.mode = "normal" -> Conv2dF(x.f, a.f, fpad, stride)
               [] a.mode = "transposed" -> ConvTranspose2dF(x.f, a.f, fpad, fpad, stride)
               [] a.mode = "upsample" -> Conv2dF(FreqUpsample(x.f, a.fstride), a.f, fpad, 1)
    IN  Resize(y, in, out, f)
ConvkxfOk(a) == a.f % 2 = 1 /\ a.mode \in {"normal", "transposed", "upsample"}

-----------------------------------------------------------------------------
(* Linear and recurrent blocks over the features of a row. *)

Divides(g, n) == n % g = 0

Linear(x, in, out) == IF Runs(x) /\ x.c = in /\ x.f = 0 THEN [x EXCEPT !.c = out] ELSE Err

\* Each group reads a slice of the features; a slice past the end is too
\* short for its layer, features past the last slice are not read.
Sliced(x, in, out) ==
    IF Runs(x) /\ x.c >= in /\ x.f = 0 THEN [x EXCEPT !.c = out, !.cut = @ \/ x.c > in] ELSE Err

GroupedLinearOk(in, out, groups) == Divides(groups, in) /\ Divides(groups, out)
GroupedLinear(x, in, out) == Sliced(x, in, out)

GroupedLinearEinsumOk(in, out, groups) == Divides(groups, in) /\ Divides(groups, out)
GroupedLinearEinsum(x, in, out) == Linear(x, in, out)

GroupedGRULayerOk(in, hidden, groups) ==
    Divides(groups, in) /\ Divides(groups, hidden) /\ Divides(groups, hidden \div groups)
GroupedGRULayer(x, in, hidden) == Sliced(x, in, hidden)

GroupedGRUOk(in, hidden, layers, groups) ==
    /\ layers > 0
    /\ GroupedGRULayerOk(in, hidden, groups)
    /\ layers > 1 => GroupedGRULayerOk(hidden, hidden, groups)

\* Every layer's output is added to the sum; the layers agree in their size.
GroupedGRU(x, in, hidden) == GroupedGRULayer(x, in, hidden)

\* A skip connection: none, the identity, or a linear layer.
NoSkip == [kind |-> "none", in |-> 0, out |-> 0]
Identity == [kind |-> "identity", in |-> 0, out |-> 0]
LinearSkip(in, out) == [kind |-> "groupedlinear", in |-> in, out |-> out]
Skip(s, x) == IF s.kind = "identity" THEN x ELSE GroupedLinearEinsum(x, s.in, s.out)
SkipOk(s, groups) == s.kind = "groupedlinear" => GroupedLinearEinsumOk(s.in, s.out, groups)

\* out = 0: the block has no output layer.  nn.GRU wants at least one layer.
SqueezedGRUOk(in, hidden, out, layers, groups) ==
    /\ GroupedLinearEinsumOk(in, hidden, groups)
    /\ layers > 0
    /\ out # 0 => GroupedLinearEinsumOk(hidden, out, groups)

\* The skip connection starts behind the input layer ...
SqueezedGRU(x, in, hidden, out, skip) ==
    LET y == GroupedLinearEinsum(x, in, hidden)
        z == IF skip.kind = "none" THEN y ELSE Add(y, Skip(skip, y))
    IN  IF out = 0 THEN z ELSE GroupedLinearEinsum(z, hidden, out)

\* ... or in front of it, and ends behind the output layer.
SqueezedGRU_S(x, in, hidden, out, skip) ==
    LET y == GroupedLinearEinsum(x, in, hidden)
        z == IF out = 0 THEN y ELSE GroupedLinearEinsum(y, hidden, out)
    IN  IF skip.kind = "none" THEN z ELSE Add(z, Skip(skip, x))

-----------------------------------------------------------------------------
(* The mask over the ERB bands, spread over the bins of the spectrum. *)

\* The inverse filter bank: each bin belongs to one band.
ErbFb(bands, bins) == [bands |-> bands, bins |-> bins]

Mask(spec, m, fb) ==
    IF m.f = fb.bands /\ Runs(spec) THEN Add(spec, [m EXCEPT !.f = fb.bins]) ELSE Err
=============================================================================
