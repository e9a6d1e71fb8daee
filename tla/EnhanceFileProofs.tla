------------------------- MODULE EnhanceFileProofs --------------------------
(***************************************************************************)
(* Proofs about the enhancement of files, for every configuration and      *)
(* recording that EnhanceAssumption allows.  First the forms of the deep   *)
(* filter: all take the same window of frames, for any number of frames,   *)
(* order and lookahead.  Then the recording: what is saved is as long as   *)
(* the input and each sample adds up frames that show one moment.  Last    *)
(* the networks: how far their blocks look ahead, and what they add up to. *)
(* The networks each have the blocks of TensorOps and ErbUNet as operators *)
(* of their own instance; Blocks is one more, which the lemmas are about.  *)
(***************************************************************************)
EXTENDS EnhanceFile, FiniteSetTheorems, SequenceTheorems, NaturalsInduction, WellFoundedInduction, TLAPS

Blocks == INSTANCE ErbUNet

-----------------------------------------------------------------------------
(* The forms of the deep filter. *)

\* Frame s of a spectrum of n frames, zeros outside.
FrameOrZero(n, s) == IF s \in 1 .. n THEN s ELSE 0

Padded(n, order, ahead) == Forms!SpecPad(Forms!Frames(n), order, ahead)

\* Two sequences of frames, of p and q frames, one after the other.
JoinOf(x, s, t, p, q) ==
    /\ x \in Seq(Int) /\ Len(x) = p + q
    /\ \A i \in 1 .. p + q : x[i] = IF i <= p THEN s[i] ELSE t[i - p]

LEMMA ConcatFrames ==
    ASSUME NEW s \in Seq(Int), NEW t \in Seq(Int), NEW p \in Nat, NEW q \in Nat, Len(s) = p, Len(t) = q
    PROVE  JoinOf(s \o t, s, t, p, q)
PROOF
<1>1. s \o t \in Seq(Int)
  OBVIOUS
<1>2. Len(s \o t) = Len(s) + Len(t)
  BY ConcatProperties, ZenonT(30)
<1>3. ASSUME NEW i \in 1 .. p + q PROVE (s \o t)[i] = IF i <= p THEN s[i] ELSE t[i - p]
  OBVIOUS
<1> QED BY <1>1, <1>2, <1>3 DEF JoinOf

\* spec_pad: the padded spectrum begins with the window of the first frame.
LEMMA PadAt ==
    ASSUME NEW n \in Nat, NEW order \in Nat \ {0}, NEW ahead \in Nat
    PROVE  LET x == Padded(n, order, ahead) IN
           /\ x \in Seq(Int) /\ Len(x) = n + order - 1
           /\ \A k \in 1 .. n + order - 1 : x[k] = FrameOrZero(n, k - (order - ahead - 1))
PROOF
<1> DEFINE x == Padded(n, order, ahead)
           before == order - ahead - 1
           b == IF before > 0 THEN before ELSE 0
           y == Forms!Zeros(before) \o Forms!Frames(n) \o Forms!Zeros(ahead)
           from == IF before < 0 THEN 1 - before ELSE 1
<1>1. /\ Forms!Zeros(before) \in Seq(Int) /\ Len(Forms!Zeros(before)) = b
      /\ \A i \in 1 .. b : Forms!Zeros(before)[i] = 0
  BY DEF Forms!Zeros
<1>2. /\ Forms!Frames(n) \in Seq(Int) /\ Len(Forms!Frames(n)) = n
      /\ \A i \in 1 .. n : Forms!Frames(n)[i] = i
  BY DEF Forms!Frames
<1>3. /\ Forms!Zeros(ahead) \in Seq(Int) /\ Len(Forms!Zeros(ahead)) = ahead
      /\ \A i \in 1 .. ahead : Forms!Zeros(ahead)[i] = 0
  BY DEF Forms!Zeros
<1>4. /\ y \in Seq(Int) /\ Len(y) = b + n + ahead
      /\ \A i \in 1 .. b + n + ahead : y[i] = FrameOrZero(n, i - b)
  <2> DEFINE z == Forms!Zeros(before) \o Forms!Frames(n)
  <2> HIDE DEF before, b
  <2>0. b \in Nat
    BY DEF b, before
  <2>4. /\ z \in Seq(Int) /\ Len(z) = b + n
        /\ \A i \in 1 .. b + n : z[i] = IF i <= b THEN Forms!Zeros(before)[i] ELSE Forms!Frames(n)[i - b]
    <3>1. JoinOf(z, Forms!Zeros(before), Forms!Frames(n), b, n)
      BY <1>1, <1>2, <2>0, ConcatFrames, ZenonT(30)
    <3> QED BY <3>1 DEF JoinOf
  <2> HIDE DEF z
  <2>1. /\ z \in Seq(Int) /\ Len(z) = b + n
        /\ \A i \in 1 .. b + n : z[i] = IF i <= b THEN 0 ELSE i - b
    <3>1. ASSUME NEW i \in 1 .. b + n PROVE z[i] = IF i <= b THEN 0 ELSE i - b
      <4>1. CASE i <= b
        BY <1>1, <2>0, <2>4, <4>1
      <4>2. CASE ~(i <= b)
        BY <1>2, <2>0, <2>4, <4>2
      <4> QED BY <4>1, <4>2
    <3> QED BY <2>4, <3>1
  <2>5. /\ z \o Forms!Zeros(ahead) \in Seq(Int) /\ Len(z \o Forms!Zeros(ahead)) = b + n + ahead
        /\ \A i \in 1 .. b + n + ahead :
              (z \o Forms!Zeros(ahead))[i] = IF i <= b + n THEN z[i] ELSE Forms!Zeros(ahead)[i - (b + n)]
    <3>1. PICK p \in Nat : p = b + n
      BY <2>0
    <3>2. PICK u \in Seq(Int) : u = Forms!Zeros(ahead)
      BY <1>3
    <3>3. Len(z) = p /\ Len(u) = ahead
      BY <1>3, <2>1, <3>1, <3>2, ZenonT(30)
    <3>4. JoinOf(z \o u, z, u, p, ahead)
      BY <2>1, <3>3, ConcatFrames, ZenonT(30)
    <3> QED BY <3>1, <3>2, <3>4, ZenonT(30) DEF JoinOf
  <2>2. z \o Forms!Zeros(ahead) \in Seq(Int) /\ Len(z \o Forms!Zeros(ahead)) = b + n + ahead
    BY <2>5
  <2>3. ASSUME NEW i \in 1 .. b + n + ahead PROVE (z \o Forms!Zeros(ahead))[i] = FrameOrZero(n, i - b)
    <3>1. CASE i <= b + n
      BY <2>0, <2>1, <2>5, <3>1 DEF FrameOrZero
    <3>2. CASE ~(i <= b + n)
      <4>1. i - (b + n) \in 1 .. ahead /\ ~(i - b \in 1 .. n)
        BY <2>0, <3>2
      <4> QED BY <1>3, <2>5, <3>2, <4>1 DEF FrameOrZero
    <3> QED BY <3>1, <3>2
  <2> QED BY <2>2, <2>3 DEF z
<1>5. x = SubSeq(y, from, Len(y))
  BY <1>4 DEF Padded, Forms!SpecPad, Forms!Pad
<1> HIDE DEF x
<1> HIDE DEF y
<1>6. b \in Nat /\ before \in Int /\ from \in 1 .. Len(y) + 1 /\ Len(y) - from + 1 = n + order - 1 /\ from - 1 - b = -before
  BY <1>4
<1> HIDE DEF b, from
<1>7. /\ x \in Seq(Int) /\ Len(x) = n + order - 1
      /\ \A k \in 1 .. n + order - 1 : x[k] = y[from + k - 1] /\ from + k - 1 \in 1 .. Len(y)
  <2>1. y \in Seq(Int) /\ from \in 1 .. Len(y) + 1 /\ Len(y) - from + 1 = n + order - 1 /\ Len(y) \in Nat
    BY <1>4, <1>6
  <2>2. x \in Seq(Int) /\ Len(x) = n + order - 1
    BY <1>5, <2>1
  <2>3. ASSUME NEW k \in 1 .. n + order - 1 PROVE x[k] = y[from + k - 1] /\ from + k - 1 \in 1 .. Len(y)
    BY <1>5, <2>1
  <2> QED BY <2>2, <2>3
<1>8. ASSUME NEW k \in 1 .. n + order - 1 PROVE x[k] = FrameOrZero(n, k - (order - ahead - 1))
  <2>1. x[k] = FrameOrZero(n, from + k - 1 - b)
    BY <1>4, <1>6, <1>7
  <2>2. from + k - 1 - b = k - (order - ahead - 1)
    BY <1>6
  <2> QED BY <2>1, <2>2
<1> QED BY <1>7, <1>8 DEF x

\* The window of frame t, by frames.
Taps(n, order, ahead) ==
    [t \in 1 .. n |-> [i \in 1 .. order |-> FrameOrZero(n, t + i - (order - ahead))]]

LEMMA FilterTaps ==
    ASSUME NEW n \in Nat, NEW order \in Nat \ {0}, NEW ahead \in Nat
    PROVE  Forms!DeepFilter(n, order, ahead) = Forms!AssignDf(Forms!Frames(n), Taps(n, order, ahead))
PROOF
<1>1. \A t \in 1 .. n : Forms!Frames(n)[t] = t
  BY DEF Forms!Frames
<1> QED BY <1>1, Zenon DEF Forms!DeepFilter, Forms!AssignDf, Taps, FrameOrZero

\* The windows that a form takes of the padded spectrum.
LEMMA PaddedTaps ==
    ASSUME NEW n \in Nat, NEW order \in Nat \ {0}, NEW ahead \in Nat
    PROVE  LET x == Padded(n, order, ahead) IN
           /\ x \in Seq(Int) /\ Len(x) = n + order - 1
           /\ \A t \in 1 .. n : \A i \in 1 .. order :
                 /\ t + i - 1 \in 1 .. Len(x)
                 /\ x[t + i - 1] = Taps(n, order, ahead)[t][i]
PROOF
<1> DEFINE x == Padded(n, order, ahead)
<1>1. /\ x \in Seq(Int) /\ Len(x) = n + order - 1
      /\ \A k \in 1 .. n + order - 1 : x[k] = FrameOrZero(n, k - (order - ahead - 1))
  BY PadAt
<1> HIDE DEF x
<1>2. ASSUME NEW t \in 1 .. n, NEW i \in 1 .. order
      PROVE  t + i - 1 \in 1 .. Len(x) /\ x[t + i - 1] = Taps(n, order, ahead)[t][i]
  <2>1. t + i - 1 \in 1 .. n + order - 1
    OBVIOUS
  <2>2. x[t + i - 1] = FrameOrZero(n, (t + i - 1) - (order - ahead - 1))
    BY <1>1, <2>1
  <2>3. (t + i - 1) - (order - ahead - 1) = t + i - (order - ahead)
    OBVIOUS
  <2>4. Taps(n, order, ahead)[t][i] = FrameOrZero(n, t + i - (order - ahead))
    BY DEF Taps
  <2> QED BY <1>1, <2>1, <2>2, <2>3, <2>4
<1> QED BY <1>1, <1>2 DEF x

\* as_strided, unfold and the slices of the loop give the same windows.
LEMMA SameWindows ==
    ASSUME NEW n \in Nat, NEW order \in Nat \ {0}, NEW ahead \in Nat
    PROVE  LET x == Padded(n, order, ahead) IN
           /\ Forms!Windows(x, n, order) = Taps(n, order, ahead)
           /\ Forms!Unfold(x, order) = Taps(n, order, ahead)
           /\ [t \in 1 .. n |-> [i \in 1 .. order |-> SubSeq(x, i, i + n - 1)[t]]] = Taps(n, order, ahead)
PROOF
<1> DEFINE x == Padded(n, order, ahead)
           W == Taps(n, order, ahead)
<1>1. /\ x \in Seq(Int) /\ Len(x) = n + order - 1
      /\ \A t \in 1 .. n : \A i \in 1 .. order : t + i - 1 \in 1 .. Len(x) /\ x[t + i - 1] = W[t][i]
  BY PaddedTaps
<1> HIDE DEF x
<1>2. W = [t \in 1 .. n |-> W[t]] /\ \A t \in 1 .. n : W[t] = [i \in 1 .. order |-> W[t][i]]
  BY DEF Taps
<1>3. \A t \in 1 .. n : W[t] \in Seq(Int) /\ Len(W[t]) = order
  BY DEF Taps, FrameOrZero
<1> HIDE DEF W
<1>4. Forms!Windows(x, n, order) = W
  <2>1. ASSUME NEW t \in 1 .. n PROVE [i \in 1 .. order |-> x[(t - 1) + (i - 1) + 1]] = W[t]
    <3>1. ASSUME NEW i \in 1 .. order PROVE x[(t - 1) + (i - 1) + 1] = W[t][i]
      <4>1. (t - 1) + (i - 1) + 1 = t + i - 1
        OBVIOUS
      <4> QED BY <1>1, <4>1
    <3> QED BY <1>2, <3>1
  <2> QED BY <1>2, <2>1 DEF Forms!Windows
<1>5. Forms!Unfold(x, order) = W
  <2>1. Len(x) - order + 1 = n
    BY <1>1
  <2>2. ASSUME NEW t \in 1 .. n PROVE SubSeq(x, t, t + order - 1) = W[t]
    <3>1. /\ SubSeq(x, t, t + order - 1) \in Seq(Int) /\ Len(SubSeq(x, t, t + order - 1)) = order
          /\ \A i \in 1 .. order : SubSeq(x, t, t + order - 1)[i] = x[t + i - 1]
      BY <1>1
    <3>2. \A i \in 1 .. order : SubSeq(x, t, t + order - 1)[i] = W[t][i]
      BY <1>1, <3>1
    <3> HIDE DEF W
    <3> QED BY <1>3, <3>1, <3>2, SeqEqual
  <2> QED BY <1>2, <2>1, <2>2 DEF Forms!Unfold
<1>6. [t \in 1 .. n |-> [i \in 1 .. order |-> SubSeq(x, i, i + n - 1)[t]]] = W
  <2>1. ASSUME NEW t \in 1 .. n, NEW i \in 1 .. order PROVE SubSeq(x, i, i + n - 1)[t] = W[t][i]
    <3>1. SubSeq(x, i, i + n - 1)[t] = x[i + t - 1]
      BY <1>1
    <3>2. i + t - 1 = t + i - 1
      OBVIOUS
    <3> QED BY <1>1, <3>1, <3>2
  <2>2. ASSUME NEW t \in 1 .. n PROVE [i \in 1 .. order |-> SubSeq(x, i, i + n - 1)[t]] = W[t]
    BY <1>2, <2>1
  <2> QED BY <1>2, <2>2
<1> QED BY <1>4, <1>5, <1>6 DEF W, x

-----------------------------------------------------------------------------
(* The filter with a buffer of its own. *)

LEMMA LeastOf ==
    ASSUME NEW T, T \subseteq Nat, T # {}
    PROVE  \E x \in T : \A y \in T : x <= y
PROOF
<1>1. \E x \in T : \A y \in T : <<y, x>> \notin OpToRel(<, Nat)
  BY NatLessThanWellFounded, WFMin, Zenon
<1>2. PICK x \in T : \A y \in T : <<y, x>> \notin OpToRel(<, Nat)
  BY <1>1, Zenon
<1>3. \A y \in T : ~(y < x)
  BY <1>2 DEF OpToRel
<1> QED BY <1>3

\* What the buffer holds at step t: the last `order` frames, the first ones
\* of which are what it held before.
BufferAt(order, before, t) ==
    [i \in 1 .. order |-> IF t - order + i > 0 THEN t - order + i ELSE before[i + t]]

Buffers(g, n, before) ==
    g = [t \in 0 .. n |-> IF t = 0 THEN before ELSE Append(Tail(g[t - 1]), t)]

LEMMA SpecBufDef == \A n, before : Forms!SpecBuf(n, before) = CHOOSE g : Buffers(g, n, before)
PROOF BY Zenon DEF Forms!SpecBuf, Buffers

LEMMA BufferType ==
    ASSUME NEW order \in Nat \ {0}, NEW before \in Seq(Int), Len(before) = order, NEW t \in Nat
    PROVE  LET b == BufferAt(order, before, t) IN
           /\ b \in Seq(Int) /\ Len(b) = order
           /\ \A i \in 1 .. order : b[i] = IF t - order + i > 0 THEN t - order + i ELSE before[i + t]
PROOF
<1>1. \A i \in 1 .. order : t - order + i <= 0 => i + t \in 1 .. order
  OBVIOUS
<1> QED BY <1>1 DEF BufferAt

LEMMA BufferStep ==
    ASSUME NEW order \in Nat \ {0}, NEW before \in Seq(Int), Len(before) = order, NEW t \in Nat
    PROVE  Append(Tail(BufferAt(order, before, t)), t + 1) = BufferAt(order, before, t + 1)
PROOF
<1> DEFINE b == BufferAt(order, before, t)
           c == BufferAt(order, before, t + 1)
           a == Append(Tail(b), t + 1)
<1>1. /\ b \in Seq(Int) /\ Len(b) = order
      /\ \A i \in 1 .. order : b[i] = IF t - order + i > 0 THEN t - order + i ELSE before[i + t]
  BY BufferType
<1>2. /\ c \in Seq(Int) /\ Len(c) = order
      /\ \A i \in 1 .. order : c[i] = IF t + 1 - order + i > 0 THEN t + 1 - order + i ELSE before[i + (t + 1)]
  <2>1. PICK u \in Nat : u = t + 1
    OBVIOUS
  <2>2. LET d == BufferAt(order, before, u) IN
        /\ d \in Seq(Int) /\ Len(d) = order
        /\ \A i \in 1 .. order : d[i] = IF u - order + i > 0 THEN u - order + i ELSE before[i + u]
    BY BufferType
  <2> QED BY <2>1, <2>2
<1> HIDE DEF b, c
<1>3. /\ Tail(b) \in Seq(Int) /\ Len(Tail(b)) = order - 1
      /\ \A i \in 1 .. order - 1 : Tail(b)[i] = b[i + 1]
  BY <1>1
<1>4. a \in Seq(Int) /\ Len(a) = order /\ a[order] = t + 1 /\ \A i \in 1 .. order - 1 : a[i] = b[i + 1]
  BY <1>3
<1> HIDE DEF a
<1>5. ASSUME NEW i \in 1 .. order PROVE a[i] = c[i]
  <2>1. CASE i = order
    BY <1>2, <1>4, <2>1
  <2>2. CASE i # order
    <3>1. i \in 1 .. order - 1 /\ i + 1 \in 1 .. order
      BY <2>2
    <3>2. a[i] = IF t - order + (i + 1) > 0 THEN t - order + (i + 1) ELSE before[(i + 1) + t]
      BY <1>1, <1>4, <3>1
    <3>3. t - order + (i + 1) = t + 1 - order + i /\ (i + 1) + t = i + (t + 1)
      OBVIOUS
    <3> QED BY <1>2, <3>2, <3>3
  <2> QED BY <2>1, <2>2
<1>6. a = c
  BY <1>2, <1>4, <1>5, SeqEqual
<1> QED BY <1>6 DEF a, b, c

LEMMA SpecBufIs ==
    ASSUME NEW n \in Nat, NEW order \in Nat \ {0}, NEW before \in Seq(Int), Len(before) = order
    PROVE  \A t \in 0 .. n : Forms!SpecBuf(n, before)[t] = BufferAt(order, before, t)
PROOF
<1> DEFINE B(t) == BufferAt(order, before, t)
           h == [t \in 0 .. n |-> B(t)]
<1>1. B(0) = before
  <2>1. PICK z \in Nat : z = 0
    OBVIOUS
  <2>2. LET d == BufferAt(order, before, z) IN
        /\ d \in Seq(Int) /\ Len(d) = order
        /\ \A i \in 1 .. order : d[i] = IF z - order + i > 0 THEN z - order + i ELSE before[i + z]
    BY BufferType
  <2>3. /\ B(z) \in Seq(Int) /\ Len(B(z)) = order
        /\ \A i \in 1 .. order : B(z)[i] = before[i]
    BY <2>1, <2>2
  <2> HIDE DEF B
  <2>4. B(z) = before
    BY <2>3, SeqEqual
  <2> QED BY <2>1, <2>4
<1>2. ASSUME NEW t \in 1 .. n PROVE Append(Tail(B(t - 1)), t) = B(t)
  <2>1. t - 1 \in Nat /\ (t - 1) + 1 = t
    OBVIOUS
  <2>2. Append(Tail(B(t - 1)), (t - 1) + 1) = B((t - 1) + 1)
    BY <2>1, BufferStep
  <2> QED BY <2>1, <2>2
<1> HIDE DEF B
<1>3. Buffers(h, n, before)
  <2>1. ASSUME NEW t \in 0 .. n PROVE B(t) = IF t = 0 THEN before ELSE Append(Tail(h[t - 1]), t)
    <3>1. CASE t = 0
      BY <1>1, <3>1
    <3>2. CASE t # 0
      <4>1. t \in 1 .. n /\ t - 1 \in 0 .. n
        BY <3>2
      <4>2. h[t - 1] = B(t - 1)
        BY <4>1
      <4> QED BY <1>2, <3>2, <4>1, <4>2
    <3> QED BY <3>1, <3>2
  <2> QED BY <2>1 DEF Buffers
<1> DEFINE g == Forms!SpecBuf(n, before)
<1>4. Buffers(g, n, before)
  BY <1>3, SpecBufDef
<1> HIDE DEF g
<1> DEFINE Wrong == {t \in 0 .. n : g[t] # B(t)}
<1>5. Wrong = {}
  <2> SUFFICES ASSUME Wrong # {} PROVE FALSE
    OBVIOUS
  <2>1. PICK t \in Wrong : \A u \in Wrong : t <= u
    <3>1. Wrong \subseteq Nat
      OBVIOUS
    <3> HIDE DEF Wrong
    <3> QED BY <3>1, LeastOf
  <2>2. g[t] = IF t = 0 THEN before ELSE Append(Tail(g[t - 1]), t)
    BY <1>4, <2>1 DEF Buffers
  <2>3. CASE t = 0
    BY <1>1, <2>1, <2>2, <2>3
  <2>4. CASE t # 0
    <3>1. t \in 1 .. n /\ t - 1 \in 0 .. n /\ ~(t <= t - 1)
      BY <2>1, <2>4
    <3>2. g[t - 1] = B(t - 1)
      BY <2>1, <3>1
    <3> QED BY <1>2, <2>1, <2>2, <2>4, <3>1, <3>2
  <2> QED BY <2>3, <2>4
<1> QED BY <1>5 DEF B, g

\* A fresh buffer holds the window of the frame `ahead` frames earlier.
LEMMA FreshTaps ==
    ASSUME NEW n \in Nat, NEW order \in Nat \ {0}, NEW ahead \in Nat, ahead < order, NEW t \in 1 .. n - ahead
    PROVE  Forms!RealHiddenStateLoop(n, order, ahead, Forms!Fresh(order))[t + ahead]
              = Forms!DeepFilter(n, order, ahead)[t]
PROOF
<1> DEFINE fresh == Forms!Fresh(order)
<1>1. fresh \in Seq(Int) /\ Len(fresh) = order /\ \A i \in 1 .. order : fresh[i] = 0
  BY DEF Forms!Fresh, Forms!Zeros
<1> HIDE DEF fresh
<1>2. PICK u \in 1 .. n : u = t + ahead
  OBVIOUS
<1> DEFINE b == BufferAt(order, fresh, u)
<1>3. Forms!SpecBuf(n, fresh)[u] = b
  BY <1>1, SpecBufIs
<1>4. /\ b \in Seq(Int) /\ Len(b) = order
      /\ \A i \in 1 .. order : b[i] = IF u - order + i > 0 THEN u - order + i ELSE fresh[i + u]
  <2>1. u \in Nat
    OBVIOUS
  <2> QED BY <1>1, <2>1, BufferType, ZenonT(30)
<1> HIDE DEF b
<1> DEFINE W == Taps(n, order, ahead)[t]
<1>5. W \in Seq(Int) /\ Len(W) = order /\ \A i \in 1 .. order : W[i] = FrameOrZero(n, t + i - (order - ahead))
  BY DEF Taps, FrameOrZero
<1> HIDE DEF W
<1>6. b = W
  <2>1. ASSUME NEW i \in 1 .. order PROVE b[i] = W[i]
    <3>1. t + i - (order - ahead) = u - order + i /\ u - order + i <= n
      BY <1>2
    <3>2. ASSUME u - order + i <= 0 PROVE fresh[i + u] = 0
      <4>1. i + u \in 1 .. order
        BY <3>2
      <4> QED BY <1>1, <4>1
    <3>3. b[i] = IF u - order + i > 0 THEN u - order + i ELSE 0
      BY <1>4, <3>2
    <3>4. W[i] = IF u - order + i \in 1 .. n THEN u - order + i ELSE 0
      BY <1>5, <3>1 DEF FrameOrZero
    <3> QED BY <3>1, <3>3, <3>4
  <2> QED BY <1>4, <1>5, <2>1, SeqEqual
<1>7. Forms!PyIndex(b, order - ahead - 1) = t
  BY <1>2, <1>4 DEF Forms!PyIndex
<1>8. Forms!RealHiddenStateLoop(n, order, ahead, fresh)[u] = [on |-> t, taps |-> b]
  BY <1>3, <1>7 DEF Forms!RealHiddenStateLoop
<1>9. Forms!DeepFilter(n, order, ahead)[t] = [on |-> t, taps |-> W]
  BY DEF Forms!DeepFilter, W, Taps, FrameOrZero
<1> QED BY <1>2, <1>6, <1>8, <1>9 DEF fresh

\* The multi-frame form of an order of 1 reads its own frame.
LEMMA OneFrame ==
    ASSUME NEW n \in Nat \ {0}, NEW ahead \in Nat
    PROVE  Forms!DeepFilter(n, 1, ahead) = Forms!MultiFrameDF(n, 1, ahead) <=> ahead = 0
PROOF
<1> DEFINE f == Forms!DeepFilter(n, 1, ahead)
           g == Forms!MultiFrameDF(n, 1, ahead)
<1>1. f = [t \in 1 .. n |-> [on |-> t, taps |-> [i \in 1 .. 1 |-> FrameOrZero(n, t + i - (1 - ahead))]]]
  BY DEF Forms!DeepFilter, FrameOrZero
<1>2. g = [t \in 1 .. n |-> [on |-> t, taps |-> <<t>>]]
  <2>1. Forms!Frames(n) = [t \in 1 .. n |-> t]
    BY DEF Forms!Frames
  <2>2. Forms!SpecUnfold(Forms!Frames(n), 1, ahead) = [t \in 1 .. n |-> <<t>>]
    BY <2>1 DEF Forms!SpecUnfold
  <2> QED BY <2>1, <2>2 DEF Forms!MultiFrameDF, Forms!AssignDf
<1> HIDE DEF f, g
<1>3. CASE ahead = 0
  <2>1. ASSUME NEW t \in 1 .. n PROVE [i \in 1 .. 1 |-> FrameOrZero(n, t + i - (1 - ahead))] = <<t>>
    <3>1. FrameOrZero(n, t + 1 - (1 - ahead)) = t
      BY <1>3 DEF FrameOrZero
    <3> QED BY <3>1
  <2> QED BY <1>1, <1>2, <1>3, <2>1 DEF f, g
<1>4. CASE ahead # 0
  <2>1. f[n].taps[1] = 0
    <3>1. FrameOrZero(n, n + 1 - (1 - ahead)) = 0
      BY <1>4 DEF FrameOrZero
    <3> QED BY <1>1, <3>1
  <2>2. g[n].taps[1] = n
    BY <1>2
  <2> QED BY <1>4, <2>1, <2>2 DEF f, g
<1> QED BY <1>3, <1>4

\* modules.py:329, "All forward methods should be mathematically similar",
\* for spectra of any length, any order and any lookahead.
THEOREM FormsOfFilter ==
    ASSUME NEW n \in Nat \ {0}, NEW order \in Nat \ {0}, NEW ahead \in Nat
    PROVE  LET promised == Forms!DeepFilter(n, order, ahead)
               looped == Forms!RealHiddenStateLoop(n, order, ahead, Forms!Fresh(order))
           IN  /\ promised = Forms!RealLoop(n, order, ahead)
               /\ promised = Forms!RealStrided(n, order, ahead)
               /\ promised = Forms!RealUnfold(n, order, ahead)
               /\ promised = Forms!ComplexStrided(n, order, ahead)
               /\ ahead < order => promised = Forms!RealOneStep(n, order, ahead)
               /\ promised = Forms!MultiFrameDF(n, order, ahead) <=> order > 1 \/ ahead = 0
               /\ order > 1 => promised = Forms!MultiFrameDFreal(n, order, ahead)
               /\ ahead < order => \A t \in 1 .. n - ahead : looped[t + ahead] = promised[t]
PROOF
<1> DEFINE promised == Forms!DeepFilter(n, order, ahead)
           x == Padded(n, order, ahead)
           W == Taps(n, order, ahead)
           on == Forms!Frames(n)
<1>1. promised = Forms!AssignDf(on, W)
  BY FilterTaps
<1>2. /\ Forms!Windows(x, n, order) = W
      /\ Forms!Unfold(x, order) = W
      /\ [t \in 1 .. n |-> [i \in 1 .. order |-> SubSeq(x, i, i + n - 1)[t]]] = W
  BY SameWindows
<1> HIDE DEF W
<1>3. /\ promised = Forms!RealLoop(n, order, ahead)
      /\ promised = Forms!RealStrided(n, order, ahead)
      /\ promised = Forms!RealUnfold(n, order, ahead)
      /\ promised = Forms!ComplexStrided(n, order, ahead)
  BY <1>1, <1>2, Zenon DEF Padded, Forms!RealLoop, Forms!RealStrided, Forms!RealUnfold, Forms!ComplexStrided
<1>4. ASSUME ahead < order PROVE promised = Forms!RealOneStep(n, order, ahead)
  <2>1. /\ x \in Seq(Int) /\ Len(x) = n + order - 1
        /\ \A t \in 1 .. n : \A i \in 1 .. order :
              t + i - 1 \in 1 .. Len(x) /\ x[t + i - 1] = Taps(n, order, ahead)[t][i]
    <3>1. n \in Nat
      OBVIOUS
    <3> QED BY <3>1, PaddedTaps, ZenonT(30)
  <2>2. W = [t \in 1 .. n |-> W[t]] /\ \A t \in 1 .. n : W[t][order - ahead] = t
    BY <1>4 DEF W, Taps, FrameOrZero
  <2>3. ASSUME NEW t \in 1 .. n PROVE SubSeq(x, t, t + order - 1) = W[t]
    <3>1. Len(x) - order + 1 = n
      BY <2>1
    <3> QED BY <1>2, <3>1 DEF Forms!Unfold
  <2>4. ASSUME NEW t \in 1 .. n PROVE Forms!PyIndex(W[t], order - ahead - 1) = t
    BY <1>4, <2>2 DEF Forms!PyIndex
  <2>5. promised = [t \in 1 .. n |-> [on |-> t, taps |-> W[t]]]
    <3>1. \A t \in 1 .. n : on[t] = t
      BY DEF Forms!Frames
    <3> QED BY <1>1, <2>2, <3>1 DEF Forms!AssignDf
  <2>6. Forms!RealOneStep(n, order, ahead) = [t \in 1 .. n |-> [on |-> t, taps |-> W[t]]]
    BY <2>3, <2>4 DEF Forms!RealOneStep, Padded
  <2> QED BY <2>5, <2>6
<1>5. ASSUME order > 1 PROVE /\ promised = Forms!MultiFrameDF(n, order, ahead)
                             /\ promised = Forms!MultiFrameDFreal(n, order, ahead)
  <2>1. order - 1 - ahead = order - ahead - 1
    OBVIOUS
  <2>2. Forms!MultiFramePad(on, order, ahead) = x
    BY <2>1 DEF Forms!MultiFramePad, Padded, Forms!SpecPad
  <2>3. Forms!SpecUnfold(on, order, ahead) = W
    BY <1>2, <1>5, <2>2 DEF Forms!SpecUnfold
  <2> QED BY <1>1, <1>5, <2>3 DEF Forms!MultiFrameDF, Forms!MultiFrameDFreal
<1>6. promised = Forms!MultiFrameDF(n, order, ahead) <=> order > 1 \/ ahead = 0
  <2>1. CASE order > 1
    BY <1>5, <2>1
  <2>2. CASE ~(order > 1)
    <3>1. order = 1
      BY <2>2
    <3> QED BY <2>2, <3>1, OneFrame
  <2> QED BY <2>1, <2>2
<1>7. ahead < order =>
         \A t \in 1 .. n - ahead :
            Forms!RealHiddenStateLoop(n, order, ahead, Forms!Fresh(order))[t + ahead] = promised[t]
  <2> HIDE DEF promised
  <2> SUFFICES ASSUME ahead < order, NEW t \in 1 .. n - ahead
               PROVE  Forms!RealHiddenStateLoop(n, order, ahead, Forms!Fresh(order))[t + ahead] = promised[t]
    OBVIOUS
  <2> QED BY FreshTaps DEF promised
<1> QED BY <1>3, <1>4, <1>5, <1>6, <1>7

-----------------------------------------------------------------------------
(* The invariant. *)

Loaded == {"ready", "features", "spectrum", "saved", "failed", "no_file"}
PaddedLen(r, p) == IF r.pad THEN LoadAudio(r) + p.fft_size ELSE LoadAudio(r)
HeldType(h, order) == h \in Seq(Int) /\ Len(h) = order /\ \A i \in 1 .. order : h[i] <= 0

EnhanceType ==
    /\ pc \in {"config", "no_model", "refused"} \cup Loaded
    /\ pc \in Loaded =>
          /\ params \in Configs /\ 2 * params.hop_size <= params.fft_size
          /\ HeldType(held, params.df_order)
    /\ pc \in {"features", "spectrum"} =>
          /\ file \in Recordings
          /\ frames = PaddedLen(file, params) \div params.hop_size
    /\ pc = "spectrum" /\ HiddenState(params) => params.df_lookahead < 2 * params.df_order

LEMMA DivIs ==
    ASSUME NEW a \in Nat, NEW h \in Nat \ {0}
    PROVE  a \div h \in Nat /\ h * (a \div h) <= a /\ a < h * (a \div h) + h
PROOF OBVIOUS

LEMMA ResampledType ==
    ASSUME NEW n \in Nat, NEW a \in Nat \ {0}, NEW b \in Nat \ {0}
    PROVE  LET r == Resampled(n, a, b) IN r \in Nat /\ n * b <= r * a /\ r * a <= n * b + a - 1
PROOF
<1> DEFINE m == n * b
           x == m + a - 1
           q == x \div a
<1>1. m \in Nat
  OBVIOUS
<1> HIDE DEF m
<1>2. x \in Nat
  BY <1>1
<1>3. q \in Nat /\ a * q <= x /\ x < a * q + a
  <2> HIDE DEF x
  <2> QED BY <1>2, DivIs
<1>4. Resampled(n, a, b) = q
  BY DEF Resampled, m
<1> HIDE DEF q
<1>5. q * a = a * q /\ a * q \in Nat
  BY <1>3
<1>6. m <= q * a /\ q * a <= m + a - 1
  BY <1>1, <1>3, <1>5
<1> QED BY <1>3, <1>4, <1>6 DEF m

\* The length of a recording at the rate of the model.
LEMMA Loads ==
    ASSUME NEW r \in Recordings
    PROVE  /\ r.len \in Nat /\ r.sr \in Nat \ {0} /\ r.pad \in BOOLEAN
           /\ LoadAudio(r) \in Nat
           /\ ModelRate * r.len <= LoadAudio(r) * r.sr
           /\ LoadAudio(r) * r.sr <= ModelRate * r.len + r.sr - 1
           /\ r.sr = ModelRate => LoadAudio(r) = r.len
PROOF
<1>1. r.len \in Nat /\ r.sr \in Nat \ {0} /\ r.pad \in BOOLEAN
  BY EnhanceAssumption DEF ConfigOk
<1>2. CASE r.sr = ModelRate
  BY <1>1, <1>2 DEF LoadAudio, ModelRate
<1>3. CASE r.sr # ModelRate
  <2>1. ModelRate \in Nat \ {0} /\ r.len * ModelRate = ModelRate * r.len
    BY <1>1 DEF ModelRate
  <2> DEFINE q == Resampled(r.len, r.sr, ModelRate)
  <2>2. q \in Nat /\ r.len * ModelRate <= q * r.sr /\ q * r.sr <= r.len * ModelRate + r.sr - 1
    BY <1>1, <2>1, ResampledType
  <2> HIDE DEF q
  <2>3. LoadAudio(r) = q
    BY <1>3 DEF LoadAudio, q
  <2> QED BY <1>1, <1>3, <2>1, <2>2, <2>3
<1> QED BY <1>2, <1>3

\* What a step of the filter with a buffer keeps of a whole recording.
LEMMA ShownHidden ==
    ASSUME NEW n \in Nat, NEW order \in Nat \ {0}, NEW ahead \in Nat, ahead < 2 * order,
           NEW before, HeldType(before, order), NEW t \in 1 .. n
    PROVE  LET on == Forms!RealHiddenStateLoop(n, order, ahead, before)[t].on
               shift == IF ahead < order THEN ahead ELSE ahead - order
           IN  /\ on \in Int
               /\ t > shift => on = t - shift
               /\ t <= shift => on <= 0
PROOF
<1> DEFINE b == BufferAt(order, before, t)
           i == IF ahead < order THEN order - ahead ELSE 2 * order - ahead
           shift == IF ahead < order THEN ahead ELSE ahead - order
<1>1. before \in Seq(Int) /\ Len(before) = order /\ \A k \in 1 .. order : before[k] <= 0
  BY DEF HeldType
<1>2. Forms!SpecBuf(n, before)[t] = b
  BY <1>1, SpecBufIs
<1>3. /\ b \in Seq(Int) /\ Len(b) = order
      /\ \A k \in 1 .. order : b[k] = IF t - order + k > 0 THEN t - order + k ELSE before[k + t]
  <2>1. t \in Nat
    OBVIOUS
  <2> QED BY <1>1, <2>1, BufferType, ZenonT(30)
<1> HIDE DEF b
<1>4. i \in 1 .. order /\ t - order + i = t - shift
  OBVIOUS
<1>5. Forms!PyIndex(b, order - ahead - 1) = b[i]
  BY <1>3 DEF Forms!PyIndex
<1>6. Forms!RealHiddenStateLoop(n, order, ahead, before)[t].on = b[i]
  BY <1>2, <1>5 DEF Forms!RealHiddenStateLoop
<1> HIDE DEF i
<1>7. b[i] \in Int /\ b[i] = IF t - shift > 0 THEN t - shift ELSE before[i + t]
  BY <1>3, <1>4
<1>8. t - shift <= 0 => i + t \in 1 .. order
  BY <1>4
<1> HIDE DEF shift
<1>9. shift \in Int
  BY DEF shift
<1>10. t <= shift => b[i] <= 0
  BY <1>1, <1>7, <1>8, <1>9
<1>11. t > shift => b[i] = t - shift
  BY <1>7, <1>9
<1> QED BY <1>6, <1>7, <1>10, <1>11 DEF shift

\* A call leaves only frames that the next one counts as past.
LEMMA AfterCallType ==
    ASSUME NEW n \in Nat, NEW order \in Nat \ {0}, NEW before, HeldType(before, order)
    PROVE  HeldType(Forms!AfterCall(n, before), order)
PROOF
<1> DEFINE b == BufferAt(order, before, n)
           a == [i \in 1 .. order |-> IF b[i] > 0 THEN b[i] - n - 1 ELSE b[i]]
<1>1. before \in Seq(Int) /\ Len(before) = order /\ \A k \in 1 .. order : before[k] <= 0
  BY DEF HeldType
<1>2. Forms!SpecBuf(n, before)[n] = b
  BY <1>1, SpecBufIs
<1>3. /\ b \in Seq(Int) /\ Len(b) = order
      /\ \A k \in 1 .. order : b[k] = IF n - order + k > 0 THEN n - order + k ELSE before[k + n]
  BY <1>1, BufferType
<1> HIDE DEF b
<1>4. Forms!AfterCall(n, before) = a
  BY <1>2, <1>3 DEF Forms!AfterCall
<1>5. ASSUME NEW k \in 1 .. order PROVE b[k] \in Int /\ b[k] <= n
  <2>1. n - order + k <= 0 => k + n \in 1 .. order
    OBVIOUS
  <2> QED BY <1>1, <1>3, <2>1
<1>6. \A k \in 1 .. order : a[k] \in Int /\ a[k] <= 0
  BY <1>5
<1>7. a \in Seq(Int) /\ Len(a) = order
  BY <1>5
<1> QED BY <1>4, <1>6, <1>7 DEF HeldType

LEMMA EnhanceTypeInit == Init => EnhanceType
PROOF BY DEF Init, EnhanceType, Loaded

LEMMA EnhanceTypeStep == EnhanceType /\ [Next]_vars => EnhanceType'
PROOF
<1> SUFFICES ASSUME EnhanceType, [Next]_vars PROVE EnhanceType'
  OBVIOUS
<1>1. CASE UNCHANGED fileVars
  BY <1>1 DEF EnhanceType, fileVars, HiddenState, PaddedLen, LoadAudio, Loaded
<1>2. CASE BuildModel
  <2>1. CASE pc' = "ready"
    <3>1. params' \in Configs /\ Accepted(params') /\ held' = Forms!Fresh(params'.df_order)
      BY <1>2, <2>1 DEF BuildModel
    <3>2. params'.df_order \in Nat \ {0}
      BY <3>1, EnhanceAssumption DEF ConfigOk
    <3>3. HeldType(held', params'.df_order)
      BY <3>1, <3>2 DEF HeldType, Forms!Fresh, Forms!Zeros
    <3>4. 2 * params'.hop_size <= params'.fft_size
      BY <3>1 DEF Accepted
    <3> QED BY <2>1, <3>1, <3>3, <3>4 DEF EnhanceType, Loaded
  <2>2. CASE pc' # "ready"
    BY <1>2, <2>2 DEF BuildModel, EnhanceType, Loaded
  <2> QED BY <2>1, <2>2
<1>3. ASSUME NEW r \in Recordings, Analyse(r) PROVE EnhanceType'
  BY <1>3 DEF Analyse, EnhanceType, Loaded, PaddedLen
<1>4. ASSUME NEW r \in Recordings, MissingFile(r) PROVE EnhanceType'
  BY <1>4 DEF MissingFile, EnhanceType, Loaded
<1>5. CASE RunModel
  <2>1. pc = "features" /\ pc' \in {"spectrum", "failed"} /\ UNCHANGED <<params, file, frames, held>>
    BY <1>5 DEF RunModel
  <2>2. ASSUME pc' = "spectrum", HiddenState(params) PROVE params.df_lookahead < 2 * params.df_order
    <3>1. Ops!Runs(Forward(params, Features(params, frames)).spec)
      BY <1>5, <2>2 DEF RunModel
    <3>2. params.version = "deepfilternet" /\ params.run_df /\ params.dfop_method = "real_hidden_state_loop"
      BY <2>2 DEF HiddenState
    <3> DEFINE in == Features(params, frames)
    <3> HIDE DEF in
    <3>3. Forward(params, in) = V1!DfNet(params, in)
      BY <3>2 DEF Forward
    <3>4. PICK spec, dec : V1!DfNet(params, in).spec = V1!Filter(params, spec, dec)
      BY <3>2 DEF V1!DfNet
    <3>5. Ops!Runs(V1!Filter(params, spec, dec))
      BY <3>1, <3>3, <3>4 DEF in
    <3> QED BY <3>2, <3>5 DEF V1!Filter, V1!Err, V1!Map, Ops!Runs
  <2> QED BY <2>1, <2>2 DEF EnhanceType, Loaded, PaddedLen, HiddenState
<1>6. CASE Synthesise
  <2>1. pc = "spectrum" /\ pc' \in {"saved", "failed"} /\ UNCHANGED params
    BY <1>6 DEF Synthesise
  <2>2. held' = held \/ held' = Forms!AfterCall(frames, held)
    BY <1>6 DEF Synthesise
  <2>3. params.df_order \in Nat \ {0} /\ params.hop_size \in Nat \ {0} /\ params.fft_size \in Nat
    BY <2>1, EnhanceAssumption DEF ConfigOk, EnhanceType, Loaded
  <2>4. frames \in Nat
    <3> DEFINE x == PaddedLen(file, params)
    <3>1. x \in Nat
      BY <2>1, <2>3, Loads DEF EnhanceType, PaddedLen
    <3> HIDE DEF x
    <3>2. frames = x \div params.hop_size
      BY <2>1 DEF EnhanceType, x
    <3> QED BY <2>3, <3>1, <3>2, DivIs
  <2>5. HeldType(held', params.df_order)
    BY <2>1, <2>2, <2>3, <2>4, AfterCallType DEF EnhanceType, Loaded
  <2> QED BY <2>1, <2>5 DEF EnhanceType, Loaded
<1>7. CASE NextFile
  BY <1>7 DEF NextFile, EnhanceType, Loaded
<1> QED BY <1>1, <1>2, <1>3, <1>4, <1>5, <1>6, <1>7 DEF Next, vars

\* Whatever the configuration accepted, all forms of its filter agree.
THEOREM FormsAgreeHolds == Spec => []FormsAgree
PROOF
<1>1. EnhanceType => FormsAgree
  <2> SUFFICES ASSUME EnhanceType, pc = "ready" PROVE FormsAgree
    BY DEF FormsAgree
  <2>1. params.df_order \in Nat \ {0} /\ params.df_lookahead \in Nat /\ 4 \in Nat \ {0}
    BY EnhanceAssumption DEF ConfigOk, EnhanceType, Loaded
  <2> QED BY <2>1, FormsOfFilter DEF FormsAgree
<1> QED BY <1>1, EnhanceTypeInit, EnhanceTypeStep, PTL DEF Spec

-----------------------------------------------------------------------------
(* Lengths and delays. *)

\* Rounding up twice adds less than one more sample of the model's rate; the
\* samples of a hop that is not full are lost.
LEMMA SavedLength ==
    ASSUME NEW r \in Recordings, NEW hop \in Nat \ {0}, NEW n \in Nat,
           n <= LoadAudio(r), IF r.pad THEN n = LoadAudio(r) ELSE LoadAudio(r) < n + hop
    PROVE  Resampled(n, ModelRate, r.sr) - r.len \in -Lost(r, hop) .. Added(r.sr)
PROOF
<1> DEFINE L == r.len
           sr == r.sr
           orig == LoadAudio(r)
           x == orig * sr
           m == n * sr
           c == (hop - 1) * sr
           saved_ == Resampled(n, ModelRate, sr)
<1>1. L \in Nat /\ sr \in Nat \ {0} /\ r.pad \in BOOLEAN /\ orig \in Nat
      /\ 48000 * L <= x /\ x <= 48000 * L + sr - 1 /\ (sr = 48000 => orig = L)
  BY Loads DEF ModelRate
<1> HIDE DEF L, sr, orig
<1>2. x \in Nat /\ m \in Nat /\ c \in Nat
  BY <1>1
<1>3. m <= x /\ (r.pad => m = x) /\ (~r.pad => x - c <= m)
  <2>1. n <= orig /\ (r.pad => n = orig) /\ (~r.pad => orig <= n + (hop - 1))
    BY <1>1 DEF orig
  <2>2. (n + (hop - 1)) * sr = m + c
    BY <1>1
  <2>3. n * sr <= orig * sr
    BY <1>1, <2>1
  <2>4. ~r.pad => orig * sr <= (n + (hop - 1)) * sr
    BY <1>1, <2>1
  <2> HIDE DEF c
  <2>5. ~r.pad => x <= m + c
    BY <2>2, <2>4
  <2> HIDE DEF m, x
  <2>6. m <= x
    BY <2>3 DEF m, x
  <2>7. r.pad => m = x
    BY <2>1 DEF m, x
  <2> QED BY <1>2, <2>5, <2>6, <2>7
<1>4. saved_ = (m + 48000 - 1) \div 48000
  BY DEF Resampled, ModelRate
<1>5. Lost(r, hop) = IF r.pad THEN 0 ELSE c \div 48000
  BY DEF Lost, ModelRate, c, sr
<1>6. Added(sr) = IF sr = 48000 THEN 0 ELSE (sr - 1 + 48000 - 1) \div 48000
  BY DEF Added, ModelRate
<1>7. sr = 48000 => m <= 48000 * L
  <2> SUFFICES ASSUME sr = 48000 PROVE m <= 48000 * L
    OBVIOUS
  <2>1. x = 48000 * L
    BY <1>1
  <2> QED BY <1>3, <2>1
<1> HIDE DEF x, m, c, saved_
<1>8. saved_ - L <= Added(sr)
  BY <1>1, <1>2, <1>3, <1>4, <1>6, <1>7
<1>9. -Lost(r, hop) <= saved_ - L
  BY <1>1, <1>2, <1>3, <1>4, <1>5
<1>10. saved_ - L \in Int /\ Lost(r, hop) \in Int /\ Added(sr) \in Int
  BY <1>1, <1>2, <1>4, <1>5, <1>6
<1> QED BY <1>8, <1>9, <1>10 DEF saved_, sr, L

\* The frames that overlap an output sample, for a window of whole hops.
LEMMA OverlappingFrames ==
    ASSUME NEW p \in Configs, NEW w \in Nat \ {0}, p.fft_size = w * p.hop_size, NEW n \in Nat,
           NEW s \in Nat, s \div p.hop_size + w <= n
    PROVE  LET q == s \div p.hop_size IN
           Overlapping(p, n, s + (p.fft_size - p.hop_size)) = q + 1 .. q + w
PROOF
<1> DEFINE h == p.hop_size
           q == s \div h
           a == s + (p.fft_size - h)
<1>1. h \in Nat \ {0}
  BY EnhanceAssumption DEF ConfigOk
<1> HIDE DEF h
<1>2. q \in Nat /\ h * q <= s /\ s < h * q + h
  BY <1>1, DivIs
<1>3. q + w <= n
  BY DEF h
<1> HIDE DEF q
<1>4. p.fft_size = h * w
  BY <1>1 DEF h
<1>5. ASSUME NEW t \in 1 .. n
      PROVE  (t - 1) * h <= a /\ a < (t - 1) * h + p.fft_size <=> t \in q + 1 .. q + w
  <2> DEFINE u == t - 1
             d == u - q
             x == h * d
  <2>1. u \in Nat /\ d \in Int /\ u = d + q
    BY <1>2
  <2>2. h * (d + q) = h * d + h * q /\ h * d \in Int
    BY <1>1, <1>2, <2>1
  <2>3. u * h = x + h * q
    BY <1>1, <2>1, <2>2
  <2>4. d <= w - 1 => x <= h * w - h
    <3> SUFFICES ASSUME d <= w - 1 PROVE x <= h * w - h
      OBVIOUS
    <3> HIDE DEF d
    <3>1. h * d <= h * (w - 1)
      BY <1>1, <2>1
    <3>2. h * (w - 1) = h * w - h
      BY <1>1
    <3> QED BY <3>1, <3>2
  <2>5. d >= w => x >= h * w
    <3> HIDE DEF d
    <3> QED BY <1>1, <2>1
  <2>6. d >= 0 => x >= 0
    <3> HIDE DEF d
    <3> QED BY <1>1, <2>1
  <2>7. d <= -1 => x <= -h
    <3> SUFFICES ASSUME d <= -1 PROVE x <= -h
      OBVIOUS
    <3> HIDE DEF d
    <3>1. h * d <= h * (-1)
      BY <1>1, <2>1
    <3> QED BY <1>1, <3>1
  <2>8. t \in q + 1 .. q + w <=> 0 <= d /\ d <= w - 1
    BY <1>2
  <2> DEFINE y == h * q
             z == h * w
  <2>9. x \in Int /\ y \in Nat /\ z \in Nat /\ a = s + (z - h) /\ u * h = x + y /\ p.fft_size = z
    BY <1>1, <1>2, <1>4, <2>2, <2>3
  <2>10. y <= s /\ s < y + h
    BY <1>2
  <2>11. (d <= w - 1 => x <= z - h) /\ (d >= w => x >= z) /\ (d >= 0 => x >= 0) /\ (d <= -1 => x <= -h)
    BY <2>4, <2>5, <2>6, <2>7
  <2> HIDE DEF x, y, z, a, d
  <2>12. u * h <= a /\ a < u * h + p.fft_size <=> x + y <= s + (z - h) /\ s + (z - h) < x + y + z
    BY <2>9
  <2>13. x + y <= s + (z - h) /\ s + (z - h) < x + y + z <=> 0 <= d /\ d <= w - 1
    BY <1>1, <2>1, <2>9, <2>10, <2>11
  <2> QED BY <2>8, <2>12, <2>13
<1>6. q + 1 .. q + w \subseteq 1 .. n
  BY <1>2, <1>3
<1> QED BY <1>5, <1>6 DEF Overlapping, a, h, q

\* The frame that enhanced frame t shows: t itself, or one that is earlier
\* by the shift, or one of the recording before.
LEMMA FrameShownIs ==
    ASSUME EnhanceType, pc = "spectrum", frames \in Nat
    PROVE  /\ HiddenShift(params) \in Nat
           /\ \A t \in 1 .. frames :
                 /\ FrameShown(t) \in Int
                 /\ t > HiddenShift(params) => FrameShown(t) = t - HiddenShift(params)
                 /\ t <= HiddenShift(params) => FrameShown(t) <= 0
PROOF
<1>1. params.df_order \in Nat \ {0} /\ params.df_lookahead \in Nat /\ HeldType(held, params.df_order)
  BY EnhanceAssumption DEF ConfigOk, EnhanceType, Loaded
<1>2. CASE HiddenState(params)
  <2>1. params.df_lookahead < 2 * params.df_order
    BY <1>2 DEF EnhanceType
  <2> DEFINE shift == IF params.df_lookahead < params.df_order THEN params.df_lookahead
                      ELSE params.df_lookahead - params.df_order
  <2>2. HiddenShift(params) = shift
    BY <1>2 DEF HiddenShift
  <2>3. ASSUME NEW t \in 1 .. frames
        PROVE  FrameShown(t) \in Int /\ (t > shift => FrameShown(t) = t - shift) /\ (t <= shift => FrameShown(t) <= 0)
    <3>1. FrameShown(t) = Forms!RealHiddenStateLoop(frames, params.df_order, params.df_lookahead, held)[t].on
      BY <1>2 DEF FrameShown
    <3> QED BY <1>1, <2>1, <3>1, ShownHidden
  <2>4. shift \in Nat
    BY <1>1
  <2> QED BY <2>2, <2>3, <2>4
<1>3. CASE ~HiddenState(params)
  <2>1. HiddenShift(params) = 0 /\ \A t \in 1 .. frames : FrameShown(t) = t
    BY <1>3 DEF HiddenShift, FrameShown
  <2> QED BY <2>1
<1> QED BY <1>2, <1>3

\* The sample that a frame adds to an output sample.
LEMMA ShowsIs ==
    ASSUME EnhanceType, pc = "spectrum", frames \in Nat, NEW s \in Int,
           NEW t \in DOMAIN Shows(s)
    PROVE  LET h == params.hop_size
               shift == HiddenShift(params)
           IN  \/ Shows(s)[t] = s - (params.fft_size - h) - shift * h
               \/ Shows(s)[t] = Stale /\ t <= shift
PROOF
<1> DEFINE h == params.hop_size
           f == params.fft_size
           shift == HiddenShift(params)
           u == FrameShown(t)
<1>1. h \in Nat /\ f \in Nat
  BY EnhanceAssumption DEF ConfigOk, EnhanceType, Loaded
<1>2. t \in 1 .. frames /\ u # 0
  BY DEF Shows, Overlapping
<1>3. shift \in Nat /\ u \in Int /\ (t > shift => u = t - shift) /\ (t <= shift => u <= 0)
  BY <1>2, FrameShownIs
<1>4. Shows(s)[t] = IF u < 0 THEN Stale ELSE (u - 1) * h - (f - h) + s - (t - 1) * h
  BY DEF Shows, FirstSample
<1> HIDE DEF h, f, shift, u
<1>5. CASE t > shift
  <2>1. u = t - shift /\ u > 0
    BY <1>2, <1>3, <1>5
  <2> DEFINE x == (u - 1) * h
             y == (t - 1) * h
             z == shift * h
  <2>2. ((u - 1) + shift) * h = (u - 1) * h + shift * h
    BY <1>1, <1>3
  <2>3. (u - 1) + shift = t - 1
    BY <1>2, <1>3, <2>1
  <2>4. y = x + z /\ x \in Int /\ z \in Int
    BY <1>1, <1>3, <2>2, <2>3
  <2>5. Shows(s)[t] = x - (f - h) + s - y
    BY <1>3, <1>4, <2>1
  <2> HIDE DEF x, y, z
  <2>6. Shows(s)[t] = s - (f - h) - z
    BY <1>1, <2>4, <2>5
  <2> QED BY <2>6 DEF z, h, f, shift
<1>6. CASE ~(t > shift)
  <2>1. t <= shift
    BY <1>2, <1>3, <1>6
  <2>2. u < 0
    BY <1>2, <1>3, <2>1
  <2> QED BY <1>4, <2>1, <2>2 DEF shift
<1> QED BY <1>5, <1>6

LEMMA AlignedStep ==
    ASSUME EnhanceType, Synthesise, pc' = "saved"
    PROVE  Aligned'
PROOF
<1> DEFINE p == params
           h == p.hop_size
           fft == p.fft_size
           delay == fft - h
           length == frames * h
           from == IF file.pad THEN delay ELSE 0
           orig == LoadAudio(file)
           len == IF file.pad /\ orig < length - delay THEN orig ELSE length - from
           w == fft \div h
<1>1. /\ pc = "spectrum" /\ params' = params /\ file' = file
      /\ saved' = [len |-> Resampled(len, ModelRate, file.sr),
                   shows |-> [s \in Probes(p, len) |-> Shows(s + from)]]
      /\ file.pad => fft % h = 0
  BY DEF Synthesise
<1>2. /\ p \in Configs /\ file \in Recordings /\ h \in Nat \ {0} /\ fft \in Nat \ {0} /\ 2 * h <= fft
      /\ frames = PaddedLen(file, p) \div h
  BY <1>1, EnhanceAssumption DEF ConfigOk, EnhanceType, Loaded
<1>3. orig \in Nat /\ file.pad \in BOOLEAN
  BY <1>2, Loads
<1>4. file.pad => w \in Nat \ {0} /\ fft = w * h /\ fft = h * w
  <2> SUFFICES ASSUME file.pad PROVE w \in Nat \ {0} /\ fft = w * h /\ fft = h * w
    OBVIOUS
  <2> HIDE DEF h, fft
  <2>1. fft % h = 0
    BY <1>1
  <2>2. w \in Nat /\ fft = h * w
    BY <1>2, <2>1
  <2>3. w # 0
    BY <1>2, <2>2
  <2> HIDE DEF w
  <2> QED BY <1>2, <2>2, <2>3
<1> HIDE DEF p
<1>5. /\ frames \in Nat /\ length = h * frames
      /\ h * frames <= PaddedLen(file, p) /\ PaddedLen(file, p) < h * frames + h
  <2> DEFINE x == PaddedLen(file, p)
  <2>1. x \in Nat
    BY <1>2, <1>3 DEF PaddedLen
  <2> HIDE DEF x, h, fft
  <2>2. frames \in Nat /\ h * frames <= x /\ x < h * frames + h
    BY <1>2, <2>1, DivIs DEF x
  <2>3. frames * h = h * frames
    BY <1>2, <2>2
  <2> QED BY <2>2, <2>3 DEF x
<1>6. PaddedLen(file, p) = IF file.pad THEN orig + fft ELSE orig
  BY DEF PaddedLen
<1> HIDE DEF orig, h, fft, length
<1>7. h * frames \in Nat
  BY <1>2, <1>5
<1>8. len \in Nat /\ len <= orig /\ IF file.pad THEN len = orig ELSE orig < len + h
  BY <1>2, <1>3, <1>5, <1>6, <1>7
<1> HIDE DEF len
<1>9. saved'.len - file'.len \in -Lost(file', params'.hop_size) .. Added(file'.sr)
  <2>1. Resampled(len, ModelRate, file.sr) - file.len \in -Lost(file, h) .. Added(file.sr)
    BY <1>2, <1>3, <1>8, SavedLength DEF orig
  <2> QED BY <1>1, <2>1 DEF h, p
<1>10. saved'.shows = [s \in Probes(p, len) |-> Shows(s + from)] /\ Probes(p, len) \subseteq 0 .. len - 1
  BY <1>1 DEF Probes
<1>11. from \in Int
  BY <1>2, <1>3
<1> HIDE DEF from
<1>12. HiddenShift(params) \in Nat
  BY <1>1, <1>5, FrameShownIs
<1>13. ASSUME NEW s \in 0 .. len - 1, NEW t \in DOMAIN Shows(s + from)
       PROVE  \/ Shows(s + from)[t] = s - (IF file.pad THEN 0 ELSE fft - h) - HiddenShift(params) * h
              \/ Shows(s + from)[t] = Stale /\ t <= HiddenShift(params)
  <2> DEFINE a == s + from
  <2>1. a \in Int
    BY <1>11
  <2> HIDE DEF a
  <2>2. \/ Shows(a)[t] = a - (fft - h) - HiddenShift(params) * h
        \/ Shows(a)[t] = Stale /\ t <= HiddenShift(params)
    BY <1>1, <1>5, <1>13, <2>1, ShowsIs DEF a, h, fft, p
  <2>3. a - (fft - h) = s - (IF file.pad THEN 0 ELSE fft - h)
    BY <1>2, <1>3 DEF a, from
  <2> QED BY <2>2, <2>3 DEF a
<1>14. ASSUME NEW s \in 0 .. len - 1, file.pad, HiddenShift(params) * h = 0
       PROVE  Cardinality(DOMAIN Shows(s + from)) = w
  <2>1. HiddenShift(params) = 0
    BY <1>2, <1>12, <1>14
  <2>2. \A t \in 1 .. frames : FrameShown(t) # 0
    BY <1>1, <1>5, <2>1, FrameShownIs
  <2>3. from = fft - h
    BY <1>14 DEF from
  <2>4. DOMAIN Shows(s + from) = Overlapping(p, frames, s + (fft - h))
    BY <2>2, <2>3 DEF Shows, Overlapping, p
  <2> DEFINE q == s \div h
  <2>5. s \in Nat /\ q \in Nat /\ h * q <= s
    BY <1>2, <1>8, DivIs
  <2>6. q + w <= frames
    <3> HIDE DEF q, w
    <3>1. h * (q + w) = h * q + h * w /\ h * (frames + 1) = h * frames + h /\ h * q \in Nat /\ h * w \in Nat
      BY <1>2, <1>4, <1>5, <1>14, <2>5
    <3>2. h * frames + h > orig + h * w
      BY <1>4, <1>5, <1>6, <1>14
    <3>3. h * q + h * w < orig + h * w
      BY <1>3, <1>8, <1>14, <2>5, <3>1
    <3>4. h * (q + w) < h * (frames + 1)
      BY <1>2, <1>3, <1>7, <3>1, <3>2, <3>3
    <3>5. q + w < frames + 1
      <4> DEFINE a == q + w
                 b == frames + 1
      <4>1. a \in Nat /\ b \in Nat
        BY <1>4, <1>5, <1>14, <2>5
      <4> SUFFICES ASSUME ~(a < b) PROVE FALSE
        OBVIOUS
      <4> HIDE DEF a, b
      <4>2. b <= a
        BY <4>1
      <4>3. h * b <= h * a
        BY <1>2, <4>1, <4>2
      <4>4. h * a \in Nat /\ h * b \in Nat
        BY <1>2, <4>1
      <4> QED BY <3>4, <4>3, <4>4 DEF a, b
    <3> QED BY <1>4, <1>5, <1>14, <2>5, <3>5
  <2>7. Overlapping(p, frames, s + (fft - h)) = q + 1 .. q + w
    <3>1. w \in Nat \ {0} /\ p.fft_size = w * p.hop_size
      BY <1>4, <1>14 DEF h, fft
    <3>2. s \div p.hop_size + w <= frames
      BY <2>6 DEF h
    <3> HIDE DEF w
    <3> QED BY <1>2, <1>5, <2>5, <3>1, <3>2, OverlappingFrames DEF h, fft
  <2> HIDE DEF q, w
  <2>8. Cardinality(q + 1 .. q + w) = w
    <3>1. PICK a \in Int, b \in Int : a = q + 1 /\ b = q + w
      BY <1>4, <1>14, <2>5
    <3>2. Cardinality(a .. b) = IF a > b THEN 0 ELSE b - a + 1
      BY FS_Interval
    <3>3. ~(a > b) /\ b - a + 1 = w
      BY <1>4, <1>14, <2>5, <3>1
    <3> QED BY <3>1, <3>2, <3>3
  <2> QED BY <2>4, <2>7, <2>8
<1> QED BY <1>1, <1>9, <1>10, <1>13, <1>14 DEF Aligned, h, fft, p, w

\* The saved recording is as long as the input but for what resampling adds
\* and the last hop lacks, and each of its samples overlap-adds frames that
\* show the one moment of the input that padding and filter promise.
THEOREM AlignedHolds == Spec => []Aligned
PROOF
<1>1. Init => Aligned
  BY DEF Init, Aligned
<1>2. EnhanceType /\ Aligned /\ [Next]_vars => Aligned'
  <2> SUFFICES ASSUME EnhanceType, Aligned, [Next]_vars PROVE Aligned'
    OBVIOUS
  <2>1. CASE UNCHANGED fileVars
    BY <2>1 DEF Aligned, fileVars, HiddenState, HiddenShift, Lost, Added
  <2>2. CASE Synthesise
    <3>1. CASE pc' = "saved"
      BY <2>2, <3>1, AlignedStep
    <3>2. CASE pc' # "saved"
      BY <3>2 DEF Aligned
    <3> QED BY <3>1, <3>2
  <2>3. CASE BuildModel \/ (\E r \in Recordings : Analyse(r) \/ MissingFile(r)) \/ RunModel \/ NextFile
    <3>1. pc' # "saved"
      BY <2>3 DEF BuildModel, Analyse, MissingFile, RunModel, NextFile
    <3> QED BY <3>1 DEF Aligned
  <2> QED BY <2>1, <2>2, <2>3 DEF Next, vars
<1> QED BY <1>1, <1>2, EnhanceTypeInit, EnhanceTypeStep, PTL DEF Spec

-----------------------------------------------------------------------------
(* How far the blocks look ahead. *)

Sizes(x, c, f) == [x EXCEPT !.c = c, !.f = f]
Wide(x, c) == [x EXCEPT !.c = c]
WideCut(x, c, k) == [x EXCEPT !.c = c, !.cut = k]
Spread(x, f) == [x EXCEPT !.f = f]
Shifted(x, n) == [x EXCEPT !.ahead = n]
Joined(x, n, k) == [x EXCEPT !.ahead = n, !.cut = k]

IsTensor(x) == \E C, F, N, K : x \in [c : C, f : F, frames : N, ahead : Int, cut : K]

\* Unless its block raised, x depends on input frames up to a later.
At(x, a) == IsTensor(x) /\ (Blocks!Runs(x) => x.ahead = a)
Later(a, b) == IF a > b THEN a ELSE b

LEMMA Sized ==
    ASSUME NEW x, NEW a \in Int, At(x, a), NEW c, NEW f, NEW k
    PROVE  /\ Sizes(x, c, f).c = c /\ Sizes(x, c, f).f = f
           /\ Wide(x, c).c = c
           /\ Spread(x, f).c = x.c /\ Spread(x, f).f = f /\ At(Spread(x, f), a)
           /\ Blocks!Runs(x) => At(Sizes(x, c, f), a) /\ At(Wide(x, c), a) /\ At(WideCut(x, c, k), a)
PROOF
<1>1. PICK C, F, N, K : x \in [c : C, f : F, frames : N, ahead : Int, cut : K]
  BY DEF At, IsTensor
<1>2. /\ Wide(x, c) \in [c : {c}, f : F, frames : N, ahead : Int, cut : K]
      /\ Sizes(x, c, f) \in [c : {c}, f : {f}, frames : N, ahead : Int, cut : K]
      /\ WideCut(x, c, k) \in [c : {c}, f : F, frames : N, ahead : Int, cut : {k}]
      /\ Spread(x, f) \in [c : C, f : {f}, frames : N, ahead : Int, cut : K]
  BY <1>1 DEF Wide, Sizes, WideCut, Spread
<1>3. IsTensor(Wide(x, c)) /\ IsTensor(Sizes(x, c, f)) /\ IsTensor(WideCut(x, c, k)) /\ IsTensor(Spread(x, f))
  BY <1>2, Zenon DEF IsTensor
<1>4. /\ Wide(x, c).ahead = x.ahead /\ Sizes(x, c, f).ahead = x.ahead /\ WideCut(x, c, k).ahead = x.ahead
      /\ Spread(x, f).ahead = x.ahead
      /\ Sizes(x, c, f).c = c /\ Sizes(x, c, f).f = f /\ Wide(x, c).c = c /\ Spread(x, f).c = x.c /\ Spread(x, f).f = f
  BY <1>1 DEF Wide, Sizes, WideCut, Spread
<1>5. Blocks!Runs(Spread(x, f)) = Blocks!Runs(x)
  BY <1>4 DEF Blocks!Runs
<1> QED BY <1>3, <1>4, <1>5 DEF At

LEMMA Moved ==
    ASSUME NEW x, NEW a \in Int, At(x, a), NEW n \in Int, NEW k
    PROVE  /\ At(Joined(x, n, k), n) /\ Joined(x, n, k).c = x.c /\ Joined(x, n, k).f = x.f
           /\ At(Shifted(x, n), n) /\ Shifted(x, n).c = x.c /\ Shifted(x, n).f = x.f
PROOF
<1>1. PICK C, F, N, K : x \in [c : C, f : F, frames : N, ahead : Int, cut : K]
  BY DEF At, IsTensor
<1>2. /\ Shifted(x, n) \in [c : C, f : F, frames : N, ahead : Int, cut : K]
      /\ Joined(x, n, k) \in [c : C, f : F, frames : N, ahead : Int, cut : {k}]
  BY <1>1 DEF Shifted, Joined
<1>3. IsTensor(Shifted(x, n)) /\ IsTensor(Joined(x, n, k))
  BY <1>2, Zenon DEF IsTensor
<1>4. /\ Shifted(x, n).c = x.c /\ Shifted(x, n).f = x.f /\ Shifted(x, n).ahead = n
      /\ Joined(x, n, k).c = x.c /\ Joined(x, n, k).f = x.f /\ Joined(x, n, k).ahead = n
  BY <1>1 DEF Shifted, Joined
<1> QED BY <1>3, <1>4 DEF At

LEMMA MapAt ==
    ASSUME NEW a \in Int
    PROVE  /\ At(Blocks!Err, a) /\ ~Blocks!Runs(Blocks!Err)
           /\ \A c, f, n : LET x == Blocks!Map(c, f, n) IN At(x, 0) /\ x.c = c /\ x.f = f /\ x.ahead = 0
PROOF
<1>1. ASSUME NEW c, NEW f, NEW n
      PROVE  LET x == Blocks!Map(c, f, n) IN IsTensor(x) /\ x.c = c /\ x.f = f /\ x.ahead = 0
  <2>1. Blocks!Map(c, f, n) \in [c : {c}, f : {f}, frames : {n}, ahead : Int, cut : {FALSE}]
    BY DEF Blocks!Map
  <2>2. IsTensor(Blocks!Map(c, f, n))
    BY <2>1, Zenon DEF IsTensor
  <2> QED BY <2>2 DEF Blocks!Map
<1>2. IsTensor(Blocks!Err) /\ Blocks!Err.c = 0
  BY <1>1 DEF Blocks!Err
<1> QED BY <1>1, <1>2 DEF At, Blocks!Runs

\* The blocks with one input.
LEMMA BlockAt ==
    ASSUME NEW x, NEW a \in Int, At(x, a), NEW in, NEW out, NEW f
    PROVE  /\ At(Blocks!Flatten(x), a)
           /\ At(Blocks!Unflatten(x, f), a)
           /\ At(Blocks!ViewAs(x, in, f), a)
           /\ At(Blocks!Linear(x, in, out), a)
           /\ At(Blocks!Sliced(x, in, out), a)
           /\ At(Blocks!Resize(x, in, out, f), a)
           /\ Blocks!Runs(Blocks!Resize(x, in, out, f)) => Blocks!Resize(x, in, out, f).c = out
PROOF
<1>1. At(Blocks!Err, a) /\ ~Blocks!Runs(Blocks!Err)
  BY MapAt
<1>2. Blocks!Flatten(x) = IF Blocks!Runs(x) THEN Sizes(x, x.c * x.f, 0) ELSE Blocks!Err
  BY Zenon DEF Blocks!Flatten, Sizes
<1>3. Blocks!Unflatten(x, f) = IF Blocks!Runs(x) /\ f > 0 /\ x.c % f = 0 THEN Sizes(x, x.c \div f, f) ELSE Blocks!Err
  BY Zenon DEF Blocks!Unflatten, Sizes
<1>4. Blocks!Linear(x, in, out) = IF Blocks!Runs(x) /\ x.c = in /\ x.f = 0 THEN Wide(x, out) ELSE Blocks!Err
  BY Zenon DEF Blocks!Linear, Wide
<1>5. Blocks!Sliced(x, in, out) =
         IF Blocks!Runs(x) /\ x.c >= in /\ x.f = 0 THEN WideCut(x, out, x.cut \/ x.c > in) ELSE Blocks!Err
  BY Zenon DEF Blocks!Sliced, WideCut
<1>6. Blocks!Resize(x, in, out, f) =
         IF Blocks!Runs(x) /\ x.c = in /\ x.f > 0 /\ f > 0 THEN Sizes(x, out, f) ELSE Blocks!Err
  BY Zenon DEF Blocks!Resize, Sizes
<1>7. \A c, g, k : /\ Sizes(x, c, g).c = c
                   /\ Blocks!Runs(x) => At(Sizes(x, c, g), a) /\ At(Wide(x, c), a) /\ At(WideCut(x, c, k), a)
  BY Sized
<1>8. At(Blocks!Flatten(x), a) /\ At(Blocks!Unflatten(x, f), a)
  BY <1>1, <1>2, <1>3, <1>7
<1>9. At(Blocks!ViewAs(x, in, f), a)
  BY <1>1, <1>8 DEF Blocks!ViewAs
<1>10. At(Blocks!Linear(x, in, out), a)
  BY <1>1, <1>4, <1>7
<1>11. At(Blocks!Sliced(x, in, out), a)
  <2> DEFINE k == x.cut \/ x.c > in
  <2> HIDE DEF k
  <2>1. Blocks!Sliced(x, in, out) =
           IF Blocks!Runs(x) /\ x.c >= in /\ x.f = 0 THEN WideCut(x, out, k) ELSE Blocks!Err
    BY <1>5 DEF k
  <2> QED BY <1>1, <1>7, <2>1
<1>12. /\ At(Blocks!Resize(x, in, out, f), a)
       /\ Blocks!Runs(Blocks!Resize(x, in, out, f)) => Blocks!Resize(x, in, out, f).c = out
  BY <1>1, <1>6, <1>7
<1> QED BY <1>8, <1>9, <1>10, <1>11, <1>12

\* A block with two inputs looks as far ahead as the later one.
LEMMA JoinAt ==
    ASSUME NEW x, NEW y, NEW a \in Int, NEW b \in Int, At(x, a), At(y, b)
    PROVE  /\ LET z == Blocks!DependsOn(x, y)
              IN  /\ At(z, Later(a, b))
                  /\ Blocks!Runs(z) <=> Blocks!Runs(x) /\ Blocks!Runs(y)
                  /\ Blocks!Runs(z) => z.c = x.c /\ z.f = x.f
           /\ LET z == Blocks!Add(x, y)
              IN  /\ At(z, Later(a, b))
                  /\ Blocks!Runs(z) => Blocks!Runs(x) /\ Blocks!Runs(y)
                  /\ Blocks!Runs(z) /\ x.c = y.c /\ x.f = y.f => z.c = x.c /\ z.f = x.f
           /\ At(Blocks!Concat(x, y), Later(a, b))
           /\ At(Blocks!AddInPlace(x, y), Later(a, b))
PROOF
<1> DEFINE l == Later(a, b)
           z == Blocks!DependsOn(x, y)
<1>1. l \in Int
  BY DEF Later
<1> HIDE DEF l
<1>2. At(Blocks!Err, l) /\ ~Blocks!Runs(Blocks!Err)
  BY <1>1, MapAt
<1>3. CASE ~(Blocks!Runs(x) /\ Blocks!Runs(y))
  BY <1>2, <1>3 DEF Blocks!DependsOn, Blocks!Add, Blocks!Concat, Blocks!AddInPlace, l
<1>4. CASE Blocks!Runs(x) /\ Blocks!Runs(y)
  <2>1. z = Joined(x, Blocks!Larger(x.ahead, y.ahead), x.cut \/ y.cut)
    BY <1>4, Zenon DEF Blocks!DependsOn, Joined
  <2> DEFINE k == x.cut \/ y.cut
  <2>2. Blocks!Larger(x.ahead, y.ahead) = l
    BY <1>4 DEF At, Blocks!Larger, Later, l
  <2> HIDE DEF k
  <2>3. z = Joined(x, l, k)
    BY <2>1, <2>2 DEF k
  <2> HIDE DEF z
  <2>4. At(z, l) /\ z.c = x.c /\ z.f = x.f
    BY <1>1, <2>3, Moved
  <2>5. Blocks!Runs(z)
    BY <1>4, <2>4 DEF Blocks!Runs
  <2>6. \A c, f : Sizes(z, c, f).c = c /\ Sizes(z, c, f).f = f /\ At(Sizes(z, c, f), l) /\ At(Wide(z, c), l)
    BY <1>1, <2>4, <2>5, Sized
  <2> DEFINE c == Blocks!Broadcast(x.c, y.c)
             f == Blocks!Broadcast(x.f, y.f)
             s == Blocks!Add(x, y)
  <2>7. s = IF c > 0 /\ (f > 0 \/ x.f = y.f) THEN Sizes(z, c, f) ELSE Blocks!Err
    BY <1>4, Zenon DEF Blocks!Add, Sizes, z
  <2>8. At(s, l)
    BY <1>2, <2>6, <2>7
  <2>9. Blocks!Runs(s) /\ x.c = y.c /\ x.f = y.f => s.c = x.c /\ s.f = x.f
    BY <1>2, <2>6, <2>7 DEF Blocks!Broadcast
  <2>10. Blocks!Concat(x, y) = IF x.f = y.f THEN Wide(z, x.c + y.c) ELSE Blocks!Err
    BY <1>4, Zenon DEF Blocks!Concat, Wide, z
  <2>11. At(Blocks!Concat(x, y), l)
    BY <1>2, <2>6, <2>10
  <2>12. At(Blocks!AddInPlace(x, y), l)
    BY <1>2, <2>8 DEF Blocks!AddInPlace
  <2> QED BY <1>4, <2>4, <2>5, <2>8, <2>9, <2>11, <2>12 DEF z, l
<1> QED BY <1>3, <1>4

\* A padding looks `after` frames ahead and keeps the sizes, or raises.
LEMMA TimePadAt ==
    ASSUME NEW x, NEW a \in Int, At(x, a), NEW before, NEW n \in Int
    PROVE  LET y == Blocks!TimePad(x, before, n) IN
           At(y, a + n) /\ (Blocks!Runs(y) => Blocks!Runs(x) /\ y.c = x.c /\ y.f = x.f)
PROOF
<1>1. x.ahead \in Int
  BY DEF At, IsTensor
<1> DEFINE m == x.ahead + n
           l == a + n
           y == Blocks!TimePad(x, before, n)
<1>2. y = IF -before <= x.frames THEN Shifted(x, m) ELSE Blocks!Err
  BY Zenon DEF Blocks!TimePad, Shifted
<1>3. m \in Int /\ l \in Int /\ (Blocks!Runs(x) => m = l)
  BY <1>1 DEF At
<1> HIDE DEF m, l, y
<1>4. At(Shifted(x, m), m) /\ Shifted(x, m).c = x.c /\ Shifted(x, m).f = x.f
  BY <1>3, Moved
<1>5. Blocks!Runs(Shifted(x, m)) = Blocks!Runs(x)
  BY <1>4 DEF Blocks!Runs
<1>6. At(Shifted(x, m), l)
  BY <1>3, <1>4, <1>5 DEF At
<1>7. At(Blocks!Err, l) /\ ~Blocks!Runs(Blocks!Err)
  BY <1>3, MapAt
<1>8. CASE -before <= x.frames
  BY <1>2, <1>4, <1>5, <1>6, <1>8 DEF y, l
<1>9. CASE ~(-before <= x.frames)
  BY <1>2, <1>7, <1>9 DEF y, l
<1> QED BY <1>8, <1>9

\* Features that are moved into the past are looked ahead for.
LEMMA PadFeatAt ==
    ASSUME NEW x, NEW a \in Int, At(x, a), NEW n \in Int
    PROVE  LET y == Blocks!PadFeat(x, n) IN
           At(y, a + n) /\ (Blocks!Runs(y) => Blocks!Runs(x) /\ y.c = x.c /\ y.f = x.f)
PROOF
<1> QED BY TimePadAt, ZenonT(30) DEF Blocks!PadFeat

\* A window, or a kernel, looks ahead as far as its padding.
LEMMA ShiftAt ==
    ASSUME NEW x, NEW a \in Int, At(x, a), NEW n \in Int, NEW k
    PROVE  LET y == Blocks!TimeKernel(x, k, n) IN
           At(y, a + n) /\ (Blocks!Runs(y) => Blocks!Runs(x) /\ y.c = x.c /\ y.f = x.f)
PROOF
<1> QED BY TimePadAt, ZenonT(30) DEF Blocks!TimeKernel

\* An input that does not look ahead, so moved.
LEMMA InputAt ==
    ASSUME NEW x, At(x, 0), NEW n \in Int, NEW k
    PROVE  /\ At(Blocks!PadFeat(x, n), n)
           /\ LET y == Blocks!TimeKernel(x, k, n) IN At(y, n) /\ (Blocks!Runs(y) => y.c = x.c /\ y.f = x.f)
PROOF
<1>1. PICK z \in Int : z = 0
  OBVIOUS
<1>2. At(x, z) /\ z + n = n
  BY <1>1
<1> DEFINE p == Blocks!PadFeat(x, n)
           y == Blocks!TimeKernel(x, k, n)
<1>3. At(p, z + n)
  BY <1>1, <1>2, PadFeatAt
<1>4. At(y, z + n) /\ (Blocks!Runs(y) => y.c = x.c /\ y.f = x.f)
  BY <1>1, <1>2, ShiftAt
<1> HIDE DEF p, y
<1>5. At(p, n) /\ At(y, n)
  BY <1>2, <1>3, <1>4
<1> QED BY <1>4, <1>5 DEF p, y

LEMMA ConvAt ==
    ASSUME NEW x, NEW a \in Int, At(x, a), NEW in, NEW out, NEW k, NEW s, k[1] \in Int
    PROVE  /\ LET y == Blocks!Conv2dNormAct(x, in, out, k, s)
              IN  At(y, a) /\ (Blocks!Runs(y) => y.c = out)
           /\ LET y == Blocks!ConvTranspose2dNormAct(x, in, out, k, s)
              IN  At(y, a) /\ (Blocks!Runs(y) => y.c = out)
PROOF
<1>1. PICK l \in Int : l = k[1]
  OBVIOUS
<1> DEFINE z == Blocks!TimeKernel(x, l, 0)
           f == Blocks!Conv2dF(x.f, k[2], k[2] \div 2, s)
           g == Blocks!ConvTranspose2dF(x.f, k[2], k[2] \div 2, k[2] \div 2, s)
<1>2. At(z, a)
  <2>1. PICK n \in Int : n = 0
    OBVIOUS
  <2>2. At(Blocks!TimeKernel(x, l, n), a + n)
    BY <1>1, ShiftAt
  <2>3. a + n = a
    BY <2>1
  <2> QED BY <2>1, <2>2, <2>3
<1>3. /\ Blocks!Conv2dNormAct(x, in, out, k, s) = Blocks!Resize(z, in, out, f)
      /\ Blocks!ConvTranspose2dNormAct(x, in, out, k, s) = Blocks!Resize(z, in, out, g)
  BY <1>1 DEF Blocks!Conv2dNormAct, Blocks!ConvTranspose2dNormAct
<1> HIDE DEF z, f, g
<1> QED BY <1>2, <1>3, BlockAt

LEMMA ConvkxfAt ==
    ASSUME NEW x, NEW a \in Int, At(x, a), NEW in, NEW out, NEW v, v.k \in Int, v.lookahead \in Int
    PROVE  LET y == Blocks!Convkxf(x, in, out, v)
           IN  At(y, a + v.lookahead) /\ (Blocks!Runs(y) => y.c = out)
PROOF
<1>1. PICK l \in Int, n \in Int : l = v.k /\ n = v.lookahead
  OBVIOUS
<1> DEFINE z == Blocks!TimeKernel(x, l, n)
<1>2. At(z, a + n)
  BY <1>1, ShiftAt
<1>3. \E f : Blocks!Convkxf(x, in, out, v) = Blocks!Resize(z, in, out, f)
  BY <1>1 DEF Blocks!Convkxf
<1>4. a + n \in Int
  BY <1>1
<1> HIDE DEF z
<1> QED BY <1>1, <1>2, <1>3, <1>4, BlockAt

\* The blocks over the features of a row do not look ahead.
LEMMA RowAt ==
    ASSUME NEW x, NEW a \in Int, At(x, a), NEW in, NEW hidden, NEW out, NEW s
    PROVE  /\ At(Blocks!GroupedLinear(x, in, out), a)
           /\ At(Blocks!GroupedLinearEinsum(x, in, out), a)
           /\ At(Blocks!GroupedGRU(x, in, out), a)
           /\ At(Blocks!Skip(s, x), a)
           /\ At(Blocks!SqueezedGRU(x, in, hidden, out, s), a)
           /\ At(Blocks!SqueezedGRU_S(x, in, hidden, out, s), a)
PROOF
<1>0. Later(a, a) = a
  BY DEF Later
<1>1. ASSUME NEW y, At(y, a), NEW i, NEW o PROVE At(Blocks!GroupedLinearEinsum(y, i, o), a)
  BY <1>1, BlockAt DEF Blocks!GroupedLinearEinsum
<1>2. ASSUME NEW y, At(y, a) PROVE At(Blocks!Skip(s, y), a)
  BY <1>1, <1>2 DEF Blocks!Skip
<1>3. At(Blocks!GroupedLinear(x, in, out), a) /\ At(Blocks!GroupedGRU(x, in, out), a)
  BY BlockAt DEF Blocks!GroupedLinear, Blocks!GroupedGRU, Blocks!GroupedGRULayer
<1>4. ASSUME NEW y, NEW z, At(y, a), At(z, a) PROVE At(Blocks!Add(y, z), a)
  BY <1>0, <1>4, JoinAt
<1> DEFINE y == Blocks!GroupedLinearEinsum(x, in, hidden)
           sum == IF s.kind = "none" THEN y ELSE Blocks!Add(y, Blocks!Skip(s, y))
           end == IF out = 0 THEN y ELSE Blocks!GroupedLinearEinsum(y, hidden, out)
<1>5. At(y, a)
  BY <1>1
<1> HIDE DEF y
<1>6. At(sum, a)
  BY <1>2, <1>4, <1>5
<1>7. At(end, a)
  BY <1>1, <1>5
<1>8. At(Blocks!SqueezedGRU(x, in, hidden, out, s), a)
  <2>1. Blocks!SqueezedGRU(x, in, hidden, out, s) =
           IF out = 0 THEN sum ELSE Blocks!GroupedLinearEinsum(sum, hidden, out)
    BY Zenon DEF Blocks!SqueezedGRU, y
  <2> HIDE DEF sum
  <2> QED BY <1>1, <1>6, <2>1
<1>9. At(Blocks!SqueezedGRU_S(x, in, hidden, out, s), a)
  <2>1. Blocks!SqueezedGRU_S(x, in, hidden, out, s) =
           IF s.kind = "none" THEN end ELSE Blocks!Add(end, Blocks!Skip(s, x))
    BY Zenon DEF Blocks!SqueezedGRU_S, y
  <2> HIDE DEF end
  <2> QED BY <1>2, <1>4, <1>7, <2>1
<1> QED BY <1>1, <1>2, <1>3, <1>8, <1>9

\* The sum or the pair of two embeddings, and a residual sum.
LEMMA CombineAt ==
    ASSUME NEW x, NEW y, NEW a \in Int, At(x, a), At(y, a), NEW p
    PROVE  /\ At(Blocks!Combine(p, x, y), a) /\ At(Blocks!Add(x, y), a) /\ At(Blocks!AddInPlace(x, y), a)
           /\ At(Blocks!DependsOn(x, y), a)
PROOF
<1>1. Later(a, a) = a
  BY DEF Later
<1>2. At(Blocks!Add(x, y), a) /\ At(Blocks!Concat(x, y), a) /\ At(Blocks!AddInPlace(x, y), a)
      /\ At(Blocks!DependsOn(x, y), a)
  BY <1>1, JoinAt
<1> QED BY <1>2 DEF Blocks!Combine

-----------------------------------------------------------------------------
(* The parts that three networks have in common. *)

Kernels(p) == p.conv_kernel[1] \in Int /\ p.conv_kernel_inp[1] \in Int /\ p.df_pathway_kernel_size_t \in Int

\* The maps that the encoder hands to the decoders.
MapsAt(e, a) == At(e.e0, a) /\ At(e.e1, a) /\ At(e.e2, a) /\ At(e.e3, a) /\ At(e.c0, a)
WithEmb(e, emb) == [e EXCEPT !.emb = emb]

LEMMA ConvEncoderAt ==
    ASSUME NEW p, Kernels(p), NEW a \in Int, NEW erb, NEW feat, At(erb, a), At(feat, a)
    PROVE  LET e == Blocks!ConvEncoder(p, erb, feat) IN
           /\ MapsAt(e, a) /\ At(e.c1, a)
           /\ \A g : MapsAt(WithEmb(e, g), a) /\ WithEmb(e, g).emb = g
PROOF
<1> DEFINE conv(x, s) == Blocks!Conv2dNormAct(x, p.conv_ch, p.conv_ch, p.conv_kernel, s)
           e0 == Blocks!Conv2dNormAct(erb, 1, p.conv_ch, p.conv_kernel_inp, 1)
           e1 == conv(e0, 2)
           e2 == conv(e1, 2)
           e3 == conv(e2, 1)
           c0 == Blocks!Conv2dNormAct(feat, 2, p.conv_ch, p.conv_kernel_inp, 1)
           c1 == conv(c0, 2)
           e == Blocks!ConvEncoder(p, erb, feat)
<1>1. ASSUME NEW x, At(x, a), NEW s PROVE At(conv(x, s), a)
  BY <1>1, ConvAt DEF Kernels
<1>2. At(e0, a) /\ At(c0, a)
  BY ConvAt DEF Kernels
<1>3. e = [e0 |-> e0, e1 |-> e1, e2 |-> e2, e3 |-> e3, c0 |-> c0, c1 |-> c1, emb |-> Blocks!Err]
  BY DEF Blocks!ConvEncoder
<1> HIDE DEF e0, c0, conv
<1>4. At(e1, a) /\ At(e2, a) /\ At(e3, a) /\ At(c1, a)
  BY <1>1, <1>2
<1> HIDE DEF e1, e2, e3, c1, e
<1>5. /\ e.e0 = e0 /\ e.e1 = e1 /\ e.e2 = e2 /\ e.e3 = e3 /\ e.c0 = c0 /\ e.c1 = c1
      /\ e \in [e0 : {e0}, e1 : {e1}, e2 : {e2}, e3 : {e3}, c0 : {c0}, c1 : {c1}, emb : {Blocks!Err}]
  BY <1>3
<1>6. ASSUME NEW g PROVE MapsAt(WithEmb(e, g), a) /\ WithEmb(e, g).emb = g
  <2>1. WithEmb(e, g) \in [e0 : {e0}, e1 : {e1}, e2 : {e2}, e3 : {e3}, c0 : {c0}, c1 : {c1}, emb : {g}]
    BY <1>5 DEF WithEmb
  <2>2. WithEmb(e, g).e0 = e0 /\ WithEmb(e, g).e1 = e1 /\ WithEmb(e, g).e2 = e2 /\ WithEmb(e, g).e3 = e3
        /\ WithEmb(e, g).c0 = c0 /\ WithEmb(e, g).emb = g
    BY <2>1
  <2> QED BY <1>2, <1>4, <2>2 DEF MapsAt
<1> QED BY <1>2, <1>4, <1>5, <1>6 DEF MapsAt, e

LEMMA ConvDecoderAt ==
    ASSUME NEW p, Kernels(p), NEW a \in Int, NEW k, k[1] \in Int, NEW emb, At(emb, a), NEW e, MapsAt(e, a)
    PROVE  LET m == Blocks!ConvDecoder(p, k, emb, e) IN At(m, a) /\ (Blocks!Runs(m) => m.c = 1)
PROOF
<1> DEFINE ch == p.conv_ch
           convp(x) == Blocks!Conv2dNormAct(x, ch, ch, <<1, 1>>, 1)
           convt(x) == Blocks!ConvTranspose2dNormAct(x, ch, ch, k, 2)
           last(x) == Blocks!Conv2dNormAct(x, ch, 1, p.conv_kernel, 1)
           mid(x) == Blocks!Conv2dNormAct(x, ch, ch, p.conv_kernel, 1)
           d3 == mid(Blocks!Add(convp(e.e3), Blocks!Unflatten(emb, e.e3.f)))
           d2 == convt(Blocks!Add(convp(e.e2), d3))
           d1 == convt(Blocks!Add(convp(e.e1), d2))
           m == last(Blocks!Add(convp(e.e0), d1))
<1>1. ASSUME NEW x, At(x, a)
      PROVE  At(convp(x), a) /\ At(convt(x), a) /\ At(mid(x), a) /\ At(last(x), a)
             /\ (Blocks!Runs(last(x)) => last(x).c = 1)
  <2>1. <<1, 1>>[1] \in Int
    OBVIOUS
  <2>2. At(convp(x), a)
    BY <1>1, <2>1, ConvAt
  <2>3. At(convt(x), a)
    BY <1>1, ConvAt
  <2>4. At(mid(x), a)
    BY <1>1, ConvAt DEF Kernels
  <2>5. At(last(x), a) /\ (Blocks!Runs(last(x)) => last(x).c = 1)
    BY <1>1, ConvAt DEF Kernels
  <2> QED BY <2>2, <2>3, <2>4, <2>5
<1>2. Blocks!ConvDecoder(p, k, emb, e) = m
  BY DEF Blocks!ConvDecoder
<1>3. ASSUME NEW x, NEW y, At(x, a), At(y, a) PROVE At(Blocks!Add(x, y), a)
  BY <1>3, CombineAt
<1>4. At(Blocks!Unflatten(emb, e.e3.f), a)
  BY BlockAt
<1> HIDE DEF convp, convt, mid, last
<1>5. At(d3, a)
  BY <1>1, <1>3, <1>4 DEF MapsAt
<1> HIDE DEF d3
<1>6. At(d2, a)
  BY <1>1, <1>3, <1>5 DEF MapsAt
<1> HIDE DEF d2
<1>7. At(d1, a)
  BY <1>1, <1>3, <1>6 DEF MapsAt
<1> HIDE DEF d1
<1>8. At(m, a) /\ (Blocks!Runs(m) => m.c = 1)
  BY <1>1, <1>3, <1>7 DEF MapsAt
<1> QED BY <1>2, <1>8

LEMMA PathwayAt ==
    ASSUME NEW p, Kernels(p), NEW a \in Int, NEW c, At(c, a), NEW c0, At(c0, a), NEW ch
    PROVE  At(Blocks!PathwaySum(p, c, ch, c0), a)
PROOF
<1>1. At(Blocks!ViewAs(c, ch, p.nb_df), a)
  BY BlockAt
<1>2. <<p.df_pathway_kernel_size_t, 1>>[1] \in Int
  BY DEF Kernels
<1>3. At(Blocks!Conv2dNormAct(c0, p.conv_ch, ch, <<p.df_pathway_kernel_size_t, 1>>, 1), a)
  BY <1>2, ConvAt
<1> QED BY <1>1, <1>3, CombineAt DEF Blocks!PathwaySum

\* The masked spectrum needs what the mask needs; both have their sizes.
LEMMA MaskAt ==
    ASSUME NEW bins, NEW bands, NEW n, NEW m, NEW a \in Nat, At(m, a), Blocks!Runs(m) => m.c = 1
    PROVE  LET y == Blocks!Mask(Blocks!Map(1, bins, n), m, Blocks!ErbFb(bands, bins)) IN
           /\ At(y, a)
           /\ Blocks!Runs(y) => Blocks!Runs(m) /\ m.f = bands /\ y.c = 1 /\ y.f = bins
PROOF
<1> DEFINE x == Blocks!Map(1, bins, n)
           fb == Blocks!ErbFb(bands, bins)
           y == Blocks!Mask(x, m, fb)
           s == Spread(m, bins)
<1>1. At(x, 0) /\ x.c = 1 /\ x.f = bins
  BY MapAt
<1>2. fb.bands = bands /\ fb.bins = bins
  BY DEF Blocks!ErbFb
<1>3. y = IF m.f = bands /\ Blocks!Runs(x) THEN Blocks!Add(x, s) ELSE Blocks!Err
  <2>1. y = IF m.f = fb.bands /\ Blocks!Runs(x) THEN Blocks!Add(x, Spread(m, fb.bins)) ELSE Blocks!Err
    BY Zenon DEF Blocks!Mask, Spread
  <2> HIDE DEF x, fb, y
  <2> QED BY <1>2, <2>1
<1> HIDE DEF x, fb, y, s
<1>4. At(s, a) /\ s.c = m.c /\ s.f = bins /\ Later(0, a) = a
  BY Sized DEF s, Later
<1>5. At(Blocks!Err, a) /\ ~Blocks!Runs(Blocks!Err)
  BY MapAt
<1> DEFINE z == Blocks!Add(x, s)
<1>6. At(z, a) /\ (Blocks!Runs(z) => Blocks!Runs(x) /\ Blocks!Runs(s))
      /\ (Blocks!Runs(z) /\ x.c = s.c /\ x.f = s.f => z.c = x.c /\ z.f = x.f)
  BY <1>1, <1>4, JoinAt
<1> HIDE DEF z
<1>7. Blocks!Runs(s) = Blocks!Runs(m)
  BY <1>4 DEF Blocks!Runs
<1>8. At(y, a) /\ (Blocks!Runs(y) => Blocks!Runs(m) /\ m.f = bands /\ y.c = 1 /\ y.f = bins)
  BY <1>1, <1>3, <1>4, <1>5, <1>6, <1>7 DEF z
<1> QED BY <1>8 DEF x, fb, y

-----------------------------------------------------------------------------
(* The blocks of each network are these blocks. *)

LEMMA Same3 ==
    /\ V3!Err = Blocks!Err
    /\ \A x : V3!Runs(x) = Blocks!Runs(x)
    /\ \A c, f, n : V3!Map(c, f, n) = Blocks!Map(c, f, n)
    /\ \A m, n : V3!ErbFb(m, n) = Blocks!ErbFb(m, n)
    /\ \A x, y : V3!DependsOn(x, y) = Blocks!DependsOn(x, y)
    /\ \A x, y : V3!Add(x, y) = Blocks!Add(x, y)
    /\ \A x : V3!Flatten(x) = Blocks!Flatten(x)
    /\ \A x, n : V3!PadFeat(x, n) = Blocks!PadFeat(x, n)
    /\ \A x, k, l : V3!TimeKernel(x, k, l) = Blocks!TimeKernel(x, k, l)
    /\ \A x, m, fb : V3!Mask(x, m, fb) = Blocks!Mask(x, m, fb)
    /\ \A x, in, out : V3!GroupedLinearEinsum(x, in, out) = Blocks!GroupedLinearEinsum(x, in, out)
    /\ \A s, x : V3!Skip(s, x) = Blocks!Skip(s, x)
    /\ \A x, in, hidden, out, s : V3!SqueezedGRU_S(x, in, hidden, out, s) = Blocks!SqueezedGRU_S(x, in, hidden, out, s)
    /\ \A p, erb, feat : V3!ConvEncoder(p, erb, feat) = Blocks!ConvEncoder(p, erb, feat)
    /\ \A p, x, y : V3!Combine(p, x, y) = Blocks!Combine(p, x, y)
    /\ \A p, k, emb, e : V3!ConvDecoder(p, k, emb, e) = Blocks!ConvDecoder(p, k, emb, e)
    /\ \A p, c, ch, c0 : V3!PathwaySum(p, c, ch, c0) = Blocks!PathwaySum(p, c, ch, c0)
PROOF
<1>1. V3!Err = Blocks!Err
  BY DEF V3!Err, V3!Map, Blocks!Err, Blocks!Map
<1>2. \A x : V3!Runs(x) = Blocks!Runs(x)
  BY DEF V3!Runs, Blocks!Runs
<1>3. \A m, n : V3!Larger(m, n) = Blocks!Larger(m, n)
  BY DEF V3!Larger, Blocks!Larger
<1>4. \A m, n : V3!Broadcast(m, n) = Blocks!Broadcast(m, n)
  BY DEF V3!Broadcast, Blocks!Broadcast
<1>5. \A c, f, n : V3!Map(c, f, n) = Blocks!Map(c, f, n)
  BY DEF V3!Map, Blocks!Map
<1>6. \A m, n : V3!ErbFb(m, n) = Blocks!ErbFb(m, n)
  BY DEF V3!ErbFb, Blocks!ErbFb
<1>7. \A x, y : V3!DependsOn(x, y) = Blocks!DependsOn(x, y)
  BY <1>1, <1>2, <1>3, Zenon DEF V3!DependsOn, Blocks!DependsOn
<1>8. \A x, y : V3!Add(x, y) = Blocks!Add(x, y)
  BY <1>1, <1>2, <1>4, <1>7, Zenon DEF V3!Add, Blocks!Add
<1>9. \A x : V3!Flatten(x) = Blocks!Flatten(x)
  BY <1>1, <1>2, Zenon DEF V3!Flatten, Blocks!Flatten
<1>10. \A x, f : V3!Unflatten(x, f) = Blocks!Unflatten(x, f)
  BY <1>1, <1>2, Zenon DEF V3!Unflatten, Blocks!Unflatten
<1>11. \A x, c, f : V3!ViewAs(x, c, f) = Blocks!ViewAs(x, c, f)
  BY <1>1, <1>10, Zenon DEF V3!ViewAs, Blocks!ViewAs
<1>40. \A x, b, a : V3!TimePad(x, b, a) = Blocks!TimePad(x, b, a)
  BY <1>1, Zenon DEF V3!TimePad, Blocks!TimePad
<1>12. \A x, n : V3!PadFeat(x, n) = Blocks!PadFeat(x, n)
  BY <1>40 DEF V3!PadFeat, Blocks!PadFeat
<1>13. \A x, k, l : V3!TimeKernel(x, k, l) = Blocks!TimeKernel(x, k, l)
  BY <1>40 DEF V3!TimeKernel, Blocks!TimeKernel
<1>14. \A f, k, d, s : V3!Conv2dF(f, k, d, s) = Blocks!Conv2dF(f, k, d, s)
  BY Zenon DEF V3!Conv2dF, Blocks!Conv2dF
<1>15. \A f, k, d, o, s : V3!ConvTranspose2dF(f, k, d, o, s) = Blocks!ConvTranspose2dF(f, k, d, o, s)
  BY <1>3, Zenon DEF V3!ConvTranspose2dF, Blocks!ConvTranspose2dF
<1>16. \A x, in, out, f : V3!Resize(x, in, out, f) = Blocks!Resize(x, in, out, f)
  BY <1>1, <1>2, Zenon DEF V3!Resize, Blocks!Resize
<1>17. \A x, in, out : V3!Linear(x, in, out) = Blocks!Linear(x, in, out)
  BY <1>1, <1>2, Zenon DEF V3!Linear, Blocks!Linear
<1>18. \A x, m, fb : V3!Mask(x, m, fb) = Blocks!Mask(x, m, fb)
  BY <1>1, <1>2, <1>8, Zenon DEF V3!Mask, Blocks!Mask
<1>19. \A x, y : V3!Concat(x, y) = Blocks!Concat(x, y)
  BY <1>1, <1>2, <1>7, Zenon DEF V3!Concat, Blocks!Concat
<1>20. \A x, in, out, k, s : V3!Conv2dNormAct(x, in, out, k, s) = Blocks!Conv2dNormAct(x, in, out, k, s)
  BY <1>13, <1>16, <1>14 DEF V3!Conv2dNormAct, Blocks!Conv2dNormAct
<1>21. \A x, in, out, k, s : V3!ConvTranspose2dNormAct(x, in, out, k, s) = Blocks!ConvTranspose2dNormAct(x, in, out, k, s)
  BY <1>13, <1>16, <1>15 DEF V3!ConvTranspose2dNormAct, Blocks!ConvTranspose2dNormAct
<1>22. \A x, in, out : V3!GroupedLinearEinsum(x, in, out) = Blocks!GroupedLinearEinsum(x, in, out)
  BY <1>17 DEF V3!GroupedLinearEinsum, Blocks!GroupedLinearEinsum
<1>23. \A s, x : V3!Skip(s, x) = Blocks!Skip(s, x)
  BY <1>22 DEF V3!Skip, Blocks!Skip
<1>24. \A x, in, hidden, out, s : V3!SqueezedGRU_S(x, in, hidden, out, s) = Blocks!SqueezedGRU_S(x, in, hidden, out, s)
  BY <1>8, <1>23, <1>22 DEF V3!SqueezedGRU_S, Blocks!SqueezedGRU_S
<1>25. \A p, erb, feat : V3!ConvEncoder(p, erb, feat) = Blocks!ConvEncoder(p, erb, feat)
  BY <1>1, <1>20 DEF V3!ConvEncoder, Blocks!ConvEncoder
<1>26. \A p, x, y : V3!Combine(p, x, y) = Blocks!Combine(p, x, y)
  BY <1>8, <1>19 DEF V3!Combine, Blocks!Combine
<1>27. \A p, k, emb, e : V3!ConvDecoder(p, k, emb, e) = Blocks!ConvDecoder(p, k, emb, e)
  BY <1>20, <1>21, <1>8, <1>10 DEF V3!ConvDecoder, Blocks!ConvDecoder
<1>28. \A p, c, ch, c0 : V3!PathwaySum(p, c, ch, c0) = Blocks!PathwaySum(p, c, ch, c0)
  BY <1>8, <1>11, <1>20 DEF V3!PathwaySum, Blocks!PathwaySum
<1> QED BY <1>1, <1>2, <1>5, <1>6, <1>7, <1>8, <1>9, <1>12, <1>13, <1>18, <1>22, <1>23, <1>24, <1>25, <1>26, <1>27, <1>28

LEMMA SameMF ==
    /\ MF!Err = Blocks!Err
    /\ \A x : MF!Runs(x) = Blocks!Runs(x)
    /\ \A m, n : MF!ErbFb(m, n) = Blocks!ErbFb(m, n)
    /\ \A x, y : MF!DependsOn(x, y) = Blocks!DependsOn(x, y)
    /\ \A x, y : MF!Add(x, y) = Blocks!Add(x, y)
    /\ \A x : MF!Flatten(x) = Blocks!Flatten(x)
    /\ \A x, n : MF!PadFeat(x, n) = Blocks!PadFeat(x, n)
    /\ \A x, k, l : MF!TimeKernel(x, k, l) = Blocks!TimeKernel(x, k, l)
    /\ \A x, m, fb : MF!Mask(x, m, fb) = Blocks!Mask(x, m, fb)
    /\ \A x, in, out : MF!GroupedLinearEinsum(x, in, out) = Blocks!GroupedLinearEinsum(x, in, out)
    /\ \A s, x : MF!Skip(s, x) = Blocks!Skip(s, x)
    /\ \A x, in, hidden, out, s : MF!SqueezedGRU_S(x, in, hidden, out, s) = Blocks!SqueezedGRU_S(x, in, hidden, out, s)
    /\ \A p, erb, feat : MF!ConvEncoder(p, erb, feat) = Blocks!ConvEncoder(p, erb, feat)
    /\ \A p, x, y : MF!Combine(p, x, y) = Blocks!Combine(p, x, y)
    /\ \A p, k, emb, e : MF!ConvDecoder(p, k, emb, e) = Blocks!ConvDecoder(p, k, emb, e)
    /\ \A p, c, ch, c0 : MF!PathwaySum(p, c, ch, c0) = Blocks!PathwaySum(p, c, ch, c0)
PROOF
<1>1. MF!Err = Blocks!Err
  BY DEF MF!Err, MF!Map, Blocks!Err, Blocks!Map
<1>2. \A x : MF!Runs(x) = Blocks!Runs(x)
  BY DEF MF!Runs, Blocks!Runs
<1>3. \A m, n : MF!Larger(m, n) = Blocks!Larger(m, n)
  BY DEF MF!Larger, Blocks!Larger
<1>4. \A m, n : MF!Broadcast(m, n) = Blocks!Broadcast(m, n)
  BY DEF MF!Broadcast, Blocks!Broadcast
<1>5. \A m, n : MF!ErbFb(m, n) = Blocks!ErbFb(m, n)
  BY DEF MF!ErbFb, Blocks!ErbFb
<1>6. \A x, y : MF!DependsOn(x, y) = Blocks!DependsOn(x, y)
  BY <1>1, <1>2, <1>3, Zenon DEF MF!DependsOn, Blocks!DependsOn
<1>7. \A x, y : MF!Add(x, y) = Blocks!Add(x, y)
  BY <1>1, <1>2, <1>4, <1>6, Zenon DEF MF!Add, Blocks!Add
<1>8. \A x : MF!Flatten(x) = Blocks!Flatten(x)
  BY <1>1, <1>2, Zenon DEF MF!Flatten, Blocks!Flatten
<1>9. \A x, f : MF!Unflatten(x, f) = Blocks!Unflatten(x, f)
  BY <1>1, <1>2, Zenon DEF MF!Unflatten, Blocks!Unflatten
<1>10. \A x, c, f : MF!ViewAs(x, c, f) = Blocks!ViewAs(x, c, f)
  BY <1>1, <1>9, Zenon DEF MF!ViewAs, Blocks!ViewAs
<1>40. \A x, b, a : MF!TimePad(x, b, a) = Blocks!TimePad(x, b, a)
  BY <1>1, Zenon DEF MF!TimePad, Blocks!TimePad
<1>11. \A x, n : MF!PadFeat(x, n) = Blocks!PadFeat(x, n)
  BY <1>40 DEF MF!PadFeat, Blocks!PadFeat
<1>12. \A x, k, l : MF!TimeKernel(x, k, l) = Blocks!TimeKernel(x, k, l)
  BY <1>40 DEF MF!TimeKernel, Blocks!TimeKernel
<1>13. \A f, k, d, s : MF!Conv2dF(f, k, d, s) = Blocks!Conv2dF(f, k, d, s)
  BY Zenon DEF MF!Conv2dF, Blocks!Conv2dF
<1>14. \A f, k, d, o, s : MF!ConvTranspose2dF(f, k, d, o, s) = Blocks!ConvTranspose2dF(f, k, d, o, s)
  BY <1>3, Zenon DEF MF!ConvTranspose2dF, Blocks!ConvTranspose2dF
<1>15. \A x, in, out, f : MF!Resize(x, in, out, f) = Blocks!Resize(x, in, out, f)
  BY <1>1, <1>2, Zenon DEF MF!Resize, Blocks!Resize
<1>16. \A x, in, out : MF!Linear(x, in, out) = Blocks!Linear(x, in, out)
  BY <1>1, <1>2, Zenon DEF MF!Linear, Blocks!Linear
<1>17. \A x, m, fb : MF!Mask(x, m, fb) = Blocks!Mask(x, m, fb)
  BY <1>1, <1>2, <1>7, Zenon DEF MF!Mask, Blocks!Mask
<1>18. \A x, y : MF!Concat(x, y) = Blocks!Concat(x, y)
  BY <1>1, <1>2, <1>6, Zenon DEF MF!Concat, Blocks!Concat
<1>19. \A x, in, out, k, s : MF!Conv2dNormAct(x, in, out, k, s) = Blocks!Conv2dNormAct(x, in, out, k, s)
  BY <1>12, <1>15, <1>13 DEF MF!Conv2dNormAct, Blocks!Conv2dNormAct
<1>20. \A x, in, out, k, s : MF!ConvTranspose2dNormAct(x, in, out, k, s) = Blocks!ConvTranspose2dNormAct(x, in, out, k, s)
  BY <1>12, <1>15, <1>14 DEF MF!ConvTranspose2dNormAct, Blocks!ConvTranspose2dNormAct
<1>21. \A x, in, out : MF!GroupedLinearEinsum(x, in, out) = Blocks!GroupedLinearEinsum(x, in, out)
  BY <1>16 DEF MF!GroupedLinearEinsum, Blocks!GroupedLinearEinsum
<1>22. \A s, x : MF!Skip(s, x) = Blocks!Skip(s, x)
  BY <1>21 DEF MF!Skip, Blocks!Skip
<1>23. \A x, in, hidden, out, s : MF!SqueezedGRU_S(x, in, hidden, out, s) = Blocks!SqueezedGRU_S(x, in, hidden, out, s)
  BY <1>7, <1>22, <1>21 DEF MF!SqueezedGRU_S, Blocks!SqueezedGRU_S
<1>24. \A p, erb, feat : MF!ConvEncoder(p, erb, feat) = Blocks!ConvEncoder(p, erb, feat)
  BY <1>1, <1>19 DEF MF!ConvEncoder, Blocks!ConvEncoder
<1>25. \A p, x, y : MF!Combine(p, x, y) = Blocks!Combine(p, x, y)
  BY <1>7, <1>18 DEF MF!Combine, Blocks!Combine
<1>26. \A p, k, emb, e : MF!ConvDecoder(p, k, emb, e) = Blocks!ConvDecoder(p, k, emb, e)
  BY <1>19, <1>20, <1>7, <1>9 DEF MF!ConvDecoder, Blocks!ConvDecoder
<1>27. \A p, c, ch, c0 : MF!PathwaySum(p, c, ch, c0) = Blocks!PathwaySum(p, c, ch, c0)
  BY <1>7, <1>10, <1>19 DEF MF!PathwaySum, Blocks!PathwaySum
<1> QED BY <1>1, <1>2, <1>5, <1>6, <1>7, <1>8, <1>11, <1>12, <1>17, <1>21, <1>22, <1>23, <1>24, <1>25, <1>26, <1>27

LEMMA Same2 ==
    /\ V2!Err = Blocks!Err
    /\ \A x : V2!Runs(x) = Blocks!Runs(x)
    /\ \A m, n : V2!ErbFb(m, n) = Blocks!ErbFb(m, n)
    /\ \A x, y : V2!DependsOn(x, y) = Blocks!DependsOn(x, y)
    /\ \A x, y : V2!Add(x, y) = Blocks!Add(x, y)
    /\ \A x, y : V2!AddInPlace(x, y) = Blocks!AddInPlace(x, y)
    /\ \A x : V2!Flatten(x) = Blocks!Flatten(x)
    /\ \A x, n : V2!PadFeat(x, n) = Blocks!PadFeat(x, n)
    /\ \A x, k, l : V2!TimeKernel(x, k, l) = Blocks!TimeKernel(x, k, l)
    /\ \A x, in, out : V2!Linear(x, in, out) = Blocks!Linear(x, in, out)
    /\ \A x, m, fb : V2!Mask(x, m, fb) = Blocks!Mask(x, m, fb)
    /\ \A x, in, out : V2!GroupedLinear(x, in, out) = Blocks!GroupedLinear(x, in, out)
    /\ \A x, in, out : V2!GroupedLinearEinsum(x, in, out) = Blocks!GroupedLinearEinsum(x, in, out)
    /\ \A x, in, out : V2!GroupedGRU(x, in, out) = Blocks!GroupedGRU(x, in, out)
    /\ \A s, x : V2!Skip(s, x) = Blocks!Skip(s, x)
    /\ \A x, in, hidden, out, s : V2!SqueezedGRU(x, in, hidden, out, s) = Blocks!SqueezedGRU(x, in, hidden, out, s)
    /\ \A p, erb, feat : V2!ConvEncoder(p, erb, feat) = Blocks!ConvEncoder(p, erb, feat)
    /\ \A p, x, y : V2!Combine(p, x, y) = Blocks!Combine(p, x, y)
    /\ \A p, k, emb, e : V2!ConvDecoder(p, k, emb, e) = Blocks!ConvDecoder(p, k, emb, e)
    /\ \A p, c, ch, c0 : V2!PathwaySum(p, c, ch, c0) = Blocks!PathwaySum(p, c, ch, c0)
PROOF
<1>1. V2!Err = Blocks!Err
  BY DEF V2!Err, V2!Map, Blocks!Err, Blocks!Map
<1>2. \A x : V2!Runs(x) = Blocks!Runs(x)
  BY DEF V2!Runs, Blocks!Runs
<1>3. \A m, n : V2!Larger(m, n) = Blocks!Larger(m, n)
  BY DEF V2!Larger, Blocks!Larger
<1>4. \A m, n : V2!Broadcast(m, n) = Blocks!Broadcast(m, n)
  BY DEF V2!Broadcast, Blocks!Broadcast
<1>5. \A m, n : V2!ErbFb(m, n) = Blocks!ErbFb(m, n)
  BY DEF V2!ErbFb, Blocks!ErbFb
<1>6. \A x, y : V2!DependsOn(x, y) = Blocks!DependsOn(x, y)
  BY <1>1, <1>2, <1>3, Zenon DEF V2!DependsOn, Blocks!DependsOn
<1>7. \A x, y : V2!Add(x, y) = Blocks!Add(x, y)
  BY <1>1, <1>2, <1>4, <1>6, Zenon DEF V2!Add, Blocks!Add
<1>8. \A x, y : V2!AddInPlace(x, y) = Blocks!AddInPlace(x, y)
  BY <1>1, <1>7, Zenon DEF V2!AddInPlace, Blocks!AddInPlace
<1>9. \A x : V2!Flatten(x) = Blocks!Flatten(x)
  BY <1>1, <1>2, Zenon DEF V2!Flatten, Blocks!Flatten
<1>10. \A x, f : V2!Unflatten(x, f) = Blocks!Unflatten(x, f)
  BY <1>1, <1>2, Zenon DEF V2!Unflatten, Blocks!Unflatten
<1>11. \A x, c, f : V2!ViewAs(x, c, f) = Blocks!ViewAs(x, c, f)
  BY <1>1, <1>10, Zenon DEF V2!ViewAs, Blocks!ViewAs
<1>40. \A x, b, a : V2!TimePad(x, b, a) = Blocks!TimePad(x, b, a)
  BY <1>1, Zenon DEF V2!TimePad, Blocks!TimePad
<1>12. \A x, n : V2!PadFeat(x, n) = Blocks!PadFeat(x, n)
  BY <1>40 DEF V2!PadFeat, Blocks!PadFeat
<1>13. \A x, k, l : V2!TimeKernel(x, k, l) = Blocks!TimeKernel(x, k, l)
  BY <1>40 DEF V2!TimeKernel, Blocks!TimeKernel
<1>14. \A f, k, d, s : V2!Conv2dF(f, k, d, s) = Blocks!Conv2dF(f, k, d, s)
  BY Zenon DEF V2!Conv2dF, Blocks!Conv2dF
<1>15. \A f, k, d, o, s : V2!ConvTranspose2dF(f, k, d, o, s) = Blocks!ConvTranspose2dF(f, k, d, o, s)
  BY <1>3, Zenon DEF V2!ConvTranspose2dF, Blocks!ConvTranspose2dF
<1>16. \A x, in, out, f : V2!Resize(x, in, out, f) = Blocks!Resize(x, in, out, f)
  BY <1>1, <1>2, Zenon DEF V2!Resize, Blocks!Resize
<1>17. \A x, in, out : V2!Linear(x, in, out) = Blocks!Linear(x, in, out)
  BY <1>1, <1>2, Zenon DEF V2!Linear, Blocks!Linear
<1>18. \A x, in, out : V2!Sliced(x, in, out) = Blocks!Sliced(x, in, out)
  BY <1>1, <1>2, Zenon DEF V2!Sliced, Blocks!Sliced
<1>19. \A x, m, fb : V2!Mask(x, m, fb) = Blocks!Mask(x, m, fb)
  BY <1>1, <1>2, <1>7, Zenon DEF V2!Mask, Blocks!Mask
<1>20. \A x, y : V2!Concat(x, y) = Blocks!Concat(x, y)
  BY <1>1, <1>2, <1>6, Zenon DEF V2!Concat, Blocks!Concat
<1>21. \A x, in, out, k, s : V2!Conv2dNormAct(x, in, out, k, s) = Blocks!Conv2dNormAct(x, in, out, k, s)
  BY <1>13, <1>16, <1>14 DEF V2!Conv2dNormAct, Blocks!Conv2dNormAct
<1>22. \A x, in, out, k, s : V2!ConvTranspose2dNormAct(x, in, out, k, s) = Blocks!ConvTranspose2dNormAct(x, in, out, k, s)
  BY <1>13, <1>16, <1>15 DEF V2!ConvTranspose2dNormAct, Blocks!ConvTranspose2dNormAct
<1>23. \A x, in, out : V2!GroupedLinear(x, in, out) = Blocks!GroupedLinear(x, in, out)
  BY <1>18 DEF V2!GroupedLinear, Blocks!GroupedLinear
<1>24. \A x, in, out : V2!GroupedLinearEinsum(x, in, out) = Blocks!GroupedLinearEinsum(x, in, out)
  BY <1>17 DEF V2!GroupedLinearEinsum, Blocks!GroupedLinearEinsum
<1>25. \A x, in, out : V2!GroupedGRU(x, in, out) = Blocks!GroupedGRU(x, in, out)
  BY <1>18 DEF V2!GroupedGRU, Blocks!GroupedGRU, V2!GroupedGRULayer, Blocks!GroupedGRULayer
<1>26. \A s, x : V2!Skip(s, x) = Blocks!Skip(s, x)
  BY <1>24 DEF V2!Skip, Blocks!Skip
<1>27. \A x, in, hidden, out, s : V2!SqueezedGRU(x, in, hidden, out, s) = Blocks!SqueezedGRU(x, in, hidden, out, s)
  BY <1>7, <1>26, <1>24 DEF V2!SqueezedGRU, Blocks!SqueezedGRU
<1>28. \A p, erb, feat : V2!ConvEncoder(p, erb, feat) = Blocks!ConvEncoder(p, erb, feat)
  BY <1>1, <1>21 DEF V2!ConvEncoder, Blocks!ConvEncoder
<1>29. \A p, x, y : V2!Combine(p, x, y) = Blocks!Combine(p, x, y)
  BY <1>7, <1>20 DEF V2!Combine, Blocks!Combine
<1>30. \A p, k, emb, e : V2!ConvDecoder(p, k, emb, e) = Blocks!ConvDecoder(p, k, emb, e)
  BY <1>21, <1>22, <1>7, <1>10 DEF V2!ConvDecoder, Blocks!ConvDecoder
<1>31. \A p, c, ch, c0 : V2!PathwaySum(p, c, ch, c0) = Blocks!PathwaySum(p, c, ch, c0)
  BY <1>7, <1>11, <1>21 DEF V2!PathwaySum, Blocks!PathwaySum
<1> QED BY <1>1, <1>2, <1>5, <1>6, <1>7, <1>8, <1>9, <1>12, <1>13, <1>17, <1>19, <1>23, <1>24, <1>25, <1>26, <1>27, <1>28, <1>29, <1>30, <1>31

LEMMA Same1 ==
    /\ V1!Err = Blocks!Err
    /\ \A x : V1!Runs(x) = Blocks!Runs(x)
    /\ \A m, n : V1!ErbFb(m, n) = Blocks!ErbFb(m, n)
    /\ \A x, y : V1!DependsOn(x, y) = Blocks!DependsOn(x, y)
    /\ \A x, y : V1!Add(x, y) = Blocks!Add(x, y)
    /\ \A x, y : V1!AddInPlace(x, y) = Blocks!AddInPlace(x, y)
    /\ \A x : V1!Flatten(x) = Blocks!Flatten(x)
    /\ \A x, f : V1!Unflatten(x, f) = Blocks!Unflatten(x, f)
    /\ \A x, c, f : V1!ViewAs(x, c, f) = Blocks!ViewAs(x, c, f)
    /\ \A x, n : V1!PadFeat(x, n) = Blocks!PadFeat(x, n)
    /\ \A x, k, l : V1!TimeKernel(x, k, l) = Blocks!TimeKernel(x, k, l)
    /\ \A x, in, out : V1!Linear(x, in, out) = Blocks!Linear(x, in, out)
    /\ \A x, m, fb : V1!Mask(x, m, fb) = Blocks!Mask(x, m, fb)
    /\ \A x, in, out, a : V1!Convkxf(x, in, out, a) = Blocks!Convkxf(x, in, out, a)
    /\ \A x, in, out : V1!GroupedLinear(x, in, out) = Blocks!GroupedLinear(x, in, out)
    /\ \A x, in, out : V1!GroupedGRU(x, in, out) = Blocks!GroupedGRU(x, in, out)
PROOF
<1>1. V1!Err = Blocks!Err
  BY DEF V1!Err, V1!Map, Blocks!Err, Blocks!Map
<1>2. \A x : V1!Runs(x) = Blocks!Runs(x)
  BY DEF V1!Runs, Blocks!Runs
<1>3. \A m, n : V1!Larger(m, n) = Blocks!Larger(m, n)
  BY DEF V1!Larger, Blocks!Larger
<1>4. \A m, n : V1!Broadcast(m, n) = Blocks!Broadcast(m, n)
  BY DEF V1!Broadcast, Blocks!Broadcast
<1>5. \A m, n : V1!ErbFb(m, n) = Blocks!ErbFb(m, n)
  BY DEF V1!ErbFb, Blocks!ErbFb
<1>6. \A x, y : V1!DependsOn(x, y) = Blocks!DependsOn(x, y)
  BY <1>1, <1>2, <1>3, Zenon DEF V1!DependsOn, Blocks!DependsOn
<1>7. \A x, y : V1!Add(x, y) = Blocks!Add(x, y)
  BY <1>1, <1>2, <1>4, <1>6, Zenon DEF V1!Add, Blocks!Add
<1>8. \A x, y : V1!AddInPlace(x, y) = Blocks!AddInPlace(x, y)
  BY <1>1, <1>7, Zenon DEF V1!AddInPlace, Blocks!AddInPlace
<1>9. \A x : V1!Flatten(x) = Blocks!Flatten(x)
  BY <1>1, <1>2, Zenon DEF V1!Flatten, Blocks!Flatten
<1>10. \A x, f : V1!Unflatten(x, f) = Blocks!Unflatten(x, f)
  BY <1>1, <1>2, Zenon DEF V1!Unflatten, Blocks!Unflatten
<1>11. \A x, c, f : V1!ViewAs(x, c, f) = Blocks!ViewAs(x, c, f)
  BY <1>1, <1>10, Zenon DEF V1!ViewAs, Blocks!ViewAs
<1>40. \A x, b, a : V1!TimePad(x, b, a) = Blocks!TimePad(x, b, a)
  BY <1>1, Zenon DEF V1!TimePad, Blocks!TimePad
<1>12. \A x, n : V1!PadFeat(x, n) = Blocks!PadFeat(x, n)
  BY <1>40 DEF V1!PadFeat, Blocks!PadFeat
<1>13. \A x, k, l : V1!TimeKernel(x, k, l) = Blocks!TimeKernel(x, k, l)
  BY <1>40 DEF V1!TimeKernel, Blocks!TimeKernel
<1>14. \A f, k, d, s : V1!Conv2dF(f, k, d, s) = Blocks!Conv2dF(f, k, d, s)
  BY Zenon DEF V1!Conv2dF, Blocks!Conv2dF
<1>15. \A f, k, d, o, s : V1!ConvTranspose2dF(f, k, d, o, s) = Blocks!ConvTranspose2dF(f, k, d, o, s)
  BY <1>3, Zenon DEF V1!ConvTranspose2dF, Blocks!ConvTranspose2dF
<1>16. \A x, in, out, f : V1!Resize(x, in, out, f) = Blocks!Resize(x, in, out, f)
  BY <1>1, <1>2, Zenon DEF V1!Resize, Blocks!Resize
<1>17. \A x, in, out : V1!Linear(x, in, out) = Blocks!Linear(x, in, out)
  BY <1>1, <1>2, Zenon DEF V1!Linear, Blocks!Linear
<1>18. \A x, in, out : V1!Sliced(x, in, out) = Blocks!Sliced(x, in, out)
  BY <1>1, <1>2, Zenon DEF V1!Sliced, Blocks!Sliced
<1>19. \A x, m, fb : V1!Mask(x, m, fb) = Blocks!Mask(x, m, fb)
  BY <1>1, <1>2, <1>7, Zenon DEF V1!Mask, Blocks!Mask
<1>20. \A f, n : V1!FreqUpsample(f, n) = Blocks!FreqUpsample(f, n)
  BY DEF V1!FreqUpsample, Blocks!FreqUpsample
<1>21. \A x, in, out, a : V1!Convkxf(x, in, out, a) = Blocks!Convkxf(x, in, out, a)
  BY <1>13, <1>16, <1>14, <1>15, <1>20, ZenonT(30) DEF V1!Convkxf, Blocks!Convkxf
<1>22. \A x, in, out : V1!GroupedLinear(x, in, out) = Blocks!GroupedLinear(x, in, out)
  BY <1>18 DEF V1!GroupedLinear, Blocks!GroupedLinear
<1>23. \A x, in, out : V1!GroupedGRU(x, in, out) = Blocks!GroupedGRU(x, in, out)
  BY <1>18 DEF V1!GroupedGRU, Blocks!GroupedGRU, V1!GroupedGRULayer, Blocks!GroupedGRULayer
<1> QED BY <1>1, <1>2, <1>5, <1>6, <1>7, <1>8, <1>9, <1>10, <1>11, <1>12, <1>13, <1>17, <1>19, <1>21, <1>22, <1>23

-----------------------------------------------------------------------------
(* The four networks. *)

\* What is stated of an output that raised nowhere, see LookaheadDeclared.
Masks(p) == p.version = "deepfilternet3" => V3!RunErb(p)
ConvAhead(p) == IF Masks(p) \/ p.run_df THEN p.conv_lookahead ELSE 0
MaskBands(p) == IF Masks(p) THEN p.nb_erb ELSE 0
MaskAhead(p) == IF Masks(p) THEN ConvAhead(p) ELSE 0
SpecAhead(p) ==
    IF p.version \in {"deepfilternet", "deepfilternet2"} THEN ConvAhead(p) + FilterAhead(p)
    ELSE Ops!Larger(ConvAhead(p), FilterAhead(p))

Declared(p, out) ==
    Blocks!Runs(out.spec) /\ Blocks!Runs(out.mask) =>
        /\ out.mask.ahead = MaskAhead(p) /\ out.mask.c = 1 /\ out.mask.f = MaskBands(p)
        /\ out.spec.ahead = SpecAhead(p) /\ out.spec.c = 1 /\ out.spec.f = V1!FreqBins(p)

LEMMA InputsAre ==
    ASSUME NEW p, NEW n
    PROVE  LET in == Features(p, n) IN
           /\ in.spec = Blocks!Map(1, V1!FreqBins(p), n)
           /\ At(in.spec, 0) /\ in.spec.c = 1 /\ in.spec.f = V1!FreqBins(p) /\ in.spec.ahead = 0
           /\ At(in.erb, 0) /\ At(in.feat, 0)
           /\ \A a \in Int : At(Blocks!PadFeat(in.erb, a), a) /\ At(Blocks!PadFeat(in.feat, a), a)
PROOF
<1> DEFINE bins == V1!FreqBins(p)
           erb == Blocks!Map(1, p.nb_erb, n)
           feat == Blocks!Map(2, IF p.nb_df < bins THEN p.nb_df ELSE bins, n)
           in == Features(p, n)
<1>1. in.spec = Blocks!Map(1, bins, n) /\ in.erb = erb /\ in.feat = feat
  BY DEF Features, Ops!Map, Blocks!Map, V1!FreqBins
<1>2. \A c, f : LET x == Blocks!Map(c, f, n) IN At(x, 0) /\ x.c = c /\ x.f = f /\ x.ahead = 0
  BY MapAt
<1>3. At(erb, 0) /\ At(feat, 0)
  BY <1>2
<1> HIDE DEF erb, feat, in, bins
<1>4. ASSUME NEW a \in Int PROVE At(Blocks!PadFeat(in.erb, a), a) /\ At(Blocks!PadFeat(in.feat, a), a)
  BY <1>1, <1>3, InputAt
<1> QED BY <1>1, <1>2, <1>3, <1>4 DEF in, bins

LEMMA Parts3 ==
    ASSUME NEW p, Kernels(p), p.convt_kernel[1] \in Int, NEW a \in Int,
           NEW erb, NEW feat, At(erb, a), At(feat, a)
    PROVE  LET e == V3!Encoder(p, erb, feat)
               m == V3!ErbDecoder(p, e)
           IN  /\ At(m, a) /\ (Blocks!Runs(m) => m.c = 1)
               /\ At(V3!DfOutputReshapeMF(V3!DfDecoder(p, e)), a)
PROOF
<1> DEFINE b == Blocks!ConvEncoder(p, erb, feat)
           cemb == Blocks!GroupedLinearEinsum(Blocks!Flatten(b.c1), V3!DfEmbDim(p), V3!EmbDim(p))
           x == Blocks!Combine(p, Blocks!Flatten(b.e3), cemb)
           g == Blocks!SqueezedGRU_S(x, V3!EmbInDim(p), p.emb_hidden_dim, V3!EmbDim(p), V3!EncSkip(p))
           e == V3!Encoder(p, erb, feat)
<1>1. e = WithEmb(b, g)
  BY Same3, Zenon DEF V3!Encoder, WithEmb
<1>2. MapsAt(b, a) /\ At(b.c1, a) /\ \A h : MapsAt(WithEmb(b, h), a) /\ WithEmb(b, h).emb = h
  BY ConvEncoderAt
<1> HIDE DEF b
<1>3. At(Blocks!Flatten(b.c1), a) /\ At(Blocks!Flatten(b.e3), a)
  BY <1>2, BlockAt DEF MapsAt
<1>4. At(cemb, a)
  BY <1>3, RowAt
<1> HIDE DEF cemb
<1>5. At(x, a)
  BY <1>3, <1>4, CombineAt
<1> HIDE DEF x
<1>6. At(g, a)
  BY <1>5, RowAt
<1> HIDE DEF g, e
<1>7. MapsAt(e, a) /\ At(e.emb, a)
  BY <1>1, <1>2, <1>6
<1> DEFINE m == V3!ErbDecoder(p, e)
           emb == Blocks!SqueezedGRU_S(e.emb, V3!EmbDim(p), p.emb_hidden_dim, V3!EmbDim(p), V3!ErbSkip(p))
<1>8. m = Blocks!ConvDecoder(p, p.convt_kernel, emb, e)
  BY Same3, Zenon DEF V3!ErbDecoder
<1>9. At(emb, a)
  BY <1>7, RowAt
<1> HIDE DEF emb, m
<1>10. At(m, a) /\ (Blocks!Runs(m) => m.c = 1)
  BY <1>7, <1>8, <1>9, ConvDecoderAt
<1> DEFINE s == V3!DfSkip(p)
           r == Blocks!SqueezedGRU_S(e.emb, V3!EmbDim(p), p.df_hidden_dim, 0, V3!NoSkip)
           c == IF s.kind = "none" THEN r ELSE Blocks!Add(r, Blocks!Skip(s, e.emb))
           ch == p.df_order * 2
           out == Blocks!GroupedLinearEinsum(c, p.df_hidden_dim, p.nb_df * ch)
           d == V3!DfDecoder(p, e)
<1>11. d = Blocks!PathwaySum(p, out, ch, e.c0)
  BY Same3, Zenon DEF V3!DfDecoder
<1>12. At(r, a) /\ At(Blocks!Skip(s, e.emb), a)
  BY <1>7, RowAt
<1> HIDE DEF r, s, d
<1>13. At(c, a)
  BY <1>12, CombineAt
<1> HIDE DEF c, ch
<1>14. At(out, a)
  BY <1>13, RowAt
<1> HIDE DEF out
<1>15. At(d, a)
  BY <1>7, <1>11, <1>14, PathwayAt DEF MapsAt
<1>16. At(V3!DfOutputReshapeMF(d), a)
  BY <1>15, Same3, MapAt DEF V3!DfOutputReshapeMF
<1> QED BY <1>10, <1>16 DEF m, d, e

LEMMA Net3 ==
    ASSUME NEW p, ConfigOk(p), p.version = "deepfilternet3", NEW n
    PROVE  Declared(p, V3!DfNet(p, Features(p, n)))
PROOF
<1> DEFINE in == Features(p, n)
           L == p.conv_lookahead
           bins == V1!FreqBins(p)
           e == V3!Encoder(p, V3!PadFeat(in.erb, L), V3!PadFeat(in.feat, L))
           dec == V3!ErbDecoder(p, e)
           coefs == V3!DfOutputReshapeMF(V3!DfDecoder(p, e))
           m == IF V3!RunErb(p) THEN dec ELSE Blocks!Map(1, 0, 0)
           masked == IF V3!RunErb(p) THEN Blocks!Mask(in.spec, dec, Blocks!ErbFb(p.nb_erb, bins)) ELSE in.spec
           future == IF p.df_order = 1 THEN 0 ELSE p.df_lookahead
           window == IF p.df_order = 1 THEN in.spec ELSE Blocks!TimeKernel(in.spec, p.df_order, p.df_lookahead)
           y == Blocks!DependsOn(window, coefs)
           filtered == IF bins >= p.nb_df THEN y ELSE Blocks!Err
           out == V3!DfNet(p, in)
           both == Blocks!DependsOn(filtered, masked)
           k == IF V3!RunErb(p) THEN L ELSE 0
<1> SUFFICES Declared(p, out)
  OBVIOUS
<1>0. L \in Nat /\ future \in Nat /\ Kernels(p) /\ p.convt_kernel[1] \in Int /\ p.run_df \in BOOLEAN
      /\ p.df_lookahead \in Nat
  BY DEF ConfigOk, Kernels
<1>1. /\ in.spec = Blocks!Map(1, bins, n) /\ At(in.spec, 0) /\ in.spec.c = 1 /\ in.spec.f = bins
      /\ in.spec.ahead = 0
      /\ At(Blocks!PadFeat(in.erb, L), L) /\ At(Blocks!PadFeat(in.feat, L), L)
  BY <1>0, InputsAre
<1>2. At(dec, L) /\ (Blocks!Runs(dec) => dec.c = 1) /\ At(coefs, L)
  <2>1. e = V3!Encoder(p, Blocks!PadFeat(in.erb, L), Blocks!PadFeat(in.feat, L))
    BY Same3, Zenon
  <2> HIDE DEF in
  <2> QED BY <1>0, <1>1, <2>1, Parts3
<1>3. filtered = V3!Filter(p, in.spec, coefs)
  BY <1>1, Same3, Zenon DEF V3!Filter
<1>4. out.mask = m /\ out.spec = IF ~Blocks!Runs(e.emb) THEN Blocks!Err
                                 ELSE IF p.run_df THEN Blocks!DependsOn(filtered, masked) ELSE masked
  <2>1. V3!FreqBins(p) = bins
    BY DEF V3!FreqBins, V1!FreqBins
  <2>2. m = (IF V3!RunErb(p) THEN V3!ErbDecoder(p, e) ELSE V3!Scalar)
        /\ masked = (IF V3!RunErb(p) THEN V3!Mask(in.spec, m, V3!ErbFb(p.nb_erb, V3!FreqBins(p))) ELSE in.spec)
    BY <2>1, Same3, Zenon DEF V3!Scalar
  <2> HIDE DEF bins, coefs, filtered
  <2>3. out = [spec |-> IF ~V3!Runs(e.emb) THEN V3!Err
                        ELSE IF p.run_df THEN V3!DependsOn(filtered, masked) ELSE masked,
               mask |-> m]
    BY <1>3, <2>2, Zenon DEF V3!DfNet, coefs
  <2> HIDE DEF out, m, masked, e
  <2> QED BY <2>3, Same3
<1> HIDE DEF in, bins, e, dec, coefs, out
<1>5. At(Blocks!Err, L) /\ ~Blocks!Runs(Blocks!Err)
  BY <1>0, MapAt
<1>6. V3!RunErb(p) => /\ At(masked, L)
                      /\ Blocks!Runs(masked) => /\ Blocks!Runs(dec) /\ dec.f = p.nb_erb
                                                /\ masked.c = 1 /\ masked.f = bins
  BY <1>0, <1>1, <1>2, MaskAt
<1>7. ~V3!RunErb(p) => At(masked, 0) /\ masked.c = 1 /\ masked.f = bins
                       /\ m.c = 1 /\ m.f = 0 /\ m.ahead = 0
  BY <1>1, MapAt
<1>8. At(y, Later(future, L)) /\ (Blocks!Runs(y) => y.c = 1 /\ y.f = bins)
  <2> DEFINE s == Blocks!TimeKernel(in.spec, p.df_order, p.df_lookahead)
  <2>1. At(s, p.df_lookahead) /\ (Blocks!Runs(s) => s.c = in.spec.c /\ s.f = in.spec.f)
    BY <1>0, <1>1, InputAt
  <2> HIDE DEF s
  <2>2. At(window, future) /\ (Blocks!Runs(window) => window.c = 1 /\ window.f = bins)
    <3>1. CASE p.df_order = 1
      BY <1>1, <3>1
    <3>2. CASE p.df_order # 1
      BY <1>1, <2>1, <3>2 DEF s
    <3> QED BY <3>1, <3>2
  <2>3. y = Blocks!DependsOn(window, coefs)
    OBVIOUS
  <2> HIDE DEF future, window, y
  <2>4. At(y, Later(future, L)) /\ (Blocks!Runs(y) => Blocks!Runs(window) /\ y.c = window.c /\ y.f = window.f)
    BY <1>0, <1>2, <2>2, <2>3, JoinAt
  <2> QED BY <2>2, <2>4
<1> HIDE DEF y
<1>9. Later(future, L) \in Int /\ Later(future, L) = Ops!Larger(L, future)
  BY <1>0 DEF Later, Ops!Larger
<1>10. At(filtered, Later(future, L)) /\ (Blocks!Runs(filtered) => filtered.c = 1 /\ filtered.f = bins)
  BY <1>5, <1>8, <1>9, MapAt
<1> HIDE DEF filtered
<1>11. p.run_df => FilterAhead(p) = future
  BY DEF FilterAhead
<1>12. ~p.run_df => FilterAhead(p) = 0
  BY DEF FilterAhead
<1>13. At(both, Later(Later(future, L), k)) /\ (Blocks!Runs(both) <=> Blocks!Runs(filtered) /\ Blocks!Runs(masked))
       /\ (Blocks!Runs(both) => both.c = filtered.c /\ both.f = filtered.f)
  <2>1. At(masked, k) /\ k \in Int
    BY <1>0, <1>6, <1>7
  <2> HIDE DEF masked, k
  <2> QED BY <1>9, <1>10, <2>1, JoinAt
<1>14. Later(Later(future, L), k) = Later(future, L) /\ Ops!Larger(L, 0) = L /\ Ops!Larger(0, 0) = 0
  BY <1>0 DEF Later, Ops!Larger
<1> HIDE DEF both, masked, future, m, k
<1>19. p.version \notin {"deepfilternet", "deepfilternet2"}
  OBVIOUS
<1>20. SpecAhead(p) = Ops!Larger(ConvAhead(p), FilterAhead(p))
  BY <1>19, Zenon DEF SpecAhead
<1>15. CASE p.run_df /\ V3!RunErb(p)
  <2>1. out.mask = dec /\ (Blocks!Runs(out.spec) => out.spec = both)
    BY <1>4, <1>5, <1>15 DEF m, both
  <2>2. Blocks!Runs(out.spec) /\ Blocks!Runs(out.mask) =>
            /\ out.mask.ahead = L /\ out.mask.c = 1 /\ out.mask.f = p.nb_erb
            /\ out.spec.ahead = Ops!Larger(L, future) /\ out.spec.c = 1 /\ out.spec.f = bins
    BY <1>2, <1>6, <1>9, <1>10, <1>13, <1>14, <1>15, <2>1 DEF At, k
  <2>3. MaskAhead(p) = L /\ MaskBands(p) = p.nb_erb /\ ConvAhead(p) = L
    BY <1>15 DEF MaskAhead, MaskBands, ConvAhead, Masks
  <2>4. SpecAhead(p) = Ops!Larger(L, future)
    BY <1>11, <1>15, <1>20, <2>3
  <2> QED BY <2>2, <2>3, <2>4 DEF Declared, bins
<1>16. CASE p.run_df /\ ~V3!RunErb(p)
  <2>1. out.mask = m /\ (Blocks!Runs(out.spec) => out.spec = both)
    BY <1>4, <1>5, <1>16 DEF m, both
  <2>2. Blocks!Runs(out.spec) /\ Blocks!Runs(out.mask) =>
            /\ out.mask.ahead = 0 /\ out.mask.c = 1 /\ out.mask.f = 0
            /\ out.spec.ahead = Ops!Larger(L, future) /\ out.spec.c = 1 /\ out.spec.f = bins
    BY <1>7, <1>9, <1>10, <1>13, <1>14, <1>16, <2>1 DEF At, k
  <2>3. MaskAhead(p) = 0 /\ MaskBands(p) = 0 /\ ConvAhead(p) = L
    BY <1>16 DEF MaskAhead, MaskBands, ConvAhead, Masks
  <2>4. SpecAhead(p) = Ops!Larger(L, future)
    BY <1>11, <1>16, <1>20, <2>3
  <2> QED BY <2>2, <2>3, <2>4 DEF Declared, bins
<1>17. CASE ~p.run_df /\ V3!RunErb(p)
  <2>1. out.mask = dec /\ (Blocks!Runs(out.spec) => out.spec = masked)
    BY <1>4, <1>5, <1>17 DEF m, both
  <2>2. Blocks!Runs(out.spec) /\ Blocks!Runs(out.mask) =>
            /\ out.mask.ahead = L /\ out.mask.c = 1 /\ out.mask.f = p.nb_erb
            /\ out.spec.ahead = Ops!Larger(L, 0) /\ out.spec.c = 1 /\ out.spec.f = bins
    BY <1>2, <1>6, <1>14, <1>17, <2>1 DEF At
  <2>3. MaskAhead(p) = L /\ MaskBands(p) = p.nb_erb /\ ConvAhead(p) = L
    BY <1>17 DEF MaskAhead, MaskBands, ConvAhead, Masks
  <2>4. SpecAhead(p) = Ops!Larger(L, 0)
    BY <1>12, <1>17, <1>20, <2>3
  <2> QED BY <2>2, <2>3, <2>4 DEF Declared, bins
<1>18. CASE ~p.run_df /\ ~V3!RunErb(p)
  <2>1. out.mask = m /\ (Blocks!Runs(out.spec) => out.spec = masked)
    BY <1>4, <1>5, <1>18 DEF m, both
  <2>2. Blocks!Runs(out.spec) /\ Blocks!Runs(out.mask) =>
            /\ out.mask.ahead = 0 /\ out.mask.c = 1 /\ out.mask.f = 0
            /\ out.spec.ahead = Ops!Larger(0, 0) /\ out.spec.c = 1 /\ out.spec.f = bins
    BY <1>7, <1>14, <1>18, <2>1 DEF At
  <2>3. MaskAhead(p) = 0 /\ MaskBands(p) = 0 /\ ConvAhead(p) = 0
    BY <1>18 DEF MaskAhead, MaskBands, ConvAhead, Masks
  <2>4. SpecAhead(p) = Ops!Larger(0, 0)
    BY <1>12, <1>18, <1>20, <2>3
  <2> QED BY <2>2, <2>3, <2>4 DEF Declared, bins
<1> QED BY <1>15, <1>16, <1>17, <1>18

LEMMA PartsMF ==
    ASSUME NEW p, Kernels(p), NEW a \in Int, NEW erb, NEW feat, At(erb, a), At(feat, a)
    PROVE  LET e == MF!Encoder(p, erb, feat)
               m == MF!ErbDecoder(p, e)
               d == MF!DfDecoder(p, e)
           IN  /\ At(m, a) /\ (Blocks!Runs(m) => m.c = 1)
               /\ At(d.ifc, a) /\ At(d.cov, a)
PROOF
<1> DEFINE b == Blocks!ConvEncoder(p, erb, feat)
           cemb == Blocks!GroupedLinearEinsum(Blocks!Flatten(b.c1), MF!DfEmbDim(p), MF!EmbDim(p))
           x == Blocks!Combine(p, Blocks!Flatten(b.e3), cemb)
           g == Blocks!SqueezedGRU_S(x, MF!EmbInDim(p), p.emb_hidden_dim, MF!EmbDim(p), MF!NoSkip)
           e == MF!Encoder(p, erb, feat)
<1>1. e = WithEmb(b, g)
  BY SameMF, Zenon DEF MF!Encoder, WithEmb
<1>2. MapsAt(b, a) /\ At(b.c1, a) /\ \A h : MapsAt(WithEmb(b, h), a) /\ WithEmb(b, h).emb = h
  BY ConvEncoderAt
<1> HIDE DEF b
<1>3. At(Blocks!Flatten(b.c1), a) /\ At(Blocks!Flatten(b.e3), a)
  BY <1>2, BlockAt DEF MapsAt
<1>4. At(cemb, a)
  BY <1>3, RowAt
<1> HIDE DEF cemb
<1>5. At(x, a)
  BY <1>3, <1>4, CombineAt
<1> HIDE DEF x
<1>6. At(g, a)
  BY <1>5, RowAt
<1> HIDE DEF g, e
<1>7. MapsAt(e, a) /\ At(e.emb, a)
  BY <1>1, <1>2, <1>6
<1> DEFINE m == MF!ErbDecoder(p, e)
           emb == Blocks!SqueezedGRU_S(e.emb, MF!EmbDim(p), p.emb_hidden_dim, MF!EmbDim(p), MF!ErbSkip(p))
<1>8. m = Blocks!ConvDecoder(p, p.conv_kernel, emb, e)
  BY SameMF, Zenon DEF MF!ErbDecoder
<1>9. At(emb, a) /\ p.conv_kernel[1] \in Int
  BY <1>7, RowAt DEF Kernels
<1> HIDE DEF emb, m
<1>10. At(m, a) /\ (Blocks!Runs(m) => m.c = 1)
  BY <1>7, <1>8, <1>9, ConvDecoderAt
<1> DEFINE s == MF!DfSkip(p)
           r == Blocks!SqueezedGRU_S(e.emb, MF!EmbDim(p), p.df_hidden_dim, 0, MF!NoSkip)
           c == IF s.kind = "none" THEN r ELSE Blocks!Add(r, Blocks!Skip(s, e.emb))
           out(ch) == Blocks!PathwaySum(p, Blocks!GroupedLinearEinsum(c, p.df_hidden_dim, p.nb_df * ch), ch, e.c0)
           d == MF!DfDecoder(p, e)
<1>11. d.ifc = out(MF!IfcChannels(p)) /\ d.cov = out(MF!CovChannels(p))
  <2>1. d = [ifc |-> out(MF!IfcChannels(p)), cov |-> out(MF!CovChannels(p))]
    BY SameMF, Zenon DEF MF!DfDecoder
  <2> HIDE DEF d, out
  <2> QED BY <2>1
<1>12. At(r, a) /\ At(Blocks!Skip(s, e.emb), a)
  BY <1>7, RowAt
<1> HIDE DEF r, s, d
<1>13. At(c, a)
  BY <1>12, CombineAt
<1> HIDE DEF c
<1>14. ASSUME NEW ch PROVE At(out(ch), a)
  <2>1. At(Blocks!GroupedLinearEinsum(c, p.df_hidden_dim, p.nb_df * ch), a)
    BY <1>13, RowAt
  <2> QED BY <1>7, <2>1, PathwayAt DEF MapsAt
<1> HIDE DEF out
<1>15. At(d.ifc, a) /\ At(d.cov, a)
  BY <1>11, <1>14
<1> QED BY <1>10, <1>15 DEF m, d, e

LEMMA NetMF ==
    ASSUME NEW p, ConfigOk(p), p.version = "deepfilternetmf", NEW n
    PROVE  Declared(p, MF!DfNet(p, Features(p, n)))
PROOF
<1> DEFINE in == Features(p, n)
           L == p.conv_lookahead
           bins == V1!FreqBins(p)
           e == MF!Encoder(p, MF!PadFeat(in.erb, L), MF!PadFeat(in.feat, L))
           m == MF!ErbDecoder(p, e)
           masked == Blocks!Mask(in.spec, m, Blocks!ErbFb(p.nb_erb, bins))
           d == MF!DfDecoder(p, e)
           future == IF p.df_order = 1 THEN 0 ELSE p.df_lookahead
           unfolded == MF!SpecUnfold(p, in.spec)
           filtered == IF p.mfop_method = "WF" THEN MF!MfWf(p, in.spec, d.ifc, d.cov)
                       ELSE MF!MfMvdr(p, in.spec, d.ifc, d.cov)
           both == Blocks!DependsOn(filtered, masked)
           out == MF!DfNet(p, in)
<1> SUFFICES Declared(p, out)
  OBVIOUS
<1>0. L \in Nat /\ future \in Nat /\ Kernels(p) /\ p.run_df \in BOOLEAN /\ p.df_lookahead \in Nat
      /\ p.df_order \in Nat \ {0}
  BY DEF ConfigOk, Kernels
<1>1. /\ in.spec = Blocks!Map(1, bins, n) /\ At(in.spec, 0) /\ in.spec.c = 1 /\ in.spec.f = bins
      /\ At(Blocks!PadFeat(in.erb, L), L) /\ At(Blocks!PadFeat(in.feat, L), L)
  BY <1>0, InputsAre
<1>2. At(m, L) /\ (Blocks!Runs(m) => m.c = 1) /\ At(d.ifc, L) /\ At(d.cov, L)
  <2>1. e = MF!Encoder(p, Blocks!PadFeat(in.erb, L), Blocks!PadFeat(in.feat, L))
    BY SameMF, Zenon
  <2> HIDE DEF in
  <2> QED BY <1>0, <1>1, <2>1, PartsMF
<1>3. out.mask = m /\ out.spec = IF p.run_df THEN both ELSE masked
  <2>1. MF!FreqBins(p) = bins
    BY DEF MF!FreqBins, V1!FreqBins
  <2>2. masked = MF!Mask(in.spec, m, MF!ErbFb(p.nb_erb, MF!FreqBins(p))) /\ both = MF!DependsOn(filtered, masked)
    BY <2>1, SameMF, Zenon
  <2> HIDE DEF masked, both
  <2>3. out = [spec |-> IF p.run_df THEN both ELSE masked, mask |-> m]
    BY <2>2, Zenon DEF MF!DfNet
  <2> HIDE DEF out, m
  <2> QED BY <2>3
<1>4. At(Blocks!Err, L) /\ ~Blocks!Runs(Blocks!Err) /\ MF!Err = Blocks!Err
  BY <1>0, MapAt, SameMF
<1> HIDE DEF bins, e, d, m
<1>5. /\ At(masked, L)
      /\ Blocks!Runs(masked) => Blocks!Runs(m) /\ m.f = p.nb_erb /\ masked.c = 1 /\ masked.f = bins
  <2> HIDE DEF in
  <2> QED BY <1>0, <1>1, <1>2, MaskAt
<1>6. At(unfolded, future) /\ (Blocks!Runs(unfolded) => unfolded.c = 1 /\ unfolded.f = bins)
  <2>1. unfolded = IF p.df_order > 1 THEN Blocks!TimeKernel(in.spec, p.df_order, p.df_lookahead) ELSE in.spec
    BY SameMF, Zenon DEF MF!SpecUnfold
  <2>2. p.df_order > 1 <=> ~(p.df_order = 1)
    BY <1>0
  <2> HIDE DEF in, unfolded
  <2>3. CASE p.df_order = 1
    BY <1>1, <2>1, <2>2, <2>3
  <2>4. CASE ~(p.df_order = 1)
    <3>1. LET y == Blocks!TimeKernel(in.spec, p.df_order, p.df_lookahead)
          IN At(y, p.df_lookahead) /\ (Blocks!Runs(y) => y.c = in.spec.c /\ y.f = in.spec.f)
      BY <1>0, <1>1, InputAt
    <3> QED BY <1>1, <2>1, <2>2, <2>4, <3>1
  <2> QED BY <2>3, <2>4
<1> DEFINE v == MF!Vector(p, d.ifc)
           w == Blocks!DependsOn(v, MF!Matrix(p, d.cov))
<1>7. At(v, L) /\ At(w, L) /\ At(Blocks!DependsOn(w, v), L)
  <2>1. At(v, L) /\ At(MF!Matrix(p, d.cov), L)
    BY <1>2, <1>4 DEF MF!Vector, MF!Matrix
  <2> HIDE DEF v
  <2>2. At(w, L)
    BY <1>0, <2>1, CombineAt
  <2> HIDE DEF w
  <2> QED BY <1>0, <2>1, <2>2, CombineAt
<1>8. \E u : At(u, L) /\ filtered = IF bins >= p.nb_df THEN Blocks!DependsOn(unfolded, u) ELSE Blocks!Err
  <2>1. MF!MfWf(p, in.spec, d.ifc, d.cov) =
           IF bins >= p.nb_df THEN Blocks!DependsOn(unfolded, w) ELSE Blocks!Err
    BY <1>1, SameMF, Zenon DEF MF!MfWf, MF!Weights
  <2>2. MF!MfMvdr(p, in.spec, d.ifc, d.cov) =
           IF bins >= p.nb_df THEN Blocks!DependsOn(unfolded, Blocks!DependsOn(w, v)) ELSE Blocks!Err
    BY <1>1, SameMF, Zenon DEF MF!MfMvdr, MF!Weights
  <2> HIDE DEF unfolded, w, v, in
  <2> QED BY <1>7, <2>1, <2>2
<1> HIDE DEF in, unfolded, filtered, masked, future, both, out
<1>9. Later(future, L) \in Int /\ Later(future, L) = Ops!Larger(L, future) /\ Later(Later(future, L), L) = Later(future, L)
      /\ Ops!Larger(L, 0) = L
  BY <1>0 DEF Later, Ops!Larger
<1>10. At(filtered, Later(future, L)) /\ (Blocks!Runs(filtered) => filtered.c = 1 /\ filtered.f = bins)
  <2>1. PICK u : At(u, L) /\ filtered = IF bins >= p.nb_df THEN Blocks!DependsOn(unfolded, u) ELSE Blocks!Err
    BY <1>8
  <2> DEFINE y == Blocks!DependsOn(unfolded, u)
  <2>2. At(y, Later(future, L)) /\ (Blocks!Runs(y) => Blocks!Runs(unfolded) /\ y.c = unfolded.c /\ y.f = unfolded.f)
    BY <1>0, <1>6, <2>1, JoinAt
  <2> HIDE DEF y
  <2>3. filtered = IF bins >= p.nb_df THEN y ELSE Blocks!Err
    BY <2>1 DEF y
  <2> QED BY <1>4, <1>6, <1>9, <2>2, <2>3, MapAt
<1>11. At(both, Later(future, L)) /\ (Blocks!Runs(both) => both.c = 1 /\ both.f = bins /\ Blocks!Runs(masked))
  <2>1. LET z == Blocks!DependsOn(filtered, masked)
        IN  /\ At(z, Later(Later(future, L), L)) /\ (Blocks!Runs(z) <=> Blocks!Runs(filtered) /\ Blocks!Runs(masked))
            /\ Blocks!Runs(z) => z.c = filtered.c /\ z.f = filtered.f
    BY <1>0, <1>5, <1>9, <1>10, JoinAt
  <2> QED BY <1>9, <1>10, <2>1 DEF both
<1>12. p.version \notin {"deepfilternet", "deepfilternet2"} /\ p.version # "deepfilternet3"
  OBVIOUS
<1>13. SpecAhead(p) = Ops!Larger(ConvAhead(p), FilterAhead(p))
  BY <1>12, Zenon DEF SpecAhead
<1>14. MaskAhead(p) = L /\ MaskBands(p) = p.nb_erb /\ ConvAhead(p) = L
  BY <1>12 DEF MaskAhead, MaskBands, ConvAhead, Masks
<1>15. FilterAhead(p) = IF p.run_df THEN future ELSE 0
  BY DEF FilterAhead, future
<1>16. CASE p.run_df
  BY <1>2, <1>3, <1>5, <1>9, <1>11, <1>13, <1>14, <1>15, <1>16 DEF Declared, At, bins
<1>17. CASE ~p.run_df
  BY <1>2, <1>3, <1>5, <1>9, <1>13, <1>14, <1>15, <1>17 DEF Declared, At, bins
<1> QED BY <1>16, <1>17

LEMMA Parts2 ==
    ASSUME NEW p, Kernels(p), NEW a \in Int, NEW erb, NEW feat, At(erb, a), At(feat, a)
    PROVE  LET e == V2!Encoder(p, erb, feat)
               m == V2!ErbDecoder(p, e)
               d == IF p.df_output_layer = "linear" THEN V2!DfDecoderLinear(p, e) ELSE V2!DfDecoder(p, e)
           IN  /\ At(m, a) /\ (Blocks!Runs(m) => m.c = 1)
               /\ At(d.coefs, a) /\ At(d.alpha, a)
PROOF
<1> DEFINE b == Blocks!ConvEncoder(p, erb, feat)
           f == Blocks!Flatten(b.c1)
           cemb == IF V2!Grouped(p) THEN Blocks!GroupedLinear(f, V2!DfEmbDim(p), V2!EmbDim(p))
                   ELSE Blocks!GroupedLinearEinsum(f, V2!DfEmbDim(p), V2!EmbDim(p))
           x == Blocks!Combine(p, Blocks!Flatten(b.e3), cemb)
           g == IF V2!Grouped(p) THEN Blocks!GroupedGRU(x, V2!EmbInDim(p), p.emb_hidden_dim)
                ELSE Blocks!SqueezedGRU(x, V2!EmbInDim(p), p.emb_hidden_dim, 0, V2!NoSkip)
           e == V2!Encoder(p, erb, feat)
<1>1. e = WithEmb(b, g)
  BY Same2, Zenon DEF V2!Encoder, WithEmb
<1>2. MapsAt(b, a) /\ At(b.c1, a) /\ \A h : MapsAt(WithEmb(b, h), a) /\ WithEmb(b, h).emb = h
  BY ConvEncoderAt
<1> HIDE DEF b
<1>3. At(f, a) /\ At(Blocks!Flatten(b.e3), a)
  BY <1>2, BlockAt DEF MapsAt
<1> HIDE DEF f
<1>4. At(cemb, a)
  BY <1>3, RowAt
<1> HIDE DEF cemb
<1>5. At(x, a)
  BY <1>3, <1>4, CombineAt
<1> HIDE DEF x
<1>6. At(g, a)
  BY <1>5, RowAt
<1> HIDE DEF g, e
<1>7. MapsAt(e, a) /\ At(e.emb, a)
  BY <1>1, <1>2, <1>6
<1> DEFINE m == V2!ErbDecoder(p, e)
           h == p.emb_hidden_dim
           r == Blocks!GroupedGRU(e.emb, V2!EmbDim(p), h)
           emb == IF V2!Grouped(p) THEN Blocks!GroupedLinear(r, h, V2!EmbDim(p))
                  ELSE Blocks!SqueezedGRU(e.emb, h, h, V2!EmbDim(p), V2!Identity)
<1>8. m = Blocks!ConvDecoder(p, p.conv_kernel, emb, e)
  BY Same2, Zenon DEF V2!ErbDecoder
<1>9. At(r, a)
  BY <1>7, RowAt
<1> HIDE DEF r
<1>10. At(emb, a) /\ p.conv_kernel[1] \in Int
  BY <1>7, <1>9, RowAt DEF Kernels
<1> HIDE DEF emb, m
<1>11. At(m, a) /\ (Blocks!Runs(m) => m.c = 1)
  BY <1>7, <1>8, <1>10, ConvDecoderAt
<1>12. ASSUME NEW c, At(c, a) PROVE At(V2!Coefs(p, c, e.c0), a) /\ At(V2!Alpha(p, c), a)
  <2> DEFINE ch == p.df_order * 2
             l == Blocks!Linear(c, p.df_hidden_dim, p.nb_df * p.df_order * 2)
  <2>1. V2!Coefs(p, c, e.c0) = Blocks!PathwaySum(p, l, ch, e.c0)
        /\ V2!Alpha(p, c) = Blocks!Linear(c, p.df_hidden_dim, 1)
    BY Same2, Zenon DEF V2!Coefs, V2!Alpha
  <2>2. At(l, a) /\ At(Blocks!Linear(c, p.df_hidden_dim, 1), a)
    BY <1>12, BlockAt
  <2> HIDE DEF ch, l
  <2> QED BY <1>7, <2>1, <2>2, PathwayAt DEF MapsAt
<1>13. LET d == V2!DfDecoderLinear(p, e) IN At(d.coefs, a) /\ At(d.alpha, a)
  <2> DEFINE c == Blocks!GroupedGRU(e.emb, p.emb_hidden_dim, p.df_hidden_dim)
             d == V2!DfDecoderLinear(p, e)
  <2>1. d = [coefs |-> V2!Coefs(p, c, e.c0), alpha |-> V2!Alpha(p, c), swapped |-> TRUE]
    BY Same2, Zenon DEF V2!DfDecoderLinear
  <2>2. At(c, a)
    BY <1>7, RowAt
  <2> HIDE DEF c, d
  <2>3. d.coefs = V2!Coefs(p, c, e.c0) /\ d.alpha = V2!Alpha(p, c)
    BY <2>1
  <2>4. At(d.coefs, a) /\ At(d.alpha, a)
    BY <1>12, <2>2, <2>3
  <2> QED BY <2>4 DEF d
<1>14. LET d == V2!DfDecoder(p, e) IN At(d.coefs, a) /\ At(d.alpha, a)
  <2> DEFINE s == V2!SkipOf(p.df_gru_skip, p.emb_hidden_dim, p.df_hidden_dim)
             q == IF V2!Grouped(p) THEN Blocks!GroupedGRU(e.emb, p.emb_hidden_dim, p.df_hidden_dim)
                  ELSE Blocks!SqueezedGRU(e.emb, p.emb_hidden_dim, p.df_hidden_dim, 0, V2!Identity)
             c == IF s.kind = "none" THEN q ELSE Blocks!AddInPlace(q, Blocks!Skip(s, e.emb))
             d == V2!DfDecoder(p, e)
  <2>1. d = [coefs |-> V2!Coefs(p, c, e.c0), alpha |-> V2!Alpha(p, c), swapped |-> FALSE]
    BY Same2, Zenon DEF V2!DfDecoder
  <2>2. At(q, a) /\ At(Blocks!Skip(s, e.emb), a)
    BY <1>7, RowAt
  <2> HIDE DEF q, s
  <2>3. At(c, a)
    BY <2>2, CombineAt
  <2> HIDE DEF c, d
  <2>4. d.coefs = V2!Coefs(p, c, e.c0) /\ d.alpha = V2!Alpha(p, c)
    BY <2>1
  <2>5. At(d.coefs, a) /\ At(d.alpha, a)
    BY <1>12, <2>3, <2>4
  <2> QED BY <2>5 DEF d
<1> QED BY <1>11, <1>13, <1>14 DEF m, e

\* How far one iteration of the filter of the second network looks ahead.
Future2(p) == IF ~V2!UsesAlpha(p) /\ p.df_order = 1 THEN 0 ELSE p.df_lookahead

LEMMA FilterAt ==
    ASSUME NEW p, Future2(p) \in Nat, NEW x, NEW b \in Int, At(x, b), NEW a \in Int, a <= b,
           NEW coefs, At(coefs, a), NEW alpha, At(alpha, a)
    PROVE  LET y == V2!Filter(p, x, coefs, alpha)
           IN  At(y, b + Future2(p)) /\ (Blocks!Runs(y) => Blocks!Runs(x) /\ y.c = x.c /\ y.f = x.f)
PROOF
<1> DEFINE n == Future2(p)
           s == IF ~V2!UsesAlpha(p) /\ p.df_order = 1 THEN x ELSE Blocks!TimeKernel(x, p.df_order, p.df_lookahead)
           z == Blocks!DependsOn(s, coefs)
           w == Blocks!DependsOn(z, alpha)
           y == V2!Filter(p, x, coefs, alpha)
<1>1. y = IF x.f >= p.nb_df THEN IF V2!UsesAlpha(p) THEN w ELSE z ELSE Blocks!Err
  BY Same2, Zenon DEF V2!Filter
<1> HIDE DEF y, n
<1>2. n \in Nat /\ n \in Int
  BY DEF n
<1>3. At(s, b + n) /\ (Blocks!Runs(s) => Blocks!Runs(x) /\ s.c = x.c /\ s.f = x.f)
  <2>1. CASE ~V2!UsesAlpha(p) /\ p.df_order = 1
    <3>1. s = x /\ n = 0 /\ b + 0 = b
      BY <2>1 DEF Future2, n
    <3> HIDE DEF s
    <3> QED BY <3>1
  <2>2. CASE ~(~V2!UsesAlpha(p) /\ p.df_order = 1)
    <3> DEFINE r == Blocks!TimeKernel(x, p.df_order, n)
    <3>1. n = p.df_lookahead
      BY <2>2 DEF Future2, n
    <3>2. s = r
      BY <2>2, <3>1, Zenon
    <3>3. At(r, b + n) /\ (Blocks!Runs(r) => Blocks!Runs(x) /\ r.c = x.c /\ r.f = x.f)
      BY <1>2, ShiftAt, ZenonT(30)
    <3> HIDE DEF s, r
    <3> QED BY <3>2, <3>3
  <2> QED BY <2>1, <2>2
<1> HIDE DEF s
<1>5. b + n \in Int /\ Later(b + n, a) = b + n
  BY <1>2 DEF Later
<1> DEFINE l == b + n
<1> HIDE DEF l
<1>6. At(s, l) /\ l \in Int /\ Later(l, a) = l
  BY <1>3, <1>5 DEF l
<1>7. At(z, l) /\ (Blocks!Runs(z) => Blocks!Runs(s) /\ z.c = s.c /\ z.f = s.f)
  BY <1>6, JoinAt
<1> HIDE DEF z
<1>8. At(w, l) /\ (Blocks!Runs(w) => Blocks!Runs(z) /\ w.c = z.c /\ w.f = z.f)
  BY <1>6, <1>7, JoinAt
<1> HIDE DEF w
<1>9. At(Blocks!Err, l) /\ ~Blocks!Runs(Blocks!Err)
  BY <1>6, MapAt
<1>10. At(y, l) /\ (Blocks!Runs(y) => Blocks!Runs(x) /\ y.c = x.c /\ y.f = x.f)
  BY <1>1, <1>3, <1>7, <1>8, <1>9
<1> QED BY <1>10 DEF y, l, n

\* The iterations of the filter, n of them.
Iterates(g, p, x, coefs, alpha, n) ==
    g = [k \in 0 .. n |-> IF k = 0 THEN x ELSE V2!Filter(p, g[k - 1], coefs, alpha)]
Iterated(p, x, coefs, alpha, n) == CHOOSE g : Iterates(g, p, x, coefs, alpha, n)

Last2(p, x, coefs, alpha, n) == Iterated(p, x, coefs, alpha, n)[n]
Ahead2(p, n) == n * Future2(p)

LEMMA IteratesExist ==
    ASSUME NEW p, NEW x, NEW coefs, NEW alpha, NEW n \in Nat
    PROVE  Iterates(Iterated(p, x, coefs, alpha, n), p, x, coefs, alpha, n)
PROOF
<1> DEFINE F(y) == V2!Filter(p, y, coefs, alpha)
           Is(g, m) == g = [k \in 0 .. m |-> IF k = 0 THEN x ELSE F(g[k - 1])]
           Bad == {m \in Nat : ~\E g : Is(g, m)}
<1>1. \A g, m : Iterates(g, p, x, coefs, alpha, m) <=> Is(g, m)
  BY DEF Iterates
<1> HIDE DEF F
<1>2. SUFFICES \E g : Is(g, n)
  BY <1>1, Zenon DEF Iterated
<1>3. SUFFICES ASSUME Bad # {} PROVE FALSE
  OBVIOUS
<1>4. PICK m \in Bad : \A k \in Bad : m <= k
  <2> HIDE DEF Bad
  <2>1. Bad \subseteq Nat
    BY DEF Bad
  <2> QED BY <1>3, <2>1, LeastOf
<1>5. m # 0
  <2> DEFINE g == [k \in 0 .. 0 |-> x]
  <2>1. Is(g, 0)
    OBVIOUS
  <2> QED BY <2>1
<1>6. PICK l \in Nat : m = l + 1
  <2>1. m \in Nat
    OBVIOUS
  <2> QED BY <1>5, <2>1
<1>7. PICK g : Is(g, l)
  <2>1. l \notin Bad
    <3> HIDE DEF Bad
    <3> QED BY <1>4, <1>6
  <2> QED BY <2>1
<1> DEFINE h == [k \in 0 .. m |-> IF k \in 0 .. l THEN g[k] ELSE F(g[l])]
<1>8. Is(h, m)
  <2>1. ASSUME NEW k \in 0 .. m PROVE h[k] = IF k = 0 THEN x ELSE F(h[k - 1])
    <3>1. CASE k = 0
      BY <1>6, <1>7, <3>1
    <3>2. CASE k \in 1 .. l
      <4>1. h[k] = g[k] /\ h[k - 1] = g[k - 1] /\ g[k] = F(g[k - 1])
        BY <1>6, <1>7, <3>2
      <4> QED BY <3>2, <4>1
    <3>3. CASE k = m
      <4>1. h[k] = F(g[l]) /\ h[k - 1] = g[l]
        BY <1>6, <3>3
      <4> QED BY <1>6, <3>3, <4>1
    <3> QED BY <1>6, <3>1, <3>2, <3>3
  <2>2. h = [k \in 0 .. m |-> h[k]]
    OBVIOUS
  <2> HIDE DEF h
  <2> QED BY <2>1, <2>2
<1> QED BY <1>4, <1>8

\* Every iteration adds the lookahead of one filter.
LEMMA IteratedAt ==
    ASSUME NEW p, Future2(p) \in Nat, NEW a \in Nat, NEW x, At(x, a),
           NEW coefs, At(coefs, a), NEW alpha, At(alpha, a), NEW n \in Nat
    PROVE  LET y == Last2(p, x, coefs, alpha, n)
           IN  At(y, a + Ahead2(p, n)) /\ (Blocks!Runs(y) => Blocks!Runs(x) /\ y.c = x.c /\ y.f = x.f)
PROOF
<1> DEFINE g == Iterated(p, x, coefs, alpha, n)
           F(y) == V2!Filter(p, y, coefs, alpha)
           q == Future2(p)
           Good(k) == /\ At(g[k], a + k * q)
                      /\ Blocks!Runs(g[k]) => Blocks!Runs(x) /\ g[k].c = x.c /\ g[k].f = x.f
           Bad == {k \in Nat : k <= n /\ ~Good(k)}
<1>1. g = [k \in 0 .. n |-> IF k = 0 THEN x ELSE F(g[k - 1])]
  BY IteratesExist DEF Iterates
<1>2. \A y : \A b \in Int : At(y, b) /\ a <= b =>
         At(F(y), b + q) /\ (Blocks!Runs(F(y)) => Blocks!Runs(y) /\ F(y).c = y.c /\ F(y).f = y.f)
  <2> SUFFICES ASSUME NEW y, NEW b \in Int, At(y, b), a <= b
               PROVE  At(F(y), b + q) /\ (Blocks!Runs(F(y)) => Blocks!Runs(y) /\ F(y).c = y.c /\ F(y).f = y.f)
    OBVIOUS
  <2> QED BY FilterAt
<1> HIDE DEF F, g, q
<1>3. q \in Nat
  BY DEF q
<1>4. SUFFICES ASSUME Bad # {} PROVE FALSE
  <2>1. Bad = {} => Good(n)
    OBVIOUS
  <2> QED BY <2>1 DEF g, q, Last2, Ahead2
<1>5. PICK m \in Bad : \A k \in Bad : m <= k
  <2> HIDE DEF Bad
  <2>1. Bad \subseteq Nat
    BY DEF Bad
  <2> QED BY <1>4, <2>1, LeastOf
<1>6. m \in Nat /\ m <= n /\ ~Good(m)
  OBVIOUS
<1>7. CASE m = 0
  <2>1. g[m] = x
    <3>1. m \in 0 .. n
      BY <1>6
    <3> QED BY <1>1, <1>7, <3>1
  <2>2. a + m * q = a
    BY <1>3, <1>7
  <2>3. Good(m)
    BY <2>1, <2>2
  <2> QED BY <1>6, <2>3
<1>8. CASE m # 0
  <2>1. PICK l \in Nat : m = l + 1
    BY <1>6, <1>8
  <2>2. Good(l)
    <3>1. l \notin Bad /\ l <= n
      BY <1>5, <1>6, <2>1
    <3> QED BY <3>1
  <2>3. g[m] = F(g[l])
    <3>1. m \in 0 .. n /\ m - 1 = l
      BY <1>6, <2>1
    <3> QED BY <1>1, <1>8, <3>1
  <2> DEFINE b == a + l * q
             c == a + m * q
  <2>4. b \in Int /\ a <= b /\ b + q = c
    <3>1. l * q \in Nat /\ m * q = l * q + q
      BY <1>3, <2>1
    <3> DEFINE t == l * q
    <3> HIDE DEF t
    <3>2. t \in Nat /\ m * q = t + q /\ b = a + t
      BY <3>1 DEF t
    <3> QED BY <1>3, <3>2
  <2>5. Good(m)
    <3>1. At(g[l], b)
      BY <2>2
    <3>2. c = a + m * q
      OBVIOUS
    <3> HIDE DEF b, c
    <3> DEFINE y == g[l]
    <3> HIDE DEF y
    <3>4. At(y, b)
      BY <3>1 DEF y
    <3>5. At(F(y), b + q) /\ (Blocks!Runs(F(y)) => Blocks!Runs(y) /\ F(y).c = y.c /\ F(y).f = y.f)
      BY <1>2, <2>4, <3>4
    <3>3. At(F(g[l]), c)
          /\ (Blocks!Runs(F(g[l])) => Blocks!Runs(g[l]) /\ F(g[l]).c = g[l].c /\ F(g[l]).f = g[l].f)
      BY <2>4, <3>5 DEF y
    <3> QED BY <2>2, <2>3, <3>2, <3>3
  <2> QED BY <1>6, <2>5
<1> QED BY <1>7, <1>8

LEMMA Net2 ==
    ASSUME NEW p, ConfigOk(p), p.version = "deepfilternet2", NEW t
    PROVE  Declared(p, V2!DfNet(p, Features(p, t)))
PROOF
<1> DEFINE in == Features(p, t)
           L == p.conv_lookahead
           bins == V1!FreqBins(p)
           e == V2!Encoder(p, V2!PadFeat(in.erb, L), V2!PadFeat(in.feat, L))
           m == V2!ErbDecoder(p, e)
           masked == V2!Mask(in.spec, m, V2!ErbFb(p.nb_erb, V2!FreqBins(p)))
           d == IF p.df_output_layer = "linear" THEN V2!DfDecoderLinear(p, e) ELSE V2!DfDecoder(p, e)
           coefs == IF V2!UsesAlpha(p) THEN V2!DfOutputReshapeOld(p, d) ELSE V2!DfOutputReshapeMF(p, d)
           n == p.df_n_iter
           last == Last2(p, masked, coefs, d.alpha, n)
           out == V2!DfNet(p, in)
<1> SUFFICES Declared(p, out)
  OBVIOUS
<1>0. L \in Nat /\ n \in Nat /\ Future2(p) \in Nat /\ Kernels(p) /\ p.run_df \in BOOLEAN
      /\ p.df_lookahead \in Nat
  BY DEF ConfigOk, Kernels, Future2
<1>1. /\ in.spec = Blocks!Map(1, bins, t)
      /\ At(Blocks!PadFeat(in.erb, L), L) /\ At(Blocks!PadFeat(in.feat, L), L)
  BY <1>0, InputsAre
<1>2. At(m, L) /\ (Blocks!Runs(m) => m.c = 1) /\ At(d.coefs, L) /\ At(d.alpha, L)
  <2>1. e = V2!Encoder(p, Blocks!PadFeat(in.erb, L), Blocks!PadFeat(in.feat, L))
    BY Same2, Zenon
  <2> HIDE DEF in
  <2> QED BY <1>0, <1>1, <2>1, Parts2
<1>3. out.mask = m /\ out.spec = IF ~Blocks!Runs(coefs) THEN Blocks!Err
                                 ELSE IF p.run_df THEN last ELSE masked
  <2>1. out = [spec |-> IF ~V2!Runs(coefs) THEN V2!Err ELSE IF p.run_df THEN last ELSE masked, mask |-> m]
    BY Zenon DEF V2!DfNet, Last2, Iterated, Iterates
  <2> HIDE DEF out, m, coefs, last, masked
  <2> QED BY <2>1, Same2
<1>14. masked = Blocks!Mask(in.spec, m, Blocks!ErbFb(p.nb_erb, bins))
  <2>1. V2!FreqBins(p) = bins
    BY DEF V2!FreqBins, V1!FreqBins
  <2> HIDE DEF in, bins, m
  <2> QED BY <2>1, Same2, Zenon
<1> HIDE DEF bins, e, d, m, out
<1>4. At(Blocks!Err, L) /\ ~Blocks!Runs(Blocks!Err) /\ V2!Err = Blocks!Err
  BY <1>0, MapAt, Same2
<1>5. At(coefs, L)
  BY <1>2, <1>4 DEF V2!DfOutputReshapeOld, V2!DfOutputReshapeMF
<1>6. /\ At(masked, L)
      /\ Blocks!Runs(masked) => Blocks!Runs(m) /\ m.f = p.nb_erb /\ masked.c = 1 /\ masked.f = bins
  <2> HIDE DEF in, masked
  <2> QED BY <1>0, <1>1, <1>2, <1>14, MaskAt
<1> HIDE DEF in, masked, coefs, n
<1>7. At(last, L + Ahead2(p, n))
      /\ (Blocks!Runs(last) => Blocks!Runs(masked) /\ last.c = masked.c /\ last.f = masked.f)
  <2>1. /\ Future2(p) \in Nat /\ L \in Nat /\ n \in Nat
        /\ At(masked, L) /\ At(coefs, L) /\ At(d.alpha, L)
    BY <1>0, <1>2, <1>5, <1>6
  <2> DEFINE alpha == d.alpha
  <2> HIDE DEF L, alpha
  <2>2. /\ Future2(p) \in Nat /\ L \in Nat /\ n \in Nat
        /\ At(masked, L) /\ At(coefs, L) /\ At(alpha, L)
    BY <2>1 DEF alpha
  <2>3. LET y == Last2(p, masked, coefs, alpha, n)
        IN  At(y, L + Ahead2(p, n)) /\ (Blocks!Runs(y) => Blocks!Runs(masked) /\ y.c = masked.c /\ y.f = masked.f)
    BY <2>2, IteratedAt
  <2> QED BY <2>3 DEF alpha
<1> HIDE DEF last
<1>8. FilterAhead(p) = IF p.run_df THEN Ahead2(p, n) ELSE 0
  <2>1. CASE ~p.run_df
    BY <2>1 DEF FilterAhead
  <2>2. CASE p.run_df
    <3>1. FilterAhead(p) = IF p.dfop_method # "real_unfold" /\ p.df_order = 1 THEN 0 ELSE n * p.df_lookahead
      BY <2>2 DEF FilterAhead, n
    <3>2. n * 0 = 0
      BY <1>0
    <3> QED BY <2>2, <3>1, <3>2 DEF Ahead2, Future2, V2!UsesAlpha
  <2> QED BY <1>0, <2>1, <2>2
<1>9. p.version \in {"deepfilternet", "deepfilternet2"} /\ p.version # "deepfilternet3"
  OBVIOUS
<1>10. SpecAhead(p) = ConvAhead(p) + FilterAhead(p)
  BY <1>9, Zenon DEF SpecAhead
<1>11. MaskAhead(p) = L /\ MaskBands(p) = p.nb_erb /\ ConvAhead(p) = L
  BY <1>9 DEF MaskAhead, MaskBands, ConvAhead, Masks
<1> DEFINE s == Ahead2(p, n)
<1> HIDE DEF s
<1>12. CASE p.run_df
  <2>1. SpecAhead(p) = L + s /\ At(last, L + s)
    BY <1>7, <1>8, <1>10, <1>11, <1>12 DEF s
  <2>2. Blocks!Runs(out.spec) => out.spec = last
    BY <1>3, <1>4, <1>12
  <2> QED BY <1>2, <1>3, <1>6, <1>7, <1>11, <2>1, <2>2 DEF Declared, At, bins
<1>13. CASE ~p.run_df
  <2>1. SpecAhead(p) = L
    BY <1>0, <1>8, <1>10, <1>11, <1>13
  <2>2. Blocks!Runs(out.spec) => out.spec = masked
    BY <1>3, <1>4, <1>13
  <2> QED BY <1>2, <1>3, <1>6, <1>11, <2>1, <2>2 DEF Declared, At, bins
<1> QED BY <1>12, <1>13

\* The encoder of the first network takes its lookahead in its convolutions,
\* three frames at most for the bands and all of it for the bins.
LEMMA Parts1 ==
    ASSUME NEW p, p.conv_k_enc \in Nat \ {0}, p.conv_k_dec \in Nat \ {0}, p.conv_lookahead \in Nat,
           NEW erb, NEW feat, At(erb, 0), At(feat, 0)
    PROVE  LET e == V1!Encoder(p, erb, feat)
               m == V1!ErbDecoder(p, e)
               d == V1!DfDecoder(p, e)
               a == p.conv_lookahead
           IN  /\ At(m, a) /\ (Blocks!Runs(m) => m.c = 1)
               /\ At(d.coefs, a) /\ At(d.alpha, a)
PROOF
<1> DEFINE a == p.conv_lookahead
           k == p.conv_k_enc
           k0 == IF k = 1 /\ p.conv_lookahead = 0 THEN 1 ELSE V1!Larger(2, k)
           cl(i) == IF p.conv_lookahead > i THEN 1 ELSE 0
           e0 == Blocks!Convkxf(erb, 1, p.conv_ch, V1!Conv(k0, 3, 1, cl(0)))
           e1 == Blocks!Convkxf(e0, V1!Width(p, 0), V1!Width(p, 1), V1!Conv(k, 3, 2, cl(1)))
           e2 == Blocks!Convkxf(e1, V1!Width(p, 1), V1!Width(p, 2), V1!Conv(k, 3, 2, cl(2)))
           e3 == Blocks!Convkxf(e2, V1!Width(p, 2), V1!Width(p, 2), V1!Conv(k, 3, 1, 0))
           c0 == Blocks!Convkxf(feat, 2, p.conv_ch, V1!Conv(k0, 3, 1, a))
           c1 == Blocks!Convkxf(c0, p.conv_ch, V1!Width(p, 1), V1!Conv(k, 3, 2, 0))
           cemb == Blocks!GroupedLinear(Blocks!Flatten(c1), V1!DfEmbDim(p), V1!EmbDim(p))
           sum == Blocks!Add(Blocks!Flatten(e3), cemb)
           g == Blocks!GroupedGRU(sum, V1!EmbDim(p), p.emb_hidden_dim)
           e == V1!Encoder(p, erb, feat)
<1>1. e = [e0 |-> e0, e1 |-> e1, e2 |-> e2, e3 |-> e3, c0 |-> c0, emb |-> g]
  BY Same1, ZenonT(60) DEF V1!Encoder
<1>2. ASSUME NEW x, NEW b \in Int, At(x, b), NEW in, NEW o, NEW kt \in Int, NEW f, NEW s, NEW l \in Int,
             NEW r \in Int, b + l = r
      PROVE  /\ At(Blocks!Convkxf(x, in, o, V1!Conv(kt, f, s, l)), r)
             /\ LET y == Blocks!Convkxf(x, in, o, V1!Conv(kt, f, s, l)) IN Blocks!Runs(y) => y.c = o
  <2> DEFINE v == V1!Conv(kt, f, s, l)
  <2>1. v.k = kt /\ v.lookahead = l
    BY DEF V1!Conv
  <2> HIDE DEF v
  <2>2. LET y == Blocks!Convkxf(x, in, o, v) IN At(y, b + v.lookahead) /\ (Blocks!Runs(y) => y.c = o)
    BY <1>2, <2>1, ConvkxfAt
  <2> QED BY <1>2, <2>1, <2>2 DEF v
<1>3. k \in Int /\ k0 \in Int /\ a \in Int /\ (\A i \in 0 .. 2 : cl(i) \in 0 .. 1)
  BY DEF V1!Larger
<1> HIDE DEF k0, k
<1>4. PICK z \in Int, l0 \in Int, l1 \in Int, l2 \in Int :
         /\ z = 0 /\ l0 = cl(0) /\ l1 = l0 + cl(1) /\ l2 = l1 + cl(2) /\ l0 <= a /\ l1 <= a /\ l2 <= a
  <2>1. cl(0) <= a /\ cl(0) + cl(1) <= a /\ cl(0) + cl(1) + cl(2) <= a
    OBVIOUS
  <2>2. cl(0) \in Int /\ cl(0) + cl(1) \in Int /\ cl(0) + cl(1) + cl(2) \in Int
    BY <1>3
  <2> QED BY <2>1, <2>2
<1>5. cl(0) \in Int /\ cl(1) \in Int /\ cl(2) \in Int
  BY <1>3
<1> HIDE DEF cl
<1>6. At(erb, z) /\ At(feat, z)
  BY <1>4
<1>7. At(e0, l0)
  <2>1. z + cl(0) = l0
    BY <1>4
  <2> QED BY <1>2, <1>3, <1>5, <1>6, <2>1
<1>8. At(c0, a)
  <2>1. z + a = a
    BY <1>3, <1>4
  <2> QED BY <1>2, <1>3, <1>6, <2>1
<1> HIDE DEF e0, c0
<1>9. At(e1, l1)
  BY <1>2, <1>3, <1>4, <1>5, <1>7
<1> HIDE DEF e1
<1>10. At(e2, l2)
  BY <1>2, <1>3, <1>4, <1>5, <1>9
<1> HIDE DEF e2
<1>11. At(e3, l2)
  <2>1. At(Blocks!Convkxf(e2, V1!Width(p, 2), V1!Width(p, 2), V1!Conv(k, 3, 1, z)), l2)
    BY <1>2, <1>3, <1>4, <1>10
  <2> QED BY <1>4, <2>1
<1>12. At(c1, a)
  <2>1. a + z = a
    BY <1>3, <1>4
  <2>2. At(Blocks!Convkxf(c0, p.conv_ch, V1!Width(p, 1), V1!Conv(k, 3, 2, z)), a)
    BY <1>2, <1>3, <1>8, <2>1
  <2> QED BY <1>4, <2>2
<1> HIDE DEF e3, c1
<1>13. At(Blocks!Flatten(c1), a) /\ At(Blocks!Flatten(e3), l2)
  BY <1>3, <1>11, <1>12, BlockAt
<1>14. At(cemb, a)
  BY <1>3, <1>13, RowAt
<1> HIDE DEF cemb
\* Whatever takes less of the lookahead is added to what takes all of it.
<1>15. ASSUME NEW x, NEW y, NEW b \in Int, b <= a, At(x, b), At(y, a)
       PROVE  At(Blocks!Add(x, y), a)
  <2>1. Later(b, a) = a
    BY <1>3, <1>15 DEF Later
  <2>2. At(Blocks!Add(x, y), Later(b, a))
    BY <1>3, <1>15, JoinAt
  <2> QED BY <2>1, <2>2
<1>16. At(sum, a)
  BY <1>4, <1>13, <1>14, <1>15
<1> HIDE DEF sum
<1>17. At(g, a)
  BY <1>3, <1>16, RowAt
<1> HIDE DEF g, e
<1>18. e.e0 = e0 /\ e.e1 = e1 /\ e.e2 = e2 /\ e.e3 = e3 /\ e.c0 = c0 /\ e.emb = g
  BY <1>1
<1> DEFINE kd == p.conv_k_dec
           up == [V1!Conv(kd, 3, 2, 0) EXCEPT !.mode = p.conv_dec_mode]
           convp(x, ch) == Blocks!Convkxf(x, ch, ch, V1!Conv(1, 1, 2, 0))
           fc == Blocks!GroupedLinear(e.emb, p.emb_hidden_dim, V1!Width(p, 2) * (p.nb_erb \div 4))
           emb == Blocks!Unflatten(fc, e.e3.f)
           d3 == Blocks!Convkxf(Blocks!Add(convp(e.e3, V1!Width(p, 2)), emb), V1!Width(p, 2), V1!Width(p, 2),
                                V1!Conv(kd, 3, 1, 0))
           d2 == Blocks!Convkxf(Blocks!Add(convp(e.e2, V1!Width(p, 2)), d3), V1!Width(p, 2), V1!Width(p, 1), up)
           d1 == Blocks!Convkxf(Blocks!Add(convp(e.e1, V1!Width(p, 1)), d2), V1!Width(p, 1), V1!Width(p, 0), up)
           top == Blocks!Add(convp(e.e0, p.conv_ch), d1)
           m == V1!ErbDecoder(p, e)
<1>19. m = Blocks!Convkxf(top, p.conv_ch, 1, V1!Conv(kd, 3, 1, 0))
  BY Same1, Zenon DEF V1!ErbDecoder
<1>20. kd \in Int /\ up.k = kd /\ up.lookahead = z
  <2>1. up \in [k : {kd}, f : {3}, fstride : {2}, lookahead : {0}, mode : {p.conv_dec_mode}]
    BY DEF V1!Conv
  <2> HIDE DEF up, kd
  <2>2. kd \in Int
    BY DEF kd
  <2> QED BY <1>4, <2>1, <2>2
<1> HIDE DEF up, kd
<1>21. ASSUME NEW x, NEW ch, NEW b \in Int, At(x, b) PROVE At(convp(x, ch), b)
  <2>1. PICK i \in Int : i = 1
    OBVIOUS
  <2>2. At(Blocks!Convkxf(x, ch, ch, V1!Conv(i, 1, 2, z)), b)
    <3>1. b + z = b
      BY <1>4
    <3> QED BY <1>2, <1>21, <3>1
  <2> QED BY <1>4, <2>1, <2>2
<1>22. ASSUME NEW x, At(x, a), NEW in, NEW o, NEW s
       PROVE  /\ At(Blocks!Convkxf(x, in, o, V1!Conv(kd, 3, s, 0)), a)
              /\ LET y == Blocks!Convkxf(x, in, o, V1!Conv(kd, 3, s, 0)) IN Blocks!Runs(y) => y.c = o
              /\ At(Blocks!Convkxf(x, in, o, up), a)
  <2>1. a + z = a
    BY <1>3, <1>4
  <2>2. /\ At(Blocks!Convkxf(x, in, o, V1!Conv(kd, 3, s, z)), a)
        /\ LET y == Blocks!Convkxf(x, in, o, V1!Conv(kd, 3, s, z)) IN Blocks!Runs(y) => y.c = o
    BY <1>2, <1>3, <1>20, <1>22, <2>1
  <2>3. LET y == Blocks!Convkxf(x, in, o, up) IN At(y, a + up.lookahead) /\ (Blocks!Runs(y) => y.c = o)
    BY <1>3, <1>20, <1>22, ConvkxfAt
  <2> QED BY <1>4, <1>20, <2>1, <2>2, <2>3
<1> HIDE DEF convp
<1>23. At(fc, a)
  BY <1>3, <1>17, <1>18, RowAt
<1> HIDE DEF fc
<1>24. At(emb, a)
  BY <1>3, <1>23, BlockAt
<1> HIDE DEF emb
<1>25. At(d3, a)
  <2>1. At(Blocks!Add(convp(e.e3, V1!Width(p, 2)), emb), a)
    BY <1>4, <1>11, <1>15, <1>18, <1>21, <1>24
  <2> QED BY <1>22, <2>1
<1> HIDE DEF d3
<1>26. At(d2, a)
  <2>1. At(Blocks!Add(convp(e.e2, V1!Width(p, 2)), d3), a)
    BY <1>4, <1>10, <1>15, <1>18, <1>21, <1>25
  <2> QED BY <1>22, <2>1
<1> HIDE DEF d2
<1>27. At(d1, a)
  <2>1. At(Blocks!Add(convp(e.e1, V1!Width(p, 1)), d2), a)
    BY <1>4, <1>9, <1>15, <1>18, <1>21, <1>26
  <2> QED BY <1>22, <2>1
<1> HIDE DEF d1
<1>28. At(top, a)
  BY <1>4, <1>7, <1>15, <1>18, <1>21, <1>27
<1> HIDE DEF top, m
<1>29. At(m, a) /\ (Blocks!Runs(m) => m.c = 1)
  BY <1>19, <1>22, <1>28
<1> DEFINE c == Blocks!GroupedGRU(e.emb, p.emb_hidden_dim, p.df_hidden_dim)
           cc == Blocks!Convkxf(e.c0, p.conv_ch, p.df_order * 2, V1!Conv(1, 1, 2, 0))
           lin == Blocks!Linear(c, p.df_hidden_dim, p.nb_df * p.df_order * 2)
           d == V1!DfDecoder(p, e)
<1>30. d = [coefs |-> Blocks!AddInPlace(Blocks!ViewAs(lin, p.df_order * 2, p.nb_df), cc),
            alpha |-> Blocks!Linear(c, p.df_hidden_dim, 1)]
  BY Same1, Zenon DEF V1!DfDecoder
<1>31. At(c, a)
  BY <1>3, <1>17, <1>18, RowAt
<1> HIDE DEF c
<1>32. At(lin, a) /\ At(Blocks!Linear(c, p.df_hidden_dim, 1), a)
  BY <1>3, <1>31, BlockAt
<1> HIDE DEF lin
<1>33. At(Blocks!ViewAs(lin, p.df_order * 2, p.nb_df), a)
  BY <1>3, <1>32, BlockAt
<1>34. At(cc, a)
  <2>1. PICK i \in Int : i = 1
    OBVIOUS
  <2>2. a + z = a
    BY <1>3, <1>4
  <2>3. At(Blocks!Convkxf(e.c0, p.conv_ch, p.df_order * 2, V1!Conv(i, 1, 2, z)), a)
    BY <1>2, <1>3, <1>8, <1>18, <2>2
  <2> QED BY <1>4, <2>1, <2>3
<1> HIDE DEF cc, d
<1>35. At(d.coefs, a) /\ At(d.alpha, a)
  BY <1>3, <1>30, <1>32, <1>33, <1>34, CombineAt
<1> QED BY <1>29, <1>35 DEF m, d, e

LEMMA Net1 ==
    ASSUME NEW p, ConfigOk(p), p.version = "deepfilternet", NEW n
    PROVE  Declared(p, V1!DfNet(p, Features(p, n)))
PROOF
<1> DEFINE in == Features(p, n)
           L == p.conv_lookahead
           bins == V1!FreqBins(p)
           e == V1!Encoder(p, in.erb, in.feat)
           m == V1!ErbDecoder(p, e)
           masked == V1!Mask(in.spec, m, V1!ErbFb(p.nb_erb, bins))
           d == V1!DfDecoder(p, e)
           future == IF p.dfop_method = "real_hidden_state_loop" THEN 0 ELSE p.df_lookahead
           window == IF p.dfop_method = "real_hidden_state_loop" THEN masked
                     ELSE Blocks!TimeKernel(masked, p.df_order, p.df_lookahead)
           w == Blocks!DependsOn(window, d.coefs)
           z == Blocks!DependsOn(w, d.alpha)
           last == V1!Filter(p, masked, d)
           out == V1!DfNet(p, in)
<1> SUFFICES Declared(p, out)
  OBVIOUS
<1>0. L \in Nat /\ future \in Nat /\ p.df_lookahead \in Nat /\ p.run_df \in BOOLEAN
      /\ p.conv_k_enc \in Nat \ {0} /\ p.conv_k_dec \in Nat \ {0}
  BY DEF ConfigOk
<1>1. in.spec = Blocks!Map(1, bins, n) /\ At(in.erb, 0) /\ At(in.feat, 0)
  BY InputsAre
<1>2. At(m, L) /\ (Blocks!Runs(m) => m.c = 1) /\ At(d.coefs, L) /\ At(d.alpha, L)
  <2> HIDE DEF in
  <2> QED BY <1>0, <1>1, Parts1
<1>3. out.mask = m /\ out.spec = IF p.run_df THEN last ELSE masked
  <2>1. out = [spec |-> IF p.run_df THEN last ELSE masked, mask |-> m]
    BY Zenon DEF V1!DfNet
  <2> HIDE DEF out, last, masked, m
  <2> QED BY <2>1
<1> HIDE DEF bins, e, d, m, out
<1>4. masked = Blocks!Mask(in.spec, m, Blocks!ErbFb(p.nb_erb, bins))
  BY Same1, Zenon
<1>5. /\ At(masked, L)
      /\ Blocks!Runs(masked) => Blocks!Runs(m) /\ m.f = p.nb_erb /\ masked.c = 1 /\ masked.f = bins
  <2> HIDE DEF in, masked
  <2> QED BY <1>0, <1>1, <1>2, <1>4, MaskAt
<1> HIDE DEF in, masked
<1>6. last = z \/ last = Blocks!Err
  BY Same1, Zenon DEF V1!Filter
<1> HIDE DEF last
<1>7. At(last, L + future)
      /\ (Blocks!Runs(last) => Blocks!Runs(masked) /\ last.c = masked.c /\ last.f = masked.f)
  <2> DEFINE l == L + future
  <2>1. At(window, l) /\ (Blocks!Runs(window) => Blocks!Runs(masked) /\ window.c = masked.c /\ window.f = masked.f)
    <3> DEFINE a == L
               i == p.df_lookahead
               r == Blocks!TimeKernel(masked, p.df_order, i)
    <3> HIDE DEF a, i
    <3>1. a \in Int /\ i \in Int /\ At(masked, a)
      BY <1>0, <1>5 DEF a, i
    <3>2. At(r, a + i) /\ (Blocks!Runs(r) => Blocks!Runs(masked) /\ r.c = masked.c /\ r.f = masked.f)
      BY <3>1, ShiftAt, ZenonT(30)
    <3> HIDE DEF r
    <3>3. CASE p.dfop_method = "real_hidden_state_loop"
      <4>1. window = masked /\ l = a
        BY <1>0, <3>3 DEF a
      <4> HIDE DEF window, l
      <4> QED BY <3>1, <4>1
    <3>4. CASE p.dfop_method # "real_hidden_state_loop"
      <4>1. window = r /\ l = a + i
        BY <3>4 DEF a, i, r
      <4> HIDE DEF window, l
      <4> QED BY <3>2, <4>1
    <3> QED BY <3>3, <3>4
  <2> HIDE DEF window, future
  <2>3. l \in Int /\ L \in Int /\ Later(l, L) = l
    BY <1>0 DEF Later
  <2> HIDE DEF l, L
  <2>4. At(w, l) /\ (Blocks!Runs(w) => Blocks!Runs(window) /\ w.c = window.c /\ w.f = window.f)
    BY <1>2, <2>1, <2>3, JoinAt
  <2> HIDE DEF w
  <2>5. At(z, l) /\ (Blocks!Runs(z) => Blocks!Runs(w) /\ z.c = w.c /\ z.f = w.f)
    BY <1>2, <2>3, <2>4, JoinAt
  <2> HIDE DEF z
  <2>6. At(Blocks!Err, l) /\ ~Blocks!Runs(Blocks!Err)
    BY <2>3, MapAt
  <2>7. At(last, l) /\ (Blocks!Runs(last) => Blocks!Runs(masked) /\ last.c = masked.c /\ last.f = masked.f)
    BY <1>6, <2>1, <2>4, <2>5, <2>6
  <2> QED BY <2>7 DEF l, L
<1> HIDE DEF future
<1>8. FilterAhead(p) = IF p.run_df THEN future ELSE 0
  BY DEF FilterAhead, future
<1>9. p.version \in {"deepfilternet", "deepfilternet2"} /\ p.version # "deepfilternet3"
  OBVIOUS
<1>10. SpecAhead(p) = ConvAhead(p) + FilterAhead(p)
  BY <1>9, Zenon DEF SpecAhead
<1>11. MaskAhead(p) = L /\ MaskBands(p) = p.nb_erb /\ ConvAhead(p) = L
  BY <1>9 DEF MaskAhead, MaskBands, ConvAhead, Masks
<1>12. CASE p.run_df
  BY <1>2, <1>3, <1>5, <1>7, <1>8, <1>10, <1>11, <1>12 DEF Declared, At, bins
<1>13. CASE ~p.run_df
  <2>1. SpecAhead(p) = L
    BY <1>0, <1>8, <1>10, <1>11, <1>13
  <2> QED BY <1>2, <1>3, <1>5, <1>11, <1>13, <2>1 DEF Declared, At, bins
<1> QED BY <1>12, <1>13

-----------------------------------------------------------------------------
(* The model in the cache. *)

\* Before the first interrupt the program looks at no model or at all of one,
\* and a model that it finds is whole.
CacheWhole ==
    /\ interrupts \in Nat
    /\ interrupts = 0 =>
          /\ step = "look" => parts \in {Unpacked("none"), Unpacked("whole")}
          /\ step = "found" => CanLoad
          /\ pc # "no_model"

LEMMA CacheWholeInit == Init => CacheWhole
PROOF BY DEF Init, CacheInit, CacheWhole

LEMMA CacheWholeStep == CacheWhole /\ [Next]_vars => CacheWhole'
PROOF
<1> SUFFICES ASSUME CacheWhole, [Next]_vars PROVE CacheWhole'
  OBVIOUS
<1>1. CASE MaybeDownloadModel /\ UNCHANGED fileVars
  <2>1. UNCHANGED <<pc, interrupts>>
    BY <1>1 DEF MaybeDownloadModel, fileVars, Look, Get, UnpackOpen, UnpackRest, EndOfArchive
  <2>2. CASE Look
    <3>1. "config" \in Names
      BY DEF Names
    <3>2. interrupts = 0 /\ step' = "found" => CanLoad'
      BY <2>2 DEF Look, CacheWhole, CanLoad, Unpacked
    <3> QED BY <2>1, <2>2, <3>1, <3>2 DEF Look, CacheWhole
  <2>3. CASE Get
    BY <2>1, <2>3 DEF Get, CacheWhole
  <2>4. ASSUME NEW n \in Names, UnpackOpen(n) \/ UnpackRest(n) PROVE CacheWhole'
    BY <2>1, <2>4 DEF UnpackOpen, UnpackRest, CacheWhole
  <2>5. CASE EndOfArchive
    BY <2>1, <2>5 DEF EndOfArchive, CacheWhole, CanLoad
  <2> QED BY <1>1, <2>2, <2>3, <2>4, <2>5 DEF MaybeDownloadModel
<1>2. CASE Interrupt /\ UNCHANGED fileVars
  BY <1>2 DEF Interrupt, CacheWhole
<1>3. CASE BuildModel
  BY <1>3 DEF BuildModel, CacheWhole, CanLoad, cacheVars
<1>4. CASE \E r \in Recordings : Analyse(r) \/ MissingFile(r)
  BY <1>4 DEF Analyse, MissingFile, CacheWhole, CanLoad, cacheVars
<1>5. CASE RunModel \/ Synthesise \/ NextFile
  BY <1>5 DEF RunModel, Synthesise, NextFile, CacheWhole, CanLoad, cacheVars
<1>6. CASE UNCHANGED vars
  BY <1>6 DEF vars, cacheVars, fileVars, CacheWhole, CanLoad
<1> QED BY <1>1, <1>2, <1>3, <1>4, <1>5, <1>6 DEF Next

\* ModelFound, a conjunct of AcceptedRuns: however a download goes, a start
\* that finds only a part of a model comes after one that was interrupted.
THEOREM ModelFoundHolds == Spec => []ModelFound
PROOF
<1>1. CacheWhole => ModelFound
  BY DEF CacheWhole, ModelFound
<1> QED BY <1>1, CacheWholeInit, CacheWholeStep, PTL DEF Spec

-----------------------------------------------------------------------------
\* What the network returned is kept until the next file.
OutputKept ==
    /\ pc = "config" => params = NoConfig
    /\ pc \in {"ready", "features", "spectrum", "saved"} => params \in Configs
    /\ pc \in {"spectrum", "saved"} =>
          /\ enhanced = Forward(params, Features(params, frames))
          /\ Blocks!Runs(enhanced.spec) /\ Blocks!Runs(enhanced.mask)

LEMMA OutputKeptInit == Init => OutputKept
PROOF BY DEF Init, OutputKept

LEMMA OutputKeptStep == OutputKept /\ [Next]_vars => OutputKept'
PROOF
<1> SUFFICES ASSUME OutputKept, [Next]_vars PROVE OutputKept'
  OBVIOUS
<1>1. CASE UNCHANGED fileVars
  BY <1>1 DEF OutputKept, fileVars
<1>2. CASE BuildModel
  BY <1>2 DEF BuildModel, OutputKept
<1>3. ASSUME NEW r \in Recordings, Analyse(r) PROVE OutputKept'
  BY <1>3 DEF Analyse, OutputKept
<1>4. ASSUME NEW r \in Recordings, MissingFile(r) PROVE OutputKept'
  BY <1>4 DEF MissingFile, OutputKept
<1>5. CASE RunModel
  <2>1. Ops!Runs(enhanced'.spec) = Blocks!Runs(enhanced'.spec)
        /\ Ops!Runs(enhanced'.mask) = Blocks!Runs(enhanced'.mask)
    BY DEF Ops!Runs, Blocks!Runs
  <2>2. params \in Configs /\ params' = params /\ frames' = frames
    BY <1>5 DEF RunModel, OutputKept
  <2>3. \/ pc' = "failed"
        \/ /\ pc' = "spectrum" /\ enhanced' = Forward(params, Features(params, frames))
           /\ Ops!Runs(enhanced'.spec) /\ Ops!Runs(enhanced'.mask)
    BY <1>5 DEF RunModel
  <2> QED BY <2>1, <2>2, <2>3 DEF OutputKept
<1>6. CASE Synthesise
  BY <1>6 DEF Synthesise, OutputKept
<1>7. CASE NextFile
  BY <1>7 DEF NextFile, OutputKept
<1>8. UNCHANGED vars => UNCHANGED fileVars
  BY DEF vars
<1> QED BY <1>1, <1>2, <1>3, <1>4, <1>5, <1>6, <1>7, <1>8 DEF Next

LEMMA OutputDeclared == OutputKept => LookaheadDeclared
PROOF
<1> SUFFICES ASSUME OutputKept, pc \in {"spectrum", "saved"} PROVE LookaheadDeclared
  BY DEF LookaheadDeclared
<1> DEFINE p == params
           in == Features(p, frames)
<1>1. ConfigOk(p) /\ enhanced = Forward(p, in) /\ Blocks!Runs(enhanced.spec) /\ Blocks!Runs(enhanced.mask)
  BY EnhanceAssumption DEF OutputKept
<1>2. p.version \in {"deepfilternet", "deepfilternet2", "deepfilternet3", "deepfilternetmf"}
  BY <1>1 DEF ConfigOk
<1> HIDE DEF p
<1>3. Declared(p, Forward(p, in))
  <2>1. CASE p.version = "deepfilternet"
    <3>1. Forward(p, in) = V1!DfNet(p, in)
      BY <2>1 DEF Forward
    <3> QED BY <1>1, <2>1, <3>1, Net1
  <2>2. CASE p.version = "deepfilternet2"
    <3>1. Forward(p, in) = V2!DfNet(p, in)
      BY <2>2 DEF Forward
    <3> QED BY <1>1, <2>2, <3>1, Net2
  <2>3. CASE p.version = "deepfilternet3"
    <3>1. Forward(p, in) = V3!DfNet(p, in)
      BY <2>3 DEF Forward
    <3> QED BY <1>1, <2>3, <3>1, Net3
  <2>4. CASE p.version = "deepfilternetmf"
    <3>1. Forward(p, in) = MF!DfNet(p, in)
      BY <2>4 DEF Forward
    <3> QED BY <1>1, <2>4, <3>1, NetMF
  <2> QED BY <1>2, <2>1, <2>2, <2>3, <2>4
<1> HIDE DEF in
<1>4. Declared(p, enhanced)
  BY <1>1, <1>3
<1>5. /\ enhanced.mask.ahead = MaskAhead(p) /\ enhanced.mask.c = 1 /\ enhanced.mask.f = MaskBands(p)
      /\ enhanced.spec.ahead = SpecAhead(p) /\ enhanced.spec.c = 1 /\ enhanced.spec.f = V1!FreqBins(p)
  BY <1>1, <1>4 DEF Declared
<1> QED BY <1>5, Zenon DEF LookaheadDeclared, MaskAhead, MaskBands, SpecAhead, ConvAhead, Masks, p

\* An enhanced frame and its mask depend on exactly as many later frames as
\* the configuration says, for every network, every option and any number of
\* iterations of the filter; the sizes are those of the input.
THEOREM LookaheadDeclaredHolds == Spec => []LookaheadDeclared
PROOF
<1> QED BY OutputKeptInit, OutputKeptStep, OutputDeclared, PTL DEF Spec

=============================================================================
