----------------------- MODULE FramePipelineProofs -----------------------
(***************************************************************************)
(* Proofs about the audio path, for any quantum, frame lengths, batch and  *)
(* number of calls and commands: frames and pools have the length that is  *)
(* processed, the line of samples is in order and complete, the prefill    *)
(* covers a round trip, and an array is in one place.  Samples, channels   *)
(* and lines are flattened sequences, so the first part is about           *)
(* FlattenSeq, the second about what each action does to the line, which   *)
(* is the join of its five parts, the third about what it does to arrays.  *)
(* The last part is about the ring buffers the two queues of samples are.  *)
(***************************************************************************)
EXTENDS FramePipeline, MonoRingBuffer, SequenceTheorems, FiniteSetTheorems, NaturalsInduction, WellFoundedInduction, TLAPS

(***************************************************************************)
(* Sequences of sequences.                                                 *)
(***************************************************************************)

\* Every set of natural numbers that is not empty has a least element.
LEMMA LeastOf ==
    ASSUME NEW T, T \subseteq Nat, T # {}
    PROVE  \E x \in T : \A y \in T : x <= y
PROOF
<1>1. \E x \in T : \A y \in T : <<y, x>> \notin OpToRel(<, Nat)
  BY NatLessThanWellFounded, WFMin
<1>2. PICK x \in T : \A y \in T : <<y, x>> \notin OpToRel(<, Nat)
  BY <1>1
<1>3. \A y \in T : ~(y < x)
  BY <1>2 DEF OpToRel
<1> QED BY <1>3

\* What the recursion in FlattenSeq says, for its first n values.
Joins(g, seqs, n) ==
    g = [i \in 1 .. n |-> IF i = 1 THEN seqs[i] ELSE g[i - 1] \o seqs[i]]

LEMMA JoinsAt ==
    ASSUME NEW g, NEW seqs, NEW n \in Nat, NEW i \in 1 .. n, Joins(g, seqs, n)
    PROVE  g[i] = IF i = 1 THEN seqs[i] ELSE g[i - 1] \o seqs[i]
BY DEF Joins

\* The recursion has a solution.
LEMMA JoinsExists ==
    ASSUME NEW seqs, NEW n \in Nat
    PROVE  \E g : Joins(g, seqs, n)
PROOF
<1> DEFINE T == {k \in Nat : ~ \E g : Joins(g, seqs, k)}
<1> SUFFICES ASSUME n \in T PROVE FALSE
  OBVIOUS
<1>1. PICK k \in T : \A y \in T : k <= y
  BY LeastOf
<1>2. CASE k = 0
  <2>1. Joins([i \in 1 .. 0 |-> seqs[i]], seqs, 0)
    BY DEF Joins
  <2> QED BY <1>1, <1>2, <2>1
<1>3. CASE k # 0
  <2>1. k - 1 \in Nat /\ k - 1 \notin T
    BY <1>1, <1>3
  <2>2. PICK g : Joins(g, seqs, k - 1)
    BY <2>1
  <2> DEFINE h == [i \in 1 .. k |-> IF i = k THEN IF k = 1 THEN seqs[k] ELSE g[k - 1] \o seqs[k]
                                    ELSE g[i]]
  <2>3. ASSUME NEW i \in 1 .. k
        PROVE  h[i] = IF i = 1 THEN seqs[i] ELSE h[i - 1] \o seqs[i]
    <3>1. CASE i = k
      BY <1>1, <1>3, <3>1
    <3>2. CASE i # k
      <4>1. i \in 1 .. k - 1 /\ h[i] = g[i]
        BY <1>1, <3>2
      <4>2. g[i] = IF i = 1 THEN seqs[i] ELSE g[i - 1] \o seqs[i]
        BY <2>2, <4>1 DEF Joins
      <4>3. i # 1 => h[i - 1] = g[i - 1]
        BY <1>1, <4>1
      <4> QED BY <4>1, <4>2, <4>3
    <3> QED BY <3>1, <3>2
  <2>4. h = [i \in 1 .. k |-> IF i = 1 THEN seqs[i] ELSE h[i - 1] \o seqs[i]]
    <3>1. h = [i \in 1 .. k |-> h[i]]
      OBVIOUS
    <3> HIDE DEF h
    <3> QED BY <2>3, <3>1
  <2> HIDE DEF h
  <2>5. Joins(h, seqs, k)
    BY <2>4 DEF Joins
  <2> QED BY <1>1, <2>5
<1> QED BY <1>2, <1>3

\* Two solutions agree as far as both go, if the sequences they join do.
LEMMA JoinsUnique ==
    ASSUME NEW g, NEW h, NEW s, NEW t, NEW m \in Nat, NEW n \in Nat, m <= n,
           Joins(g, s, m), Joins(h, t, n), \A i \in 1 .. m : s[i] = t[i]
    PROVE  \A i \in 1 .. m : g[i] = h[i]
PROOF
<1> DEFINE T == {i \in 1 .. m : g[i] # h[i]}
<1> SUFFICES ASSUME T # {} PROVE FALSE
  OBVIOUS
<1>1. PICK i \in T : \A y \in T : i <= y
  <2>1. T \subseteq Nat
    OBVIOUS
  <2> QED BY <2>1, LeastOf
<1>2. g[i] = IF i = 1 THEN s[i] ELSE g[i - 1] \o s[i]
  <2>1. i \in 1 .. m
    OBVIOUS
  <2> HIDE DEF T
  <2> QED BY <2>1 DEF Joins
<1>3. h[i] = IF i = 1 THEN t[i] ELSE h[i - 1] \o t[i]
  <2>1. i \in 1 .. n
    OBVIOUS
  <2> HIDE DEF T
  <2> QED BY <2>1 DEF Joins
<1>4. i # 1 => i - 1 \in 1 .. m /\ i - 1 \notin T
  BY <1>1
<1>5. s[i] = t[i]
  OBVIOUS
<1> QED BY <1>1, <1>2, <1>3, <1>4, <1>5

\* FlattenSeq by a solution of its recursion.
LEMMA FlattenJoins ==
    ASSUME NEW S, NEW ss \in Seq(Seq(S)), NEW g, Joins(g, ss, Len(ss))
    PROVE  FlattenSeq(ss) = IF ss = <<>> THEN <<>> ELSE g[Len(ss)]
PROOF
<1> DEFINE n == Len(ss)
           f == CHOOSE f : Joins(f, ss, n)
<1>1. n \in Nat /\ (n = 0 <=> ss = <<>>)
  BY EmptySeq, LenProperties
<1>2. CASE n = 0
  BY <1>1, <1>2 DEF FlattenSeq
<1>3. CASE n # 0
  <2>1. FlattenSeq(ss) = f[n]
    BY <1>3 DEF FlattenSeq, Joins
  <2>2. Joins(f, ss, n)
    <3> HIDE DEF n
    <3>1. \E x : Joins(x, ss, n)
      BY <1>1, JoinsExists
    <3> QED BY <3>1
  <2> HIDE DEF f
  <2>3. \A i \in 1 .. n : f[i] = g[i]
    BY <1>1, <2>2, JoinsUnique
  <2>4. n \in 1 .. n
    BY <1>1, <1>3
  <2> QED BY <1>1, <1>3, <2>1, <2>3, <2>4
<1> QED BY <1>2, <1>3

\* FlattenSeq one sequence at a time.
LEMMA FlattenAppend ==
    ASSUME NEW S, NEW ss \in Seq(Seq(S)), NEW e \in Seq(S)
    PROVE  FlattenSeq(Append(ss, e)) = IF ss = <<>> THEN e ELSE FlattenSeq(ss) \o e
PROOF
<1> DEFINE n == Len(ss)
           tt == Append(ss, e)
<1>1. n \in Nat /\ (n = 0 <=> ss = <<>>)
  BY EmptySeq, LenProperties
<1>0. PICK m \in Nat : m = n + 1
  BY <1>1
<1>2. /\ tt \in Seq(Seq(S)) /\ tt # <<>> /\ Len(tt) = m /\ tt[m] = e
      /\ \A i \in 1 .. n : ss[i] = tt[i]
  BY <1>0, AppendProperties
<1> HIDE DEF tt, n
<1>3. PICK g : Joins(g, ss, n)
  BY <1>1, JoinsExists
<1>4. PICK h : Joins(h, tt, m)
  BY <1>1, JoinsExists
<1>5. FlattenSeq(ss) = IF ss = <<>> THEN <<>> ELSE g[n]
  BY <1>3, FlattenJoins DEF n
<1>6. FlattenSeq(tt) = h[m]
  BY <1>2, <1>4, FlattenJoins
<1>7. h[m] = IF n = 0 THEN e ELSE h[n] \o e
  <2>1. m \in 1 .. m /\ (m = 1 <=> n = 0) /\ m - 1 = n
    BY <1>0, <1>1
  <2>2. h[m] = IF m = 1 THEN tt[m] ELSE h[m - 1] \o tt[m]
    BY <1>4, <2>1, JoinsAt
  <2> QED BY <1>2, <2>1, <2>2
<1>8. n # 0 => g[n] = h[n]
  <2>1. \A i \in 1 .. n : g[i] = h[i]
    <3>1. n <= m
      BY <1>0, <1>1
    <3>2. n \in Nat /\ m \in Nat /\ Joins(g, ss, n) /\ Joins(h, tt, m)
      BY <1>1, <1>3, <1>4
    <3>3. \A i \in 1 .. n : ss[i] = tt[i]
      BY <1>2
    <3> QED BY <3>1, <3>2, <3>3, JoinsUnique
  <2>2. n # 0 => n \in 1 .. n
    BY <1>1
  <2> QED BY <2>1, <2>2
<1> QED BY <1>1, <1>5, <1>6, <1>7, <1>8 DEF tt

\* The same without the empty case, and its type.
LEMMA FlattenType ==
    ASSUME NEW S, NEW ss \in Seq(Seq(S))
    PROVE  FlattenSeq(ss) \in Seq(S)
PROOF
<1> DEFINE T == {k \in Nat : \E tt \in Seq(Seq(S)) : Len(tt) = k /\ FlattenSeq(tt) \notin Seq(S)}
<1> SUFFICES ASSUME FlattenSeq(ss) \notin Seq(S) PROVE FALSE
  OBVIOUS
<1>1. Len(ss) \in T
  BY LenProperties
<1>2. PICK k \in T : \A y \in T : k <= y
  BY <1>1, LeastOf
<1>3. PICK tt \in Seq(Seq(S)) : Len(tt) = k /\ FlattenSeq(tt) \notin Seq(S)
  BY <1>2
<1>4. CASE tt = <<>>
  <2>1. FlattenSeq(tt) = <<>>
    BY <1>4 DEF FlattenSeq
  <2> QED BY <1>3, <2>1
<1>5. CASE tt # <<>>
  <2>1. PICK s \in Seq(Seq(S)), e \in Seq(S) : tt = Append(s, e)
    BY <1>5, SequenceEmptyOrAppend
  <2>2. Len(s) \in Nat /\ Len(tt) = Len(s) + 1
    BY <2>1, AppendProperties, LenProperties
  <2>3. Len(s) \notin T
    <3> HIDE DEF T
    <3> QED BY <1>2, <1>3, <2>2
  <2>4. FlattenSeq(s) \in Seq(S)
    BY <2>2, <2>3
  <2>5. FlattenSeq(tt) = IF s = <<>> THEN e ELSE FlattenSeq(s) \o e
    BY <2>1, FlattenAppend
  <2>6. FlattenSeq(s) \o e \in Seq(S)
    BY <2>4, ConcatProperties
  <2> QED BY <1>3, <2>5, <2>6
<1> QED BY <1>4, <1>5

LEMMA FlattenOne ==
    ASSUME NEW S, NEW ss \in Seq(Seq(S)), NEW e \in Seq(S)
    PROVE  FlattenSeq(Append(ss, e)) = FlattenSeq(ss) \o e
PROOF
<1>1. FlattenSeq(Append(ss, e)) = IF ss = <<>> THEN e ELSE FlattenSeq(ss) \o e
  BY FlattenAppend
<1>2. ss = <<>> => FlattenSeq(ss) = <<>>
  BY DEF FlattenSeq
<1>3. <<>> \o e = e
  BY ConcatEmptySeq
<1> QED BY <1>1, <1>2, <1>3

\* FlattenSeq and concatenation.
LEMMA FlattenConcat ==
    ASSUME NEW S, NEW ss \in Seq(Seq(S)), NEW tt \in Seq(Seq(S))
    PROVE  FlattenSeq(ss \o tt) = FlattenSeq(ss) \o FlattenSeq(tt)
PROOF
<1> DEFINE good(u) == FlattenSeq(ss \o u) = FlattenSeq(ss) \o FlattenSeq(u)
           T == {k \in Nat : \E u \in Seq(Seq(S)) : Len(u) = k /\ ~good(u)}
<1> SUFFICES ASSUME ~good(tt) PROVE FALSE
  OBVIOUS
<1> HIDE DEF good
<1>1. Len(tt) \in T
  BY LenProperties
<1>2. PICK k \in T : \A y \in T : k <= y
  BY <1>1, LeastOf
<1>3. PICK u \in Seq(Seq(S)) : Len(u) = k /\ ~good(u)
  BY <1>2
<1>0. FlattenSeq(ss) \in Seq(S)
  BY FlattenType
<1>4. CASE u = <<>>
  <2>1. FlattenSeq(u) = <<>>
    BY <1>4 DEF FlattenSeq
  <2>2. ss \o u = ss
    BY <1>4, ConcatEmptySeq
  <2>3. FlattenSeq(ss) \o <<>> = FlattenSeq(ss)
    BY <1>0, ConcatEmptySeq
  <2> QED BY <1>3, <2>1, <2>2, <2>3 DEF good
<1>5. CASE u # <<>>
  <2>1. PICK v \in Seq(Seq(S)), e \in Seq(S) : u = Append(v, e)
    BY <1>5, SequenceEmptyOrAppend
  <2>2. Len(v) \in Nat /\ Len(u) = Len(v) + 1
    BY <2>1, AppendProperties, LenProperties
  <2>3. Len(v) \notin T
    <3> HIDE DEF T
    <3> QED BY <1>2, <1>3, <2>2
  <2>4. FlattenSeq(ss \o v) = FlattenSeq(ss) \o FlattenSeq(v)
    BY <2>2, <2>3 DEF good
  <2>5. ss \o v \in Seq(Seq(S)) /\ ss \o u = Append(ss \o v, e)
    <3>1. u = v \o <<e>> /\ <<e>> \in Seq(Seq(S))
      BY <2>1, AppendIsConcat
    <3>2. ss \o v \in Seq(Seq(S))
      BY ConcatProperties
    <3>3. Append(ss \o v, e) = (ss \o v) \o <<e>>
      BY <3>2, AppendIsConcat
    <3>4. (ss \o v) \o <<e>> = ss \o (v \o <<e>>)
      BY <3>1, ConcatAssociative, SMTT(30)
    <3> QED BY <3>1, <3>2, <3>3, <3>4
  <2>6. FlattenSeq(ss \o u) = FlattenSeq(ss \o v) \o e
    BY <2>5, FlattenOne
  <2>7. FlattenSeq(u) = FlattenSeq(v) \o e /\ FlattenSeq(v) \in Seq(S)
    BY <2>1, FlattenOne, FlattenType
  <2>8. (FlattenSeq(ss) \o FlattenSeq(v)) \o e = FlattenSeq(ss) \o (FlattenSeq(v) \o e)
    BY <1>0, <2>7, ConcatAssociative, SMTT(30)
  <2>9. good(u)
    BY <2>4, <2>6, <2>7, <2>8 DEF good
  <2> QED BY <1>3, <2>9
<1> QED BY <1>4, <1>5

LEMMA FlattenEmpty == FlattenSeq(<<>>) = <<>>
BY DEF FlattenSeq

LEMMA FlattenSingle ==
    ASSUME NEW S, NEW e \in Seq(S)
    PROVE  FlattenSeq(<<e>>) = e
PROOF
<1>1. <<>> \in Seq(Seq(S)) /\ Append(<<>>, e) = <<e>>
  OBVIOUS
<1>2. FlattenSeq(Append(<<>>, e)) = e
  BY <1>1, FlattenAppend
<1> QED BY <1>1, <1>2

LEMMA FlattenHead ==
    ASSUME NEW S, NEW ss \in Seq(Seq(S)), ss # <<>>
    PROVE  FlattenSeq(ss) = Head(ss) \o FlattenSeq(Tail(ss))
PROOF
<1>1. Head(ss) \in Seq(S) /\ Tail(ss) \in Seq(Seq(S)) /\ <<Head(ss)>> \in Seq(Seq(S))
  BY HeadTailProperties
<1>2. ss = <<Head(ss)>> \o Tail(ss)
  OBVIOUS
<1>3. FlattenSeq(<<Head(ss)>> \o Tail(ss)) = FlattenSeq(<<Head(ss)>>) \o FlattenSeq(Tail(ss))
  BY <1>1, FlattenConcat
<1>4. FlattenSeq(<<Head(ss)>>) = Head(ss)
  BY <1>1, FlattenSingle
<1> QED BY <1>2, <1>3, <1>4

\* What is in the flat sequence was in one of its parts.
LEMMA FlattenRange ==
    ASSUME NEW S, NEW ss \in Seq(Seq(S)), NEW R, \A i \in 1 .. Len(ss) : Range(ss[i]) \subseteq R
    PROVE  Range(FlattenSeq(ss)) \subseteq R
PROOF
<1> DEFINE good(u) == (\A i \in 1 .. Len(u) : Range(u[i]) \subseteq R) => Range(FlattenSeq(u)) \subseteq R
           T == {k \in Nat : \E u \in Seq(Seq(S)) : Len(u) = k /\ ~good(u)}
<1> SUFFICES ASSUME ~good(ss) PROVE FALSE
  OBVIOUS
<1> HIDE DEF good
<1>1. Len(ss) \in T
  BY LenProperties
<1>2. PICK k \in T : \A y \in T : k <= y
  BY <1>1, LeastOf
<1>3. PICK u \in Seq(Seq(S)) : Len(u) = k /\ ~good(u)
  BY <1>2
<1>4. CASE u = <<>>
  <2>1. Range(FlattenSeq(u)) = {}
    BY <1>4, FlattenEmpty DEF Range
  <2> QED BY <1>3, <2>1 DEF good
<1>5. CASE u # <<>>
  <2>1. PICK v \in Seq(Seq(S)), e \in Seq(S) : u = Append(v, e)
    BY <1>5, SequenceEmptyOrAppend
  <2>2. Len(v) \in Nat /\ Len(u) = Len(v) + 1 /\ u[Len(v) + 1] = e /\ \A i \in 1 .. Len(v) : u[i] = v[i]
    BY <2>1, AppendProperties, LenProperties
  <2>3. good(v)
    <3>1. Len(v) \notin T
      <4> HIDE DEF T
      <4> QED BY <1>2, <1>3, <2>2
    <3> QED BY <2>2, <3>1
  <2>4. Range(FlattenSeq(u)) = Range(FlattenSeq(v)) \cup Range(e)
    <3>1. FlattenSeq(u) = FlattenSeq(v) \o e /\ FlattenSeq(v) \in Seq(S)
      BY <2>1, FlattenOne, FlattenType
    <3> QED BY <3>1, RangeConcatenation
  <2>5. ASSUME \A i \in 1 .. Len(u) : Range(u[i]) \subseteq R PROVE Range(FlattenSeq(u)) \subseteq R
    <3>1. Range(e) \subseteq R
      <4>1. Len(u) \in 1 .. Len(u) /\ u[Len(u)] = e
        BY <2>2
      <4> QED BY <2>5, <4>1
    <3>2. \A i \in 1 .. Len(v) : Range(v[i]) \subseteq R
      BY <2>2, <2>5
    <3>3. Range(FlattenSeq(v)) \subseteq R
      BY <2>3, <3>2 DEF good
    <3> QED BY <2>4, <3>1, <3>3
  <2> QED BY <1>3, <2>5 DEF good
<1> QED BY <1>4, <1>5

\* Parts of one length.
LEMMA FlattenLength ==
    ASSUME NEW S, NEW ss \in Seq(Seq(S)), NEW F \in Nat, \A i \in 1 .. Len(ss) : Len(ss[i]) = F
    PROVE  Len(FlattenSeq(ss)) = Len(ss) * F
PROOF
<1> DEFINE good(u) == (\A i \in 1 .. Len(u) : Len(u[i]) = F) => Len(FlattenSeq(u)) = Len(u) * F
           T == {k \in Nat : \E u \in Seq(Seq(S)) : Len(u) = k /\ ~good(u)}
<1> SUFFICES ASSUME ~good(ss) PROVE FALSE
  OBVIOUS
<1> HIDE DEF good
<1>1. Len(ss) \in T
  BY LenProperties
<1>2. PICK k \in T : \A y \in T : k <= y
  BY <1>1, LeastOf
<1>3. PICK u \in Seq(Seq(S)) : Len(u) = k /\ ~good(u)
  BY <1>2
<1>4. CASE u = <<>>
  <2>1. Len(FlattenSeq(u)) = 0 /\ Len(u) = 0
    BY <1>4, FlattenEmpty
  <2> QED BY <1>3, <2>1 DEF good
<1>5. CASE u # <<>>
  <2>1. PICK v \in Seq(Seq(S)), e \in Seq(S) : u = Append(v, e)
    BY <1>5, SequenceEmptyOrAppend
  <2>2. Len(v) \in Nat /\ Len(u) = Len(v) + 1 /\ u[Len(v) + 1] = e /\ \A i \in 1 .. Len(v) : u[i] = v[i]
    BY <2>1, AppendProperties, LenProperties
  <2>3. good(v)
    <3>1. Len(v) \notin T
      <4> HIDE DEF T
      <4> QED BY <1>2, <1>3, <2>2
    <3> QED BY <2>2, <3>1
  <2>4. Len(FlattenSeq(u)) = Len(FlattenSeq(v)) + Len(e)
    BY <2>1, FlattenOne, FlattenType, ConcatProperties
  <2>5. ASSUME \A i \in 1 .. Len(u) : Len(u[i]) = F PROVE Len(FlattenSeq(u)) = Len(u) * F
    <3>1. Len(e) = F
      BY <2>2, <2>5
    <3>2. \A i \in 1 .. Len(v) : Len(v[i]) = F
      BY <2>2, <2>5
    <3>3. Len(FlattenSeq(v)) = Len(v) * F
      BY <2>3, <3>2 DEF good
    <3>4. (Len(v) + 1) * F = Len(v) * F + F
      BY <2>2
    <3> QED BY <2>2, <2>4, <3>1, <3>3, <3>4
  <2> QED BY <1>3, <2>5 DEF good
<1> QED BY <1>4, <1>5

\* A sequence cut into n parts of F, and the rest.
Cuts(h, F, n) == [i \in 1 .. n |-> SubSeq(h, (i - 1) * F + 1, i * F)]

LEMMA FlattenCuts ==
    ASSUME NEW S, NEW h \in Seq(S), NEW F \in Nat, NEW n \in Nat, n * F <= Len(h)
    PROVE  /\ Cuts(h, F, n) \in Seq(Seq(S)) /\ Len(Cuts(h, F, n)) = n
           /\ FlattenSeq(Cuts(h, F, n)) = SubSeq(h, 1, n * F)
PROOF
<1> DEFINE cuts(m) == [i \in 1 .. m |-> SubSeq(h, (i - 1) * F + 1, i * F)]
           good(m) == m * F <= Len(h) => /\ cuts(m) \in Seq(Seq(S)) /\ Len(cuts(m)) = m
                                         /\ FlattenSeq(cuts(m)) = SubSeq(h, 1, m * F)
           T == {k \in Nat : ~good(k)}
<1> HIDE DEF good
<1> SUFFICES ASSUME ~good(n) PROVE FALSE
  BY DEF good, Cuts
<1>1. n \in T
  OBVIOUS
<1>2. PICK k \in T : \A y \in T : k <= y
  BY <1>1, LeastOf
<1>3. k \in Nat /\ Len(h) \in Nat /\ ~good(k)
  BY LenProperties
<1>4. CASE k = 0
  <2>1. cuts(0) = <<>> /\ SubSeq(h, 1, 0 * F) = <<>>
    <3>1. 0 * F = 0
      OBVIOUS
    <3> QED BY <3>1, SubSeqEmpty
  <2>2. <<>> \in Seq(Seq(S)) /\ Len(<<>>) = 0
    OBVIOUS
  <2> QED BY <1>3, <1>4, <2>1, <2>2, FlattenEmpty DEF good
<1>5. CASE k # 0
  <2>1. PICK m \in Nat : k = m + 1
    <3>1. k - 1 \in Nat /\ k = (k - 1) + 1
      BY <1>3, <1>5
    <3> QED BY <3>1
  <2>2. good(m)
    BY <1>2, <2>1
  <2> SUFFICES ASSUME k * F <= Len(h)
               PROVE  /\ cuts(k) \in Seq(Seq(S)) /\ Len(cuts(k)) = k
                      /\ FlattenSeq(cuts(k)) = SubSeq(h, 1, k * F)
    BY <1>3 DEF good
  <2> DEFINE e == SubSeq(h, m * F + 1, k * F)
             p == m * F
             q == k * F
  <2>3. p \in Nat /\ q \in Nat /\ q = p + F /\ q <= Len(h)
    BY <2>1
  <2>4. cuts(m) \in Seq(Seq(S)) /\ Len(cuts(m)) = m /\ FlattenSeq(cuts(m)) = SubSeq(h, 1, p)
    <3>1. m * F <= Len(h)
      BY <1>3, <2>3
    <3> HIDE DEF cuts
    <3> QED BY <2>2, <3>1 DEF good
  <2>5. e \in Seq(S)
    <3> HIDE DEF p, q
    <3>1. \A i \in p + 1 .. q : h[i] \in S
      BY <2>3, ElementOfSeq
    <3>2. SubSeq(h, p + 1, q) \in Seq(S)
      BY <2>3, <3>1, SubSeqProperties
    <3> QED BY <3>2 DEF p, q
  <2>6. cuts(k) = Append(cuts(m), e)
    <3> DEFINE a == Append(cuts(m), e)
    <3>1. a \in Seq(Seq(S)) /\ Len(a) = k /\ a[k] = e /\ \A i \in 1 .. m : a[i] = cuts(m)[i]
      <4> HIDE DEF e, cuts
      <4>1. cuts(m) \in Seq(Seq(S)) /\ e \in Seq(S) /\ Len(cuts(m)) = m
        BY <2>4, <2>5
      <4>2. /\ Append(cuts(m), e) \in Seq(Seq(S)) /\ Len(Append(cuts(m), e)) = m + 1
            /\ Append(cuts(m), e)[m + 1] = e
            /\ \A i \in 1 .. m : Append(cuts(m), e)[i] = cuts(m)[i]
        BY <4>1, AppendProperties
      <4> QED BY <2>1, <4>2
    <3>2. a = [i \in 1 .. k |-> a[i]]
      <4> HIDE DEF a
      <4> QED BY <3>1
    <3> HIDE DEF a
    <3>3. ASSUME NEW i \in 1 .. k PROVE a[i] = SubSeq(h, (i - 1) * F + 1, i * F)
      <4>1. CASE i = k
        <5>1. k - 1 = m
          BY <2>1
        <5> QED BY <3>1, <4>1, <5>1
      <4>2. CASE i # k
        <5>1. i \in 1 .. m
          BY <2>1, <4>2
        <5> QED BY <3>1, <5>1
      <4> QED BY <4>1, <4>2
    <3> QED BY <3>2, <3>3 DEF a
  <2>7. FlattenSeq(cuts(k)) = SubSeq(h, 1, p) \o e
    <3> HIDE DEF e, p
    <3>1. FlattenSeq(Append(cuts(m), e)) = FlattenSeq(cuts(m)) \o e
      <4> HIDE DEF cuts
      <4> QED BY <2>4, <2>5, FlattenOne
    <3> QED BY <2>4, <2>6, <3>1
  <2>8. SubSeq(h, 1, p) \o SubSeq(h, p + 1, q) = SubSeq(h, 1, q)
    <3> HIDE DEF p, q
    <3>1. 1 \in 1 .. Len(h) + 1 /\ p \in 0 .. Len(h) /\ q \in p .. Len(h)
      BY <1>3, <2>3
    <3> QED BY <3>1, ConcatAdjacentSubSeq
  <2>9. cuts(k) \in Seq(Seq(S)) /\ Len(cuts(k)) = k
    <3> HIDE DEF e, cuts
    <3>1. cuts(m) \in Seq(Seq(S)) /\ e \in Seq(S) /\ Len(cuts(m)) = m
      BY <2>4, <2>5
    <3>2. Append(cuts(m), e) \in Seq(Seq(S)) /\ Len(Append(cuts(m), e)) = m + 1
      BY <3>1, AppendProperties
    <3> QED BY <2>1, <2>6, <3>2
  <2> QED BY <2>7, <2>8, <2>9
<1> QED BY <1>4, <1>5

-----------------------------------------------------------------------------
(* Frames, the channels that carry them, and the numbered samples.         *)

Buf == [id : Nat, len : Nat]
Piece == [buf : Buf, samples : Seq(Nat)]
Args == {"none", "on", "off"} \cup Modules \cup Nat
Msg == [type : {"PROCESS_FRAME_BATCH", "FRAME_RESULT_BATCH", "SET_MODULE", "SET_ENABLED", "DESTROY",
                "MODULE_CHANGED", "ERROR"},
        arg : Args, frames : Seq(Piece), recycles : Seq(Buf), age : Nat]

LEMMA SamplesMap ==
    ASSUME NEW f \in Seq(Piece)
    PROVE  LET m == [i \in DOMAIN f |-> f[i].samples]
           IN  m \in Seq(Seq(Nat)) /\ Len(m) = Len(f) /\ \A i \in 1 .. Len(f) : m[i] = f[i].samples
PROOF
<1> DEFINE m == [i \in DOMAIN f |-> f[i].samples]
<1>1. DOMAIN f = 1 .. Len(f) /\ Len(f) \in Nat
  BY LenProperties
<1>2. \A i \in 1 .. Len(f) : f[i] \in Piece
  BY ElementOfSeq
<1>3. \A i \in 1 .. Len(f) : f[i].samples \in Seq(Nat)
  BY <1>2 DEF Piece
<1>4. m \in [1 .. Len(f) -> Seq(Nat)]
  BY <1>1, <1>3
<1> QED BY <1>1, <1>4

LEMMA SamplesType ==
    ASSUME NEW f \in Seq(Piece)
    PROVE  SamplesOf(f) \in Seq(Nat)
BY SamplesMap, FlattenType DEF SamplesOf

LEMMA SamplesEmpty == SamplesOf(<<>>) = <<>>
PROOF
<1>1. [i \in DOMAIN <<>> |-> <<>>[i].samples] = <<>>
  OBVIOUS
<1> QED BY <1>1, FlattenEmpty DEF SamplesOf

LEMMA SamplesConcat ==
    ASSUME NEW f \in Seq(Piece), NEW g \in Seq(Piece)
    PROVE  SamplesOf(f \o g) = SamplesOf(f) \o SamplesOf(g)
PROOF
<1> DEFINE m(x) == [i \in DOMAIN x |-> x[i].samples]
<1>1. /\ f \o g \in Seq(Piece) /\ Len(f \o g) = Len(f) + Len(g) /\ Len(f) \in Nat /\ Len(g) \in Nat
      /\ \A i \in 1 .. Len(f) + Len(g) : (f \o g)[i] = IF i <= Len(f) THEN f[i] ELSE g[i - Len(f)]
  BY ConcatProperties, LenProperties
<1>2. \A x \in Seq(Piece) :
        m(x) \in Seq(Seq(Nat)) /\ Len(m(x)) = Len(x) /\ \A i \in 1 .. Len(x) : m(x)[i] = x[i].samples
  BY SamplesMap
<1>3. SamplesOf(f \o g) = FlattenSeq(m(f \o g)) /\ SamplesOf(f) = FlattenSeq(m(f)) /\ SamplesOf(g) = FlattenSeq(m(g))
  BY DEF SamplesOf
<1> HIDE DEF m
<1>4. m(f \o g) = m(f) \o m(g)
  <2>0. m(f) \in Seq(Seq(Nat)) /\ Len(m(f)) = Len(f) /\ m(g) \in Seq(Seq(Nat)) /\ Len(m(g)) = Len(g)
    BY <1>2
  <2>1. m(f) \o m(g) \in Seq(Seq(Nat)) /\ Len(m(f) \o m(g)) = Len(f) + Len(g)
    <3>1. m(f) \o m(g) \in Seq(Seq(Nat)) /\ Len(m(f) \o m(g)) = Len(m(f)) + Len(m(g))
      BY <2>0, ConcatProperties
    <3> QED BY <2>0, <3>1
  <2>2. m(f \o g) \in Seq(Seq(Nat)) /\ Len(m(f \o g)) = Len(f) + Len(g)
    BY <1>1, <1>2
  <2>3. ASSUME NEW i \in 1 .. Len(f) + Len(g) PROVE m(f \o g)[i] = (m(f) \o m(g))[i]
    <3>1. m(f \o g)[i] = (f \o g)[i].samples
      BY <1>1, <1>2
    <3>2. (m(f) \o m(g))[i] = IF i <= Len(f) THEN m(f)[i] ELSE m(g)[i - Len(f)]
      BY <2>0, ConcatProperties
    <3>3. CASE i <= Len(f)
      <4>1. i \in 1 .. Len(f)
        BY <1>1, <3>3
      <4> QED BY <1>1, <1>2, <3>1, <3>2, <3>3, <4>1
    <3>4. CASE ~(i <= Len(f))
      <4>1. i - Len(f) \in 1 .. Len(g)
        BY <1>1, <3>4
      <4> QED BY <1>1, <1>2, <3>1, <3>2, <3>4, <4>1
    <3> QED BY <3>3, <3>4
  <2> QED BY <2>1, <2>2, <2>3, SeqEqual
<1>5. m(f) \in Seq(Seq(Nat)) /\ m(g) \in Seq(Seq(Nat))
  BY <1>2
<1>6. FlattenSeq(m(f) \o m(g)) = FlattenSeq(m(f)) \o FlattenSeq(m(g))
  BY <1>5, FlattenConcat
<1> QED BY <1>3, <1>4, <1>6

LEMMA SamplesAppend ==
    ASSUME NEW f \in Seq(Piece), NEW x \in Piece
    PROVE  SamplesOf(Append(f, x)) = SamplesOf(f) \o x.samples
PROOF
<1>1. x.samples \in Seq(Nat)
  BY DEF Piece
<1>2. PICK w \in Seq(Piece) : w = <<x>>
  <2>1. <<x>> \in Seq(Piece)
    OBVIOUS
  <2> QED BY <2>1
<1>3. SamplesOf(w) = x.samples
  <2>1. [i \in DOMAIN w |-> w[i].samples] = <<x.samples>>
    BY <1>2
  <2> QED BY <1>1, <2>1, FlattenSingle DEF SamplesOf
<1>4. Append(f, x) = f \o w
  BY <1>2, AppendIsConcat
<1> QED BY <1>3, <1>4, SamplesConcat

\* Frames of one length.
LEMMA SamplesLength ==
    ASSUME NEW f \in Seq(Piece), NEW F \in Nat, \A i \in 1 .. Len(f) : Len(f[i].samples) = F
    PROVE  Len(SamplesOf(f)) = Len(f) * F
PROOF
<1> DEFINE m == [i \in DOMAIN f |-> f[i].samples]
<1>1. m \in Seq(Seq(Nat)) /\ Len(m) = Len(f) /\ \A i \in 1 .. Len(f) : m[i] = f[i].samples
  BY SamplesMap
<1>2. SamplesOf(f) = FlattenSeq(m)
  BY DEF SamplesOf
<1> HIDE DEF m
<1>3. \A i \in 1 .. Len(m) : Len(m[i]) = F
  BY <1>1
<1> QED BY <1>1, <1>2, <1>3, FlattenLength

LEMMA CarriedMap ==
    ASSUME NEW c \in Seq(Msg)
    PROVE  LET m == [i \in DOMAIN c |-> SamplesOf(c[i].frames)]
           IN  /\ m \in Seq(Seq(Nat)) /\ Len(m) = Len(c)
               /\ \A i \in 1 .. Len(c) : m[i] = SamplesOf(c[i].frames)
PROOF
<1> DEFINE m == [i \in DOMAIN c |-> SamplesOf(c[i].frames)]
<1>1. DOMAIN c = 1 .. Len(c) /\ Len(c) \in Nat
  BY LenProperties
<1>2. \A i \in 1 .. Len(c) : c[i] \in Msg
  BY ElementOfSeq
<1>3. \A i \in 1 .. Len(c) : c[i].frames \in Seq(Piece)
  BY <1>2 DEF Msg
<1>4. \A i \in 1 .. Len(c) : SamplesOf(c[i].frames) \in Seq(Nat)
  BY <1>3, SamplesType
<1>5. m \in [1 .. Len(c) -> Seq(Nat)]
  BY <1>1, <1>4
<1> QED BY <1>1, <1>5

LEMMA CarriedType ==
    ASSUME NEW c \in Seq(Msg)
    PROVE  Carried(c) \in Seq(Nat)
BY CarriedMap, FlattenType DEF Carried

LEMMA CarriedEmpty == Carried(<<>>) = <<>>
PROOF
<1>1. [i \in DOMAIN <<>> |-> SamplesOf(<<>>[i].frames)] = <<>>
  OBVIOUS
<1> QED BY <1>1, FlattenEmpty DEF Carried

\* Channels that carry the same frames.
LEMMA CarriedSame ==
    ASSUME NEW c \in Seq(Msg), NEW d \in Seq(Msg), Len(c) = Len(d),
           \A i \in 1 .. Len(c) : c[i].frames = d[i].frames
    PROVE  Carried(c) = Carried(d)
PROOF
<1>1. DOMAIN c = DOMAIN d /\ DOMAIN c = 1 .. Len(c)
  BY LenProperties
<1>2. [i \in DOMAIN c |-> SamplesOf(c[i].frames)] = [i \in DOMAIN d |-> SamplesOf(d[i].frames)]
  BY <1>1
<1> QED BY <1>2 DEF Carried

LEMMA CarriedAppend ==
    ASSUME NEW c \in Seq(Msg), NEW x \in Msg
    PROVE  Carried(Append(c, x)) = Carried(c) \o SamplesOf(x.frames)
PROOF
<1> DEFINE m(y) == [i \in DOMAIN y |-> SamplesOf(y[i].frames)]
           s == SamplesOf(x.frames)
<1>1. /\ Append(c, x) \in Seq(Msg) /\ Len(Append(c, x)) = Len(c) + 1 /\ Len(c) \in Nat
      /\ Append(c, x)[Len(c) + 1] = x /\ \A i \in 1 .. Len(c) : Append(c, x)[i] = c[i]
  BY AppendProperties, LenProperties
<1>2. \A y \in Seq(Msg) : m(y) \in Seq(Seq(Nat)) /\ Len(m(y)) = Len(y)
                          /\ \A i \in 1 .. Len(y) : m(y)[i] = SamplesOf(y[i].frames)
  BY CarriedMap
<1>3. Carried(Append(c, x)) = FlattenSeq(m(Append(c, x))) /\ Carried(c) = FlattenSeq(m(c))
  BY DEF Carried
<1>4. s \in Seq(Nat)
  BY SamplesType DEF Msg
<1> HIDE DEF m
<1>5. m(Append(c, x)) = Append(m(c), s)
  <2>1. /\ Append(m(c), s) \in Seq(Seq(Nat)) /\ Len(Append(m(c), s)) = Len(c) + 1
        /\ Append(m(c), s)[Len(c) + 1] = s /\ \A i \in 1 .. Len(c) : Append(m(c), s)[i] = m(c)[i]
    <3>1. m(c) \in Seq(Seq(Nat)) /\ Len(m(c)) = Len(c)
      BY <1>2
    <3> HIDE DEF s
    <3> QED BY <1>4, <3>1, AppendProperties
  <2>2. m(Append(c, x)) \in Seq(Seq(Nat)) /\ Len(m(Append(c, x))) = Len(c) + 1
    BY <1>1, <1>2
  <2>3. ASSUME NEW i \in 1 .. Len(c) + 1 PROVE m(Append(c, x))[i] = Append(m(c), s)[i]
    <3>1. m(Append(c, x))[i] = SamplesOf(Append(c, x)[i].frames)
      BY <1>1, <1>2
    <3>2. CASE i = Len(c) + 1
      BY <1>1, <2>1, <3>1, <3>2
    <3>3. CASE i # Len(c) + 1
      <4>1. i \in 1 .. Len(c)
        BY <1>1, <3>3
      <4>2. m(c)[i] = SamplesOf(c[i].frames)
        BY <1>2, <4>1
      <4> QED BY <1>1, <2>1, <3>1, <4>1, <4>2
    <3> QED BY <3>2, <3>3
  <2> HIDE DEF s
  <2> QED BY <2>1, <2>2, <2>3, SeqEqual
<1> HIDE DEF s
<1>6. FlattenSeq(Append(m(c), s)) = FlattenSeq(m(c)) \o s
  BY <1>2, <1>4, FlattenOne
<1> QED BY <1>3, <1>5, <1>6 DEF s

LEMMA CarriedHead ==
    ASSUME NEW c \in Seq(Msg), c # <<>>
    PROVE  Carried(c) = SamplesOf(Head(c).frames) \o Carried(Tail(c))
PROOF
<1> DEFINE m(y) == [i \in DOMAIN y |-> SamplesOf(y[i].frames)]
<1>1. /\ Tail(c) \in Seq(Msg) /\ Len(Tail(c)) = Len(c) - 1 /\ Len(c) \in Nat
      /\ \A i \in 1 .. Len(Tail(c)) : Tail(c)[i] = c[i + 1]
      /\ Head(c) = c[1] /\ Len(c) > 0
  BY HeadTailProperties, LenProperties
<1>2. \A y \in Seq(Msg) : m(y) \in Seq(Seq(Nat)) /\ Len(m(y)) = Len(y)
                          /\ \A i \in 1 .. Len(y) : m(y)[i] = SamplesOf(y[i].frames)
  BY CarriedMap
<1>3. Carried(c) = FlattenSeq(m(c)) /\ Carried(Tail(c)) = FlattenSeq(m(Tail(c)))
  BY DEF Carried
<1> HIDE DEF m
<1>4. m(c) # <<>> /\ Head(m(c)) = SamplesOf(Head(c).frames)
  <2>1. m(c) \in Seq(Seq(Nat)) /\ Len(m(c)) = Len(c)
    BY <1>2
  <2>2. 1 \in 1 .. Len(c)
    BY <1>1
  <2>3. m(c)[1] = SamplesOf(c[1].frames)
    BY <1>2, <2>2
  <2> QED BY <1>1, <2>1, <2>3
<1>5. Tail(m(c)) = m(Tail(c))
  <2>1. /\ Tail(m(c)) \in Seq(Seq(Nat)) /\ Len(Tail(m(c))) = Len(c) - 1
        /\ \A i \in 1 .. Len(Tail(m(c))) : Tail(m(c))[i] = m(c)[i + 1]
    <3>1. m(c) \in Seq(Seq(Nat)) /\ Len(m(c)) = Len(c)
      BY <1>2
    <3> QED BY <1>4, <3>1, HeadTailProperties
  <2>2. m(Tail(c)) \in Seq(Seq(Nat)) /\ Len(m(Tail(c))) = Len(c) - 1
    BY <1>1, <1>2
  <2>3. ASSUME NEW i \in 1 .. Len(c) - 1 PROVE Tail(m(c))[i] = m(Tail(c))[i]
    <3>1. i + 1 \in 1 .. Len(c) /\ i \in 1 .. Len(Tail(c))
      BY <1>1
    <3>2. m(c)[i + 1] = SamplesOf(c[i + 1].frames)
      BY <1>2, <3>1
    <3>3. m(Tail(c))[i] = SamplesOf(Tail(c)[i].frames)
      BY <1>1, <1>2, <3>1
    <3> QED BY <1>1, <2>1, <3>1, <3>2, <3>3
  <2> QED BY <2>1, <2>2, <2>3, SeqEqual
<1>6. FlattenSeq(m(c)) = Head(m(c)) \o FlattenSeq(Tail(m(c)))
  BY <1>2, <1>4, FlattenHead
<1> QED BY <1>3, <1>4, <1>5, <1>6

\* What a channel carries is in one of its messages.
LEMMA CarriedRange ==
    ASSUME NEW c \in Seq(Msg), NEW R, \A i \in 1 .. Len(c) : Range(SamplesOf(c[i].frames)) \subseteq R
    PROVE  Range(Carried(c)) \subseteq R
PROOF
<1> DEFINE m == [i \in DOMAIN c |-> SamplesOf(c[i].frames)]
<1>1. m \in Seq(Seq(Nat)) /\ Len(m) = Len(c) /\ \A i \in 1 .. Len(c) : m[i] = SamplesOf(c[i].frames)
  BY CarriedMap
<1>2. Carried(c) = FlattenSeq(m)
  BY DEF Carried
<1> HIDE DEF m
<1>3. \A i \in 1 .. Len(m) : Range(m[i]) \subseteq R
  BY <1>1
<1> QED BY <1>1, <1>2, <1>3, FlattenRange

LEMMA NumberedMap ==
    ASSUME NEW s \in Seq(Nat)
    PROVE  LET m == [i \in DOMAIN s |-> IF s[i] = 0 THEN <<>> ELSE <<s[i]>>]
           IN  /\ m \in Seq(Seq(Nat)) /\ Len(m) = Len(s)
               /\ \A i \in 1 .. Len(s) : m[i] = IF s[i] = 0 THEN <<>> ELSE <<s[i]>>
PROOF
<1> DEFINE m == [i \in DOMAIN s |-> IF s[i] = 0 THEN <<>> ELSE <<s[i]>>]
<1>1. DOMAIN s = 1 .. Len(s) /\ Len(s) \in Nat
  BY LenProperties
<1>2. ASSUME NEW i \in 1 .. Len(s) PROVE (IF s[i] = 0 THEN <<>> ELSE <<s[i]>>) \in Seq(Nat)
  <2>1. s[i] \in Nat
    BY ElementOfSeq
  <2> QED BY <2>1
<1>3. m \in [1 .. Len(s) -> Seq(Nat)]
  BY <1>1, <1>2
<1> QED BY <1>1, <1>3

LEMMA NumberedType ==
    ASSUME NEW s \in Seq(Nat)
    PROVE  Numbered(s) \in Seq(Nat)
BY NumberedMap, FlattenType DEF Numbered

LEMMA NumberedEmpty == Numbered(<<>>) = <<>>
PROOF
<1>1. [i \in DOMAIN <<>> |-> IF <<>>[i] = 0 THEN <<>> ELSE <<<<>>[i]>>] = <<>>
  OBVIOUS
<1> QED BY <1>1, FlattenEmpty DEF Numbered

LEMMA NumberedAppend ==
    ASSUME NEW s \in Seq(Nat), NEW e \in Nat
    PROVE  Numbered(Append(s, e)) = IF e = 0 THEN Numbered(s) ELSE Append(Numbered(s), e)
PROOF
<1> DEFINE m(y) == [i \in DOMAIN y |-> IF y[i] = 0 THEN <<>> ELSE <<y[i]>>]
           x == IF e = 0 THEN <<>> ELSE <<e>>
<1>1. /\ Append(s, e) \in Seq(Nat) /\ Len(Append(s, e)) = Len(s) + 1 /\ Len(s) \in Nat
      /\ Append(s, e)[Len(s) + 1] = e /\ \A i \in 1 .. Len(s) : Append(s, e)[i] = s[i]
  BY AppendProperties, LenProperties
<1>2. \A y \in Seq(Nat) : m(y) \in Seq(Seq(Nat)) /\ Len(m(y)) = Len(y)
                          /\ \A i \in 1 .. Len(y) : m(y)[i] = IF y[i] = 0 THEN <<>> ELSE <<y[i]>>
  BY NumberedMap
<1>3. Numbered(Append(s, e)) = FlattenSeq(m(Append(s, e))) /\ Numbered(s) = FlattenSeq(m(s))
  BY DEF Numbered
<1>4. x \in Seq(Nat)
  OBVIOUS
<1> HIDE DEF m
<1>5. m(Append(s, e)) = Append(m(s), x)
  <2>1. /\ Append(m(s), x) \in Seq(Seq(Nat)) /\ Len(Append(m(s), x)) = Len(s) + 1
        /\ Append(m(s), x)[Len(s) + 1] = x /\ \A i \in 1 .. Len(s) : Append(m(s), x)[i] = m(s)[i]
    <3>1. m(s) \in Seq(Seq(Nat)) /\ Len(m(s)) = Len(s)
      BY <1>2
    <3> HIDE DEF x
    <3> QED BY <1>4, <3>1, AppendProperties
  <2>2. m(Append(s, e)) \in Seq(Seq(Nat)) /\ Len(m(Append(s, e))) = Len(s) + 1
    BY <1>1, <1>2
  <2>3. ASSUME NEW i \in 1 .. Len(s) + 1 PROVE m(Append(s, e))[i] = Append(m(s), x)[i]
    <3>1. m(Append(s, e))[i] = IF Append(s, e)[i] = 0 THEN <<>> ELSE <<Append(s, e)[i]>>
      BY <1>1, <1>2
    <3>2. CASE i = Len(s) + 1
      BY <1>1, <2>1, <3>1, <3>2
    <3>3. CASE i # Len(s) + 1
      <4>1. i \in 1 .. Len(s)
        BY <1>1, <3>3
      <4>2. m(s)[i] = IF s[i] = 0 THEN <<>> ELSE <<s[i]>>
        BY <1>2, <4>1
      <4> HIDE DEF x
      <4> QED BY <1>1, <2>1, <3>1, <4>1, <4>2
    <3> QED BY <3>2, <3>3
  <2> HIDE DEF x
  <2> QED BY <2>1, <2>2, <2>3, SeqEqual
<1>6. FlattenSeq(Append(m(s), x)) = FlattenSeq(m(s)) \o x
  <2>1. m(s) \in Seq(Seq(Nat))
    BY <1>2
  <2> HIDE DEF x
  <2> QED BY <1>4, <2>1, FlattenOne
<1>7. Numbered(s) \in Seq(Nat)
  BY NumberedType
<1>8. Numbered(Append(s, e)) = Numbered(s) \o x
  BY <1>3, <1>5, <1>6
<1>9. CASE e = 0
  BY <1>7, <1>8, <1>9, ConcatEmptySeq
<1>10. CASE e # 0
  BY <1>7, <1>8, <1>10, AppendIsConcat
<1> QED BY <1>9, <1>10

LEMMA NumberedOne ==
    ASSUME NEW e \in Nat
    PROVE  \E x \in Seq(Nat) : \A s \in Seq(Nat) : Numbered(Append(s, e)) = Numbered(s) \o x
PROOF
<1>1. CASE e = 0
  <2>1. <<>> \in Seq(Nat)
    OBVIOUS
  <2>2. \A s \in Seq(Nat) : Numbered(Append(s, e)) = Numbered(s) \o <<>>
    BY <1>1, NumberedAppend, NumberedType, ConcatEmptySeq
  <2> QED BY <2>1, <2>2
<1>2. CASE e # 0
  <2>1. <<e>> \in Seq(Nat)
    OBVIOUS
  <2>2. \A s \in Seq(Nat) : Numbered(Append(s, e)) = Numbered(s) \o <<e>>
    BY <1>2, NumberedAppend, NumberedType, AppendIsConcat
  <2> QED BY <2>1, <2>2
<1> QED BY <1>1, <1>2

\* To rearrange brackets among few sequences at a time.
LEMMA Assoc ==
    ASSUME NEW a \in Seq(Nat), NEW b \in Seq(Nat), NEW c \in Seq(Nat)
    PROVE  (a \o b) \o c = a \o (b \o c)
BY ConcatAssociative

LEMMA NumberedStep ==
    ASSUME NEW s \in Seq(Nat), NEW v \in Seq(Nat), NEW e \in Nat,
           Numbered(s \o v) = Numbered(s) \o Numbered(v)
    PROVE  Numbered(s \o Append(v, e)) = Numbered(s) \o Numbered(Append(v, e))
PROOF
<1>1. PICK x \in Seq(Nat) : \A y \in Seq(Nat) : Numbered(Append(y, e)) = Numbered(y) \o x
  BY NumberedOne
<1>2. s \o v \in Seq(Nat) /\ s \o Append(v, e) = Append(s \o v, e)
  OBVIOUS
<1>3. Numbered(s \o Append(v, e)) = Numbered(s \o v) \o x /\ Numbered(Append(v, e)) = Numbered(v) \o x
  BY <1>1, <1>2
<1>4. Numbered(s) \in Seq(Nat) /\ Numbered(v) \in Seq(Nat)
  BY NumberedType
<1>5. (Numbered(s) \o Numbered(v)) \o x = Numbered(s) \o (Numbered(v) \o x)
  BY <1>4, Assoc
<1> QED BY <1>3, <1>5

LEMMA NumberedConcat ==
    ASSUME NEW s \in Seq(Nat), NEW t \in Seq(Nat)
    PROVE  Numbered(s \o t) = Numbered(s) \o Numbered(t)
PROOF
<1> DEFINE good(u) == Numbered(s \o u) = Numbered(s) \o Numbered(u)
           T == {k \in Nat : \E u \in Seq(Nat) : Len(u) = k /\ ~good(u)}
<1> SUFFICES ASSUME ~good(t) PROVE FALSE
  OBVIOUS
<1> HIDE DEF good
<1>1. Len(t) \in T
  BY LenProperties
<1>2. PICK k \in T : \A y \in T : k <= y
  BY <1>1, LeastOf
<1>3. PICK u \in Seq(Nat) : Len(u) = k /\ ~good(u)
  BY <1>2
<1>0. Numbered(s) \in Seq(Nat)
  BY NumberedType
<1>4. CASE u = <<>>
  <2>1. s \o u = s
    BY <1>4, ConcatEmptySeq
  <2>2. Numbered(s) \o <<>> = Numbered(s)
    BY <1>0, ConcatEmptySeq
  <2> QED BY <1>3, <1>4, <2>1, <2>2, NumberedEmpty DEF good
<1>5. CASE u # <<>>
  <2>1. PICK v \in Seq(Nat), e \in Nat : u = Append(v, e)
    BY <1>5, SequenceEmptyOrAppend
  <2>2. Len(v) \in Nat /\ Len(u) = Len(v) + 1
    BY <2>1, AppendProperties, LenProperties
  <2>3. Len(v) \notin T
    <3> HIDE DEF T
    <3> QED BY <1>2, <1>3, <2>2
  <2>4. Numbered(s \o v) = Numbered(s) \o Numbered(v)
    BY <2>2, <2>3 DEF good
  <2>5. good(u)
    BY <2>1, <2>4, NumberedStep DEF good
  <2> QED BY <1>3, <2>5
<1> QED BY <1>4, <1>5

LEMMA NumberedSilent ==
    ASSUME NEW s \in Seq(Nat), \A i \in 1 .. Len(s) : s[i] = 0
    PROVE  Numbered(s) = <<>>
PROOF
<1> DEFINE m == [i \in DOMAIN s |-> IF s[i] = 0 THEN <<>> ELSE <<s[i]>>]
<1>1. m \in Seq(Seq(Nat)) /\ Len(m) = Len(s) /\ \A i \in 1 .. Len(s) : m[i] = <<>>
  BY NumberedMap
<1>2. Numbered(s) = FlattenSeq(m)
  BY DEF Numbered
<1> HIDE DEF m
<1>3. \A i \in 1 .. Len(m) : Len(m[i]) = 0
  BY <1>1
<1>4. Len(FlattenSeq(m)) = Len(m) * 0 /\ Len(m) \in Nat
  BY <1>1, <1>3, FlattenLength, LenProperties
<1>5. FlattenSeq(m) \in Seq(Nat) /\ Len(FlattenSeq(m)) = 0
  BY <1>1, <1>4, FlattenType
<1> QED BY <1>2, <1>5, EmptySeq

\* Numbered leaves the numbered samples and nothing else.
LEMMA NumberedRange ==
    ASSUME NEW s \in Seq(Nat)
    PROVE  Range(Numbered(s)) \subseteq Range(s) \ {0}
PROOF
<1> DEFINE m == [i \in DOMAIN s |-> IF s[i] = 0 THEN <<>> ELSE <<s[i]>>]
<1>1. /\ m \in Seq(Seq(Nat)) /\ Len(m) = Len(s)
      /\ \A i \in 1 .. Len(s) : m[i] = IF s[i] = 0 THEN <<>> ELSE <<s[i]>>
  BY NumberedMap
<1>2. Numbered(s) = FlattenSeq(m)
  BY DEF Numbered
<1> HIDE DEF m
<1>3. ASSUME NEW i \in 1 .. Len(m) PROVE Range(m[i]) \subseteq Range(s) \ {0}
  <2>1. i \in DOMAIN s /\ m[i] = IF s[i] = 0 THEN <<>> ELSE <<s[i]>>
    BY <1>1, <1>3, LenProperties
  <2>2. CASE s[i] = 0
    BY <2>1, <2>2 DEF Range
  <2>3. CASE s[i] # 0
    BY <2>1, <2>3 DEF Range
  <2> QED BY <2>2, <2>3
<1> QED BY <1>1, <1>2, <1>3, FlattenRange

\* A sequence without silence is numbered throughout.
LEMMA NumberedAll ==
    ASSUME NEW s \in Seq(Nat \ {0})
    PROVE  Numbered(s) = s
PROOF
<1> DEFINE T == {k \in Nat : \E u \in Seq(Nat \ {0}) : Len(u) = k /\ Numbered(u) # u}
<1> SUFFICES ASSUME Numbered(s) # s PROVE FALSE
  OBVIOUS
<1>1. Len(s) \in T
  BY LenProperties
<1>2. PICK k \in T : \A y \in T : k <= y
  BY <1>1, LeastOf
<1>3. PICK u \in Seq(Nat \ {0}) : Len(u) = k /\ Numbered(u) # u
  BY <1>2
<1>4. u # <<>>
  BY <1>3, NumberedEmpty
<1>5. PICK v \in Seq(Nat \ {0}), e \in Nat \ {0} : u = Append(v, e)
  BY <1>4, SequenceEmptyOrAppend
<1>6. Len(v) \in Nat /\ Len(u) = Len(v) + 1
  BY <1>5, AppendProperties, LenProperties
<1>7. Len(v) \notin T
  <2> HIDE DEF T
  <2> QED BY <1>2, <1>3, <1>6
<1>8. Numbered(v) = v
  BY <1>6, <1>7
<1>9. v \in Seq(Nat)
  BY SeqMonotonic
<1>10. Numbered(u) = Append(Numbered(v), e)
  BY <1>5, <1>9, NumberedAppend
<1> QED BY <1>3, <1>5, <1>8, <1>10

-----------------------------------------------------------------------------
(* Sequences whose numbered samples increase, with silence between them.   *)

Ord(s) == \A i, j \in 1 .. Len(s) : i < j /\ s[i] # 0 /\ s[j] # 0 => s[i] < s[j]
Vals(s) == {s[i] : i \in 1 .. Len(s)} \ {0}

\* t can stand wherever s did.
Thins(t, s) == (Ord(s) => Ord(t)) /\ Vals(t) \subseteq Vals(s)

LEMMA ValsConcat ==
    ASSUME NEW s \in Seq(Nat), NEW t \in Seq(Nat)
    PROVE  Vals(s \o t) = Vals(s) \cup Vals(t)
PROOF
<1>1. /\ Len(s \o t) = Len(s) + Len(t) /\ Len(s) \in Nat /\ Len(t) \in Nat
      /\ \A i \in 1 .. Len(s) + Len(t) : (s \o t)[i] = IF i <= Len(s) THEN s[i] ELSE t[i - Len(s)]
  BY ConcatProperties, LenProperties
<1>2. ASSUME NEW i \in 1 .. Len(s) + Len(t) PROVE (s \o t)[i] \in {s[k] : k \in 1 .. Len(s)} \cup {t[k] : k \in 1 .. Len(t)}
  <2>1. CASE i <= Len(s)
    <3>1. i \in 1 .. Len(s)
      BY <1>1, <2>1
    <3> QED BY <1>1, <2>1, <3>1
  <2>2. CASE ~(i <= Len(s))
    <3>1. i - Len(s) \in 1 .. Len(t)
      BY <1>1, <2>2
    <3> QED BY <1>1, <2>2, <3>1
  <2> QED BY <2>1, <2>2
<1>3. ASSUME NEW k \in 1 .. Len(s) PROVE k \in 1 .. Len(s) + Len(t) /\ (s \o t)[k] = s[k]
  <2>1. k \in 1 .. Len(s) + Len(t) /\ k <= Len(s)
    BY <1>1
  <2> QED BY <1>1, <2>1
<1>4. ASSUME NEW k \in 1 .. Len(t)
      PROVE  Len(s) + k \in 1 .. Len(s) + Len(t) /\ (s \o t)[Len(s) + k] = t[k]
  <2>1. Len(s) + k \in 1 .. Len(s) + Len(t) /\ ~(Len(s) + k <= Len(s)) /\ Len(s) + k - Len(s) = k
    BY <1>1
  <2> QED BY <1>1, <2>1
<1>5. ASSUME NEW a \in Vals(s \o t) PROVE a \in Vals(s) \cup Vals(t)
  <2>1. PICK i \in 1 .. Len(s) + Len(t) : a = (s \o t)[i] /\ a # 0
    BY <1>1 DEF Vals
  <2>2. a \in {s[k] : k \in 1 .. Len(s)} \cup {t[k] : k \in 1 .. Len(t)}
    BY <1>2, <2>1
  <2> QED BY <2>1, <2>2 DEF Vals
<1>6. ASSUME NEW a \in Vals(s) PROVE a \in Vals(s \o t)
  BY <1>1, <1>3 DEF Vals
<1>7. ASSUME NEW a \in Vals(t) PROVE a \in Vals(s \o t)
  BY <1>1, <1>4 DEF Vals
<1> QED BY <1>5, <1>6, <1>7

LEMMA OrdConcat ==
    ASSUME NEW s \in Seq(Nat), NEW t \in Seq(Nat)
    PROVE  Ord(s \o t) <=> Ord(s) /\ Ord(t) /\ \A a \in Vals(s), b \in Vals(t) : a < b
PROOF
<1> DEFINE m == Len(s)
           n == Len(t)
           u == s \o t
<1>1. /\ Len(u) = m + n /\ m \in Nat /\ n \in Nat
      /\ \A i \in 1 .. m + n : u[i] = IF i <= m THEN s[i] ELSE t[i - m]
  BY ConcatProperties, LenProperties
<1>2. \A i \in 1 .. m : i \in 1 .. m + n /\ u[i] = s[i]
  <2> HIDE DEF m, n, u
  <2> QED BY <1>1
<1>3. ASSUME NEW i \in 1 .. n PROVE i + m \in 1 .. m + n /\ u[i + m] = t[i]
  <2> HIDE DEF m, n, u
  <2>1. i + m \in 1 .. m + n /\ ~(i + m <= m) /\ i + m - m = i
    BY <1>1
  <2> QED BY <1>1, <2>1
<1>4. Vals(s) = {s[i] : i \in 1 .. m} \ {0} /\ Vals(t) = {t[i] : i \in 1 .. n} \ {0}
  BY DEF Vals
<1>5. /\ Ord(u) <=> \A i, j \in 1 .. m + n : i < j /\ u[i] # 0 /\ u[j] # 0 => u[i] < u[j]
      /\ Ord(s) <=> \A i, j \in 1 .. m : i < j /\ s[i] # 0 /\ s[j] # 0 => s[i] < s[j]
      /\ Ord(t) <=> \A i, j \in 1 .. n : i < j /\ t[i] # 0 /\ t[j] # 0 => t[i] < t[j]
  BY <1>1 DEF Ord
<1> HIDE DEF m, n, u
<1>6. ASSUME Ord(u) PROVE Ord(s) /\ Ord(t) /\ \A a \in Vals(s), b \in Vals(t) : a < b
  <2>1. Ord(s)
    BY <1>2, <1>5, <1>6
  <2>2. Ord(t)
    <3>1. ASSUME NEW i \in 1 .. n, NEW j \in 1 .. n, i < j, t[i] # 0, t[j] # 0 PROVE t[i] < t[j]
      <4>1. i + m \in 1 .. m + n /\ j + m \in 1 .. m + n /\ i + m < j + m
        BY <1>1, <1>3, <3>1
      <4> QED BY <1>3, <1>5, <1>6, <3>1, <4>1
    <3> QED BY <1>5, <3>1
  <2>3. ASSUME NEW a \in Vals(s), NEW b \in Vals(t) PROVE a < b
    <3>1. PICK i \in 1 .. m : a = s[i] /\ a # 0
      BY <1>4
    <3>2. PICK j \in 1 .. n : b = t[j] /\ b # 0
      BY <1>4
    <3>3. i \in 1 .. m + n /\ j + m \in 1 .. m + n /\ i < j + m
      BY <1>1
    <3> QED BY <1>2, <1>3, <1>5, <1>6, <3>1, <3>2, <3>3
  <2> QED BY <2>1, <2>2, <2>3
<1>7. ASSUME Ord(s), Ord(t), \A a \in Vals(s), b \in Vals(t) : a < b PROVE Ord(u)
  <2>1. ASSUME NEW i \in 1 .. m + n, NEW j \in 1 .. m + n, i < j, u[i] # 0, u[j] # 0 PROVE u[i] < u[j]
    <3>1. CASE j <= m
      <4>1. i \in 1 .. m /\ j \in 1 .. m
        BY <1>1, <2>1, <3>1
      <4> QED BY <1>2, <1>5, <1>7, <2>1, <4>1
    <3>2. CASE ~(j <= m) /\ i <= m
      <4>1. i \in 1 .. m /\ j - m \in 1 .. n
        BY <1>1, <2>1, <3>2
      <4>2. u[i] = s[i] /\ u[j] = t[j - m]
        BY <1>1, <3>2
      <4>3. u[i] \in Vals(s) /\ u[j] \in Vals(t)
        BY <1>4, <2>1, <4>1, <4>2
      <4> QED BY <1>7, <4>3
    <3>3. CASE ~(j <= m) /\ ~(i <= m)
      <4>1. i - m \in 1 .. n /\ j - m \in 1 .. n /\ i - m < j - m
        BY <1>1, <2>1, <3>3
      <4>2. u[i] = t[i - m] /\ u[j] = t[j - m]
        BY <1>1, <3>3
      <4> QED BY <1>5, <1>7, <2>1, <4>1, <4>2
    <3> QED BY <3>1, <3>2, <3>3
  <2> QED BY <1>5, <2>1
<1> QED BY <1>6, <1>7 DEF u

LEMMA ThinsConcat ==
    ASSUME NEW s \in Seq(Nat), NEW t \in Seq(Nat), NEW x \in Seq(Nat), NEW y \in Seq(Nat),
           Thins(x, s), Thins(y, t)
    PROVE  Thins(x \o y, s \o t)
PROOF
<1>1. Vals(s \o t) = Vals(s) \cup Vals(t) /\ Vals(x \o y) = Vals(x) \cup Vals(y)
  BY ValsConcat
<1>2. Ord(s \o t) <=> Ord(s) /\ Ord(t) /\ \A a \in Vals(s), b \in Vals(t) : a < b
  BY OrdConcat
<1>3. Ord(x \o y) <=> Ord(x) /\ Ord(y) /\ \A a \in Vals(x), b \in Vals(y) : a < b
  BY OrdConcat
<1> QED BY <1>1, <1>2, <1>3 DEF Thins

LEMMA ThinsSelf ==
    ASSUME NEW s
    PROVE  Thins(s, s)
BY DEF Thins

LEMMA ThinsNothing ==
    ASSUME NEW s
    PROVE  Thins(<<>>, s)
BY DEF Thins, Ord, Vals

\* A prefix, and silence.
LEMMA ThinsPrefix ==
    ASSUME NEW s \in Seq(Nat), NEW n \in 0 .. Len(s)
    PROVE  SubSeq(s, 1, n) \in Seq(Nat) /\ Thins(SubSeq(s, 1, n), s)
PROOF
<1>1. \A i \in 1 .. n : s[i] \in Nat /\ i \in 1 .. Len(s)
  BY ElementOfSeq, LenProperties
<1>2. /\ SubSeq(s, 1, n) \in Seq(Nat) /\ Len(SubSeq(s, 1, n)) = n
      /\ \A i \in 1 .. n : SubSeq(s, 1, n)[i] = s[i]
  <2>1. n \in Nat /\ n - 1 + 1 = n
    BY LenProperties
  <2>2. /\ SubSeq(s, 1, n) \in Seq(Nat)
        /\ Len(SubSeq(s, 1, n)) = IF 1 <= n THEN n - 1 + 1 ELSE 0
        /\ \A i \in 1 .. n - 1 + 1 : SubSeq(s, 1, n)[i] = s[1 + i - 1]
    BY <1>1, <2>1, SubSeqProperties
  <2> QED BY <2>1, <2>2
<1> QED BY <1>1, <1>2 DEF Thins, Ord, Vals

LEMMA ThinsSilent ==
    ASSUME NEW n \in Nat, NEW s
    PROVE  /\ Silent(n) \in Seq(Nat) /\ Len(Silent(n)) = n /\ \A i \in 1 .. n : Silent(n)[i] = 0
           /\ Thins(Silent(n), s)
PROOF
<1>1. Silent(n) \in Seq(Nat) /\ Len(Silent(n)) = n /\ \A i \in 1 .. n : Silent(n)[i] = 0
  BY DEF Silent
<1> QED BY <1>1 DEF Thins, Ord, Vals

\* The numbered samples of a sequence in order increase.
LEMMA NumberedIncreases ==
    ASSUME NEW s \in Seq(Nat), Ord(s)
    PROVE  \A i, j \in 1 .. Len(Numbered(s)) : i < j => Numbered(s)[i] < Numbered(s)[j]
PROOF
<1> DEFINE inc(x) == \A i, j \in 1 .. Len(x) : i < j => x[i] < x[j]
           T == {k \in Nat : \E u \in Seq(Nat) : Len(u) = k /\ Ord(u) /\ ~inc(Numbered(u))}
<1> SUFFICES ASSUME ~inc(Numbered(s)) PROVE FALSE
  OBVIOUS
<1> HIDE DEF inc
<1>1. Len(s) \in T
  BY LenProperties
<1>2. PICK k \in T : \A y \in T : k <= y
  BY <1>1, LeastOf
<1>3. PICK u \in Seq(Nat) : Len(u) = k /\ Ord(u) /\ ~inc(Numbered(u))
  BY <1>2
<1>4. CASE u = <<>>
  BY <1>3, <1>4, NumberedEmpty DEF inc
<1>5. CASE u # <<>>
  <2>1. PICK v \in Seq(Nat), e \in Nat : u = Append(v, e)
    BY <1>5, SequenceEmptyOrAppend
  <2>2. Len(v) \in Nat /\ Len(u) = Len(v) + 1 /\ u[Len(v) + 1] = e /\ \A i \in 1 .. Len(v) : u[i] = v[i]
    BY <2>1, AppendProperties, LenProperties
  <2>3. Len(v) \notin T
    <3> HIDE DEF T
    <3> QED BY <1>2, <1>3, <2>2
  <2>4. Ord(v) /\ (e # 0 => \A a \in Range(v) \ {0} : a < e)
    <3>1. Ord(v)
      <4>1. ASSUME NEW i \in 1 .. Len(v), NEW j \in 1 .. Len(v), i < j, v[i] # 0, v[j] # 0 PROVE v[i] < v[j]
        <5>1. i \in 1 .. Len(u) /\ j \in 1 .. Len(u) /\ u[i] = v[i] /\ u[j] = v[j]
          BY <2>2
        <5> HIDE DEF T
        <5> QED BY <1>3, <4>1, <5>1 DEF Ord
      <4> HIDE DEF T
      <4> QED BY <4>1 DEF Ord
    <3>2. ASSUME e # 0, NEW a \in Range(v) \ {0} PROVE a < e
      <4>1. PICK i \in 1 .. Len(v) : a = v[i]
        BY LenProperties DEF Range
      <4>2. i \in 1 .. Len(u) /\ Len(v) + 1 \in 1 .. Len(u) /\ i < Len(v) + 1
        BY <2>2
      <4>3. u[i] = a /\ u[Len(v) + 1] = e
        BY <2>2, <4>1
      <4> QED BY <1>3, <3>2, <4>2, <4>3 DEF Ord
    <3> QED BY <3>1, <3>2
  <2>5. inc(Numbered(v))
    BY <2>2, <2>3, <2>4
  <2> DEFINE w == Numbered(v)
  <2>6. w \in Seq(Nat) /\ Range(w) \subseteq Range(v) \ {0}
    BY NumberedType, NumberedRange
  <2>7. Numbered(u) = IF e = 0 THEN w ELSE Append(w, e)
    BY <2>1, NumberedAppend
  <2> HIDE DEF w, T
  <2>8. ASSUME e # 0 PROVE inc(Append(w, e))
    <3>1. /\ Len(w) \in Nat /\ Len(Append(w, e)) = Len(w) + 1 /\ Append(w, e)[Len(w) + 1] = e
          /\ \A i \in 1 .. Len(w) : Append(w, e)[i] = w[i]
      BY <2>6, AppendProperties, LenProperties
    <3>2. ASSUME NEW i \in 1 .. Len(w) + 1, NEW j \in 1 .. Len(w) + 1, i < j
          PROVE  Append(w, e)[i] < Append(w, e)[j]
      <4>1. i \in 1 .. Len(w)
        BY <3>1, <3>2
      <4>2. w[i] \in Range(w)
        BY <2>6, <4>1, LenProperties DEF Range
      <4>3. CASE j = Len(w) + 1
        BY <2>4, <2>6, <2>8, <3>1, <4>1, <4>2, <4>3
      <4>4. CASE j # Len(w) + 1
        <5>1. j \in 1 .. Len(w)
          BY <3>1, <4>4
        <5>2. w[i] < w[j]
          BY <2>5, <3>2, <4>1, <5>1 DEF inc, w
        <5> QED BY <3>1, <4>1, <5>1, <5>2
      <4> QED BY <4>3, <4>4
    <3> QED BY <3>1, <3>2 DEF inc
  <2> QED BY <1>3, <2>5, <2>7, <2>8 DEF w
<1> QED BY <1>4, <1>5

-----------------------------------------------------------------------------
(* Pools.                                                                  *)

DistinctIds(arrays) == \A b, c \in arrays : b.id = c.id => b = c
IdsOf(arrays) == {b.id : b \in arrays}

\* ById lists a set of arrays, each once.
LEMMA ByIdLists ==
    ASSUME NEW A, IsFiniteSet(A), DistinctIds(A), \A b \in A : b.id \in Nat
    PROVE  /\ Cardinality(A) \in Nat
           /\ ById(A) \in Seq(A) /\ Len(ById(A)) = Cardinality(A)
           /\ \A i, j \in 1 .. Cardinality(A) : ById(A)[i] = ById(A)[j] => i = j
PROOF
<1> DEFINE upTo(b) == {c \in A : c.id <= b.id}
           n == Cardinality(A)
           rank == [b \in A |-> Cardinality(upTo(b))]
<1>1. n \in Nat
  BY FS_CardinalityType
<1>2. ASSUME NEW b \in A PROVE IsFiniteSet(upTo(b)) /\ Cardinality(upTo(b)) \in 1 .. n
  <2>1. upTo(b) \in SUBSET A /\ b \in upTo(b)
    OBVIOUS
  <2> HIDE DEF upTo
  <2>2. IsFiniteSet(upTo(b)) /\ Cardinality(upTo(b)) <= n
    BY <2>1, FS_Subset
  <2>3. Cardinality(upTo(b)) \in Nat /\ Cardinality(upTo(b)) # 0
    BY <2>1, <2>2, FS_CardinalityType, FS_EmptySet
  <2> QED BY <1>1, <2>2, <2>3
<1>3. ASSUME NEW b \in A, NEW c \in A, rank[b] = rank[c] PROVE b = c
  <2>1. upTo(b) \subseteq upTo(c) \/ upTo(c) \subseteq upTo(b)
    <3>1. b.id \in Nat /\ c.id \in Nat /\ \A d \in A : d.id \in Nat
      OBVIOUS
    <3>2. CASE b.id <= c.id
      BY <3>1, <3>2
    <3>3. CASE c.id <= b.id
      BY <3>1, <3>3
    <3> QED BY <3>1, <3>2, <3>3
  <2>2. Cardinality(upTo(b)) = Cardinality(upTo(c))
    BY <1>3
  <2>3. b \in upTo(b) /\ c \in upTo(c)
    OBVIOUS
  <2>4. upTo(b) = upTo(c)
    <3> HIDE DEF upTo
    <3>1. CASE upTo(b) \subseteq upTo(c)
      BY <1>2, <2>2, <3>1, FS_Subset
    <3>2. CASE upTo(c) \subseteq upTo(b)
      BY <1>2, <2>2, <3>2, FS_Subset
    <3> QED BY <2>1, <3>1, <3>2
  <2>5. b.id <= c.id /\ c.id <= b.id
    BY <2>3, <2>4
  <2>6. b.id = c.id
    BY <2>5
  <2> QED BY <2>6 DEF DistinctIds
<1>4. rank \in Injection(A, 1 .. n)
  <2>1. rank \in [A -> 1 .. n]
    <3> HIDE DEF upTo
    <3> QED BY <1>2
  <2> HIDE DEF rank
  <2> QED BY <1>3, <2>1 DEF Injection, IsInjective
<1>5. rank \in Surjection(A, 1 .. n)
  <2>1. IsFiniteSet(1 .. n) /\ Cardinality(1 .. n) = n
    <3>1. n \in Int /\ 1 \in Int /\ (1 > n => n = 0)
      BY <1>1
    <3> HIDE DEF n
    <3>2. IsFiniteSet(1 .. n) /\ Cardinality(1 .. n) = IF 1 > n THEN 0 ELSE n - 1 + 1
      BY <3>1, FS_Interval
    <3> QED BY <1>1, <3>1, <3>2
  <2> HIDE DEF rank
  <2> QED BY <1>4, <2>1, FS_Injection
<1>6. ASSUME NEW k \in 1 .. n PROVE ById(A)[k] \in A /\ rank[ById(A)[k]] = k
  <2>1. \E b \in A : rank[b] = k
    <3> HIDE DEF rank
    <3> QED BY <1>5 DEF Surjection
  <2>2. \E b \in A : Cardinality(upTo(b)) = k
    BY <2>1
  <2>3. ById(A)[k] = CHOOSE b \in A : Cardinality(upTo(b)) = k
    BY DEF ById
  <2>4. ById(A)[k] \in A /\ Cardinality(upTo(ById(A)[k])) = k
    <3> HIDE DEF upTo
    <3> QED BY <2>2, <2>3
  <2> QED BY <2>4
<1>7. ById(A) = [k \in 1 .. n |-> ById(A)[k]]
  <2> DEFINE at(k) == CHOOSE b \in A : Cardinality({c \in A : c.id <= b.id}) = k
  <2>1. ById(A) = [k \in 1 .. n |-> at(k)]
    BY DEF ById
  <2> HIDE DEF at
  <2> QED BY <2>1
<1>8. ById(A) \in [1 .. n -> A]
  BY <1>6, <1>7
<1> HIDE DEF rank, n
<1> QED BY <1>1, <1>6, <1>8 DEF n

LEMMA ArraysFinite ==
    ASSUME NEW len, NEW A, A \subseteq Arrays(len)
    PROVE  /\ IsFiniteSet(A) /\ DistinctIds(A)
           /\ \A b \in A : b.id \in 1 .. MaxBuffers /\ b.len = len /\ b = [id |-> b.id, len |-> len]
PROOF
<1>1. \A b \in A : b.id \in 1 .. MaxBuffers /\ b.len = len /\ b = [id |-> b.id, len |-> len]
  BY DEF Arrays
<1>2. DistinctIds(A)
  BY <1>1 DEF DistinctIds
<1> DEFINE f == [b \in A |-> b.id]
<1>3. f \in Injection(A, 1 .. MaxBuffers)
  BY <1>1, <1>2 DEF DistinctIds, Injection, IsInjective
<1>4. IsFiniteSet(1 .. MaxBuffers)
  <2>1. MaxBuffers \in Int /\ 1 \in Int
    BY PipelineAssumption
  <2> QED BY <2>1, FS_Interval
<1> HIDE DEF f
<1>5. IsFiniteSet(A)
  BY <1>3, <1>4, FS_Injection
<1> QED BY <1>1, <1>2, <1>5

\* acquire() hands out n different arrays of the pool's length, each from the
\* pool or new.
LEMMA AcquireGives ==
    ASSUME NEW len, NEW free, free \subseteq Arrays(len), IdsOf(free) \cap Unused = {},
           NEW n \in Nat, CanAcquire(free, n)
    PROVE  LET got == Acquire(free, n, len)
           IN  /\ got \in Seq(Arrays(len)) /\ Len(got) = n
               /\ \A i \in 1 .. n : got[i] \in free \/ got[i].id \in Unused
               /\ \A i, j \in 1 .. n : got[i].id = got[j].id => i = j
PROOF
<1> DEFINE new == {[id |-> i, len |-> len] : i \in Unused}
           a == ById(free)
           b == ById(new)
           all == a \o b
           p == Cardinality(free)
           q == Cardinality(new)
<1>1. Unused \subseteq 1 .. MaxBuffers
  BY DEF Unused
<1>2. new \subseteq Arrays(len)
  BY <1>1 DEF Arrays
<1>3. \A x \in new : x.id \in Unused
  OBVIOUS
<1>4. Cardinality(new) = Cardinality(Unused)
  <2> DEFINE f == [i \in Unused |-> [id |-> i, len |-> len]]
  <2>1. f \in Bijection(Unused, new)
    BY DEF Bijection, Injection, Surjection, IsInjective
  <2>2. IsFiniteSet(Unused)
    <3>1. MaxBuffers \in Int /\ 1 \in Int
      BY PipelineAssumption
    <3> QED BY <1>1, <3>1, FS_Interval, FS_Subset
  <2>3. ExistsBijection(Unused, new)
    BY <2>1 DEF ExistsBijection
  <2> QED BY <2>2, <2>3, FS_Bijection
<1>5. /\ p \in Nat /\ a \in Seq(free) /\ Len(a) = p
      /\ \A i, j \in 1 .. p : a[i] = a[j] => i = j
  <2>1. IsFiniteSet(free) /\ DistinctIds(free) /\ \A x \in free : x.id \in Nat
    <3> HIDE DEF new
    <3>1. IsFiniteSet(free) /\ DistinctIds(free) /\ \A x \in free : x.id \in 1 .. MaxBuffers
      BY ArraysFinite
    <3> QED BY <3>1, PipelineAssumption
  <2> QED BY <2>1, ByIdLists
<1>6. /\ q \in Nat /\ b \in Seq(new) /\ Len(b) = q
      /\ \A i, j \in 1 .. q : b[i] = b[j] => i = j
  <2> HIDE DEF new
  <2>1. IsFiniteSet(new) /\ DistinctIds(new) /\ \A x \in new : x.id \in Nat
    <3>1. IsFiniteSet(new) /\ DistinctIds(new) /\ \A x \in new : x.id \in 1 .. MaxBuffers
      BY <1>2, ArraysFinite
    <3> QED BY <3>1, PipelineAssumption
  <2> QED BY <2>1, ByIdLists
<1>7. \A x \in free : x.id \notin Unused
  BY DEF IdsOf
<1>8. n <= p + q
  BY <1>4 DEF CanAcquire
<1>9. DistinctIds(free) /\ DistinctIds(new)
  BY <1>2, ArraysFinite
<1> HIDE DEF new, a, b, p, q
<1>10. /\ \A i \in 1 .. p : a[i] \in free
       /\ \A i \in 1 .. q : b[i] \in new
  BY <1>5, <1>6, ElementOfSeq
<1>11. /\ all \in Seq(Arrays(len)) /\ Len(all) = p + q
       /\ \A i \in 1 .. p + q : all[i] = IF i <= p THEN a[i] ELSE b[i - p]
  <2>1. a \in Seq(Arrays(len)) /\ b \in Seq(Arrays(len))
    BY <1>2, <1>5, <1>6, SeqMonotonic
  <2>2. /\ a \o b \in Seq(Arrays(len)) /\ Len(a \o b) = Len(a) + Len(b)
        /\ \A i \in 1 .. Len(a) + Len(b) : (a \o b)[i] = IF i <= Len(a) THEN a[i] ELSE b[i - Len(a)]
    BY <2>1, ConcatProperties
  <2> QED BY <1>5, <1>6, <2>2
<1>12. \A i \in 1 .. p + q : (i <= p /\ all[i] \in free) \/ (i > p /\ all[i] \in new)
  <2>1. ASSUME NEW i \in 1 .. p + q, ~(i <= p) PROVE i - p \in 1 .. q /\ i > p
    BY <1>5, <1>6, <2>1
  <2>2. ASSUME NEW i \in 1 .. p + q, i <= p PROVE i \in 1 .. p
    BY <1>5, <1>6, <2>2
  <2> QED BY <1>10, <1>11, <2>1, <2>2
<1>13. ASSUME NEW i \in 1 .. p + q, NEW j \in 1 .. p + q, all[i].id = all[j].id PROVE i = j
  <2>1. CASE i <= p /\ j <= p
    <3>1. i \in 1 .. p /\ j \in 1 .. p /\ all[i] = a[i] /\ all[j] = a[j]
      BY <1>5, <1>11, <2>1
    <3>2. a[i] = a[j]
      BY <1>9, <1>10, <1>13, <3>1 DEF DistinctIds
    <3> QED BY <1>5, <3>1, <3>2
  <2>2. CASE i > p /\ j > p
    <3>1. i - p \in 1 .. q /\ j - p \in 1 .. q /\ all[i] = b[i - p] /\ all[j] = b[j - p]
      BY <1>5, <1>6, <1>11, <2>2
    <3>2. b[i - p] = b[j - p]
      BY <1>9, <1>10, <1>13, <3>1 DEF DistinctIds
    <3>3. i - p = j - p
      BY <1>6, <3>1, <3>2
    <3> QED BY <1>5, <3>3
  <2>3. CASE (i <= p /\ j > p) \/ (i > p /\ j <= p)
    BY <1>3, <1>5, <1>6, <1>7, <1>12, <1>13, <2>3
  <2> QED BY <1>5, <2>1, <2>2, <2>3
<1>14. Acquire(free, n, len) = SubSeq(all, 1, n)
  BY DEF Acquire, all, a, b, new
<1> HIDE DEF all
<1> DEFINE got == Acquire(free, n, len)
<1>15. got \in Seq(Arrays(len)) /\ Len(got) = n /\ \A i \in 1 .. n : got[i] = all[i]
  <2>1. \A i \in 1 .. n : all[i] \in Arrays(len)
    BY <1>8, <1>11, <1>5, <1>6, ElementOfSeq
  <2>2. /\ SubSeq(all, 1, n) \in Seq(Arrays(len))
        /\ Len(SubSeq(all, 1, n)) = IF 1 <= n THEN n - 1 + 1 ELSE 0
        /\ \A i \in 1 .. n - 1 + 1 : SubSeq(all, 1, n)[i] = all[1 + i - 1]
    BY <2>1, SubSeqProperties
  <2> QED BY <1>14, <2>2
<1> HIDE DEF got
<1>16. \A i \in 1 .. n : i \in 1 .. p + q
  BY <1>5, <1>6, <1>8
<1>17. \A i \in 1 .. n : got[i] \in free \/ got[i].id \in Unused
  BY <1>3, <1>12, <1>15, <1>16
<1>18. \A i, j \in 1 .. n : got[i].id = got[j].id => i = j
  BY <1>13, <1>15, <1>16
<1> QED BY <1>15, <1>17, <1>18 DEF got

-----------------------------------------------------------------------------
(* Types.                                                                  *)

Lengths == {build.rnnoise, build.deepfilternet}
Filled == {f \in [buf : AnyArray, samples : Seq(Nat)] : Len(f.samples) = f.buf.len}

ToMsg ==
    [type : {"PROCESS_FRAME_BATCH"}, arg : {"none"}, frames : Seq(Filled), recycles : Seq(AnyArray), age : Nat]
    \cup [type : {"SET_MODULE"}, arg : Modules, frames : {<<>>}, recycles : {<<>>}, age : Nat]
    \cup [type : {"SET_ENABLED"}, arg : {"on", "off"}, frames : {<<>>}, recycles : {<<>>}, age : Nat]
    \cup [type : {"DESTROY"}, arg : {"none"}, frames : {<<>>}, recycles : {<<>>}, age : Nat]

FromMsg ==
    [type : {"FRAME_RESULT_BATCH"}, arg : {"none"}, frames : Seq(Filled), recycles : Seq(AnyArray), age : Nat]
    \cup [type : {"MODULE_CHANGED"}, arg : Lengths, frames : {<<>>}, recycles : {<<>>}, age : Nat]
    \cup [type : {"ERROR"}, arg : {"none"}, frames : {<<>>}, recycles : {<<>>}, age : Nat]

WorkerType ==
    /\ worker \in [module : Modules, enabled : BOOLEAN, size : Lengths, pool : SUBSET AnyArray,
                   recycles : Seq(AnyArray)]
    /\ worker.size = FrameOf(worker.module)
    /\ worker.pool \subseteq Arrays(worker.size)

\* A ring buffer, as the output queue keeps it: full as long as it is skewed.
RingOK(q, cap) ==
    /\ q \in [held : Seq(Nat), skew : Nat, stale : Seq(Nat)] /\ Len(q.held) <= cap
    /\ IF q.skew = 0 THEN q.stale = <<>> ELSE q.skew < cap /\ Len(q.held) + Len(q.stale) = cap

Longest == IF prefilled THEN Larger(build.rnnoise, build.deepfilternet) ELSE build.rnnoise

Types ==
    /\ build \in Builds
    /\ quanta \in 0 .. build.quanta /\ controls \in 0 .. build.controls
    /\ input \in Seq(Nat) /\ output \in Seq(Nat) /\ lastPlayed \in Nat
    /\ Len(input) < Longest /\ RingOK(Queue, QueueCapacity) /\ (~overrun => skew = 0)
    /\ frameLength \in Lengths
    /\ workerReady \in BOOLEAN /\ prefilled \in BOOLEAN /\ destroyed \in BOOLEAN
    /\ starved \in 0 .. quanta /\ overrun \in BOOLEAN /\ dropped \in BOOLEAN
    /\ pool \subseteq Arrays(frameLength)
    /\ recycles \in Seq(AnyArray) /\ batchQueue \in Seq(Filled)
    /\ toWorker \in Seq(ToMsg) /\ fromWorker \in Seq(FromMsg)
    /\ WorkerType

\* A channel that only commands go through.
Silenced(channel) == \A i \in 1 .. Len(channel) :
    channel[i].type \notin {"PROCESS_FRAME_BATCH", "FRAME_RESULT_BATCH"}

\* The worklet before the worker is there, with it or without for good, and
\* destroyed.
Phase ==
    /\ workerReady => prefilled /\ ~destroyed
    /\ ~workerReady /\ ~destroyed => batchQueue = <<>> /\ Silenced(toWorker) /\ Silenced(fromWorker)
    /\ ~prefilled => ~workerReady
    /\ ~prefilled /\ ~destroyed => frameLength = build.rnnoise /\ toWorker = <<>> /\ fromWorker = <<>>
    /\ destroyed => input = <<>> /\ output = <<>> /\ fromWorker = <<>>

LEMMA BuildType ==
    ASSUME build \in Builds
    PROVE  /\ build.rnnoise \in Nat \ {0} /\ build.deepfilternet \in Nat \ {0}
           /\ build.batch \in Nat \ {0} /\ build.quanta \in Nat /\ build.controls \in Nat /\ build.queue \in Nat
           /\ build.timely \in BOOLEAN /\ build.mayThrow \in BOOLEAN
           /\ Lengths \subseteq Nat \ {0} /\ \A m \in Modules : FrameOf(m) \in Lengths
BY PipelineAssumption DEF Lengths, Modules, FrameOf

\* The constant types that the lemmas above are stated for.
LEMMA Widen ==
    ASSUME build \in Builds
    PROVE  /\ AnyArray \subseteq Buf /\ Filled \subseteq Piece
           /\ ToMsg \subseteq Msg /\ FromMsg \subseteq Msg
           /\ \A len \in Lengths : Arrays(len) \subseteq AnyArray
PROOF
<1>1. 1 .. MaxBuffers \subseteq Nat
  BY PipelineAssumption
<1>2. AnyArray \subseteq Buf
  BY <1>1, BuildType DEF AnyArray, Arrays, Buf
<1>3. Filled \subseteq Piece
  BY <1>2 DEF Filled, Piece
<1>4. Seq(Filled) \subseteq Seq(Piece) /\ Seq(AnyArray) \subseteq Seq(Buf)
  BY <1>2, <1>3, SeqMonotonic
<1>5. <<>> \in Seq(Piece) /\ <<>> \in Seq(Buf)
  OBVIOUS
<1>6. ToMsg \subseteq Msg
  BY <1>4, <1>5 DEF ToMsg, Msg, Args
<1>7. Lengths \subseteq Args
  BY BuildType DEF Args
<1>8. FromMsg \subseteq Msg
  BY <1>4, <1>5, <1>7 DEF FromMsg, Msg, Args
<1>9. \A len \in Lengths : Arrays(len) \subseteq AnyArray
  BY DEF Lengths, AnyArray
<1> QED BY <1>2, <1>3, <1>6, <1>8, <1>9

\* The sequences of Types, as the lemmas want them.
LEMMA Wide ==
    ASSUME Types
    PROVE  /\ toWorker \in Seq(Msg) /\ fromWorker \in Seq(Msg) /\ batchQueue \in Seq(Piece)
           /\ recycles \in Seq(Buf) /\ worker.recycles \in Seq(AnyArray) /\ worker.recycles \in Seq(Buf)
           /\ Carried(toWorker) \in Seq(Nat) /\ Carried(fromWorker) \in Seq(Nat)
           /\ SamplesOf(batchQueue) \in Seq(Nat)
PROOF
<1>1. /\ AnyArray \subseteq Buf /\ Filled \subseteq Piece
      /\ ToMsg \subseteq Msg /\ FromMsg \subseteq Msg
  BY Widen DEF Types
<1>2. toWorker \in Seq(Msg) /\ fromWorker \in Seq(Msg)
  BY <1>1, SeqMonotonic DEF Types
<1>3. batchQueue \in Seq(Piece)
  BY <1>1, SeqMonotonic DEF Types
<1>4. recycles \in Seq(Buf) /\ worker.recycles \in Seq(AnyArray)
  BY <1>1, SeqMonotonic DEF Types, WorkerType
<1>5. worker.recycles \in Seq(Buf)
  BY <1>1, <1>4, SeqMonotonic
<1> QED BY <1>2, <1>3, <1>4, <1>5, CarriedType, SamplesType

-----------------------------------------------------------------------------
(* What process() cuts.                                                    *)

Fresh == [k \in 1 .. Quantum |-> quanta * Quantum + k]
Heard == input \o Fresh
Count == Len(Heard) \div frameLength
Needed == IF workerReady THEN Count ELSE 1
Got == Acquire(pool, Needed, frameLength)
Cut(i) == SubSeq(Heard, (i - 1) * frameLength + 1, i * frameLength)
CutFrames == [i \in 1 .. Count |-> Frame(Got[IF workerReady THEN i ELSE 1], Cut(i))]
Rest == SubSeq(Heard, Count * frameLength + 1, Len(Heard))

LEMMA HeardType ==
    ASSUME Types
    PROVE  /\ Fresh \in Seq(Nat) /\ Len(Fresh) = Quantum /\ \A k \in 1 .. Quantum : Fresh[k] = quanta * Quantum + k
           /\ Heard \in Seq(Nat) /\ Len(Heard) = Len(input) + Quantum /\ Len(Heard) \in Nat
           /\ frameLength \in Nat \ {0}
           /\ Count \in Nat /\ Count * frameLength \in Nat
           /\ Count * frameLength <= Len(Heard) /\ Len(Heard) < Count * frameLength + frameLength
PROOF
<1>1. frameLength \in Nat \ {0} /\ Quantum \in Nat \ {0} /\ quanta \in Nat
  BY BuildType, PipelineAssumption DEF Types
<1>2. Fresh \in Seq(Nat) /\ Len(Fresh) = Quantum /\ \A k \in 1 .. Quantum : Fresh[k] = quanta * Quantum + k
  <2>1. quanta * Quantum \in Nat
    BY <1>1
  <2>2. \A k \in 1 .. Quantum : quanta * Quantum + k \in Nat
    BY <1>1, <2>1
  <2> QED BY <1>1, <2>2 DEF Fresh
<1>3. Heard \in Seq(Nat) /\ Len(Heard) = Len(input) + Quantum /\ Len(Heard) \in Nat
  <2>1. input \in Seq(Nat)
    BY DEF Types
  <2>2. input \o Fresh \in Seq(Nat) /\ Len(input \o Fresh) = Len(input) + Len(Fresh)
    BY <1>2, <2>1, ConcatProperties
  <2> QED BY <1>2, <2>2, LenProperties DEF Heard
<1>4. /\ Count \in Nat /\ frameLength * Count <= Len(Heard)
      /\ Len(Heard) < frameLength * Count + frameLength
  <2> DEFINE h == Len(Heard)
             c == h \div frameLength
  <2>1. h \in Nat
    BY <1>3
  <2> HIDE DEF h
  <2>2. c \in Nat /\ frameLength * c <= h /\ h < frameLength * c + frameLength
    BY <1>1, <2>1
  <2> QED BY <2>2 DEF Count, h
<1>5. Count * frameLength = frameLength * Count /\ Count * frameLength \in Nat
  BY <1>1, <1>4
<1> QED BY <1>1, <1>2, <1>3, <1>4, <1>5

LEMMA PoolUsed ==
    ASSUME Types
    PROVE  /\ IdsOf(pool) \cap Unused = {} /\ IdsOf(worker.pool) \cap Unused = {}
           /\ \A A : A \subseteq Live => IdsOf(A) \cap Unused = {}
BY DEF IdsOf, Unused, Live

LEMMA CutType ==
    ASSUME Types, CanAcquire(pool, Needed)
    PROVE  /\ Got \in Seq(Arrays(frameLength)) /\ Len(Got) = Needed /\ Needed \in Nat
           /\ \A i \in 1 .. Needed : Got[i] \in pool \/ Got[i].id \in Unused
           /\ \A i, j \in 1 .. Needed : Got[i].id = Got[j].id => i = j
           /\ CutFrames \in Seq(Filled) /\ Len(CutFrames) = Count
           /\ \A i \in 1 .. Count : Len(CutFrames[i].samples) = frameLength
           /\ Rest \in Seq(Nat) /\ Len(Rest) = Len(Heard) - Count * frameLength
           /\ SamplesOf(CutFrames) \in Seq(Nat)
           /\ SamplesOf(CutFrames) \o Rest = Heard
PROOF
<1>1. /\ Heard \in Seq(Nat) /\ Len(Heard) \in Nat /\ frameLength \in Nat \ {0} /\ Count \in Nat
      /\ Count * frameLength \in Nat /\ Count * frameLength <= Len(Heard)
  BY HeardType
<1>2. Needed \in Nat
  BY <1>1 DEF Needed
<1>3. /\ Got \in Seq(Arrays(frameLength)) /\ Len(Got) = Needed
      /\ \A i \in 1 .. Needed : Got[i] \in pool \/ Got[i].id \in Unused
      /\ \A i, j \in 1 .. Needed : Got[i].id = Got[j].id => i = j
  <2>1. pool \subseteq Arrays(frameLength) /\ IdsOf(pool) \cap Unused = {}
    BY PoolUsed DEF Types
  <2> QED BY <1>2, <2>1, AcquireGives DEF Got
<1>4. ASSUME NEW i \in 1 .. Count
      PROVE  Got[IF workerReady THEN i ELSE 1] \in Arrays(frameLength)
  <2>1. (IF workerReady THEN i ELSE 1) \in 1 .. Needed
    BY <1>1 DEF Needed
  <2>2. \A k \in 1 .. Len(Got) : Got[k] \in Arrays(frameLength)
    BY <1>3, ElementOfSeq
  <2> QED BY <1>3, <2>1, <2>2
<1>5. ASSUME NEW i \in 1 .. Count
      PROVE  Cut(i) \in Seq(Nat) /\ Len(Cut(i)) = frameLength
  <2> DEFINE p == (i - 1) * frameLength
             q == i * frameLength
  <2>1. p \in Nat /\ q = p + frameLength /\ q \in Nat
    BY <1>1
  <2>2. q <= Count * frameLength
    <3>1. \E d \in Nat : Count = i + d
      <4>1. Count - i \in Nat /\ Count = i + (Count - i)
        BY <1>1
      <4> QED BY <4>1
    <3>2. PICK d \in Nat : Count = i + d
      BY <3>1
    <3>3. (i + d) * frameLength = q + d * frameLength /\ d * frameLength \in Nat
      BY <1>1
    <3> QED BY <2>1, <3>2, <3>3
  <2> HIDE DEF p, q
  <2>3. \A k \in p + 1 .. q : Heard[k] \in Nat
    <3>1. \A k \in p + 1 .. q : k \in 1 .. Len(Heard)
      BY <1>1, <2>1, <2>2
    <3> QED BY <1>1, <3>1, ElementOfSeq
  <2>4. SubSeq(Heard, p + 1, q) \in Seq(Nat)
        /\ Len(SubSeq(Heard, p + 1, q)) = IF p + 1 <= q THEN q - (p + 1) + 1 ELSE 0
    BY <2>1, <2>3, SubSeqProperties
  <2>5. Cut(i) = SubSeq(Heard, p + 1, q)
    BY DEF Cut, p, q
  <2> QED BY <1>1, <2>1, <2>4, <2>5
<1>6. ASSUME NEW i \in 1 .. Count
      PROVE  /\ CutFrames[i] \in Filled /\ CutFrames[i].samples = Cut(i)
             /\ Len(CutFrames[i].samples) = frameLength
  <2>1. CutFrames[i] = [buf |-> Got[IF workerReady THEN i ELSE 1], samples |-> Cut(i)]
    BY DEF CutFrames, Frame
  <2>2. Arrays(frameLength) \subseteq AnyArray /\ \A b \in Arrays(frameLength) : b.len = frameLength
    BY Widen DEF Types, Arrays
  <2> QED BY <1>4, <1>5, <2>1, <2>2 DEF Filled
<1>7. CutFrames \in Seq(Filled) /\ Len(CutFrames) = Count /\ DOMAIN CutFrames = 1 .. Count
  <2>1. CutFrames = [i \in 1 .. Count |-> CutFrames[i]]
    BY DEF CutFrames
  <2>2. CutFrames \in [1 .. Count -> Filled]
    BY <1>6, <2>1
  <2> QED BY <1>1, <2>2
<1>8. SamplesOf(CutFrames) = SubSeq(Heard, 1, Count * frameLength)
  <2>1. /\ Heard \in Seq(Nat) /\ frameLength \in Nat /\ Count \in Nat
        /\ Count * frameLength <= Len(Heard)
    BY <1>1
  <2>2. FlattenSeq(Cuts(Heard, frameLength, Count)) = SubSeq(Heard, 1, Count * frameLength)
    BY <2>1, FlattenCuts
  <2>3. [i \in DOMAIN CutFrames |-> CutFrames[i].samples] = Cuts(Heard, frameLength, Count)
    BY <1>6, <1>7 DEF Cut, Cuts
  <2> QED BY <2>2, <2>3 DEF SamplesOf
<1>9. SamplesOf(CutFrames) \in Seq(Nat)
  <2>1. CutFrames \in Seq(Piece)
    BY <1>7, Widen, SeqMonotonic DEF Types
  <2> QED BY <2>1, SamplesType
<1>10. Rest \in Seq(Nat) /\ Len(Rest) = Len(Heard) - Count * frameLength
       /\ SubSeq(Heard, 1, Count * frameLength) \o Rest = Heard
  <2> DEFINE c == Count * frameLength
             n == Len(Heard)
  <2>1. c \in Nat /\ n \in Nat /\ c <= n
    BY <1>1
  <2>0. Rest = SubSeq(Heard, c + 1, n) /\ n = Len(Heard)
    BY DEF Rest
  <2> HIDE DEF c, n
  <2>2. \A k \in c + 1 .. n : Heard[k] \in Nat
    <3>1. \A k \in c + 1 .. n : k \in 1 .. Len(Heard)
      BY <2>0, <2>1
    <3> QED BY <1>1, <3>1, ElementOfSeq
  <2>3. /\ SubSeq(Heard, c + 1, n) \in Seq(Nat)
        /\ Len(SubSeq(Heard, c + 1, n)) = IF c + 1 <= n THEN n - (c + 1) + 1 ELSE 0
    BY <2>1, <2>2, SubSeqProperties
  <2>4. SubSeq(Heard, 1, c) \o SubSeq(Heard, c + 1, n) = SubSeq(Heard, 1, n)
    <3>1. 1 \in 1 .. Len(Heard) + 1 /\ c \in 1 - 1 .. Len(Heard) /\ n \in c .. Len(Heard)
      BY <2>0, <2>1
    <3> QED BY <1>1, <3>1, ConcatAdjacentSubSeq
  <2>5. SubSeq(Heard, 1, n) = Heard
    BY <1>1, <2>0, SubSeqFull
  <2>6. Len(Rest) = n - c
    BY <2>0, <2>1, <2>3
  <2> QED BY <2>0, <2>3, <2>4, <2>5, <2>6 DEF c, n
<1> QED BY <1>2, <1>3, <1>6, <1>7, <1>8, <1>9, <1>10

-----------------------------------------------------------------------------
(* The operators of the actions.                                           *)

Older(x) == IF build.timely THEN x + 1 ELSE x

LEMMA AgedType ==
    ASSUME Types, NEW S, NEW c \in Seq(S), S \in {ToMsg, FromMsg}
    PROVE  /\ Aged(c) \in Seq(S) /\ Len(Aged(c)) = Len(c)
           /\ \A i \in 1 .. Len(c) : /\ Aged(c)[i].type = c[i].type /\ Aged(c)[i].arg = c[i].arg
                                     /\ Aged(c)[i].frames = c[i].frames
                                     /\ Aged(c)[i].recycles = c[i].recycles
                                     /\ Aged(c)[i].age = Older(c[i].age)
PROOF
<1>1. DOMAIN c = 1 .. Len(c) /\ Len(c) \in Nat
  BY LenProperties
<1>2. ASSUME NEW x \in S
      PROVE  LET y == [x EXCEPT !.age = IF build.timely THEN @ + 1 ELSE @]
             IN  /\ y \in S /\ y.type = x.type /\ y.arg = x.arg /\ y.frames = x.frames
                 /\ y.recycles = x.recycles /\ y.age = Older(x.age)
  <2> DEFINE a == IF build.timely THEN x.age + 1 ELSE x.age
             y == [x EXCEPT !.age = a]
  <2>1. x.age \in Nat
    BY <1>2 DEF ToMsg, FromMsg
  <2>2. a \in Nat /\ a = Older(x.age)
    BY <2>1 DEF Older
  <2> HIDE DEF a
  <2>3. /\ y \in S /\ y.type = x.type /\ y.arg = x.arg /\ y.frames = x.frames
        /\ y.recycles = x.recycles /\ y.age = a
    <3>1. CASE S = ToMsg
      BY <2>2, <3>1 DEF ToMsg
    <3>2. CASE S = FromMsg
      BY <2>2, <3>2 DEF FromMsg
    <3> QED BY <3>1, <3>2
  <2> QED BY <2>2, <2>3 DEF a
<1>3. ASSUME NEW i \in 1 .. Len(c)
      PROVE  /\ Aged(c)[i] \in S
             /\ Aged(c)[i].type = c[i].type /\ Aged(c)[i].arg = c[i].arg
             /\ Aged(c)[i].frames = c[i].frames
             /\ Aged(c)[i].recycles = c[i].recycles
             /\ Aged(c)[i].age = Older(c[i].age)
  <2>1. c[i] \in S
    BY ElementOfSeq
  <2>2. Aged(c)[i] = [c[i] EXCEPT !.age = IF build.timely THEN @ + 1 ELSE @]
    BY <1>1 DEF Aged
  <2> QED BY <1>2, <2>1, <2>2
<1>4. Aged(c) = [i \in 1 .. Len(c) |-> Aged(c)[i]]
  BY <1>1 DEF Aged
<1>5. Aged(c) \in [1 .. Len(c) -> S]
  BY <1>3, <1>4
<1>6. Aged(c) \in Seq(S) /\ Len(Aged(c)) = Len(c)
  BY <1>1, <1>5
<1> QED BY <1>3, <1>6

\* What is played, and what stays.
Played(q) == IF Len(q) >= Quantum THEN SubSeq(q, 1, Quantum) ELSE <<>>
Kept(q) == IF Len(q) >= Quantum THEN SubSeq(q, Quantum + 1, Len(q)) ELSE q

LEMMA PlaySplits ==
    ASSUME NEW q \in Seq(Nat)
    PROVE  /\ Played(q) \in Seq(Nat) /\ Kept(q) \in Seq(Nat) /\ Played(q) \o Kept(q) = q
           /\ Len(Played(q)) = IF Len(q) >= Quantum THEN Quantum ELSE 0
           /\ Len(Kept(q)) = IF Len(q) >= Quantum THEN Len(q) - Quantum ELSE Len(q)
PROOF
<1>1. Quantum \in Nat \ {0} /\ Len(q) \in Nat
  BY PipelineAssumption, LenProperties
<1>2. CASE Len(q) >= Quantum
  <2>1. \A i \in 1 .. Len(q) : q[i] \in Nat
    BY ElementOfSeq
  <2>2. /\ SubSeq(q, 1, Quantum) \in Seq(Nat)
        /\ Len(SubSeq(q, 1, Quantum)) = IF 1 <= Quantum THEN Quantum - 1 + 1 ELSE 0
    BY <1>1, <1>2, <2>1, SubSeqProperties
  <2>3. /\ SubSeq(q, Quantum + 1, Len(q)) \in Seq(Nat)
        /\ Len(SubSeq(q, Quantum + 1, Len(q)))
              = IF Quantum + 1 <= Len(q) THEN Len(q) - (Quantum + 1) + 1 ELSE 0
    <3>1. \A i \in Quantum + 1 .. Len(q) : q[i] \in Nat
      BY <1>1, <2>1
    <3>2. Quantum + 1 \in Int /\ Len(q) \in Int
      BY <1>1
    <3> QED BY <3>1, <3>2, SubSeqProperties
  <2>4. SubSeq(q, 1, Quantum) \o SubSeq(q, Quantum + 1, Len(q)) = SubSeq(q, 1, Len(q))
    <3>1. 1 \in 1 .. Len(q) + 1 /\ Quantum \in 1 - 1 .. Len(q) /\ Len(q) \in Quantum .. Len(q)
      BY <1>1, <1>2
    <3> QED BY <3>1, ConcatAdjacentSubSeq
  <2>5. SubSeq(q, 1, Len(q)) = q
    BY SubSeqFull
  <2>6. Played(q) = SubSeq(q, 1, Quantum) /\ Kept(q) = SubSeq(q, Quantum + 1, Len(q))
    BY <1>2 DEF Played, Kept
  <2>7. Len(Played(q)) = Quantum /\ Len(Kept(q)) = Len(q) - Quantum
    <3>1. Len(Played(q)) = Quantum
      BY <1>1, <2>2, <2>6
    <3>2. Len(Kept(q)) = Len(q) - Quantum
      BY <1>1, <1>2, <2>3, <2>6
    <3> QED BY <3>1, <3>2
  <2>8. Played(q) \in Seq(Nat) /\ Kept(q) \in Seq(Nat) /\ Played(q) \o Kept(q) = q
    BY <2>2, <2>3, <2>4, <2>5, <2>6
  <2> QED BY <1>2, <2>7, <2>8
<1>3. CASE ~(Len(q) >= Quantum)
  BY <1>1, <1>3, ConcatEmptySeq DEF Played, Kept
<1> QED BY <1>2, <1>3

-----------------------------------------------------------------------------
(* The output queue as a ring buffer.                                      *)

LEMMA CapacityType ==
    ASSUME build \in Builds, NEW len \in Lengths
    PROVE  /\ CapacityOf(len) \in Nat \ {0} /\ InitialFrames * build.rnnoise \in Nat \ {0}
           /\ Larger(build.rnnoise, build.deepfilternet) + Quantum <= CapacityOf(len)
           /\ InitialFrames * build.rnnoise >= 2 * Quantum + build.rnnoise
PROOF
<1>1. /\ build.rnnoise \in Nat \ {0} /\ build.deepfilternet \in Nat \ {0} /\ build.queue \in Nat
      /\ Quantum \in Nat \ {0} /\ InitialFrames \in Nat
  BY BuildType, PipelineAssumption, QueueAssumption
<1>2. /\ build.queue >= 3 /\ InitialFrames * build.rnnoise >= 2 * Quantum + build.rnnoise
      /\ Larger(build.rnnoise, Quantum) <= 2 * Larger(build.deepfilternet, Quantum)
      /\ Larger(build.deepfilternet, Quantum) <= 2 * Larger(build.rnnoise, Quantum)
  BY QueueAssumption
<1>3. InitialFrames * build.rnnoise \in Nat
  BY <1>1
<1> DEFINE w == Larger(len, Quantum)
<1>4. w \in Nat \ {0} /\ Larger(build.rnnoise, build.deepfilternet) <= 2 * w /\ Quantum <= w
  BY <1>1, <1>2 DEF Larger, Lengths
<1> HIDE DEF w
<1>5. build.queue * w >= 3 * w /\ build.queue * w \in Nat
  <2> DEFINE d == build.queue - 3
  <2>1. d \in Nat /\ build.queue = 3 + d
    BY <1>1, <1>2
  <2> HIDE DEF d
  <2>2. (3 + d) * w = 3 * w + d * w /\ d * w \in Nat
    BY <1>4, <2>1
  <2> QED BY <1>4, <2>1, <2>2
<1>6. CapacityOf(len) = build.queue * w
  BY DEF CapacityOf, w
<1>7. Larger(build.rnnoise, build.deepfilternet) \in Nat
  BY <1>1 DEF Larger
<1> QED BY <1>1, <1>2, <1>3, <1>4, <1>5, <1>6, <1>7

LEMMA CapacityNow ==
    ASSUME Types
    PROVE  QueueCapacity \in Nat \ {0} /\ CapacityOf(frameLength) \in Nat \ {0}
BY CapacityType DEF Types, QueueCapacity

\* An index taken modulo the capacity.
LEMMA Modulo ==
    ASSUME NEW cap \in Nat \ {0}, NEW x \in Nat
    PROVE  /\ x % cap \in 0 .. cap - 1
           /\ x < cap => x % cap = x
           /\ cap <= x /\ x < 2 * cap => x % cap = x - cap
BY SMTT(30)

LEMMA LastFor ==
    ASSUME NEW cap \in Nat \ {0}, NEW n \in Nat, NEW d \in Nat, d < n
    PROVE  d + cap * ((n - 1 - d) \div cap) + 1 \in 1 .. n
PROOF
<1> DEFINE m == n - 1 - d
           k == m \div cap
<1>1. m \in Nat
  OBVIOUS
<1> HIDE DEF m
<1>2. k \in Nat /\ cap * k <= m /\ cap * k \in Nat
  BY <1>1
<1> HIDE DEF k
<1>3. d + cap * k + 1 \in 1 .. n
  BY <1>2 DEF m
<1> QED BY <1>3 DEF k, m

\* What a push leaves is a ring of the same samples and the new ones; without
\* an overrun, the new ones behind.
LEMMA PushedType ==
    ASSUME NEW cap \in Nat \ {0}, NEW q, RingOK(q, cap), NEW s \in Seq(Nat)
    PROVE  /\ RingOK(Pushed(q, s, cap), cap)
           /\ Vals(Pushed(q, s, cap).held) \subseteq Vals(q.held) \cup Vals(q.stale) \cup Vals(s)
           /\ Vals(Pushed(q, s, cap).stale) \subseteq Vals(q.held) \cup Vals(q.stale) \cup Vals(s)
           /\ q.skew = 0 /\ Len(q.held) + Len(s) <= cap =>
                Pushed(q, s, cap).held = q.held \o s /\ Pushed(q, s, cap).skew = 0
PROOF
<1> DEFINE h == q.held
           o == q.stale
           n == Len(s)
           at == WriteIndex(q, cap)
           slots == h \o o
           nth(j) == (j - 1 + cap - at) % cap
           pick(j) == IF nth(j) < n THEN s[nth(j) + cap * ((n - 1 - nth(j)) \div cap) + 1] ELSE slots[j]
           written == [j \in 1 .. cap |-> pick(j)]
           count == IF Len(h) + n <= cap THEN Len(h) + n ELSE cap
           shift == (at + n + cap - count) % cap
           v == Vals(h) \cup Vals(o) \cup Vals(s)
<1>1. /\ q \in [held : Seq(Nat), skew : Nat, stale : Seq(Nat)] /\ Len(h) <= cap
      /\ IF q.skew = 0 THEN o = <<>> ELSE q.skew < cap /\ Len(h) + Len(o) = cap
  BY DEF RingOK
<1>2. h \in Seq(Nat) /\ o \in Seq(Nat) /\ q.skew \in Nat /\ Len(h) \in Nat /\ Len(o) \in Nat /\ n \in Nat
  BY <1>1, LenProperties
<1>3. CASE q.skew = 0 /\ Len(h) + n <= cap
  <2>1. Pushed(q, s, cap) = [q EXCEPT !.held = h \o s]
    BY <1>3 DEF Pushed
  <2>2. h \o s \in Seq(Nat) /\ Len(h \o s) = Len(h) + n /\ Vals(h \o s) = Vals(h) \cup Vals(s)
    BY <1>2, ConcatProperties, ValsConcat
  <2> DEFINE x == h \o s
  <2>3. x \in Seq(Nat) /\ Len(x) = Len(h) + n /\ Vals(x) = Vals(h) \cup Vals(s)
        /\ Pushed(q, s, cap) = [q EXCEPT !.held = x]
    BY <2>1, <2>2
  <2> HIDE DEF x, h, o, n
  <2>4. /\ Pushed(q, s, cap) \in [held : Seq(Nat), skew : Nat, stale : Seq(Nat)]
        /\ Pushed(q, s, cap).held = x /\ Pushed(q, s, cap).skew = q.skew /\ Pushed(q, s, cap).stale = q.stale
    BY <1>1, <2>3
  <2>5. RingOK(Pushed(q, s, cap), cap)
    BY <1>1, <1>3, <2>3, <2>4 DEF RingOK, o
  <2> QED BY <1>3, <2>3, <2>4, <2>5 DEF x, h, o, n
<1>4. CASE ~(q.skew = 0 /\ Len(h) + n <= cap)
  <2>1. Pushed(q, s, cap) = [held |-> SubSeq(written, 1, count), skew |-> shift, stale |-> SubSeq(written, count + 1, cap)]
    BY <1>4 DEF Pushed
  <2>2. at \in 0 .. cap - 1
    <3>1. Len(h) + q.skew \in Nat
      BY <1>2
    <3> QED BY <3>1, Modulo DEF WriteIndex
  <2>3. count \in 0 .. cap /\ (count < cap => Len(h) + n < cap /\ count = Len(h) + n)
    BY <1>2
  <2>4. shift \in 0 .. cap - 1
    <3> HIDE DEF at, count, n, h
    <3>1. at + n + cap - count \in Nat
      BY <1>2, <2>2, <2>3
    <3> QED BY <3>1, Modulo DEF at, count, n, h
  <2>5. slots \in Seq(Nat) /\ Len(slots) = Len(h) + Len(o) /\ Vals(slots) = Vals(h) \cup Vals(o)
    BY <1>2, ConcatProperties, ValsConcat
  <2>6. ASSUME NEW j \in 1 .. cap PROVE nth(j) \in 0 .. cap - 1
    <3>1. j - 1 + cap - at \in Nat
      BY <2>2
    <3> QED BY <3>1, Modulo
  <2>7. ASSUME NEW j \in 1 .. cap, ~(nth(j) < n) PROVE j \in 1 .. Len(slots)
    <3>1. CASE q.skew # 0
      BY <1>1, <2>5, <3>1
    <3>2. CASE q.skew = 0 /\ Len(h) = cap
      BY <1>1, <1>2, <2>5, <3>2
    <3>3. CASE q.skew = 0 /\ Len(h) < cap
      <4>1. at = Len(h)
        <5>1. WriteIndex(q, cap) = Len(h) % cap
          BY <1>2, <3>3 DEF WriteIndex
        <5> QED BY <1>2, <3>3, <5>1, Modulo
      <4>2. CASE j > Len(h)
        <5> DEFINE x == j - 1 + cap - at
        <5>1. x \in Nat /\ cap <= x /\ x < 2 * cap /\ x - cap = j - 1 - Len(h)
          <6> HIDE DEF at, h
          <6> QED BY <1>2, <4>1, <4>2
        <5>2. nth(j) = j - 1 - Len(h)
          <6> HIDE DEF x, at, h
          <6> QED BY <5>1, Modulo DEF x
        <5>3. j - 1 - Len(h) < n
          <6> HIDE DEF n, h
          <6>1. cap < Len(h) + n
            BY <1>2, <1>4, <3>3
          <6> QED BY <1>2, <4>2, <6>1
        <5> QED BY <2>7, <5>2, <5>3
      <4>3. CASE ~(j > Len(h))
        <5> HIDE DEF slots, h, o
        <5>1. Len(slots) >= Len(h)
          BY <1>2, <2>5
        <5> QED BY <1>2, <2>5, <4>3, <5>1
      <4> QED BY <4>2, <4>3
    <3> QED BY <1>1, <1>2, <3>1, <3>2, <3>3
  <2>8. ASSUME NEW j \in 1 .. cap PROVE pick(j) \in Nat /\ (pick(j) = 0 \/ pick(j) \in v)
    <3>1. CASE nth(j) < n
      <4> DEFINE i == nth(j) + cap * ((n - 1 - nth(j)) \div cap) + 1
      <4>1. i \in 1 .. n
        <5> DEFINE d == nth(j)
        <5>1. d \in Nat /\ d < n
          BY <2>6, <3>1
        <5> HIDE DEF d
        <5>2. d + cap * ((n - 1 - d) \div cap) + 1 \in 1 .. n
          BY <1>2, <5>1, LastFor
        <5> QED BY <5>2 DEF d
      <4>2. pick(j) = s[i]
        BY <3>1
      <4> HIDE DEF i
      <4>3. s[i] \in Nat /\ (s[i] = 0 \/ s[i] \in Vals(s))
        BY <4>1, ElementOfSeq DEF Vals
      <4> HIDE DEF pick
      <4> QED BY <4>2, <4>3
    <3>2. CASE ~(nth(j) < n)
      <4>1. j \in 1 .. Len(slots) /\ pick(j) = slots[j]
        BY <2>7, <3>2
      <4> HIDE DEF slots, pick, nth, h, o
      <4>2. slots[j] \in Nat /\ (slots[j] = 0 \/ slots[j] \in Vals(slots))
        BY <2>5, <4>1, ElementOfSeq DEF Vals
      <4> QED BY <2>5, <4>1, <4>2
    <3> QED BY <3>1, <3>2
  <2> HIDE DEF pick, slots, nth
  <2>9. /\ \A j \in 1 .. cap : written[j] \in Nat /\ (written[j] = 0 \/ written[j] \in v)
        /\ written \in [1 .. cap -> Nat]
    BY <2>8
  <2> HIDE DEF written, count, shift, v, at
  <2>10. ASSUME NEW a \in 1 .. cap + 1, NEW b \in 0 .. cap
         PROVE  LET t == SubSeq(written, a, b)
                IN  t \in Seq(Nat) /\ Len(t) = (IF a <= b THEN b - a + 1 ELSE 0) /\ Vals(t) \subseteq v
    <3> DEFINE t == SubSeq(written, a, b)
               l == IF a <= b THEN b - a + 1 ELSE 0
    <3>1. \A i \in a .. b : i \in 1 .. cap /\ written[i] \in Nat
      BY <2>9
    <3>2. t \in Seq(Nat) /\ Len(t) = l /\ \A i \in 1 .. b - a + 1 : t[i] = written[a + i - 1]
      BY <3>1, SubSeqProperties
    <3>3. \A i \in 1 .. l : i \in 1 .. b - a + 1 /\ a + i - 1 \in 1 .. cap
      OBVIOUS
    <3> HIDE DEF t, l
    <3>4. \A i \in 1 .. Len(t) : t[i] = 0 \/ t[i] \in v
      BY <2>9, <3>2, <3>3
    <3>5. Vals(t) \subseteq v
      BY <3>4 DEF Vals
    <3> QED BY <3>2, <3>5 DEF t, l
  <2> DEFINE front == SubSeq(written, 1, count)
             back == SubSeq(written, count + 1, cap)
  <2>11. front \in Seq(Nat) /\ Len(front) = count /\ Vals(front) \subseteq v
    <3>1. 1 \in 1 .. cap + 1 /\ count \in 0 .. cap /\ (IF 1 <= count THEN count - 1 + 1 ELSE 0) = count
      BY <2>3
    <3> QED BY <2>10, <3>1
  <2>12. back \in Seq(Nat) /\ Len(back) = cap - count /\ Vals(back) \subseteq v
    <3>1. count + 1 \in 1 .. cap + 1 /\ cap \in 0 .. cap
          /\ (IF count + 1 <= cap THEN cap - (count + 1) + 1 ELSE 0) = cap - count
      BY <2>3
    <3> QED BY <2>10, <3>1
  <2>13. shift = 0 => count = cap
    <3> SUFFICES ASSUME count < cap PROVE shift # 0
      BY <2>3
    <3> DEFINE k == q.skew
               y == Len(h) + k
    <3>1. k # 0 /\ k < cap /\ k \in Nat /\ Len(h) + n < cap /\ count = Len(h) + n
      BY <1>1, <1>2, <1>4, <2>3
    <3>2. y \in Nat /\ y < 2 * cap /\ at = y % cap
      <4>1. at = y % cap
        BY DEF WriteIndex, at
      <4>2. Len(h) + k \in Nat /\ Len(h) + k < 2 * cap
        <5> HIDE DEF k, h, n, count
        <5>1. Len(h) \in Nat /\ n \in Nat
          BY <1>2
        <5> QED BY <3>1, <5>1
      <4> QED BY <4>1, <4>2
    <3>3. at = y \/ at = y - cap
      <4> HIDE DEF y
      <4>1. y < cap => y % cap = y
        BY <3>2, Modulo
      <4>2. cap <= y => y % cap = y - cap
        BY <3>2, Modulo
      <4> QED BY <3>2, <4>1, <4>2
    <3> DEFINE z == at + n + cap - count
    <3> HIDE DEF k, h, n
    <3>4. z = k + cap \/ z = k
      BY <1>2, <3>1, <3>3
    <3>5. z \in Nat /\ (z < cap => z = k) /\ (cap <= z => z < 2 * cap /\ z - cap = k)
      BY <3>1, <3>4
    <3>6. shift = z % cap
      BY DEF shift
    <3> HIDE DEF z, y
    <3>7. z % cap = k
      <4>1. z < cap => z % cap = z
        BY <3>5, Modulo
      <4>2. cap <= z => z % cap = z - cap
        BY <3>5, Modulo
      <4> QED BY <3>1, <3>5, <4>1, <4>2
    <3> QED BY <3>1, <3>6, <3>7 DEF k, h, n
  <2> HIDE DEF front, back
  <2>14. Pushed(q, s, cap) = [held |-> front, skew |-> shift, stale |-> back]
    BY <2>1 DEF front, back
  <2>15. /\ Pushed(q, s, cap) \in [held : Seq(Nat), skew : Nat, stale : Seq(Nat)]
         /\ Pushed(q, s, cap).held = front /\ Pushed(q, s, cap).skew = shift /\ Pushed(q, s, cap).stale = back
    <3>1. shift \in Nat
      BY <2>4
    <3> QED BY <2>11, <2>12, <2>14, <3>1
  <2>16. RingOK(Pushed(q, s, cap), cap)
    <3>1. Len(front) <= cap /\ Len(front) + Len(back) = cap /\ shift < cap
      BY <2>3, <2>4, <2>11, <2>12
    <3>2. shift = 0 => back = <<>>
      <4>1. shift = 0 => Len(back) = 0
        BY <2>12, <2>13
      <4> QED BY <2>12, <4>1, EmptySeq
    <3> QED BY <2>15, <3>1, <3>2 DEF RingOK
  <2> QED BY <1>4, <2>11, <2>12, <2>15, <2>16 DEF v
<1> QED BY <1>3, <1>4

LEMMA EmptyRing ==
    ASSUME NEW cap \in Nat
    PROVE  RingOK(EmptyQueue, cap)
PROOF
<1>1. <<>> \in Seq(Nat) /\ Len(<<>>) = 0
  OBVIOUS
<1> QED BY <1>1 DEF RingOK, EmptyQueue

LEMMA DrainedType ==
    ASSUME Types, NEW len \in Lengths
    PROVE  /\ RingOK(Drained(len), CapacityOf(len))
           /\ Vals(Drained(len).held) \subseteq Vals(output) /\ Vals(Drained(len).stale) \subseteq Vals(output)
           /\ Len(output) <= CapacityOf(len) => Drained(len).held = output /\ Drained(len).skew = 0
PROOF
<1> DEFINE cap == CapacityOf(len)
<1>1. cap \in Nat \ {0} /\ output \in Seq(Nat)
  BY CapacityType DEF Types
<1>2. EmptyQueue.held = <<>> /\ EmptyQueue.skew = 0 /\ EmptyQueue.stale = <<>>
  BY DEF EmptyQueue
<1> HIDE DEF cap
<1>3. RingOK(EmptyQueue, cap)
  BY <1>1, EmptyRing
<1> DEFINE e == EmptyQueue
           p == Pushed(e, output, cap)
<1>4. RingOK(e, cap) /\ e.held = <<>> /\ e.skew = 0 /\ e.stale = <<>>
  BY <1>2, <1>3
<1> HIDE DEF e
<1>5. /\ RingOK(p, cap)
      /\ Vals(p.held) \subseteq Vals(e.held) \cup Vals(e.stale) \cup Vals(output)
      /\ Vals(p.stale) \subseteq Vals(e.held) \cup Vals(e.stale) \cup Vals(output)
      /\ e.skew = 0 /\ Len(e.held) + Len(output) <= cap => p.held = e.held \o output /\ p.skew = 0
  BY <1>1, <1>4, PushedType
<1>6. Vals(<<>>) = {} /\ <<>> \o output = output /\ Len(<<>>) + Len(output) = Len(output)
  BY <1>1, ConcatEmptySeq, LenProperties DEF Vals
<1>7. Drained(len) = p
  BY DEF Drained, p, e, cap
<1> HIDE DEF p
<1> QED BY <1>4, <1>5, <1>6, <1>7 DEF cap

\* The pull of process() takes from the front.
LEMMA PlayDoes ==
    ASSUME NEW cap \in Nat \ {0}, NEW q, RingOK(q, cap), Play(q), lastPlayed \in Nat, starved \in Nat, prefilled \in BOOLEAN
    PROVE  /\ output' = Kept(q.held) /\ skew' = q.skew /\ RingOK(Queue', cap)
           /\ Vals(stale') \subseteq Vals(q.held) \cup Vals(q.stale)
           /\ lastPlayed' = IF Numbered(Played(q.held)) = <<>> THEN lastPlayed ELSE Last(Numbered(Played(q.held)))
           /\ lastPlayed' \in Nat
           /\ starved' = IF Len(q.held) < Quantum /\ prefilled THEN starved + 1 ELSE starved
           /\ q.held \in Seq(Nat)
PROOF
<1> DEFINE h == q.held
<1>1. Quantum \in Nat \ {0} /\ Len(h) \in Nat /\ h \in Seq(Nat) /\ q.skew \in Nat /\ q.stale \in Seq(Nat)
  BY PipelineAssumption, LenProperties DEF RingOK
<1>2. output' = Kept(h) /\ skew' = q.skew
  BY DEF Play, Kept, OutputBecomes
<1>3. lastPlayed' = IF Numbered(Played(h)) = <<>> THEN lastPlayed ELSE Last(Numbered(Played(h)))
  BY NumberedEmpty DEF Play, Played
<1>4. lastPlayed' \in Nat
  <2> DEFINE x == Numbered(Played(h))
  <2>1. x \in Seq(Nat)
    BY <1>1, PlaySplits, NumberedType
  <2> HIDE DEF x
  <2>2. x # <<>> => Last(x) \in Nat
    BY <2>1, ElementOfSeq, EmptySeq DEF Last
  <2> QED BY <1>3, <2>2 DEF x
<1>5. starved' = IF Len(h) < Quantum /\ prefilled THEN starved + 1 ELSE starved
  <2>1. CASE Len(h) >= Quantum
    <3>1. ~(Len(h) < Quantum)
      BY <1>1, <2>1
    <3>2. starved' = starved
      BY <2>1 DEF Play
    <3> QED BY <3>1, <3>2
  <2>2. CASE ~(Len(h) >= Quantum)
    <3>1. Len(h) < Quantum
      BY <1>1, <2>2
    <3>2. starved' = IF prefilled THEN starved + 1 ELSE starved
      BY <2>2 DEF Play
    <3> QED BY <3>1, <3>2
  <2> QED BY <2>1, <2>2
<1>6. /\ Played(h) \in Seq(Nat) /\ Kept(h) \in Seq(Nat) /\ Played(h) \o Kept(h) = h
      /\ Len(Played(h)) = IF Len(h) >= Quantum THEN Quantum ELSE 0
      /\ Len(Kept(h)) = IF Len(h) >= Quantum THEN Len(h) - Quantum ELSE Len(h)
  BY <1>1, PlaySplits
<1>7. stale' = IF q.skew = 0 THEN <<>> ELSE q.stale \o Played(h)
  <2>1. CASE Len(h) >= Quantum
    BY <2>1 DEF Play, Played
  <2>2. CASE ~(Len(h) >= Quantum)
    <3>1. stale' = q.stale /\ Played(h) = <<>>
      BY <2>2 DEF Play, Played, OutputBecomes
    <3> QED BY <1>1, <3>1, ConcatEmptySeq DEF RingOK
  <2> QED BY <2>1, <2>2
<1>8. Queue' = [held |-> output', skew |-> skew', stale |-> stale']
  BY DEF Queue
<1> DEFINE pl == Played(h)
           k == Kept(h)
           st == q.stale \o pl
<1>9. st \in Seq(Nat) /\ Len(st) = Len(q.stale) + Len(pl) /\ Vals(st) = Vals(q.stale) \cup Vals(pl)
      /\ Vals(h) = Vals(pl) \cup Vals(k)
  BY <1>1, <1>6, ConcatProperties, ValsConcat
<1>10. stale' = IF q.skew = 0 THEN <<>> ELSE st
  BY <1>7
<1>11. Len(q.stale) \in Nat /\ Len(h) <= cap /\ (q.skew # 0 => q.skew < cap /\ Len(h) + Len(q.stale) = cap)
  BY <1>1, LenProperties DEF RingOK
<1>12. output' = k /\ k \in Seq(Nat) /\ Len(k) <= cap /\ (q.skew # 0 => Len(k) + Len(st) = cap)
  <2>1. output' = k /\ k \in Seq(Nat)
    BY <1>2, <1>6
  <2>2. /\ Len(pl) = IF Len(h) >= Quantum THEN Quantum ELSE 0
        /\ Len(k) = IF Len(h) >= Quantum THEN Len(h) - Quantum ELSE Len(h)
    BY <1>6
  <2>3. Len(st) = Len(q.stale) + Len(pl)
    BY <1>9
  <2> HIDE DEF st, k, pl, h
  <2>4. CASE Len(h) >= Quantum
    <3>1. Len(k) = Len(h) - Quantum /\ Len(pl) = Quantum
      BY <2>2, <2>4
    <3>2. Len(h) \in Nat /\ Quantum \in Nat /\ Len(q.stale) \in Nat
      BY <1>1, <1>11
    <3>3. Len(k) <= cap
      BY <1>11, <3>1, <3>2
    <3>4. q.skew # 0 => Len(k) + Len(st) = cap
      BY <1>11, <2>3, <3>1, <3>2
    <3> QED BY <2>1, <3>3, <3>4
  <2>5. CASE ~(Len(h) >= Quantum)
    BY <1>1, <1>11, <2>1, <2>2, <2>3, <2>5
  <2> QED BY <2>4, <2>5
<1> HIDE DEF st, k, pl, h
<1>13. Queue' \in [held : Seq(Nat), skew : Nat, stale : Seq(Nat)]
       /\ Queue'.held = k /\ Queue'.skew = q.skew /\ Queue'.stale = IF q.skew = 0 THEN <<>> ELSE st
  <2>1. <<>> \in Seq(Nat)
    OBVIOUS
  <2>2. stale' \in Seq(Nat)
    BY <1>9, <1>10, <2>1
  <2> QED BY <1>1, <1>2, <1>8, <1>10, <1>12, <2>2
<1>14. RingOK(Queue', cap)
  BY <1>11, <1>12, <1>13 DEF RingOK
<1>15. Vals(stale') \subseteq Vals(h) \cup Vals(q.stale)
  <2>1. Vals(<<>>) = {}
    BY DEF Vals
  <2> QED BY <1>9, <1>10, <2>1
<1> QED BY <1>1, <1>2, <1>3, <1>4, <1>5, <1>14, <1>15 DEF h

\* The queue process() plays from.
Supply == IF workerReady THEN Queue ELSE Pushed(Queue, SamplesOf(CutFrames), QueueCapacity)

LEMMA SupplyType ==
    ASSUME Types, CanAcquire(pool, Needed)
    PROVE  LET cut == IF workerReady THEN <<>> ELSE SamplesOf(CutFrames)
           IN  /\ RingOK(Supply, QueueCapacity) /\ cut \in Seq(Nat)
               /\ Vals(Supply.held) \subseteq Vals(output) \cup Vals(stale) \cup Vals(cut)
               /\ Vals(Supply.stale) \subseteq Vals(output) \cup Vals(stale) \cup Vals(cut)
               /\ skew = 0 /\ (workerReady \/ Len(output) + Count * frameLength <= QueueCapacity) =>
                    Supply.held = output \o cut /\ Supply.skew = 0
PROOF
<1> DEFINE c == SamplesOf(CutFrames)
           q == Queue
<1>1. /\ RingOK(q, QueueCapacity) /\ q.held = output /\ q.stale = stale /\ q.skew = skew /\ output \in Seq(Nat)
      /\ QueueCapacity \in Nat \ {0}
  BY CapacityNow DEF Types, Queue
<1> HIDE DEF q
<1>2. c \in Seq(Nat) /\ Len(c) = Count * frameLength
  <2>1. /\ CutFrames \in Seq(Filled) /\ Len(CutFrames) = Count /\ c \in Seq(Nat)
        /\ \A i \in 1 .. Count : Len(CutFrames[i].samples) = frameLength
    BY CutType
  <2>2. CutFrames \in Seq(Piece) /\ frameLength \in Nat
    BY <2>1, Widen, SeqMonotonic, HeardType DEF Types
  <2> QED BY <2>1, <2>2, SamplesLength
<1>3. CASE workerReady
  <2>1. Supply = q
    BY <1>3 DEF Supply, q
  <2>2. <<>> \in Seq(Nat) /\ output \o <<>> = output
    BY <1>1, ConcatEmptySeq
  <2> QED BY <1>1, <1>3, <2>1, <2>2
<1>4. CASE ~workerReady
  <2> DEFINE p == Pushed(q, c, QueueCapacity)
  <2>1. Supply = p
    BY <1>4 DEF Supply, q
  <2> HIDE DEF c
  <2>2. /\ RingOK(p, QueueCapacity)
        /\ Vals(p.held) \subseteq Vals(q.held) \cup Vals(q.stale) \cup Vals(c)
        /\ Vals(p.stale) \subseteq Vals(q.held) \cup Vals(q.stale) \cup Vals(c)
        /\ q.skew = 0 /\ Len(q.held) + Len(c) <= QueueCapacity => p.held = q.held \o c /\ p.skew = 0
    BY <1>1, <1>2, PushedType
  <2> HIDE DEF p
  <2> QED BY <1>1, <1>2, <1>4, <2>1, <2>2 DEF c
<1> QED BY <1>3, <1>4

\* process(), with its local values named.
LEMMA ProcessDoes ==
    ASSUME Types, Process
    PROVE  /\ CanAcquire(pool, Needed)
           /\ quanta < build.quanta /\ quanta' = quanta + 1 /\ ~destroyed
           /\ input' = Rest
           /\ workerReady => Collect(CutFrames) /\ pool' = pool \ Range(Got)
           /\ ~workerReady => /\ pool' = IF Count = 0 THEN pool ELSE pool \cup Range(Got)
                              /\ UNCHANGED <<batchQueue, recycles, toWorker>>
           /\ Play(Supply) /\ RingOK(Supply, QueueCapacity) /\ Supply.held \in Seq(Nat)
           /\ workerReady => overrun' = overrun
           /\ ~workerReady => overrun' = (overrun \/ Len(output) + Count * frameLength > QueueCapacity)
           /\ fromWorker' = Aged(fromWorker)
           /\ UNCHANGED <<build, controls, frameLength, workerReady, prefilled, destroyed, worker, dropped>>
PROOF
<1>1. CanAcquire(pool, Needed)
  BY DEF Process, Needed, Count, Heard, Fresh
<1>2. RingOK(Supply, QueueCapacity) /\ Supply.held \in Seq(Nat)
  BY <1>1, SupplyType DEF RingOK
<1>3. input' = Rest
  BY DEF Process, Rest, Count, Heard, Fresh
<1>4. (workerReady /\ Collect(CutFrames) /\ pool' = pool \ Range(Got) /\ Play(Queue) /\ overrun' = overrun)
      \/ (~workerReady /\ pool' = (IF Count = 0 THEN pool ELSE pool \cup Range(Got))
          /\ Play(Pushed(Queue, SamplesOf(CutFrames), QueueCapacity)) /\ UNCHANGED <<batchQueue, recycles, toWorker>>
          /\ Overruns(Count * frameLength, QueueCapacity))
  BY DEF Process, CutFrames, Cut, Got, Needed, Count, Heard, Fresh
<1>5. Play(Supply)
  BY <1>4 DEF Supply
<1>6. /\ quanta < build.quanta /\ quanta' = quanta + 1 /\ ~destroyed /\ fromWorker' = Aged(fromWorker)
      /\ UNCHANGED <<build, controls, frameLength, workerReady, prefilled, destroyed, worker, dropped>>
  BY DEF Process
<1>7. ~workerReady => overrun' = (overrun \/ Len(output) + Count * frameLength > QueueCapacity)
  BY <1>4 DEF Overruns
<1> QED BY <1>1, <1>2, <1>3, <1>4, <1>5, <1>6, <1>7

\* Unless it is overrun, process() plays what was queued and what it cuts itself.
LEMMA SupplyKept ==
    ASSUME Types, Process, ~overrun'
    PROVE  /\ Supply.held = output \o (IF workerReady THEN <<>> ELSE SamplesOf(CutFrames)) /\ Supply.skew = 0
           /\ ~overrun /\ skew = 0
PROOF
<1>1. /\ CanAcquire(pool, Needed)
      /\ workerReady => overrun' = overrun
      /\ ~workerReady => overrun' = (overrun \/ Len(output) + Count * frameLength > QueueCapacity)
  BY ProcessDoes
<1>2. ~overrun /\ (workerReady \/ ~(Len(output) + Count * frameLength > QueueCapacity))
  <2>1. CASE workerReady
    BY <1>1, <2>1
  <2>2. CASE ~workerReady
    <3>1. ~(overrun \/ Len(output) + Count * frameLength > QueueCapacity)
      BY <1>1, <2>2
    <3> QED BY <3>1
  <2> QED BY <2>1, <2>2
<1>3. Len(output) \in Nat /\ Count * frameLength \in Nat /\ QueueCapacity \in Nat
  BY HeardType, CapacityNow, LenProperties DEF Types
<1>4. skew = 0 /\ (workerReady \/ Len(output) + Count * frameLength <= QueueCapacity)
  BY <1>2, <1>3 DEF Types
<1> QED BY <1>1, <1>2, <1>4, SupplyType

\* _sendBatch, or not yet.
Gathered == batchQueue \o CutFrames

LEMMA CollectDoes ==
    ASSUME Types, CanAcquire(pool, Needed), Collect(CutFrames)
    PROVE  /\ Gathered \in Seq(Filled) /\ Len(Gathered) = Len(batchQueue) + Count
           /\ SamplesOf(Gathered) = SamplesOf(batchQueue) \o SamplesOf(CutFrames)
           /\ \/ /\ Len(Gathered) < build.batch
                 /\ batchQueue' = Gathered /\ toWorker' = Aged(toWorker) /\ recycles' = recycles
              \/ /\ Len(Gathered) >= build.batch
                 /\ batchQueue' = <<>> /\ recycles' = <<>>
                 /\ toWorker' = Append(Aged(toWorker), Batch("PROCESS_FRAME_BATCH", Gathered, recycles, 0))
                 /\ Batch("PROCESS_FRAME_BATCH", Gathered, recycles, 0) \in ToMsg
PROOF
<1>1. batchQueue \in Seq(Filled) /\ CutFrames \in Seq(Filled) /\ Len(CutFrames) = Count
  BY CutType DEF Types
<1>2. Gathered \in Seq(Filled) /\ Len(Gathered) = Len(batchQueue) + Count
  BY <1>1, ConcatProperties DEF Gathered
<1>3. batchQueue \in Seq(Piece) /\ CutFrames \in Seq(Piece)
  BY <1>1, Widen, SeqMonotonic DEF Types
<1>4. SamplesOf(Gathered) = SamplesOf(batchQueue) \o SamplesOf(CutFrames)
  BY <1>3, SamplesConcat DEF Gathered
<1>5. Batch("PROCESS_FRAME_BATCH", Gathered, recycles, 0) \in ToMsg
  BY <1>2 DEF Batch, ToMsg, Types
<1>6. \/ /\ Len(Gathered) < build.batch
         /\ batchQueue' = Gathered /\ toWorker' = Aged(toWorker) /\ recycles' = recycles
      \/ /\ Len(Gathered) >= build.batch
         /\ batchQueue' = <<>> /\ recycles' = <<>>
         /\ toWorker' = Append(Aged(toWorker), Batch("PROCESS_FRAME_BATCH", Gathered, recycles, 0))
  BY DEF Collect, Gathered
<1> QED BY <1>2, <1>4, <1>5, <1>6

LEMMA ArraysOfType ==
    ASSUME NEW f \in Seq(Filled)
    PROVE  /\ ArraysOf(f) \in Seq(AnyArray) /\ Len(ArraysOf(f)) = Len(f)
           /\ \A i \in 1 .. Len(f) : ArraysOf(f)[i] = f[i].buf
PROOF
<1>1. DOMAIN f = 1 .. Len(f) /\ Len(f) \in Nat
  BY LenProperties
<1>2. \A i \in 1 .. Len(f) : f[i].buf \in AnyArray
  BY ElementOfSeq DEF Filled
<1>3. ArraysOf(f) = [i \in 1 .. Len(f) |-> f[i].buf]
  BY <1>1 DEF ArraysOf
<1>4. ArraysOf(f) \in [1 .. Len(f) -> AnyArray]
  BY <1>2, <1>3
<1> QED BY <1>1, <1>3, <1>4

LEMMA DenoisedType ==
    ASSUME Types, NEW s \in Seq(Nat)
    PROVE  /\ Denoised(s) \in Seq(Nat) /\ Len(Denoised(s)) = worker.size
           /\ Thins(Denoised(s), s)
           /\ Len(s) = worker.size => Denoised(s) = s
PROOF
<1> DEFINE n == worker.size
<1>1. n \in Nat \ {0} /\ Len(s) \in Nat
  BY BuildType, LenProperties DEF Types, WorkerType
<1> HIDE DEF n
<1>2. CASE Len(s) < n
  <2>1. Denoised(s) = s \o Silent(n - Len(s))
    BY <1>2 DEF Denoised, n
  <2>2. n - Len(s) \in Nat
    BY <1>1, <1>2
  <2>3. Silent(n - Len(s)) \in Seq(Nat) /\ Len(Silent(n - Len(s))) = n - Len(s)
        /\ Thins(Silent(n - Len(s)), <<>>)
    BY <2>2, ThinsSilent
  <2>4. s \o Silent(n - Len(s)) \in Seq(Nat) /\ Len(s \o Silent(n - Len(s))) = Len(s) + Len(Silent(n - Len(s)))
    BY <2>3, ConcatProperties
  <2>5. Len(s) + (n - Len(s)) = n
    BY <1>1
  <2>6. Thins(s \o Silent(n - Len(s)), s)
    <3>1. Thins(s \o Silent(n - Len(s)), s \o <<>>)
      <4>1. <<>> \in Seq(Nat) /\ Thins(s, s)
        BY ThinsSelf
      <4> QED BY <2>3, <4>1, ThinsConcat
    <3> QED BY <3>1, ConcatEmptySeq
  <2>7. Len(s) # n
    BY <1>1, <1>2
  <2> QED BY <2>1, <2>3, <2>4, <2>5, <2>6, <2>7 DEF n
<1>3. CASE ~(Len(s) < n)
  <2>1. Denoised(s) = SubSeq(s, 1, n)
    BY <1>3 DEF Denoised, n
  <2>2. n \in 0 .. Len(s)
    BY <1>1, <1>3
  <2>3. SubSeq(s, 1, n) \in Seq(Nat) /\ Thins(SubSeq(s, 1, n), s)
    BY <2>2, ThinsPrefix
  <2>4. Len(SubSeq(s, 1, n)) = n
    <3>1. \A i \in 1 .. n : s[i] \in Nat
      BY <2>2, <1>1, ElementOfSeq
    <3>2. Len(SubSeq(s, 1, n)) = IF 1 <= n THEN n - 1 + 1 ELSE 0
      BY <1>1, <3>1, SubSeqProperties
    <3> QED BY <1>1, <3>2
  <2>5. Len(s) = n => SubSeq(s, 1, n) = s
    BY SubSeqFull
  <2> QED BY <2>1, <2>3, <2>4, <2>5 DEF n
<1> QED BY <1>2, <1>3

Free(msg) == Release(worker.pool, msg.recycles, worker.size)
Outputs(msg) == Acquire(Free(msg), Len(msg.frames), worker.size)
Results(msg) == [i \in 1 .. Len(msg.frames) |-> Frame(Outputs(msg)[i], Denoised(msg.frames[i].samples))]
Lost(msg, k) == {Outputs(msg)[i] : i \in 1 .. k}

LEMMA HeadOfTo ==
    ASSUME Types, toWorker # <<>>
    PROVE  /\ Head(toWorker) \in ToMsg /\ Tail(toWorker) \in Seq(ToMsg) /\ Head(toWorker) = toWorker[1]
           /\ Len(toWorker) \in Nat \ {0}
           /\ Head(toWorker).frames \in Seq(Filled) /\ Head(toWorker).recycles \in Seq(AnyArray)
           /\ Head(toWorker).age \in Nat
PROOF
<1>1. Head(toWorker) \in ToMsg /\ Tail(toWorker) \in Seq(ToMsg) /\ Head(toWorker) = toWorker[1]
      /\ Len(toWorker) \in Nat \ {0}
  BY HeadTailProperties, EmptySeq DEF Types
<1>2. <<>> \in Seq(Filled) /\ <<>> \in Seq(AnyArray)
  OBVIOUS
<1> QED BY <1>1, <1>2 DEF ToMsg

LEMMA HeadOfFrom ==
    ASSUME Types, fromWorker # <<>>
    PROVE  /\ Head(fromWorker) \in FromMsg /\ Tail(fromWorker) \in Seq(FromMsg) /\ Head(fromWorker) = fromWorker[1]
           /\ Len(fromWorker) \in Nat \ {0}
           /\ Head(fromWorker).frames \in Seq(Filled) /\ Head(fromWorker).recycles \in Seq(AnyArray)
           /\ Head(fromWorker).age \in Nat
PROOF
<1>1. Head(fromWorker) \in FromMsg /\ Tail(fromWorker) \in Seq(FromMsg) /\ Head(fromWorker) = fromWorker[1]
      /\ Len(fromWorker) \in Nat \ {0}
  BY HeadTailProperties, EmptySeq DEF Types
<1>2. <<>> \in Seq(Filled) /\ <<>> \in Seq(AnyArray)
  OBVIOUS
<1> QED BY <1>1, <1>2 DEF FromMsg

LEMMA FreeType ==
    ASSUME Types, toWorker # <<>>
    PROVE  LET msg == Head(toWorker)
           IN  /\ Free(msg) \subseteq Arrays(worker.size) /\ Free(msg) \subseteq AnyArray
               /\ Free(msg) \subseteq worker.pool \cup Range(msg.recycles)
               /\ IdsOf(Free(msg)) \cap Unused = {}
PROOF
<1> DEFINE msg == Head(toWorker)
<1>1. Head(toWorker) = toWorker[1] /\ msg.recycles \in Seq(AnyArray) /\ 1 \in DOMAIN toWorker
  BY HeadOfTo, LenProperties DEF Types
<1>2. Range(msg.recycles) \subseteq AnyArray
  BY <1>1, RangeOfSeq
<1>3. Free(msg) \subseteq worker.pool \cup Range(msg.recycles)
  BY DEF Free, Release
<1>4. Free(msg) \subseteq Arrays(worker.size)
  <2>1. worker.pool \subseteq Arrays(worker.size)
    BY DEF Types, WorkerType
  <2>2. \A b \in AnyArray : b.len = worker.size => b \in Arrays(worker.size)
    BY DEF AnyArray, Arrays
  <2> QED BY <1>2, <2>1, <2>2 DEF Free, Release
<1>5. Range(msg.recycles) \subseteq InMessages(toWorker)
  BY <1>1 DEF InMessages
<1>6. Free(msg) \subseteq Live
  BY <1>3, <1>5 DEF Live
<1>7. Arrays(worker.size) \subseteq AnyArray
  BY Widen DEF Types, WorkerType
<1> QED BY <1>3, <1>4, <1>6, <1>7, PoolUsed

LEMMA ResultsType ==
    ASSUME Types, toWorker # <<>>, CanAcquire(Free(Head(toWorker)), Len(Head(toWorker).frames))
    PROVE  LET msg == Head(toWorker)
               n == Len(msg.frames)
           IN  /\ n \in Nat
               /\ Outputs(msg) \in Seq(Arrays(worker.size)) /\ Len(Outputs(msg)) = n
               /\ \A i \in 1 .. n : Outputs(msg)[i] \in Free(msg) \/ Outputs(msg)[i].id \in Unused
               /\ \A i, j \in 1 .. n : Outputs(msg)[i].id = Outputs(msg)[j].id => i = j
               /\ Results(msg) \in Seq(Filled) /\ Len(Results(msg)) = n
               /\ \A i \in 1 .. n : /\ Results(msg)[i].buf = Outputs(msg)[i]
                                    /\ Results(msg)[i].samples = Denoised(msg.frames[i].samples)
PROOF
<1> DEFINE msg == Head(toWorker)
           n == Len(msg.frames)
           out == Outputs(msg)
<1>1. msg.frames \in Seq(Filled) /\ n \in Nat
  BY HeadOfTo, LenProperties
<1>2. Free(msg) \subseteq Arrays(worker.size) /\ IdsOf(Free(msg)) \cap Unused = {}
  BY FreeType
<1>3. /\ out \in Seq(Arrays(worker.size)) /\ Len(out) = n
      /\ \A i \in 1 .. n : out[i] \in Free(msg) \/ out[i].id \in Unused
      /\ \A i, j \in 1 .. n : out[i].id = out[j].id => i = j
  <2>1. CanAcquire(Free(msg), n)
    OBVIOUS
  <2> HIDE DEF n, msg
  <2>2. LET got == Acquire(Free(msg), n, worker.size)
        IN  /\ got \in Seq(Arrays(worker.size)) /\ Len(got) = n
            /\ \A i \in 1 .. n : got[i] \in Free(msg) \/ got[i].id \in Unused
            /\ \A i, j \in 1 .. n : got[i].id = got[j].id => i = j
    BY <1>1, <1>2, <2>1, AcquireGives
  <2> QED BY <2>2 DEF Outputs, n
<1> HIDE DEF out, n, msg
<1>4. ASSUME NEW i \in 1 .. n
      PROVE  /\ Results(msg)[i] \in Filled /\ Results(msg)[i].buf = out[i]
             /\ Results(msg)[i].samples = Denoised(msg.frames[i].samples)
  <2>1. Results(msg)[i] = [buf |-> out[i], samples |-> Denoised(msg.frames[i].samples)]
    BY DEF Results, Frame, out, n
  <2>2. msg.frames[i].samples \in Seq(Nat)
    BY <1>1, ElementOfSeq DEF Filled, n
  <2>3. Denoised(msg.frames[i].samples) \in Seq(Nat) /\ Len(Denoised(msg.frames[i].samples)) = worker.size
    BY <2>2, DenoisedType
  <2>4. out[i] \in Arrays(worker.size)
    BY <1>3, ElementOfSeq
  <2>5. Arrays(worker.size) \subseteq AnyArray /\ \A b \in Arrays(worker.size) : b.len = worker.size
    BY Widen DEF Types, WorkerType, Arrays
  <2> QED BY <2>1, <2>3, <2>4, <2>5 DEF Filled
<1>5. Results(msg) = [i \in 1 .. n |-> Results(msg)[i]]
  BY DEF Results, n
<1>6. Results(msg) \in [1 .. n -> Filled]
  BY <1>4, <1>5
<1>7. Results(msg) \in Seq(Filled) /\ Len(Results(msg)) = n
  BY <1>1, <1>6
<1> QED BY <1>1, <1>3, <1>4, <1>7 DEF n, msg, out

\* The results of a batch thin it, and are it when the frames have the length
\* the worker works with.
LEMMA ResultsThin ==
    ASSUME NEW f \in Seq(Piece), NEW g \in Seq(Piece), Len(f) = Len(g),
           \A i \in 1 .. Len(f) : Thins(g[i].samples, f[i].samples)
    PROVE  Thins(SamplesOf(g), SamplesOf(f))
PROOF
<1> DEFINE pair(k, f1, g1) == /\ Len(f1) = k /\ Len(g1) = k
                              /\ \A i \in 1 .. k : Thins(g1[i].samples, f1[i].samples)
                              /\ ~Thins(SamplesOf(g1), SamplesOf(f1))
           T == {k \in Nat : \E f1, g1 \in Seq(Piece) : pair(k, f1, g1)}
<1> SUFFICES ASSUME ~Thins(SamplesOf(g), SamplesOf(f)) PROVE FALSE
  OBVIOUS
<1>1. Len(f) \in T
  BY LenProperties
<1>2. PICK k \in T : \A y \in T : k <= y
  BY <1>1, LeastOf
<1>3. PICK f1 \in Seq(Piece), g1 \in Seq(Piece) : pair(k, f1, g1)
  BY <1>2
<1>4. CASE k = 0
  <2>1. f1 = <<>> /\ g1 = <<>>
    BY <1>3, <1>4, EmptySeq
  <2> QED BY <1>3, <2>1, SamplesEmpty, ThinsSelf
<1>5. CASE k # 0
  <2>1. f1 # <<>> /\ g1 # <<>> /\ k \in Nat
    BY <1>2, <1>3, <1>5
  <2>2. PICK f2 \in Seq(Piece), a \in Piece : f1 = Append(f2, a)
    BY <2>1, SequenceEmptyOrAppend
  <2>3. PICK g2 \in Seq(Piece), b \in Piece : g1 = Append(g2, b)
    BY <2>1, SequenceEmptyOrAppend
  <2>4. Len(f2) = k - 1 /\ Len(g2) = k - 1 /\ k - 1 \in Nat
    BY <1>3, <2>1, <2>2, <2>3, AppendProperties, LenProperties
  <2>5. \A i \in 1 .. k - 1 : f1[i] = f2[i] /\ g1[i] = g2[i] /\ i \in 1 .. k
    BY <2>1, <2>2, <2>3, <2>4, AppendProperties
  <2>6. f1[k] = a /\ g1[k] = b /\ k \in 1 .. k
    BY <2>1, <2>2, <2>3, <2>4, AppendProperties
  <2>7. k - 1 \notin T
    <3> HIDE DEF T
    <3>1. ~(k <= k - 1)
      BY <2>1
    <3> QED BY <1>2, <3>1
  <2>8. Thins(SamplesOf(g2), SamplesOf(f2))
    BY <1>3, <2>4, <2>5, <2>7
  <2>9. Thins(b.samples, a.samples)
    BY <1>3, <2>6
  <2> HIDE DEF T, pair
  <2>10. /\ SamplesOf(f1) = SamplesOf(f2) \o a.samples /\ SamplesOf(f2) \in Seq(Nat) /\ a.samples \in Seq(Nat)
         /\ SamplesOf(g1) = SamplesOf(g2) \o b.samples /\ SamplesOf(g2) \in Seq(Nat) /\ b.samples \in Seq(Nat)
    BY <2>2, <2>3, SamplesAppend, SamplesType DEF Piece
  <2>11. Thins(SamplesOf(g1), SamplesOf(f1))
    BY <2>8, <2>9, <2>10, ThinsConcat
  <2> QED BY <1>3, <2>11 DEF pair
<1> QED BY <1>4, <1>5

\* A batch the worker has processed, and one that failed at frame k.
BatchDone(msg) ==
    /\ \A i \in 1 .. Len(msg.frames) : ~Unfit(Len(msg.frames[i].samples))
    /\ worker' = [worker EXCEPT !.pool = Free(msg) \ Range(Outputs(msg)), !.recycles = <<>>]
    /\ Respond(Batch("FRAME_RESULT_BATCH", Results(msg), worker.recycles \o ArraysOf(msg.frames), msg.age))
    /\ dropped' = dropped

BatchFailed(msg, k, l) ==
    /\ worker' = [worker EXCEPT !.pool = Free(msg) \ Lost(msg, l),
                                !.recycles = worker.recycles \o SubSeq(ArraysOf(msg.frames), 1, k - 1)]
    /\ Respond(Message("ERROR", "none"))
    /\ dropped' = TRUE

LEMMA ProcessBatchDoes ==
    ASSUME NEW msg, ProcessBatch(msg)
    PROVE  /\ CanAcquire(Free(msg), Len(msg.frames))
           /\ \/ BatchDone(msg)
              \/ \E k \in 1 .. Len(msg.frames) : \E l \in {k - 1, k} : BatchFailed(msg, k, l)
PROOF
<1> DEFINE short(k) == worker.enabled /\ Len(msg.frames[k].samples) < worker.size
           last(k) == IF short(k) THEN k - 1 ELSE k
<1>1. CanAcquire(Free(msg), Len(msg.frames))
  BY ZenonT(90) DEF ProcessBatch, Free
<1>2. BatchDone(msg) \/ \E k \in 1 .. Len(msg.frames) : BatchFailed(msg, k, last(k))
  BY ZenonT(90) DEF ProcessBatch, Free, Outputs, Results, Lost, BatchDone, BatchFailed
<1>3. \A k : last(k) \in {k - 1, k}
  OBVIOUS
<1> QED BY <1>1, <1>2, <1>3

LEMMA MessageType ==
    ASSUME Types
    PROVE  /\ \A m \in Modules : Message("SET_MODULE", m) \in ToMsg
           /\ \A s \in {"on", "off"} : Message("SET_ENABLED", s) \in ToMsg
           /\ Message("DESTROY", "none") \in ToMsg
           /\ \A m \in Modules : Message("MODULE_CHANGED", FrameOf(m)) \in FromMsg
           /\ Message("ERROR", "none") \in FromMsg
           /\ \A type, arg : Message(type, arg).frames = <<>> /\ Message(type, arg).recycles = <<>>
BY BuildType DEF Types, Message, ToMsg, FromMsg

LEMMA SetsStay ==
    ASSUME build' = build
    PROVE  /\ Lengths' = Lengths /\ AnyArray' = AnyArray /\ Filled' = Filled
           /\ ToMsg' = ToMsg /\ FromMsg' = FromMsg
           /\ \A m \in Modules : FrameOf(m)' = FrameOf(m)
PROOF
<1>1. Lengths' = Lengths /\ AnyArray' = AnyArray /\ \A m \in Modules : FrameOf(m)' = FrameOf(m)
  BY DEF Lengths, AnyArray, FrameOf, Modules
<1>2. Filled' = Filled
  BY <1>1 DEF Filled
<1> QED BY <1>1, <1>2 DEF ToMsg, FromMsg, Modules

LEMMA SameCapacity ==
    ASSUME build' = build, prefilled' = prefilled, frameLength' = frameLength
    PROVE  QueueCapacity' = QueueCapacity /\ Longest' = Longest
BY DEF QueueCapacity, CapacityOf, Longest, Larger

LEMMA SameQueue ==
    ASSUME output' = output, skew' = skew, stale' = stale
    PROVE  Queue' = Queue
BY DEF Queue

\* Frames of either length fit Longest once there is a worker.
LEMMA LongestType ==
    ASSUME build \in Builds
    PROVE  /\ Longest \in Nat \ {0} /\ (prefilled => \A len \in Lengths : len <= Longest)
           /\ ~prefilled => Longest = build.rnnoise
           /\ build.rnnoise <= Larger(build.rnnoise, build.deepfilternet)
BY BuildType DEF Longest, Larger, Lengths

LEMMA InitTypes ==
    ASSUME Init
    PROVE  Types /\ Phase
PROOF
<1>1. build \in Builds
  BY DEF Init
<1>2. /\ quanta \in 0 .. build.quanta /\ controls \in 0 .. build.controls
      /\ input \in Seq(Nat) /\ output \in Seq(Nat) /\ lastPlayed \in Nat
      /\ frameLength \in Lengths
      /\ workerReady \in BOOLEAN /\ prefilled \in BOOLEAN /\ destroyed \in BOOLEAN
      /\ starved \in 0 .. quanta /\ overrun \in BOOLEAN /\ dropped \in BOOLEAN
  <2>1. build.quanta \in Nat /\ build.controls \in Nat
    BY <1>1, BuildType, PipelineAssumption
  <2>2. quanta \in 0 .. build.quanta /\ controls \in 0 .. build.controls /\ lastPlayed \in Nat
        /\ starved \in 0 .. quanta
    BY <2>1 DEF Init
  <2>3. input = <<>> /\ output = <<>> /\ <<>> \in Seq(Nat)
    BY DEF Init
  <2> QED BY <2>2, <2>3 DEF Init, Lengths
<1>3. pool \subseteq Arrays(frameLength)
  BY PipelineAssumption DEF Init, Arrays
<1>4. recycles \in Seq(AnyArray) /\ batchQueue \in Seq(Filled) /\ toWorker \in Seq(ToMsg) /\ fromWorker \in Seq(FromMsg)
  BY DEF Init
<1>5. PICK m \in Modules : worker = InitialWorker(m)
  BY DEF Init
<1>6. WorkerType
  BY <1>1, <1>5, BuildType DEF WorkerType, InitialWorker
<1>7. Len(input) < Longest /\ RingOK(Queue, QueueCapacity) /\ skew = 0
  <2>1. Longest \in Nat \ {0} /\ input = <<>> /\ Len(<<>>) = 0
    BY <1>1, LongestType DEF Init
  <2>2. Queue = EmptyQueue /\ skew = 0
    BY DEF Init, Queue, EmptyQueue
  <2>3. QueueCapacity \in Nat
    BY <1>1, <1>2, CapacityType DEF QueueCapacity
  <2> QED BY <2>1, <2>2, <2>3, EmptyRing
<1>8. Types
  BY <1>1, <1>2, <1>3, <1>4, <1>6, <1>7 DEF Types
<1>9. Phase
  BY DEF Phase, Init, Silenced
<1> QED BY <1>8, <1>9

LEMMA AgedSilenced ==
    ASSUME Types, NEW S, NEW c \in Seq(S), S \in {ToMsg, FromMsg}, Silenced(c)
    PROVE  Silenced(Aged(c))
BY AgedType DEF Silenced

LEMMA ProcessTypes ==
    ASSUME Types, Phase, Process
    PROVE  Types' /\ Phase'
PROOF
<1>1. /\ CanAcquire(pool, Needed)
      /\ quanta < build.quanta /\ quanta' = quanta + 1 /\ ~destroyed
      /\ input' = Rest
      /\ workerReady => Collect(CutFrames) /\ pool' = pool \ Range(Got)
      /\ ~workerReady => /\ pool' = IF Count = 0 THEN pool ELSE pool \cup Range(Got)
                         /\ UNCHANGED <<batchQueue, recycles, toWorker>>
      /\ Play(Supply) /\ RingOK(Supply, QueueCapacity)
      /\ workerReady => overrun' = overrun
      /\ ~workerReady => overrun' = (overrun \/ Len(output) + Count * frameLength > QueueCapacity)
      /\ fromWorker' = Aged(fromWorker)
      /\ UNCHANGED <<build, controls, frameLength, workerReady, prefilled, destroyed, worker, dropped>>
  BY ProcessDoes
<1>2. quanta' \in 0 .. build.quanta
  BY <1>1, BuildType DEF Types
<1>3. Rest \in Seq(Nat) /\ Got \in Seq(Arrays(frameLength)) /\ Len(Rest) = Len(Heard) - Count * frameLength
  BY <1>1, CutType
<1>4. Range(Got) \subseteq Arrays(frameLength)
  BY <1>3, RangeOfSeq
<1>5. pool' \subseteq Arrays(frameLength)
  BY <1>1, <1>4 DEF Types
<1>6. /\ output' \in Seq(Nat) /\ lastPlayed' \in Nat /\ RingOK(Queue', QueueCapacity) /\ skew' = Supply.skew
      /\ starved' \in 0 .. quanta'
  <2>1. /\ QueueCapacity \in Nat \ {0} /\ lastPlayed \in Nat /\ starved \in Nat /\ starved <= quanta
        /\ prefilled \in BOOLEAN /\ quanta \in Nat
    BY CapacityNow, BuildType DEF Types
  <2>2. /\ RingOK(Queue', QueueCapacity) /\ lastPlayed' \in Nat /\ skew' = Supply.skew
        /\ starved' = IF Len(Supply.held) < Quantum /\ prefilled THEN starved + 1 ELSE starved
    BY <1>1, <2>1, PlayDoes
  <2>3. output' \in Seq(Nat)
    BY <2>2 DEF RingOK, Queue
  <2>4. starved' = starved + 1 \/ starved' = starved
    BY <2>2
  <2>5. starved' \in 0 .. quanta'
    BY <1>1, <2>1, <2>4
  <2> QED BY <2>2, <2>3, <2>5
<1>7. fromWorker' \in Seq(FromMsg) /\ Aged(toWorker) \in Seq(ToMsg) /\ (fromWorker = <<>> => fromWorker' = <<>>)
      /\ (Silenced(fromWorker) => Silenced(fromWorker'))
  <2>1. fromWorker \in Seq(FromMsg) /\ toWorker \in Seq(ToMsg)
    BY DEF Types
  <2>2. /\ Aged(fromWorker) \in Seq(FromMsg) /\ Aged(toWorker) \in Seq(ToMsg)
        /\ Len(Aged(fromWorker)) = Len(fromWorker)
    BY <2>1, AgedType
  <2>3. Silenced(fromWorker) => Silenced(Aged(fromWorker))
    BY <2>1, AgedSilenced
  <2> QED BY <1>1, <2>1, <2>2, <2>3, EmptySeq
<1>8. recycles' \in Seq(AnyArray) /\ batchQueue' \in Seq(Filled) /\ toWorker' \in Seq(ToMsg)
  <2>1. CASE ~workerReady
    BY <1>1, <2>1 DEF Types
  <2>2. CASE workerReady
    <3>1. /\ Gathered \in Seq(Filled)
          /\ \/ batchQueue' = Gathered /\ toWorker' = Aged(toWorker) /\ recycles' = recycles
             \/ /\ batchQueue' = <<>> /\ recycles' = <<>>
                /\ toWorker' = Append(Aged(toWorker), Batch("PROCESS_FRAME_BATCH", Gathered, recycles, 0))
                /\ Batch("PROCESS_FRAME_BATCH", Gathered, recycles, 0) \in ToMsg
      BY <1>1, <2>2, CollectDoes
    <3>2. <<>> \in Seq(Filled) /\ <<>> \in Seq(AnyArray)
      OBVIOUS
    <3>3. recycles \in Seq(AnyArray)
      BY DEF Types
    <3>4. \A x \in ToMsg : Append(Aged(toWorker), x) \in Seq(ToMsg)
      BY <1>7, AppendProperties
    <3> QED BY <1>7, <3>1, <3>2, <3>3, <3>4
  <2> QED BY <2>1, <2>2
<1>9. WorkerType'
  BY <1>1, SetsStay DEF Types, WorkerType
<1>10. QueueCapacity' = QueueCapacity /\ Longest' = Longest
  BY <1>1, SameCapacity
<1>11. Len(input') < Longest'
  <2>1. frameLength <= Longest /\ Longest \in Nat
    BY <1>1, LongestType, BuildType DEF Types, Phase
  <2>2. /\ Len(Heard) \in Nat /\ frameLength \in Nat /\ Count * frameLength \in Nat
        /\ Len(Heard) < Count * frameLength + frameLength
    BY HeardType
  <2>3. Len(Rest) < frameLength
    BY <1>3, <2>2
  <2> QED BY <1>1, <1>3, <1>10, <2>1, <2>2, <2>3, LenProperties
<1>12. overrun' \in BOOLEAN /\ (~overrun' => skew' = 0)
  <2>1. overrun' \in BOOLEAN
    BY <1>1 DEF Types
  <2>2. ~overrun' => skew' = 0
    BY <1>6, SupplyKept
  <2> QED BY <2>1, <2>2
<1>13. RingOK(Queue, QueueCapacity)'
  BY <1>6, <1>10
<1>14. Types'
  BY <1>1, <1>2, <1>3, <1>5, <1>6, <1>7, <1>8, <1>9, <1>11, <1>12, <1>13, SetsStay DEF Types
<1>15. Phase'
  <2>1. workerReady \/ (Silenced(toWorker') /\ batchQueue' = <<>>)
    BY <1>1 DEF Phase
  <2> QED BY <1>1, <1>7, <2>1 DEF Phase
<1> QED BY <1>14, <1>15

LEMMA ResizedType ==
    ASSUME NEW old, NEW len, NEW free, free \subseteq Arrays(old)
    PROVE  Resized(free, old, len) \subseteq Arrays(len) /\ Resized(free, old, len) \subseteq free
BY DEF Resized

LEMMA PrefillAt ==
    ASSUME build \in Builds, NEW len \in Lengths
    PROVE  LET p == (CeilDiv(build.batch * len, Quantum) + 2 * build.batch) * Quantum
           IN  p \in Nat /\ p >= 2 * Quantum
PROOF
<1>1. len \in Nat \ {0} /\ build.batch \in Nat \ {0} /\ Quantum \in Nat \ {0}
  BY BuildType, PipelineAssumption
<1> DEFINE p == build.batch * len
           c == CeilDiv(p, Quantum)
<1>2. p \in Nat
  BY <1>1
<1> HIDE DEF p
<1>3. c \in Nat
  <2> DEFINE a == p + Quantum - 1
  <2>1. a \in Nat
    BY <1>1, <1>2
  <2>2. c = a \div Quantum
    BY DEF CeilDiv
  <2> HIDE DEF a, c
  <2> QED BY <1>1, <2>1, <2>2
<1> HIDE DEF c
<1>4. (c + 2 * build.batch) * Quantum \in Nat /\ (c + 2 * build.batch) * Quantum >= 2 * Quantum
  <2> DEFINE k == c + 2 * build.batch - 2
  <2>1. k \in Nat /\ c + 2 * build.batch = k + 2
    BY <1>1, <1>3
  <2> HIDE DEF k
  <2>2. (k + 2) * Quantum = k * Quantum + 2 * Quantum /\ k * Quantum \in Nat
    BY <1>1, <2>1
  <2> QED BY <1>1, <2>1, <2>2
<1> QED BY <1>4 DEF c, p

LEMMA PrefillType ==
    ASSUME Types
    PROVE  /\ Prefill \in Nat /\ Prefill >= 2 * Quantum
           /\ build' = build /\ frameLength' \in Lengths => Prefill' \in Nat /\ Prefill' >= 2 * Quantum
PROOF
<1>1. Prefill \in Nat /\ Prefill >= 2 * Quantum
  BY PrefillAt DEF Prefill, RoundTripQuanta, Types
<1>2. ASSUME build' = build, frameLength' \in Lengths PROVE Prefill' \in Nat /\ Prefill' >= 2 * Quantum
  <2>1. Prefill' = (CeilDiv(build.batch * frameLength', Quantum) + 2 * build.batch) * Quantum
    BY <1>2 DEF Prefill, RoundTripQuanta, CeilDiv
  <2> QED BY <1>2, <2>1, PrefillAt DEF Types
<1> QED BY <1>1, <1>2

LEMMA InitPipelineDoes ==
    ASSUME Types, Phase, InitPipeline
    PROVE  LET len == FrameOf(worker.module)
               cap == CapacityOf(len)
           IN  /\ ~workerReady /\ ~prefilled /\ ~destroyed /\ build' = build /\ prefilled' = TRUE
               /\ len \in Lengths /\ frameLength' = len
               /\ pool' = Resized(pool, frameLength, len)
               /\ \/ /\ Queue' = Pushed(Drained(len), Silent(Prefill'), cap) /\ workerReady' = TRUE
                     /\ overrun' = (overrun \/ Len(output) + Prefill' > cap)
                  \/ /\ Queue' = Drained(len) /\ workerReady' = FALSE
                     /\ Prefill' > 2 * cap - WriteIndex(Drained(len), cap)
                     /\ overrun' = (overrun \/ Len(output) + 0 > cap)
               /\ UNCHANGED <<input, batchQueue, quanta, controls, lastPlayed, destroyed, recycles, toWorker,
                              fromWorker, worker, starved, dropped>>
               /\ QueueCapacity' = cap
PROOF
<1> DEFINE len == FrameOf(worker.module)
           cap == CapacityOf(len)
<1>1. /\ ~prefilled /\ ~destroyed /\ build' = build /\ prefilled' = TRUE
      /\ frameLength' = len /\ pool' = Resized(pool, frameLength, len)
      /\ UNCHANGED <<input, batchQueue, quanta, controls, lastPlayed, destroyed, recycles, toWorker,
                     fromWorker, worker, starved, dropped>>
  BY DEF InitPipeline, Rebuild
<1>2. \/ /\ OutputBecomes(Pushed(Drained(len), Silent(Prefill'), cap)) /\ Overruns(Prefill', cap)
         /\ workerReady' = TRUE
      \/ /\ Prefill' > 2 * cap - WriteIndex(Drained(len), cap)
         /\ OutputBecomes(Drained(len)) /\ Overruns(0, cap) /\ workerReady' = workerReady
  BY DEF InitPipeline
<1>3. ~workerReady /\ workerReady \in BOOLEAN
  BY <1>1 DEF Phase, Types
<1>4. len \in Lengths
  BY BuildType DEF Types, WorkerType
<1>5. ASSUME NEW q, RingOK(q, cap), OutputBecomes(q) PROVE Queue' = q
  <2>1. q \in [held : Seq(Nat), skew : Nat, stale : Seq(Nat)]
    BY <1>5 DEF RingOK
  <2>2. q = [held |-> q.held, skew |-> q.skew, stale |-> q.stale]
    BY <2>1
  <2> QED BY <1>5, <2>2 DEF OutputBecomes, Queue
<1>6. RingOK(Drained(len), cap)
  BY <1>4, DrainedType
<1>7. ASSUME Prefill' \in Nat PROVE RingOK(Pushed(Drained(len), Silent(Prefill'), cap), cap)
  <2>1. cap \in Nat \ {0} /\ Silent(Prefill') \in Seq(Nat)
    BY <1>4, <1>7, CapacityType, ThinsSilent DEF Types
  <2> HIDE DEF cap
  <2> QED BY <1>6, <2>1, PushedType
<1>8. QueueCapacity' = cap
  BY <1>1 DEF QueueCapacity, CapacityOf, Larger
<1>9. Prefill' \in Nat
  BY <1>1, <1>4, PrefillType
<1> HIDE DEF len, cap
<1>10. \/ /\ Queue' = Pushed(Drained(len), Silent(Prefill'), cap) /\ workerReady' = TRUE
          /\ overrun' = (overrun \/ Len(output) + Prefill' > cap)
       \/ /\ Queue' = Drained(len) /\ workerReady' = FALSE
          /\ Prefill' > 2 * cap - WriteIndex(Drained(len), cap)
          /\ overrun' = (overrun \/ Len(output) + 0 > cap)
  <2>1. CASE /\ OutputBecomes(Pushed(Drained(len), Silent(Prefill'), cap)) /\ Overruns(Prefill', cap)
             /\ workerReady' = TRUE
    BY <1>5, <1>7, <1>9, <2>1 DEF Overruns
  <2>2. CASE /\ Prefill' > 2 * cap - WriteIndex(Drained(len), cap)
             /\ OutputBecomes(Drained(len)) /\ Overruns(0, cap) /\ workerReady' = workerReady
    BY <1>3, <1>5, <1>6, <2>2 DEF Overruns
  <2> QED BY <1>2, <2>1, <2>2
<1> QED BY <1>1, <1>3, <1>4, <1>8, <1>10 DEF len, cap

LEMMA InitPipelineTypes ==
    ASSUME Types, Phase, InitPipeline
    PROVE  Types' /\ Phase' /\ Prefill' \in Nat
PROOF
<1> DEFINE len == FrameOf(worker.module)
           cap == CapacityOf(len)
<1>1. /\ ~workerReady /\ ~prefilled /\ ~destroyed /\ build' = build /\ prefilled' = TRUE
      /\ len \in Lengths /\ frameLength' = len
      /\ pool' = Resized(pool, frameLength, len)
      /\ \/ /\ Queue' = Pushed(Drained(len), Silent(Prefill'), cap) /\ workerReady' = TRUE
            /\ overrun' = (overrun \/ Len(output) + Prefill' > cap)
         \/ /\ Queue' = Drained(len) /\ workerReady' = FALSE
            /\ Prefill' > 2 * cap - WriteIndex(Drained(len), cap)
            /\ overrun' = (overrun \/ Len(output) + 0 > cap)
      /\ UNCHANGED <<input, batchQueue, quanta, controls, lastPlayed, destroyed, recycles, toWorker,
                     fromWorker, worker, starved, dropped>>
      /\ QueueCapacity' = cap
  BY InitPipelineDoes
<1>2. Prefill' \in Nat
  BY <1>1, PrefillType
<1>3. /\ RingOK(Drained(len), cap) /\ cap \in Nat \ {0} /\ Len(output) \in Nat /\ output \in Seq(Nat)
      /\ Len(output) <= cap => Drained(len).held = output /\ Drained(len).skew = 0
  BY <1>1, DrainedType, CapacityType, LenProperties DEF Types
<1>4. Silent(Prefill') \in Seq(Nat) /\ Len(Silent(Prefill')) = Prefill'
  BY <1>2, ThinsSilent
<1> DEFINE d == Drained(len)
           silent == Silent(Prefill')
           p == Pushed(d, silent, cap)
<1> HIDE DEF len, cap, silent, d
<1>5. /\ RingOK(p, cap)
      /\ d.skew = 0 /\ Len(d.held) + Len(silent) <= cap => p.skew = 0
  BY <1>3, <1>4, PushedType DEF silent, d
<1> HIDE DEF p
<1>6. Queue' = p \/ Queue' = d
  BY <1>1 DEF p, d, silent
<1>7. RingOK(Queue, QueueCapacity)'
  BY <1>1, <1>3, <1>5, <1>6 DEF d
<1>8. overrun' \in BOOLEAN /\ (~overrun' => skew' = 0)
  <2>1. overrun' \in BOOLEAN
    BY <1>1 DEF Types
  <2>2. CASE Queue' = p /\ overrun' = (overrun \/ Len(output) + Prefill' > cap)
    <3>1. ASSUME ~overrun' PROVE skew' = 0
      <4>1. ~(Len(output) + Prefill' > cap)
        BY <2>2, <3>1
      <4>2. Len(output) <= cap /\ Len(output) + Len(silent) <= cap
        BY <1>2, <1>3, <1>4, <4>1 DEF silent
      <4>3. p.skew = 0
        BY <1>3, <1>5, <4>2 DEF d
      <4>4. skew' = Queue'.skew
        BY DEF Queue
      <4> QED BY <2>2, <4>3, <4>4
    <3> QED BY <2>1, <3>1
  <2>3. CASE Queue' = d /\ overrun' = (overrun \/ Len(output) + 0 > cap)
    <3>1. ASSUME ~overrun' PROVE skew' = 0
      <4>1. ~(Len(output) + 0 > cap)
        BY <2>3, <3>1
      <4>2. Len(output) <= cap
        BY <1>3, <4>1
      <4>3. skew' = Queue'.skew
        BY DEF Queue
      <4> QED BY <1>3, <2>3, <4>2, <4>3 DEF d
    <3> QED BY <2>1, <3>1
  <2> QED BY <1>1, <2>2, <2>3 DEF p, d, silent
<1>9. output' \in Seq(Nat)
  BY <1>7 DEF RingOK, Queue
<1>10. pool' \subseteq Arrays(frameLength')
  BY <1>1, ResizedType DEF Types
<1>11. WorkerType'
  BY <1>1, SetsStay DEF Types, WorkerType
<1>12. Len(input') < Longest'
  <2>1. Longest = build.rnnoise /\ Longest' = Larger(build.rnnoise, build.deepfilternet)
    BY <1>1 DEF Longest, Larger
  <2>2. build.rnnoise \in Nat /\ build.deepfilternet \in Nat /\ Len(input) \in Nat /\ Len(input) < Longest
    BY BuildType, LenProperties DEF Types
  <2>3. Larger(build.rnnoise, build.deepfilternet) \in Nat
        /\ build.rnnoise <= Larger(build.rnnoise, build.deepfilternet)
    BY <2>2 DEF Larger
  <2> QED BY <1>1, <2>1, <2>2, <2>3
<1>13. workerReady' \in BOOLEAN /\ prefilled' \in BOOLEAN /\ destroyed' = destroyed
  BY <1>1
<1>14. Types'
  BY <1>1, <1>7, <1>8, <1>9, <1>10, <1>11, <1>12, <1>13, SetsStay DEF Types
<1>15. Phase'
  BY <1>1 DEF Phase
<1> QED BY <1>2, <1>14, <1>15

LEMMA BareSilenced ==
    ASSUME NEW S, NEW c \in Seq(S), NEW x \in S, Silenced(c),
           x.type \notin {"PROCESS_FRAME_BATCH", "FRAME_RESULT_BATCH"}
    PROVE  Silenced(Append(c, x))
PROOF
<1>1. /\ Len(Append(c, x)) = Len(c) + 1 /\ Len(c) \in Nat
      /\ \A i \in 1 .. Len(c) + 1 : Append(c, x)[i] = IF i = Len(c) + 1 THEN x ELSE c[i]
  BY AppendProperties, LenProperties
<1>2. ASSUME NEW i \in 1 .. Len(c) + 1
      PROVE  Append(c, x)[i].type \notin {"PROCESS_FRAME_BATCH", "FRAME_RESULT_BATCH"}
  <2>1. CASE i = Len(c) + 1
    BY <1>1, <2>1
  <2>2. CASE i # Len(c) + 1
    <3>1. i \in 1 .. Len(c)
      BY <1>1, <2>2
    <3> QED BY <1>1, <2>2, <3>1 DEF Silenced
  <2> QED BY <2>1, <2>2
<1> QED BY <1>1, <1>2 DEF Silenced

LEMMA TailSilenced ==
    ASSUME NEW S, NEW c \in Seq(S), c # <<>>, Silenced(c)
    PROVE  /\ Silenced(Tail(c))
           /\ Head(c).type \notin {"PROCESS_FRAME_BATCH", "FRAME_RESULT_BATCH"}
PROOF
<1>1. /\ Len(c) \in Nat \ {0} /\ Head(c) = c[1] /\ Len(Tail(c)) = Len(c) - 1
      /\ \A i \in 1 .. Len(c) - 1 : Tail(c)[i] = c[i + 1]
  BY HeadTailProperties, EmptySeq
<1>2. \A i \in 1 .. Len(c) - 1 : i + 1 \in 1 .. Len(c)
  BY <1>1
<1> QED BY <1>1, <1>2 DEF Silenced

LEMMA ControlTypes ==
    ASSUME Types, Phase, NEW type, NEW arg, Control(type, arg),
           (type = "SET_MODULE" /\ arg \in Modules) \/ (type = "SET_ENABLED" /\ arg \in {"on", "off"})
    PROVE  Types' /\ Phase'
PROOF
<1>1. /\ prefilled /\ ~destroyed /\ controls < build.controls /\ controls' = controls + 1
      /\ toWorker' = Append(toWorker, Message(type, arg))
      /\ UNCHANGED <<build, quanta, input, output, skew, stale, overrun, lastPlayed, frameLength, workerReady,
                     prefilled, destroyed, pool, recycles, batchQueue, fromWorker, worker, starved, dropped>>
  BY DEF Control, PortOpen, outputVars
<1>2. Message(type, arg) \in ToMsg /\ Message(type, arg).type = type
  BY MessageType DEF Message
<1>3. toWorker' \in Seq(ToMsg) /\ (Silenced(toWorker) => Silenced(toWorker'))
  <2>1. toWorker \in Seq(ToMsg) /\ type \notin {"PROCESS_FRAME_BATCH", "FRAME_RESULT_BATCH"}
    BY DEF Types
  <2> QED BY <1>1, <1>2, <2>1, AppendProperties, BareSilenced
<1>4. controls' \in 0 .. build.controls
  BY <1>1, BuildType DEF Types
<1>5. WorkerType'
  BY <1>1, SetsStay DEF Types, WorkerType
<1>6. Queue' = Queue /\ QueueCapacity' = QueueCapacity /\ Longest' = Longest
  BY <1>1, SameQueue, SameCapacity
<1>7. RingOK(Queue, QueueCapacity)' /\ Len(input') < Longest'
  BY <1>1, <1>6 DEF Types
<1>8. Types'
  BY <1>1, <1>3, <1>4, <1>5, <1>7, SetsStay DEF Types
<1>9. Phase'
  BY <1>1, <1>3 DEF Phase
<1> QED BY <1>8, <1>9

\* What the worklet does with each of the three messages.
ResultArrives(msg) ==
    /\ msg.type = "FRAME_RESULT_BATCH"
    /\ OutputBecomes(Pushed(Queue, SamplesOf(msg.frames), QueueCapacity))
    /\ Overruns(Len(SamplesOf(msg.frames)), QueueCapacity)
    /\ recycles' = recycles \o ArraysOf(msg.frames)
    /\ pool' = Release(pool, msg.recycles, frameLength)
    /\ UNCHANGED <<input, batchQueue, frameLength>>
ChangeArrives(msg) ==
    /\ msg.type = "MODULE_CHANGED" /\ msg.arg # frameLength
    /\ frameLength' = msg.arg /\ pool' = Resized(pool, frameLength, msg.arg)
    /\ OutputBecomes(Drained(msg.arg)) /\ Overruns(0, CapacityOf(msg.arg))
    /\ UNCHANGED <<input, batchQueue, recycles>>
NothingArrives(msg) ==
    /\ msg.type = "ERROR" \/ (msg.type = "MODULE_CHANGED" /\ msg.arg = frameLength)
    /\ UNCHANGED <<input, output, skew, stale, overrun, recycles, pool, batchQueue, frameLength>>

LEMMA WorkletReceivesDoes ==
    ASSUME WorkletReceives
    PROVE  /\ fromWorker # <<>> /\ fromWorker' = Tail(fromWorker)
           /\ \/ ResultArrives(Head(fromWorker))
              \/ ChangeArrives(Head(fromWorker))
              \/ NothingArrives(Head(fromWorker))
           /\ UNCHANGED <<build, quanta, controls, lastPlayed, prefilled, starved, dropped, workerReady,
                          destroyed, toWorker, worker>>
BY DEF WorkletReceives, Rebuild, controlVars, outputVars, ResultArrives, ChangeArrives, NothingArrives

\* A ring that the output becomes.
LEMMA BecomesRing ==
    ASSUME NEW cap, NEW q, RingOK(q, cap), OutputBecomes(q)
    PROVE  Queue' = q /\ output' = q.held /\ skew' = q.skew /\ stale' = q.stale
           /\ output' \in Seq(Nat) /\ stale' \in Seq(Nat)
PROOF
<1>1. q \in [held : Seq(Nat), skew : Nat, stale : Seq(Nat)]
  BY DEF RingOK
<1>2. q = [held |-> q.held, skew |-> q.skew, stale |-> q.stale]
  BY <1>1
<1> QED BY <1>1, <1>2 DEF OutputBecomes, Queue

\* A batch of results is pushed.
LEMMA ResultPushed ==
    ASSUME Types, NEW msg, msg.frames \in Seq(Filled), ResultArrives(msg)
    PROVE  LET s == SamplesOf(msg.frames)
           IN  /\ s \in Seq(Nat) /\ RingOK(Queue', QueueCapacity) /\ output' \in Seq(Nat) /\ overrun' \in BOOLEAN
               /\ Vals(output') \subseteq Vals(output) \cup Vals(stale) \cup Vals(s)
               /\ Vals(stale') \subseteq Vals(output) \cup Vals(stale) \cup Vals(s)
               /\ ~overrun' => ~overrun /\ skew' = 0 /\ output' = output \o s
               /\ overrun' = (overrun \/ Len(output) + Len(s) > QueueCapacity)
PROOF
<1> DEFINE s == SamplesOf(msg.frames)
           q == Queue
           p == Pushed(q, s, QueueCapacity)
<1>1. s \in Seq(Nat)
  <2>1. msg.frames \in Seq(Piece)
    BY Widen, SeqMonotonic DEF Types
  <2> QED BY <2>1, SamplesType
<1>2. /\ RingOK(q, QueueCapacity) /\ q.held = output /\ q.stale = stale /\ q.skew = skew
      /\ QueueCapacity \in Nat \ {0} /\ output \in Seq(Nat) /\ overrun \in BOOLEAN /\ (~overrun => skew = 0)
  BY CapacityNow DEF Types, Queue
<1>3. OutputBecomes(p) /\ overrun' = (overrun \/ Len(output) + Len(s) > QueueCapacity)
  BY DEF ResultArrives, Overruns
<1> HIDE DEF q, s
<1>4. /\ RingOK(p, QueueCapacity)
      /\ Vals(p.held) \subseteq Vals(q.held) \cup Vals(q.stale) \cup Vals(s)
      /\ Vals(p.stale) \subseteq Vals(q.held) \cup Vals(q.stale) \cup Vals(s)
      /\ q.skew = 0 /\ Len(q.held) + Len(s) <= QueueCapacity => p.held = q.held \o s /\ p.skew = 0
  BY <1>1, <1>2, PushedType
<1> HIDE DEF p
<1>5. Queue' = p /\ output' = p.held /\ skew' = p.skew /\ stale' = p.stale /\ output' \in Seq(Nat)
  BY <1>3, <1>4, BecomesRing
<1>6. ASSUME ~overrun' PROVE ~overrun /\ skew' = 0 /\ output' = output \o s
  <2>1. ~overrun /\ ~(Len(output) + Len(s) > QueueCapacity)
    BY <1>3, <1>6
  <2>2. Len(output) + Len(s) <= QueueCapacity
    BY <1>1, <1>2, <2>1, LenProperties
  <2> QED BY <1>2, <1>4, <1>5, <2>1, <2>2
<1>7. overrun' \in BOOLEAN
  BY <1>2, <1>3
<1> QED BY <1>1, <1>2, <1>3, <1>4, <1>5, <1>6, <1>7 DEF s

\* The queues are drained into others.
LEMMA ChangeDrains ==
    ASSUME Types, NEW msg, msg.arg \in Lengths, ChangeArrives(msg)
    PROVE  /\ RingOK(Queue', CapacityOf(msg.arg)) /\ output' \in Seq(Nat) /\ overrun' \in BOOLEAN
           /\ Vals(output') \subseteq Vals(output) /\ Vals(stale') \subseteq Vals(output)
           /\ ~overrun' => ~overrun /\ skew' = 0 /\ output' = output
           /\ overrun' = (overrun \/ Len(output) > CapacityOf(msg.arg))
PROOF
<1> DEFINE cap == CapacityOf(msg.arg)
           p == Drained(msg.arg)
<1>1. OutputBecomes(p) /\ overrun' = (overrun \/ Len(output) + 0 > cap)
  BY DEF ChangeArrives, Overruns
<1>2. cap \in Nat /\ Len(output) \in Nat /\ overrun \in BOOLEAN /\ output \in Seq(Nat)
  BY CapacityType, LenProperties DEF Types
<1>3. /\ RingOK(p, cap) /\ Vals(p.held) \subseteq Vals(output) /\ Vals(p.stale) \subseteq Vals(output)
      /\ Len(output) <= cap => p.held = output /\ p.skew = 0
  BY DrainedType
<1> HIDE DEF p, cap
<1>4. Queue' = p /\ output' = p.held /\ skew' = p.skew /\ stale' = p.stale /\ output' \in Seq(Nat)
  BY <1>1, <1>3, BecomesRing
<1>5. overrun' = (overrun \/ Len(output) > cap)
  <2>1. Len(output) + 0 = Len(output)
    BY <1>2
  <2> QED BY <1>1, <2>1
<1>6. ASSUME ~overrun' PROVE ~overrun /\ skew' = 0 /\ output' = output
  <2>1. ~overrun /\ ~(Len(output) > cap)
    BY <1>5, <1>6
  <2>2. Len(output) <= cap
    BY <1>2, <2>1
  <2> QED BY <1>3, <1>4, <2>1, <2>2
<1>7. overrun' \in BOOLEAN
  BY <1>2, <1>5
<1> QED BY <1>3, <1>4, <1>5, <1>6, <1>7 DEF p, cap

LEMMA WorkletReceivesTypes ==
    ASSUME Types, Phase, WorkletReceives
    PROVE  Types' /\ Phase'
PROOF
<1> DEFINE msg == Head(fromWorker)
<1>1. /\ fromWorker # <<>> /\ fromWorker' = Tail(fromWorker)
      /\ ResultArrives(msg) \/ ChangeArrives(msg) \/ NothingArrives(msg)
      /\ UNCHANGED <<build, quanta, controls, lastPlayed, prefilled, starved, dropped, workerReady,
                     destroyed, toWorker, worker>>
  BY WorkletReceivesDoes
<1>2. /\ msg \in FromMsg /\ Tail(fromWorker) \in Seq(FromMsg)
      /\ msg.frames \in Seq(Filled) /\ msg.recycles \in Seq(AnyArray)
  BY <1>1, HeadOfFrom
<1>3. prefilled /\ ~destroyed /\ (~workerReady => Silenced(Tail(fromWorker)))
  <2>1. prefilled /\ ~destroyed
    BY <1>1 DEF Phase
  <2>2. fromWorker \in Seq(FromMsg)
    BY DEF Types
  <2> QED BY <1>1, <2>1, <2>2, TailSilenced DEF Phase
<1> HIDE DEF msg
<1>4. /\ output' \in Seq(Nat) /\ recycles' \in Seq(AnyArray) /\ frameLength' \in Lengths
      /\ pool' \subseteq Arrays(frameLength') /\ input' = input /\ batchQueue' = batchQueue
      /\ RingOK(Queue', QueueCapacity') /\ (~overrun' => skew' = 0) /\ overrun' \in BOOLEAN
  <2>1. CASE ResultArrives(msg)
    <3>1. /\ RingOK(Queue', QueueCapacity) /\ output' \in Seq(Nat) /\ overrun' \in BOOLEAN
          /\ ~overrun' => skew' = 0
      BY <1>2, <2>1, ResultPushed
    <3>2. QueueCapacity' = QueueCapacity
      BY <1>1, <2>1, SameCapacity DEF ResultArrives
    <3>3. recycles \o ArraysOf(msg.frames) \in Seq(AnyArray)
      <4>1. ArraysOf(msg.frames) \in Seq(AnyArray)
        BY <1>2, ArraysOfType
      <4>2. recycles \in Seq(AnyArray)
        BY DEF Types
      <4> QED BY <4>1, <4>2, ConcatProperties
    <3>4. Release(pool, msg.recycles, frameLength) \subseteq Arrays(frameLength)
      <4>1. Range(msg.recycles) \subseteq AnyArray
        BY <1>2, RangeOfSeq
      <4>2. \A b \in AnyArray : b.len = frameLength => b \in Arrays(frameLength)
        BY DEF AnyArray, Arrays
      <4> QED BY <4>1, <4>2 DEF Release, Types
    <3>5. recycles' \in Seq(AnyArray) /\ pool' \subseteq Arrays(frameLength) /\ UNCHANGED <<input, batchQueue, frameLength>>
      BY <2>1, <3>3, <3>4 DEF ResultArrives
    <3> QED BY <3>1, <3>2, <3>5 DEF Types
  <2>2. CASE ChangeArrives(msg)
    <3>1. msg.arg \in Lengths
      BY <1>2, <2>2 DEF ChangeArrives, FromMsg
    <3>2. /\ RingOK(Queue', CapacityOf(msg.arg)) /\ output' \in Seq(Nat) /\ overrun' \in BOOLEAN
          /\ ~overrun' => skew' = 0
      BY <2>2, <3>1, ChangeDrains
    <3>3. QueueCapacity' = CapacityOf(msg.arg)
      BY <1>1, <1>3, <2>2 DEF ChangeArrives, QueueCapacity, CapacityOf, Larger
    <3>4. frameLength' = msg.arg /\ pool' = Resized(pool, frameLength, msg.arg) /\ UNCHANGED <<input, batchQueue, recycles>>
      BY <2>2 DEF ChangeArrives
    <3> QED BY <3>1, <3>2, <3>3, <3>4, ResizedType DEF Types
  <2>3. CASE NothingArrives(msg)
    <3>1. UNCHANGED <<input, output, skew, stale, overrun, recycles, pool, batchQueue, frameLength>>
      BY <2>3 DEF NothingArrives
    <3>2. Queue' = Queue /\ QueueCapacity' = QueueCapacity
      BY <1>1, <3>1, SameQueue, SameCapacity
    <3> QED BY <3>1, <3>2 DEF Types
  <2> QED BY <1>1, <2>1, <2>2, <2>3
<1>5. WorkerType'
  BY <1>1, SetsStay DEF Types, WorkerType
<1>6. Len(input') < Longest'
  <2>1. Longest' = Longest
    BY <1>1 DEF Longest, Larger
  <2> QED BY <1>4, <2>1 DEF Types
<1>7. RingOK(Queue, QueueCapacity)'
  BY <1>4
<1>8. Types'
  BY <1>1, <1>2, <1>4, <1>5, <1>6, <1>7, SetsStay DEF Types
<1>9. Phase'
  BY <1>1, <1>3, <1>4 DEF Phase
<1> QED BY <1>8, <1>9

LEMMA DestroyTypes ==
    ASSUME Types, Phase, Destroy
    PROVE  Types' /\ Phase'
PROOF
<1>1. /\ ~destroyed /\ destroyed' = TRUE /\ workerReady' = FALSE /\ input' = <<>>
      /\ OutputBecomes(EmptyQueue) /\ overrun' = overrun
      /\ toWorker' = IF prefilled THEN Append(toWorker, Message("DESTROY", "none")) ELSE toWorker
      /\ fromWorker' = <<>>
      /\ UNCHANGED <<build, quanta, controls, lastPlayed, prefilled, starved, dropped, frameLength, pool,
                     recycles, batchQueue, worker>>
  BY DEF Destroy, controlVars
<1>2. toWorker' \in Seq(ToMsg)
  BY <1>1, MessageType, AppendProperties DEF Types
<1>3. QueueCapacity' = QueueCapacity /\ Longest' = Longest /\ QueueCapacity \in Nat /\ Longest \in Nat \ {0}
  BY <1>1, SameCapacity, CapacityNow, LongestType DEF Types
<1>4. Queue' = EmptyQueue /\ RingOK(EmptyQueue, QueueCapacity) /\ output' = <<>> /\ skew' = 0
  <2>1. RingOK(EmptyQueue, QueueCapacity)
    BY <1>3, EmptyRing
  <2> QED BY <1>1, <2>1, BecomesRing DEF EmptyQueue
<1>5. input' \in Seq(Nat) /\ output' \in Seq(Nat) /\ fromWorker' \in Seq(FromMsg)
      /\ destroyed' \in BOOLEAN /\ workerReady' \in BOOLEAN
  <2>1. <<>> \in Seq(Nat)
    OBVIOUS
  <2>2. input' = <<>> /\ output' = <<>> /\ fromWorker' = <<>> /\ destroyed' = TRUE /\ workerReady' = FALSE
    BY <1>1, <1>4
  <2>3. <<>> \in Seq(FromMsg)
    OBVIOUS
  <2>4. input' \in Seq(Nat) /\ output' \in Seq(Nat)
    BY <2>1, <2>2
  <2> QED BY <2>2, <2>3, <2>4
<1>6. WorkerType'
  BY <1>1, SetsStay DEF Types, WorkerType
<1>7. Len(input') < Longest'
  <2>1. Len(<<>>) = 0
    OBVIOUS
  <2> QED BY <1>1, <1>3, <2>1
<1>8. RingOK(Queue, QueueCapacity)'
  BY <1>3, <1>4
<1>9. Types'
  BY <1>1, <1>2, <1>4, <1>5, <1>6, <1>7, <1>8, SetsStay DEF Types
<1> QED BY <1>1, <1>4, <1>9 DEF Phase

\* What the worker does with each message.
Switched(m) ==
    /\ m # worker.module
    /\ worker' = [worker EXCEPT !.module = m, !.size = FrameOf(m), !.pool = Resized(@, worker.size, FrameOf(m))]
    /\ Respond(Message("MODULE_CHANGED", FrameOf(m)))
    /\ dropped' = dropped
SameAgain == worker' = worker /\ fromWorker' = fromWorker /\ dropped' = dropped
Toggled(on) == worker' = [worker EXCEPT !.enabled = on] /\ fromWorker' = fromWorker /\ dropped' = dropped
Reset == worker' = InitialWorker("rnnoise") /\ fromWorker' = fromWorker /\ dropped' = dropped

LEMMA WorkerReceivesDoes ==
    ASSUME Types, WorkerReceives
    PROVE  LET msg == Head(toWorker)
           IN  /\ toWorker # <<>> /\ toWorker' = Tail(toWorker)
               /\ \/ /\ msg.type = "PROCESS_FRAME_BATCH" /\ CanAcquire(Free(msg), Len(msg.frames))
                     /\ \/ BatchDone(msg)
                        \/ \E k \in 1 .. Len(msg.frames) : \E l \in {k - 1, k} : BatchFailed(msg, k, l)
                  \/ /\ msg.type # "PROCESS_FRAME_BATCH"
                     /\ msg.frames = <<>> /\ msg.recycles = <<>>
                     /\ \/ \E m \in Modules : Switched(m)
                        \/ SameAgain
                        \/ \E on \in BOOLEAN : Toggled(on)
                        \/ Reset
               /\ UNCHANGED <<build, quanta, controls, input, output, skew, stale, overrun, lastPlayed,
                              frameLength, workerReady, prefilled, destroyed, pool, recycles, batchQueue, starved>>
PROOF
<1> DEFINE msg == Head(toWorker)
<1>1. /\ toWorker # <<>> /\ toWorker' = Tail(toWorker)
      /\ UNCHANGED <<build, quanta, controls, input, output, skew, stale, overrun, lastPlayed,
                     frameLength, workerReady, prefilled, destroyed, pool, recycles, batchQueue, starved>>
  BY DEF WorkerReceives, outputVars
<1>2. \/ msg.type = "PROCESS_FRAME_BATCH" /\ ProcessBatch(msg)
      \/ msg.type = "SET_MODULE" /\ SetModule(msg.arg) /\ UNCHANGED dropped
      \/ msg.type = "SET_ENABLED" /\ Toggled(msg.arg = "on")
      \/ msg.type = "DESTROY" /\ Reset
  BY DEF WorkerReceives, Toggled, Reset
<1>3. msg \in ToMsg
  BY <1>1, HeadOfTo
<1>4. msg.type # "PROCESS_FRAME_BATCH" => msg.frames = <<>> /\ msg.recycles = <<>>
  BY <1>3 DEF ToMsg
<1>5. msg.type = "SET_MODULE" => msg.arg \in Modules
  BY <1>3 DEF ToMsg
<1> HIDE DEF msg
<1>6. CASE msg.type = "PROCESS_FRAME_BATCH" /\ ProcessBatch(msg)
  BY <1>1, <1>6, ProcessBatchDoes DEF msg
<1>7. CASE msg.type = "SET_MODULE" /\ SetModule(msg.arg) /\ UNCHANGED dropped
  <2>1. SameAgain \/ Switched(msg.arg)
    BY <1>7 DEF SetModule, SameAgain, Switched
  <2> QED BY <1>1, <1>4, <1>5, <1>7, <2>1 DEF msg
<1>8. CASE msg.type = "SET_ENABLED" /\ Toggled(msg.arg = "on")
  <2>1. (msg.arg = "on") \in BOOLEAN
    OBVIOUS
  <2>2. \E on \in BOOLEAN : Toggled(on)
    BY <1>8, <2>1
  <2> QED BY <1>1, <1>4, <1>8, <2>2 DEF msg
<1>9. CASE msg.type = "DESTROY" /\ Reset
  BY <1>1, <1>4, <1>9 DEF msg
<1> QED BY <1>2, <1>6, <1>7, <1>8, <1>9

LEMMA RespondType ==
    ASSUME Types, NEW msg \in FromMsg, Respond(msg)
    PROVE  fromWorker' \in Seq(FromMsg)
BY AppendProperties DEF Respond, Types

LEMMA DoneType ==
    ASSUME Types, toWorker # <<>>, CanAcquire(Free(Head(toWorker)), Len(Head(toWorker).frames))
    PROVE  LET msg == Head(toWorker)
           IN  Batch("FRAME_RESULT_BATCH", Results(msg), worker.recycles \o ArraysOf(msg.frames), msg.age) \in FromMsg
PROOF
<1> DEFINE msg == Head(toWorker)
<1>1. msg.frames \in Seq(Filled) /\ msg.age \in Nat /\ worker.recycles \in Seq(AnyArray)
  BY HeadOfTo DEF Types, WorkerType
<1>2. ArraysOf(msg.frames) \in Seq(AnyArray)
  BY <1>1, ArraysOfType
<1>3. Results(msg) \in Seq(Filled)
  BY ResultsType
<1>4. worker.recycles \o ArraysOf(msg.frames) \in Seq(AnyArray)
  BY <1>1, <1>2, ConcatProperties
<1> QED BY <1>1, <1>3, <1>4 DEF Batch, FromMsg

LEMMA WorkerReceivesTypes ==
    ASSUME Types, Phase, WorkerReceives
    PROVE  Types' /\ Phase'
PROOF
<1> DEFINE msg == Head(toWorker)
           n == Len(msg.frames)
<1>1. /\ toWorker # <<>> /\ toWorker' = Tail(toWorker)
      /\ \/ /\ msg.type = "PROCESS_FRAME_BATCH" /\ CanAcquire(Free(msg), n)
            /\ \/ BatchDone(msg)
               \/ \E k \in 1 .. n : \E l \in {k - 1, k} : BatchFailed(msg, k, l)
         \/ /\ msg.type # "PROCESS_FRAME_BATCH"
            /\ \/ \E m \in Modules : Switched(m)
               \/ SameAgain
               \/ \E on \in BOOLEAN : Toggled(on)
               \/ Reset
      /\ UNCHANGED <<build, quanta, controls, input, output, skew, stale, overrun, lastPlayed,
                     frameLength, workerReady, prefilled, destroyed, pool, recycles, batchQueue, starved>>
  BY WorkerReceivesDoes
<1>2. /\ Tail(toWorker) \in Seq(ToMsg) /\ msg.frames \in Seq(Filled) /\ msg.recycles \in Seq(AnyArray)
      /\ msg.age \in Nat
  BY <1>1, HeadOfTo
<1>3. Free(msg) \subseteq Arrays(worker.size) /\ Free(msg) \subseteq AnyArray
  BY <1>1, FreeType
<1>4. /\ worker \in [module : Modules, enabled : BOOLEAN, size : Lengths, pool : SUBSET AnyArray,
                     recycles : Seq(AnyArray)]
      /\ worker.size = FrameOf(worker.module)
      /\ worker.pool \subseteq Arrays(worker.size) /\ worker.recycles \in Seq(AnyArray)
  BY DEF Types, WorkerType
<1>5. ArraysOf(msg.frames) \in Seq(AnyArray) /\ Len(ArraysOf(msg.frames)) = n /\ n \in Nat
  BY <1>2, ArraysOfType, LenProperties
<1>6. fromWorker' \in Seq(FromMsg) /\ WorkerType' /\ dropped' \in BOOLEAN
  <2>1. CASE BatchDone(msg) /\ CanAcquire(Free(msg), n)
    <3>3. Batch("FRAME_RESULT_BATCH", Results(msg), worker.recycles \o ArraysOf(msg.frames), msg.age) \in FromMsg
      BY <1>1, <2>1, DoneType
    <3>4. fromWorker' \in Seq(FromMsg)
      BY <2>1, <3>3, RespondType DEF BatchDone
    <3>5. /\ worker' = [worker EXCEPT !.pool = Free(msg) \ Range(Outputs(msg)), !.recycles = <<>>]
          /\ <<>> \in Seq(AnyArray)
      BY <2>1 DEF BatchDone
    <3>6. WorkerType'
      <4> HIDE DEF msg
      <4> QED BY <1>1, <1>3, <1>4, <3>5, SetsStay DEF WorkerType
    <3> QED BY <2>1, <3>4, <3>6 DEF BatchDone, Types
  <2>2. ASSUME NEW k \in 1 .. n, NEW l, BatchFailed(msg, k, l)
        PROVE  fromWorker' \in Seq(FromMsg) /\ WorkerType' /\ dropped' \in BOOLEAN
    <3> DEFINE a == ArraysOf(msg.frames)
               s == SubSeq(a, 1, k - 1)
    <3>1. s \in Seq(AnyArray)
      <4>1. \A i \in 1 .. k - 1 : a[i] \in AnyArray
        <5>1. \A i \in 1 .. k - 1 : i \in 1 .. n
          BY <1>5
        <5>2. \A i \in 1 .. n : a[i] \in AnyArray
          BY <1>5, ElementOfSeq
        <5> QED BY <5>1, <5>2
      <4> HIDE DEF a
      <4> QED BY <1>5, <4>1, SubSeqProperties
    <3>2. worker.recycles \o s \in Seq(AnyArray)
      <4> HIDE DEF s
      <4> QED BY <1>4, <3>1, ConcatProperties
    <3>3. fromWorker' \in Seq(FromMsg)
      BY <2>2, MessageType, RespondType DEF BatchFailed
    <3>4. worker' = [worker EXCEPT !.pool = Free(msg) \ Lost(msg, l), !.recycles = worker.recycles \o s]
      BY <2>2 DEF BatchFailed
    <3>5. WorkerType'
      <4> HIDE DEF msg, s
      <4> QED BY <1>1, <1>3, <1>4, <3>2, <3>4, SetsStay DEF WorkerType
    <3> QED BY <2>2, <3>3, <3>5 DEF BatchFailed
  <2>3. ASSUME NEW m \in Modules, Switched(m)
        PROVE  fromWorker' \in Seq(FromMsg) /\ WorkerType' /\ dropped' \in BOOLEAN
    <3>1. fromWorker' \in Seq(FromMsg)
      BY <2>3, MessageType, RespondType DEF Switched
    <3> DEFINE p == Resized(worker.pool, worker.size, FrameOf(m))
    <3>2. worker' = [worker EXCEPT !.module = m, !.size = FrameOf(m), !.pool = p]
      BY <2>3 DEF Switched
    <3>3. FrameOf(m) \in Lengths
      BY BuildType DEF Types
    <3>4. p \subseteq Arrays(FrameOf(m)) /\ p \subseteq AnyArray
      BY <1>4, ResizedType
    <3> HIDE DEF p
    <3>5. WorkerType'
      <4>1. /\ worker'.module = m /\ worker'.size = FrameOf(m) /\ worker'.pool = p
            /\ worker' \in [module : Modules, enabled : BOOLEAN, size : Lengths, pool : SUBSET AnyArray,
                            recycles : Seq(AnyArray)]
        BY <1>4, <3>2, <3>3, <3>4
      <4>2. FrameOf(worker.module)' = FrameOf(m)
        BY <1>1, <4>1 DEF FrameOf
      <4> QED BY <1>1, <3>4, <4>1, <4>2, SetsStay DEF WorkerType
    <3> QED BY <2>3, <3>1, <3>5 DEF Switched, Types
  <2>4. CASE SameAgain
    BY <1>1, <2>4, SetsStay DEF SameAgain, Types, WorkerType
  <2>5. ASSUME NEW on \in BOOLEAN, Toggled(on)
        PROVE  fromWorker' \in Seq(FromMsg) /\ WorkerType' /\ dropped' \in BOOLEAN
    <3>1. WorkerType'
      <4>1. worker' = [worker EXCEPT !.enabled = on]
        BY <2>5 DEF Toggled
      <4> QED BY <1>1, <1>4, <4>1, SetsStay DEF WorkerType
    <3> QED BY <2>5, <3>1 DEF Toggled, Types
  <2>6. CASE Reset
    <3>1. WorkerType'
      <4>1. worker' = InitialWorker("rnnoise") /\ "rnnoise" \in Modules
        BY <2>6 DEF Reset, Modules
      <4>2. FrameOf("rnnoise") \in Lengths
        BY <4>1, BuildType DEF Types
      <4> QED BY <1>1, <4>1, <4>2, SetsStay DEF WorkerType, InitialWorker
    <3> QED BY <2>6, <3>1 DEF Reset, Types
  <2> QED BY <1>1, <2>1, <2>2, <2>3, <2>4, <2>5, <2>6
<1>7. RingOK(Queue, QueueCapacity)' /\ Len(input') < Longest'
  <2>1. Queue' = Queue /\ QueueCapacity' = QueueCapacity /\ Longest' = Longest
    BY <1>1, SameQueue, SameCapacity
  <2> QED BY <1>1, <2>1 DEF Types
<1>8. Types'
  BY <1>1, <1>2, <1>6, <1>7, SetsStay DEF Types
<1>9. prefilled \/ destroyed
  BY <1>1 DEF Phase
<1>10. destroyed => fromWorker' = fromWorker
  <2>1. CASE BatchDone(msg)
    BY <2>1 DEF BatchDone, Respond
  <2>2. CASE \E k \in 1 .. n : \E l \in {k - 1, k} : BatchFailed(msg, k, l)
    BY <2>2 DEF BatchFailed, Respond
  <2>3. CASE \E m \in Modules : Switched(m)
    BY <2>3 DEF Switched, Respond
  <2> QED BY <1>1, <2>1, <2>2, <2>3 DEF SameAgain, Toggled, Reset
<1>11. ~workerReady /\ ~destroyed => Silenced(toWorker') /\ Silenced(fromWorker')
  <2> SUFFICES ASSUME ~workerReady, ~destroyed PROVE Silenced(toWorker') /\ Silenced(fromWorker')
    OBVIOUS
  <2>1. Silenced(toWorker) /\ Silenced(fromWorker) /\ toWorker \in Seq(ToMsg) /\ fromWorker \in Seq(FromMsg)
    BY DEF Phase, Types
  <2>2. Silenced(toWorker') /\ msg.type # "PROCESS_FRAME_BATCH"
    BY <1>1, <2>1, TailSilenced
  <2>3. fromWorker' = fromWorker \/ \E m \in Modules : Switched(m)
    BY <1>1, <2>2 DEF SameAgain, Toggled, Reset
  <2>4. ASSUME NEW m \in Modules, Switched(m) PROVE Silenced(fromWorker')
    <3> DEFINE x == Message("MODULE_CHANGED", FrameOf(m))
    <3>1. x \in FromMsg /\ x.type = "MODULE_CHANGED"
      BY MessageType DEF Message
    <3>2. fromWorker' = fromWorker \/ fromWorker' = Append(fromWorker, x)
      BY <2>4 DEF Switched, Respond
    <3> HIDE DEF x
    <3>3. Silenced(Append(fromWorker, x))
      BY <2>1, <3>1, BareSilenced
    <3> QED BY <2>1, <3>2, <3>3
  <2> QED BY <2>1, <2>2, <2>3, <2>4
<1>12. Phase'
  <2> HIDE DEF msg
  <2> QED BY <1>1, <1>9, <1>10, <1>11 DEF Phase
<1> QED BY <1>8, <1>12

-----------------------------------------------------------------------------
(* The line from the microphone to the speaker.                            *)

Join(o, f, t, b, i) == o \o f \o t \o b \o i

LEMMA LineJoins ==
    /\ Line = Join(output, Carried(fromWorker), Carried(toWorker), SamplesOf(batchQueue), input)
    /\ Line' = Join(output', Carried(fromWorker'), Carried(toWorker'), SamplesOf(batchQueue'), input')
BY DEF Line, Join

LEMMA JoinType ==
    ASSUME NEW o \in Seq(Nat), NEW f \in Seq(Nat), NEW t \in Seq(Nat), NEW b \in Seq(Nat), NEW i \in Seq(Nat)
    PROVE  Join(o, f, t, b, i) \in Seq(Nat)
PROOF
<1>1. o \o f \in Seq(Nat)
  BY ConcatProperties
<1>2. (o \o f) \o t \in Seq(Nat)
  BY <1>1, ConcatProperties
<1>3. ((o \o f) \o t) \o b \in Seq(Nat)
  BY <1>2, ConcatProperties
<1>4. (((o \o f) \o t) \o b) \o i \in Seq(Nat)
  BY <1>3, ConcatProperties
<1> QED BY <1>4 DEF Join

LEMMA JoinThins ==
    ASSUME NEW o \in Seq(Nat), NEW f \in Seq(Nat), NEW t \in Seq(Nat), NEW b \in Seq(Nat), NEW i \in Seq(Nat),
           NEW p \in Seq(Nat), NEW g \in Seq(Nat), NEW u \in Seq(Nat), NEW j \in Seq(Nat),
           Thins(p, o), Thins(g, f), Thins(u, t), Thins(j, i)
    PROVE  Thins(Join(p, g, u, b, j), Join(o, f, t, b, i))
PROOF
<1>1. /\ o \o f \in Seq(Nat) /\ p \o g \in Seq(Nat) /\ Thins(p \o g, o \o f)
  BY ConcatProperties, ThinsConcat
<1> DEFINE x == o \o f
           y == p \o g
<1> HIDE DEF x, y
<1>2. x \in Seq(Nat) /\ y \in Seq(Nat) /\ Thins(y, x)
  BY <1>1 DEF x, y
<1>3. /\ x \o t \in Seq(Nat) /\ y \o u \in Seq(Nat) /\ Thins(y \o u, x \o t)
  BY <1>2, ConcatProperties, ThinsConcat
<1> DEFINE v == x \o t
           w == y \o u
<1> HIDE DEF v, w
<1>4. v \in Seq(Nat) /\ w \in Seq(Nat) /\ Thins(w, v)
  BY <1>3 DEF v, w
<1>5. Thins(b, b)
  BY ThinsSelf
<1>6. /\ v \o b \in Seq(Nat) /\ w \o b \in Seq(Nat) /\ Thins(w \o b, v \o b)
  BY <1>4, <1>5, ConcatProperties, ThinsConcat
<1> DEFINE c == v \o b
           d == w \o b
<1> HIDE DEF c, d
<1>7. c \in Seq(Nat) /\ d \in Seq(Nat) /\ Thins(d, c)
  BY <1>6 DEF c, d
<1>8. Thins(d \o j, c \o i)
  BY <1>7, ThinsConcat
<1> QED BY <1>8 DEF Join, c, d, v, w, x, y

ValsOf(o, f, t, b, i) == Vals(o) \cup Vals(f) \cup Vals(t) \cup Vals(b) \cup Vals(i)

LEMMA JoinLength ==
    ASSUME NEW o \in Seq(Nat), NEW f \in Seq(Nat), NEW t \in Seq(Nat), NEW b \in Seq(Nat), NEW i \in Seq(Nat)
    PROVE  /\ Len(Join(o, f, t, b, i)) = Len(o) + Len(f) + Len(t) + Len(b) + Len(i)
           /\ Vals(Join(o, f, t, b, i)) = ValsOf(o, f, t, b, i)
PROOF
<1> DEFINE x == o \o f
           y == x \o t
           z == y \o b
<1>1. x \in Seq(Nat) /\ Len(x) = Len(o) + Len(f) /\ Vals(x) = Vals(o) \cup Vals(f)
  BY ConcatProperties, ValsConcat
<1>2. y \in Seq(Nat) /\ Len(y) = Len(x) + Len(t) /\ Vals(y) = Vals(x) \cup Vals(t)
  <2> HIDE DEF x
  <2> QED BY <1>1, ConcatProperties, ValsConcat
<1>3. z \in Seq(Nat) /\ Len(z) = Len(y) + Len(b) /\ Vals(z) = Vals(y) \cup Vals(b)
  <2> HIDE DEF y
  <2> QED BY <1>2, ConcatProperties, ValsConcat
<1>4. Len(z \o i) = Len(z) + Len(i) /\ Vals(z \o i) = Vals(z) \cup Vals(i)
  <2> HIDE DEF z
  <2> QED BY <1>3, ConcatProperties, ValsConcat
<1>5. Join(o, f, t, b, i) = z \o i
  BY DEF Join
<1> HIDE DEF x, y, z
<1> QED BY <1>1, <1>2, <1>3, <1>4, <1>5 DEF ValsOf

\* The front of the queue moves up, and a batch moves from one channel to the
\* other or through the worker.
LEMMA JoinUp ==
    ASSUME NEW o \in Seq(Nat), NEW f \in Seq(Nat), NEW t \in Seq(Nat), NEW b \in Seq(Nat), NEW i \in Seq(Nat),
           NEW x \in Seq(Nat)
    PROVE  Join(o \o x, f, t, b, i) = Join(o, x \o f, t, b, i)
PROOF
<1>1. (o \o x) \o f = o \o (x \o f)
  BY Assoc, SMTT(30)
<1> QED BY <1>1 DEF Join

LEMMA JoinOver ==
    ASSUME NEW o \in Seq(Nat), NEW f \in Seq(Nat), NEW t \in Seq(Nat), NEW b \in Seq(Nat), NEW i \in Seq(Nat),
           NEW x \in Seq(Nat)
    PROVE  Join(o, f \o x, t, b, i) = Join(o, f, x \o t, b, i)
PROOF
<1>1. o \o (f \o x) = (o \o f) \o x
  BY Assoc, SMTT(30)
<1>2. o \o f \in Seq(Nat)
  BY ConcatProperties
<1> DEFINE a == o \o f
<1>3. (a \o x) \o t = a \o (x \o t)
  <2> HIDE DEF a
  <2>1. a \in Seq(Nat)
    BY <1>2 DEF a
  <2> QED BY <2>1, Assoc
<1> QED BY <1>1, <1>3 DEF Join

LEMMA JoinEmpty ==
    ASSUME NEW o \in Seq(Nat), NEW i \in Seq(Nat)
    PROVE  Join(o, <<>>, <<>>, <<>>, i) = o \o i
PROOF
<1>1. o \o <<>> = o
  BY ConcatEmptySeq
<1> QED BY <1>1 DEF Join

\* What is in front and what is behind.
Seqs(a, b, c, d, e) == {a, b, c, d, e} \subseteq Seq(Nat)

\* The same samples, cut at another place.
Recut(s, j, i, x) == s \o j = i \o x

LEMMA JoinPairs ==
    ASSUME NEW o, NEW f, NEW t, NEW b, NEW i, Seqs(o, f, t, b, i)
    PROVE  Join(o, f, t, b, i) = ((o \o f) \o (t \o b)) \o i
PROOF
<1> DEFINE a == o \o f
<1>1. a \in Seq(Nat)
  BY ConcatProperties DEF Seqs
<1>2. t \in Seq(Nat) /\ b \in Seq(Nat)
  BY DEF Seqs
<1>3. (a \o t) \o b = a \o (t \o b)
  <2> HIDE DEF a
  <2> QED BY <1>1, <1>2, Assoc
<1> QED BY <1>3 DEF Join

LEMMA JoinFront ==
    ASSUME NEW o, NEW f, NEW t, NEW b, NEW i, NEW x, Seqs(o, f, t, b, i), x \in Seq(Nat)
    PROVE  Join(x \o o, f, t, b, i) = x \o Join(o, f, t, b, i)
PROOF
<1> DEFINE c == o \o f
           d == c \o t
           e == d \o b
<1>1. x \in Seq(Nat) /\ o \in Seq(Nat) /\ f \in Seq(Nat)
  BY DEF Seqs
<1>2. t \in Seq(Nat) /\ b \in Seq(Nat) /\ i \in Seq(Nat)
  BY DEF Seqs
<1>3. c \in Seq(Nat) /\ (x \o o) \o f = x \o c
  BY <1>1, ConcatProperties, Assoc
<1> HIDE DEF c
<1>4. d \in Seq(Nat) /\ (x \o c) \o t = x \o d
  BY <1>1, <1>2, <1>3, ConcatProperties, Assoc
<1> HIDE DEF d
<1>5. e \in Seq(Nat) /\ (x \o d) \o b = x \o e
  BY <1>1, <1>2, <1>4, ConcatProperties, Assoc
<1> HIDE DEF e
<1>6. (x \o e) \o i = x \o (e \o i)
  BY <1>1, <1>2, <1>5, Assoc
<1> QED BY <1>3, <1>4, <1>5, <1>6 DEF Join, c, d, e

LEMMA Lengthen ==
    ASSUME NEW l, NEW s, NEW j, NEW i, NEW x, Seqs(l, s, j, i, x)
    PROVE  Recut(s, j, i, x) => (l \o s) \o j = (l \o i) \o x
PROOF
<1>1. l \in Seq(Nat) /\ s \in Seq(Nat) /\ j \in Seq(Nat)
  BY DEF Seqs
<1>2. l \in Seq(Nat) /\ i \in Seq(Nat) /\ x \in Seq(Nat)
  BY DEF Seqs
<1>3. (l \o s) \o j = l \o (s \o j)
  BY <1>1, Assoc
<1>4. (l \o i) \o x = l \o (i \o x)
  BY <1>2, Assoc
<1> QED BY <1>3, <1>4 DEF Recut

LEMMA JoinBack ==
    ASSUME NEW o, NEW f, NEW t, NEW b, NEW i, NEW u, NEW c, NEW j, NEW s, NEW x,
           Seqs(o, f, t, b, i), Seqs(u, c, j, s, x)
    PROVE  Recut(u, c, t \o b, s) /\ Recut(s, j, i, x) => Join(o, f, u, c, j) = Join(o, f, t, b, i) \o x
PROOF
<1> DEFINE a == o \o f
           tb == t \o b
           l == a \o tb
<1>1. Seqs(o, f, t, b, i) /\ Seqs(o, f, u, c, j)
  BY DEF Seqs
<1>2. a \in Seq(Nat) /\ tb \in Seq(Nat)
  <2>1. o \in Seq(Nat) /\ f \in Seq(Nat)
    BY DEF Seqs
  <2>2. t \in Seq(Nat) /\ b \in Seq(Nat)
    BY DEF Seqs
  <2>3. a \in Seq(Nat)
    BY <2>1, ConcatProperties
  <2>4. tb \in Seq(Nat)
    BY <2>2, ConcatProperties
  <2> QED BY <2>3, <2>4
<1>3. l \in Seq(Nat)
  <2> HIDE DEF a, tb
  <2> QED BY <1>2, ConcatProperties
<1>4. Join(o, f, u, c, j) = (a \o (u \o c)) \o j
  BY <1>1, JoinPairs
<1>5. Join(o, f, t, b, i) = l \o i
  BY <1>1, JoinPairs
<1>6. a \o (tb \o s) = l \o s
  <2>1. s \in Seq(Nat)
    BY DEF Seqs
  <2> HIDE DEF a, tb
  <2>2. (a \o tb) \o s = a \o (tb \o s)
    BY <1>2, <2>1, Assoc
  <2> QED BY <2>2 DEF l
<1>7. Recut(s, j, i, x) => (l \o s) \o j = (l \o i) \o x
  <2> HIDE DEF l
  <2>1. Seqs(l, s, j, i, x)
    BY <1>3 DEF Seqs
  <2> QED BY <2>1, Lengthen
<1>8. Recut(u, c, t \o b, s) => u \o c = tb \o s
  BY DEF Recut
<1> QED BY <1>4, <1>5, <1>6, <1>7, <1>8

\* The pieces of the line, in the state after a step too.
LEMMA Pieces ==
    ASSUME Types
    PROVE  /\ output \in Seq(Nat) /\ Carried(fromWorker) \in Seq(Nat) /\ Carried(toWorker) \in Seq(Nat)
           /\ SamplesOf(batchQueue) \in Seq(Nat) /\ input \in Seq(Nat) /\ Line \in Seq(Nat)
PROOF
<1>1. /\ output \in Seq(Nat) /\ Carried(fromWorker) \in Seq(Nat) /\ Carried(toWorker) \in Seq(Nat)
      /\ SamplesOf(batchQueue) \in Seq(Nat) /\ input \in Seq(Nat)
  BY Wide DEF Types
<1> QED BY <1>1, JoinType, LineJoins

LEMMA PiecesNext ==
    ASSUME Types, Types', build' = build
    PROVE  /\ output' \in Seq(Nat) /\ Carried(fromWorker') \in Seq(Nat) /\ Carried(toWorker') \in Seq(Nat)
           /\ SamplesOf(batchQueue') \in Seq(Nat) /\ input' \in Seq(Nat) /\ Line' \in Seq(Nat)
           /\ toWorker' \in Seq(Msg) /\ fromWorker' \in Seq(Msg)
PROOF
<1>1. /\ toWorker' \in Seq(ToMsg) /\ fromWorker' \in Seq(FromMsg) /\ batchQueue' \in Seq(Filled)
      /\ output' \in Seq(Nat) /\ input' \in Seq(Nat)
  BY SetsStay DEF Types
<1>2. /\ AnyArray \subseteq Buf /\ Filled \subseteq Piece /\ ToMsg \subseteq Msg /\ FromMsg \subseteq Msg
  BY Widen DEF Types
<1>3. toWorker' \in Seq(Msg) /\ fromWorker' \in Seq(Msg) /\ batchQueue' \in Seq(Piece)
  BY <1>1, <1>2, SeqMonotonic
<1>4. /\ Carried(fromWorker') \in Seq(Nat) /\ Carried(toWorker') \in Seq(Nat)
      /\ SamplesOf(batchQueue') \in Seq(Nat)
  BY <1>3, CarriedType, SamplesType
<1> QED BY <1>1, <1>3, <1>4, JoinType, LineJoins

LEMMA CarriedAged ==
    ASSUME Types
    PROVE  Carried(Aged(toWorker)) = Carried(toWorker) /\ Carried(Aged(fromWorker)) = Carried(fromWorker)
PROOF
<1>1. toWorker \in Seq(ToMsg) /\ fromWorker \in Seq(FromMsg) /\ ToMsg \subseteq Msg /\ FromMsg \subseteq Msg
  BY Widen DEF Types
<1>2. /\ Aged(toWorker) \in Seq(ToMsg) /\ Len(Aged(toWorker)) = Len(toWorker)
      /\ \A i \in 1 .. Len(toWorker) : Aged(toWorker)[i].frames = toWorker[i].frames
  BY <1>1, AgedType
<1>3. /\ Aged(fromWorker) \in Seq(FromMsg) /\ Len(Aged(fromWorker)) = Len(fromWorker)
      /\ \A i \in 1 .. Len(fromWorker) : Aged(fromWorker)[i].frames = fromWorker[i].frames
  BY <1>1, AgedType
<1>4. toWorker \in Seq(Msg) /\ fromWorker \in Seq(Msg) /\ Aged(toWorker) \in Seq(Msg) /\ Aged(fromWorker) \in Seq(Msg)
  BY <1>1, <1>2, <1>3, SeqMonotonic
<1> QED BY <1>2, <1>3, <1>4, CarriedSame

\* A channel that only commands go through carries nothing.
LEMMA SilencedCarries ==
    ASSUME Types, NEW S, NEW c \in Seq(S), S \in {ToMsg, FromMsg}, Silenced(c)
    PROVE  Carried(c) = <<>>
PROOF
<1>1. S \subseteq Msg /\ c \in Seq(Msg)
  <2>1. S \subseteq Msg
    BY Widen DEF Types
  <2> QED BY <2>1, SeqMonotonic
<1>2. ASSUME NEW i \in 1 .. Len(c) PROVE c[i].frames = <<>>
  <2>1. c[i] \in S
    BY ElementOfSeq
  <2> QED BY <2>1 DEF Silenced, ToMsg, FromMsg
<1> DEFINE m == [i \in DOMAIN c |-> SamplesOf(c[i].frames)]
<1>3. m \in Seq(Seq(Nat)) /\ Len(m) = Len(c) /\ \A i \in 1 .. Len(c) : m[i] = SamplesOf(c[i].frames)
  BY <1>1, CarriedMap
<1>4. Carried(c) = FlattenSeq(m) /\ Carried(c) \in Seq(Nat)
  BY <1>1, CarriedType DEF Carried
<1> HIDE DEF m
<1>5. \A i \in 1 .. Len(m) : Len(m[i]) = 0
  <2>1. SamplesOf(<<>>) = <<>> /\ Len(<<>>) = 0
    BY SamplesEmpty
  <2> QED BY <1>2, <1>3, <2>1
<1>6. Len(FlattenSeq(m)) = Len(m) * 0
  BY <1>3, <1>5, FlattenLength
<1>7. Len(Carried(c)) = 0
  BY <1>3, <1>4, <1>6, LenProperties
<1> QED BY <1>4, <1>7, EmptySeq

\* Without the worker all there is waits in the queues.
LEMMA BypassCarries ==
    ASSUME Types, Phase, ~workerReady, ~destroyed
    PROVE  Carried(toWorker) = <<>> /\ Carried(fromWorker) = <<>> /\ SamplesOf(batchQueue) = <<>>
           /\ Line = output \o input
PROOF
<1>1. Carried(toWorker) = <<>> /\ Carried(fromWorker) = <<>>
  <2>1. toWorker \in Seq(ToMsg) /\ fromWorker \in Seq(FromMsg) /\ Silenced(toWorker) /\ Silenced(fromWorker)
    BY DEF Types, Phase
  <2> QED BY <2>1, SilencedCarries
<1>2. SamplesOf(batchQueue) = <<>>
  BY SamplesEmpty DEF Phase
<1>3. output \in Seq(Nat) /\ input \in Seq(Nat)
  BY DEF Types
<1>4. Line = Join(output, <<>>, <<>>, <<>>, input)
  BY <1>1, <1>2, LineJoins
<1> HIDE DEF Join
<1> QED BY <1>1, <1>2, <1>3, <1>4, JoinEmpty

\* What process() does behind the output queue.
LEMMA ProcessMoves ==
    ASSUME Types, Phase, Process, Types'
    PROVE  LET cut == SamplesOf(CutFrames)
           IN  /\ Rest \in Seq(Nat) /\ cut \in Seq(Nat) /\ cut \o Rest = input \o Fresh /\ Fresh \in Seq(Nat)
               /\ input' = Rest /\ Carried(fromWorker') = Carried(fromWorker)
               /\ Carried(toWorker') \in Seq(Nat) /\ SamplesOf(batchQueue') \in Seq(Nat)
               /\ workerReady => Carried(toWorker') \o SamplesOf(batchQueue')
                                    = (Carried(toWorker) \o SamplesOf(batchQueue)) \o cut
               /\ ~workerReady => Carried(toWorker') = <<>> /\ SamplesOf(batchQueue') = <<>>
PROOF
<1> DEFINE cut == SamplesOf(CutFrames)
<1>1. /\ CanAcquire(pool, Needed)
      /\ input' = Rest
      /\ workerReady => Collect(CutFrames)
      /\ ~workerReady => UNCHANGED <<batchQueue, recycles, toWorker>>
      /\ ~destroyed /\ build' = build
      /\ fromWorker' = Aged(fromWorker)
  BY ProcessDoes
<1>2. Rest \in Seq(Nat) /\ cut \in Seq(Nat) /\ cut \o Rest = input \o Fresh /\ Fresh \in Seq(Nat)
  BY <1>1, CutType, HeardType DEF Heard
<1>4. /\ output \in Seq(Nat) /\ Carried(fromWorker) \in Seq(Nat) /\ Carried(toWorker) \in Seq(Nat)
      /\ SamplesOf(batchQueue) \in Seq(Nat) /\ input \in Seq(Nat)
  BY Pieces
<1>5. /\ Carried(toWorker') \in Seq(Nat) /\ SamplesOf(batchQueue') \in Seq(Nat)
  BY <1>1, PiecesNext
<1>6. Carried(fromWorker') = Carried(fromWorker)
  BY <1>1, CarriedAged
<1> HIDE DEF cut
<1>8. CASE workerReady
  <2>2. Carried(toWorker') \o SamplesOf(batchQueue') = (Carried(toWorker) \o SamplesOf(batchQueue)) \o cut
    <3>1. /\ SamplesOf(Gathered) = SamplesOf(batchQueue) \o cut
          /\ \/ batchQueue' = Gathered /\ toWorker' = Aged(toWorker)
             \/ /\ batchQueue' = <<>>
                /\ toWorker' = Append(Aged(toWorker), Batch("PROCESS_FRAME_BATCH", Gathered, recycles, 0))
                /\ Batch("PROCESS_FRAME_BATCH", Gathered, recycles, 0) \in ToMsg
      BY <1>1, <1>8, CollectDoes DEF cut
    <3>2. Carried(toWorker) \o (SamplesOf(batchQueue) \o cut) = (Carried(toWorker) \o SamplesOf(batchQueue)) \o cut
      <4>1. Carried(toWorker) \in Seq(Nat) /\ SamplesOf(batchQueue) \in Seq(Nat) /\ cut \in Seq(Nat)
        BY <1>2, <1>4
      <4> QED BY <4>1, Assoc, ZenonT(30)
    <3>3. CASE batchQueue' = Gathered /\ toWorker' = Aged(toWorker)
      BY <3>1, <3>2, <3>3, CarriedAged
    <3>4. ASSUME batchQueue' = <<>>,
                 toWorker' = Append(Aged(toWorker), Batch("PROCESS_FRAME_BATCH", Gathered, recycles, 0)),
                 Batch("PROCESS_FRAME_BATCH", Gathered, recycles, 0) \in ToMsg
          PROVE  Carried(toWorker') \o SamplesOf(batchQueue') = (Carried(toWorker) \o SamplesOf(batchQueue)) \o cut
      <4> DEFINE m == Batch("PROCESS_FRAME_BATCH", Gathered, recycles, 0)
      <4>1. m.frames = Gathered
        BY DEF Batch
      <4>2. m \in Msg /\ Aged(toWorker) \in Seq(Msg)
        <5>1. toWorker \in Seq(ToMsg) /\ ToMsg \subseteq Msg
          BY Widen DEF Types
        <5>2. Aged(toWorker) \in Seq(ToMsg)
          BY <5>1, AgedType
        <5> QED BY <3>4, <5>1, <5>2, SeqMonotonic
      <4>3. toWorker' = Append(Aged(toWorker), m)
        BY <3>4
      <4> HIDE DEF m
      <4>4. Carried(toWorker') = Carried(Aged(toWorker)) \o SamplesOf(Gathered)
        BY <4>1, <4>2, <4>3, CarriedAppend
      <4>5. Carried(toWorker') = Carried(toWorker) \o (SamplesOf(batchQueue) \o cut)
        BY <3>1, <4>4, CarriedAged
      <4>6. SamplesOf(batchQueue') = <<>>
        BY <3>4, SamplesEmpty
      <4> QED BY <1>5, <3>2, <4>5, <4>6, ConcatEmptySeq
    <3> QED BY <3>1, <3>3, <3>4
  <2> QED BY <1>1, <1>2, <1>5, <1>6, <1>8, <2>2 DEF cut
<1>9. CASE ~workerReady
  <2>1. Carried(toWorker) = <<>> /\ SamplesOf(batchQueue) = <<>>
    BY <1>1, <1>9, BypassCarries
  <2>2. toWorker' = toWorker /\ batchQueue' = batchQueue
    BY <1>1, <1>9
  <2> QED BY <1>1, <1>2, <1>5, <1>6, <1>9, <2>1, <2>2 DEF cut
<1> QED BY <1>8, <1>9

\* process() moves the line up by what it plays and lengthens it by a quantum.
LEMMA ProcessLine ==
    ASSUME Types, Phase, Process, Types', ~overrun'
    PROVE  Played(Supply.held) \o Line' = Line \o Fresh
PROOF
<1> DEFINE cut == SamplesOf(CutFrames)
           sup == Supply.held
<1>1. /\ Play(Supply) /\ RingOK(Supply, QueueCapacity) /\ sup \in Seq(Nat) /\ ~destroyed /\ build' = build
  BY ProcessDoes
<1>2. /\ Rest \in Seq(Nat) /\ cut \in Seq(Nat) /\ cut \o Rest = input \o Fresh /\ Fresh \in Seq(Nat)
      /\ input' = Rest /\ Carried(fromWorker') = Carried(fromWorker)
      /\ Carried(toWorker') \in Seq(Nat) /\ SamplesOf(batchQueue') \in Seq(Nat)
      /\ workerReady => Carried(toWorker') \o SamplesOf(batchQueue')
                           = (Carried(toWorker) \o SamplesOf(batchQueue)) \o cut
      /\ ~workerReady => Carried(toWorker') = <<>> /\ SamplesOf(batchQueue') = <<>>
  BY ProcessMoves
<1>3. output' = Kept(sup) /\ Played(sup) \in Seq(Nat) /\ Kept(sup) \in Seq(Nat)
      /\ Played(sup) \o Kept(sup) = sup
  <2>1. QueueCapacity \in Nat \ {0} /\ lastPlayed \in Nat /\ starved \in Nat /\ prefilled \in BOOLEAN
    BY CapacityNow DEF Types
  <2>2. output' = Kept(sup)
    BY <1>1, <2>1, PlayDoes
  <2> QED BY <1>1, <2>2, PlaySplits
<1>4. /\ output \in Seq(Nat) /\ Carried(fromWorker) \in Seq(Nat) /\ Carried(toWorker) \in Seq(Nat)
      /\ SamplesOf(batchQueue) \in Seq(Nat) /\ input \in Seq(Nat)
  BY Pieces
<1>5. sup = output \o (IF workerReady THEN <<>> ELSE cut)
  BY SupplyKept
<1> HIDE DEF cut, sup
<1>7. Played(sup) \o Line'
        = Join(sup, Carried(fromWorker), Carried(toWorker'), SamplesOf(batchQueue'), Rest)
  <2>1. Line' = Join(Kept(sup), Carried(fromWorker), Carried(toWorker'), SamplesOf(batchQueue'), Rest)
    BY <1>1, <1>2, <1>3, LineJoins
  <2>2. Seqs(Kept(sup), Carried(fromWorker), Carried(toWorker'), SamplesOf(batchQueue'), Rest)
        /\ Played(sup) \in Seq(Nat)
    BY <1>2, <1>3, <1>4 DEF Seqs
  <2>3. Join(Played(sup) \o Kept(sup), Carried(fromWorker), Carried(toWorker'), SamplesOf(batchQueue'), Rest)
          = Played(sup) \o Join(Kept(sup), Carried(fromWorker), Carried(toWorker'), SamplesOf(batchQueue'), Rest)
    BY <2>2, JoinFront
  <2> QED BY <1>3, <2>1, <2>3
<1>8. CASE workerReady
  <2>1. sup = output
    BY <1>4, <1>5, <1>8, ConcatEmptySeq
  <2>2. Carried(toWorker') \o SamplesOf(batchQueue') = (Carried(toWorker) \o SamplesOf(batchQueue)) \o cut
    BY <1>2, <1>8
  <2>3. Join(output, Carried(fromWorker), Carried(toWorker'), SamplesOf(batchQueue'), Rest)
          = Join(output, Carried(fromWorker), Carried(toWorker), SamplesOf(batchQueue), input) \o Fresh
    <3>1. /\ Seqs(output, Carried(fromWorker), Carried(toWorker), SamplesOf(batchQueue), input)
          /\ Seqs(Carried(toWorker'), SamplesOf(batchQueue'), Rest, cut, Fresh)
      BY <1>2, <1>4 DEF Seqs
    <3>2. Recut(Carried(toWorker'), SamplesOf(batchQueue'), Carried(toWorker) \o SamplesOf(batchQueue), cut)
          /\ Recut(cut, Rest, input, Fresh)
          => Join(output, Carried(fromWorker), Carried(toWorker'), SamplesOf(batchQueue'), Rest)
             = Join(output, Carried(fromWorker), Carried(toWorker), SamplesOf(batchQueue), input) \o Fresh
      BY <3>1, JoinBack
    <3> QED BY <1>2, <2>2, <3>2 DEF Recut
  <2>4. Played(sup) \o Line' = Line \o Fresh
    BY <1>7, <2>1, <2>3, LineJoins
  <2> QED BY <2>4 DEF sup
<1>9. CASE ~workerReady
  <2>1. Carried(fromWorker) = <<>> /\ Line = output \o input
    BY <1>1, <1>9, BypassCarries
  <2>2. Carried(toWorker') = <<>> /\ SamplesOf(batchQueue') = <<>> /\ sup = output \o cut /\ sup \in Seq(Nat)
    BY <1>1, <1>2, <1>5, <1>9 DEF sup
  <2>3. Played(sup) \o Line' = (output \o cut) \o Rest
    BY <1>2, <1>7, <2>1, <2>2, JoinEmpty
  <2>4. (output \o cut) \o Rest = (output \o input) \o Fresh
    <3>1. Seqs(output, cut, Rest, input, Fresh)
      BY <1>2, <1>4 DEF Seqs
    <3>2. Recut(cut, Rest, input, Fresh) => (output \o cut) \o Rest = (output \o input) \o Fresh
      BY <3>1, Lengthen
    <3> QED BY <1>2, <3>2 DEF Recut
  <2>5. Played(sup) \o Line' = Line \o Fresh
    BY <2>1, <2>3, <2>4
  <2> QED BY <2>5 DEF sup
<1> QED BY <1>8, <1>9

\* The other actions leave the line as it is, or thin it.
LEMMA WorkletReceivesLine ==
    ASSUME Types, Phase, WorkletReceives, Types', ~overrun'
    PROVE  Line' = Line /\ ~overrun
PROOF
<1> DEFINE msg == Head(fromWorker)
           s == SamplesOf(msg.frames)
<1>1. /\ fromWorker # <<>> /\ fromWorker' = Tail(fromWorker)
      /\ ResultArrives(msg) \/ ChangeArrives(msg) \/ NothingArrives(msg)
      /\ build' = build /\ toWorker' = toWorker
  BY WorkletReceivesDoes
<1>2. /\ output \in Seq(Nat) /\ Carried(fromWorker) \in Seq(Nat) /\ Carried(toWorker) \in Seq(Nat)
      /\ SamplesOf(batchQueue) \in Seq(Nat) /\ input \in Seq(Nat) /\ fromWorker \in Seq(Msg)
  BY Pieces, Wide
<1>3. Carried(fromWorker') \in Seq(Nat)
  BY <1>1, PiecesNext
<1>4. msg \in FromMsg /\ msg.frames \in Seq(Filled)
  BY <1>1, HeadOfFrom
<1>5. s \in Seq(Nat)
  <2>1. msg.frames \in Seq(Piece)
    BY <1>4, Widen, SeqMonotonic DEF Types
  <2> QED BY <2>1, SamplesType
<1>6. Carried(fromWorker) = s \o Carried(fromWorker')
  BY <1>1, <1>2, CarriedHead
<1> HIDE DEF msg
<1>7. CASE ResultArrives(msg)
  <2>1. output' = output \o s /\ ~overrun
    BY <1>4, <1>7, ResultPushed
  <2>0. input' = input /\ batchQueue' = batchQueue
    BY <1>7 DEF ResultArrives
  <2> HIDE DEF s
  <2>2. Join(output \o s, Carried(fromWorker'), Carried(toWorker), SamplesOf(batchQueue), input)
        = Join(output, s \o Carried(fromWorker'), Carried(toWorker), SamplesOf(batchQueue), input)
    BY <1>2, <1>3, <1>5, JoinUp
  <2> QED BY <1>1, <1>6, <2>0, <2>1, <2>2, LineJoins
<1>8. CASE ChangeArrives(msg) \/ NothingArrives(msg)
  <2>1. output' = output /\ ~overrun /\ input' = input /\ batchQueue' = batchQueue
    <3>1. CASE ChangeArrives(msg)
      <4>1. msg.arg \in Lengths
        BY <1>4, <3>1 DEF ChangeArrives, FromMsg
      <4> QED BY <3>1, <4>1, ChangeDrains DEF ChangeArrives
    <3>2. CASE NothingArrives(msg)
      BY <3>2 DEF NothingArrives
    <3> QED BY <1>8, <3>1, <3>2
  <2>2. msg.frames = <<>>
    BY <1>4, <1>8 DEF ChangeArrives, NothingArrives, FromMsg
  <2>3. s = <<>>
    BY <2>2, SamplesEmpty
  <2>4. Carried(fromWorker') = Carried(fromWorker)
    <3> HIDE DEF s
    <3> QED BY <1>3, <1>6, <2>3, ConcatEmptySeq
  <2> QED BY <1>1, <2>1, <2>4, LineJoins
<1> QED BY <1>1, <1>7, <1>8

\* Messages without frames carry nothing.
LEMMA CarriedBare ==
    ASSUME NEW c \in Seq(Msg), NEW x \in Msg, x.frames = <<>>
    PROVE  Carried(Append(c, x)) = Carried(c)
PROOF
<1>1. Carried(Append(c, x)) = Carried(c) \o SamplesOf(x.frames)
  BY CarriedAppend
<1>2. Carried(c) \in Seq(Nat) /\ SamplesOf(x.frames) = <<>>
  BY CarriedType, SamplesEmpty
<1> QED BY <1>1, <1>2, ConcatEmptySeq

LEMMA ControlLine ==
    ASSUME Types, NEW type, NEW arg, Control(type, arg),
           (type = "SET_MODULE" /\ arg \in Modules) \/ (type = "SET_ENABLED" /\ arg \in {"on", "off"})
    PROVE  Line' = Line
PROOF
<1> DEFINE m == Message(type, arg)
<1>1. /\ toWorker' = Append(toWorker, m)
      /\ UNCHANGED <<output, fromWorker, batchQueue, input>>
  BY DEF Control, outputVars
<1>2. m \in Msg /\ m.frames = <<>>
  BY MessageType, Widen DEF Types
<1>3. toWorker \in Seq(Msg)
  BY Wide
<1> HIDE DEF m
<1>4. Carried(toWorker') = Carried(toWorker)
  BY <1>1, <1>2, <1>3, CarriedBare
<1> QED BY <1>1, <1>4, LineJoins

LEMMA SilentEnd ==
    ASSUME NEW a \in Seq(Nat), NEW n \in Nat
    PROVE  /\ a \o Silent(n) \in Seq(Nat) /\ Thins(a \o Silent(n), a)
           /\ Numbered(a \o Silent(n)) = Numbered(a)
PROOF
<1>1. /\ Silent(n) \in Seq(Nat) /\ Len(Silent(n)) = n /\ \A i \in 1 .. n : Silent(n)[i] = 0
      /\ Thins(Silent(n), <<>>)
  BY ThinsSilent
<1>2. Numbered(Silent(n)) = <<>>
  BY <1>1, NumberedSilent
<1> DEFINE z == Silent(n)
<1>3. z \in Seq(Nat) /\ Thins(z, <<>>) /\ Numbered(z) = <<>>
  BY <1>1, <1>2
<1> HIDE DEF z
<1>4. a \o z \in Seq(Nat) /\ Numbered(a \o z) = Numbered(a) \o <<>>
  BY <1>3, ConcatProperties, NumberedConcat
<1>5. Numbered(a) \in Seq(Nat)
  BY NumberedType
<1>6. Numbered(a \o z) = Numbered(a)
  BY <1>4, <1>5, ConcatEmptySeq
<1>7. Thins(a \o z, a \o <<>>)
  <2>1. Thins(a, a) /\ <<>> \in Seq(Nat)
    BY ThinsSelf
  <2> QED BY <1>3, <2>1, ThinsConcat
<1>8. a \o <<>> = a
  BY ConcatEmptySeq
<1> QED BY <1>4, <1>6, <1>7, <1>8 DEF z

LEMMA InitPipelineLine ==
    ASSUME Types, Phase, InitPipeline, ~overrun'
    PROVE  /\ Thins(Line', Line) /\ Numbered(Line') = Numbered(Line) /\ ~overrun
           /\ Len(Line') = IF workerReady' THEN Len(Line) + Prefill' ELSE Len(Line)
PROOF
<1> DEFINE len == FrameOf(worker.module)
           cap == CapacityOf(len)
           d == Drained(len)
           p == Pushed(d, Silent(Prefill'), cap)
<1>1. /\ ~workerReady /\ ~destroyed /\ len \in Lengths /\ build' = build
      /\ \/ /\ Queue' = p /\ workerReady' = TRUE
            /\ overrun' = (overrun \/ Len(output) + Prefill' > cap)
         \/ /\ Queue' = d /\ workerReady' = FALSE
            /\ overrun' = (overrun \/ Len(output) + 0 > cap)
      /\ UNCHANGED <<input, batchQueue, toWorker, fromWorker>>
  BY InitPipelineDoes
<1>2. Prefill' \in Nat
  BY InitPipelineTypes
<1>3. output \in Seq(Nat) /\ input \in Seq(Nat) /\ Len(output) \in Nat /\ Len(input) \in Nat /\ cap \in Nat \ {0}
  BY <1>1, CapacityType, LenProperties DEF Types
<1>4. RingOK(d, cap) /\ (Len(output) <= cap => d.held = output /\ d.skew = 0)
  BY <1>1, DrainedType
<1>5. Silent(Prefill') \in Seq(Nat) /\ Len(Silent(Prefill')) = Prefill'
  BY <1>2, ThinsSilent
<1> DEFINE silent == Silent(Prefill')
<1> HIDE DEF len, cap, d, silent
<1>6. d.skew = 0 /\ Len(d.held) + Len(silent) <= cap => Pushed(d, silent, cap).held = d.held \o silent
  BY <1>3, <1>4, <1>5, PushedType DEF silent
<1>7. /\ output' = (IF workerReady' THEN output \o Silent(Prefill') ELSE output) /\ ~overrun
      /\ workerReady' \in BOOLEAN
  <2>1. CASE /\ Queue' = p /\ workerReady' = TRUE
             /\ overrun' = (overrun \/ Len(output) + Prefill' > cap)
    <3>1. ~overrun /\ ~(Len(output) + Prefill' > cap)
      BY <2>1
    <3>2. Len(output) <= cap /\ Len(output) + Len(silent) <= cap
      BY <1>2, <1>3, <1>5, <3>1 DEF silent
    <3>3. p.held = output \o silent
      BY <1>4, <1>6, <3>2 DEF silent
    <3>4. output' = Queue'.held
      BY DEF Queue
    <3> QED BY <2>1, <3>1, <3>3, <3>4 DEF silent
  <2>2. CASE /\ Queue' = d /\ workerReady' = FALSE
             /\ overrun' = (overrun \/ Len(output) + 0 > cap)
    <3>1. ~overrun /\ ~(Len(output) + 0 > cap)
      BY <2>2
    <3>2. Len(output) <= cap
      BY <1>3, <3>1
    <3>3. output' = Queue'.held
      BY DEF Queue
    <3> QED BY <1>4, <2>2, <3>1, <3>2, <3>3
  <2> HIDE DEF p
  <2> QED BY <1>1, <2>1, <2>2
<1>8. output' \in Seq(Nat) /\ Thins(output', output) /\ Numbered(output') = Numbered(output)
      /\ Len(output') = IF workerReady' THEN Len(output) + Prefill' ELSE Len(output)
  <2>1. CASE workerReady'
    <3>1. output' = output \o silent /\ Len(output \o silent) = Len(output) + Prefill'
      BY <1>3, <1>5, <1>7, <2>1, ConcatProperties DEF silent
    <3>2. output \o silent \in Seq(Nat) /\ Thins(output \o silent, output) /\ Numbered(output \o silent) = Numbered(output)
      BY <1>2, <1>3, SilentEnd DEF silent
    <3> QED BY <2>1, <3>1, <3>2
  <2>2. CASE ~workerReady'
    BY <1>3, <1>7, <2>2, ThinsSelf
  <2> QED BY <2>1, <2>2
<1>9. Line' = output' \o input /\ Line = output \o input
  <2>1. Carried(fromWorker) = <<>> /\ Carried(toWorker) = <<>> /\ SamplesOf(batchQueue) = <<>> /\ Line = output \o input
    BY <1>1, BypassCarries
  <2>2. Line' = Join(output', <<>>, <<>>, <<>>, input)
    BY <1>1, <2>1, LineJoins
  <2> HIDE DEF Join
  <2> QED BY <1>3, <1>8, <2>1, <2>2, JoinEmpty
<1> DEFINE o == output'
<1>10. o \in Seq(Nat) /\ Numbered(o) = Numbered(output) /\ Thins(o, output)
  BY <1>8
<1> HIDE DEF o
<1>11. Thins(o \o input, output \o input)
  <2>1. Thins(input, input)
    BY ThinsSelf
  <2> QED BY <1>3, <1>10, <2>1, ThinsConcat
<1>12. Numbered(o \o input) = Numbered(output \o input)
  <2>1. Numbered(o \o input) = Numbered(o) \o Numbered(input)
    BY <1>3, <1>10, NumberedConcat
  <2>2. Numbered(output \o input) = Numbered(output) \o Numbered(input)
    BY <1>3, NumberedConcat
  <2> QED BY <1>10, <2>1, <2>2
<1>13. Len(o \o input) = Len(o) + Len(input) /\ Len(output \o input) = Len(output) + Len(input)
  BY <1>3, <1>10, ConcatProperties
<1>14. Len(Line') = IF workerReady' THEN Len(Line) + Prefill' ELSE Len(Line)
  <2>1. Len(Line') = Len(output') + Len(input) /\ Len(Line) = Len(output) + Len(input)
    BY <1>9, <1>13 DEF o
  <2> QED BY <1>2, <1>3, <1>8, <2>1
<1> QED BY <1>7, <1>9, <1>11, <1>12, <1>14 DEF o

LEMMA DestroyLine ==
    ASSUME Types, Phase, Destroy
    PROVE  Thins(Line', Line)
PROOF
<1>1. /\ input' = <<>> /\ output' = <<>> /\ fromWorker' = <<>> /\ batchQueue' = batchQueue
      /\ toWorker' = IF prefilled THEN Append(toWorker, Message("DESTROY", "none")) ELSE toWorker
  BY DEF Destroy, OutputBecomes, EmptyQueue
<1>2. /\ output \in Seq(Nat) /\ Carried(fromWorker) \in Seq(Nat) /\ Carried(toWorker) \in Seq(Nat)
      /\ SamplesOf(batchQueue) \in Seq(Nat) /\ input \in Seq(Nat) /\ toWorker \in Seq(Msg)
  BY Pieces, Wide
<1>3. Carried(toWorker') = Carried(toWorker)
  <2>1. Message("DESTROY", "none") \in Msg /\ Message("DESTROY", "none").frames = <<>>
    BY MessageType, Widen DEF Types
  <2> QED BY <1>1, <1>2, <2>1, CarriedBare
<1>4. Thins(<<>>, output) /\ Thins(<<>>, Carried(fromWorker)) /\ Thins(Carried(toWorker), Carried(toWorker))
      /\ Thins(<<>>, input) /\ <<>> \in Seq(Nat)
  BY ThinsNothing, ThinsSelf
<1>5. Line' = Join(<<>>, <<>>, Carried(toWorker), SamplesOf(batchQueue), <<>>)
  BY <1>1, <1>3, CarriedEmpty, LineJoins
<1>6. Line = Join(output, Carried(fromWorker), Carried(toWorker), SamplesOf(batchQueue), input)
  BY LineJoins
<1> QED BY <1>2, <1>4, <1>5, <1>6, JoinThins

\* With frames of one length a batch comes back as it was sent.
Uniform == build.rnnoise = build.deepfilternet

LEMMA UniformFrames ==
    ASSUME Types, Uniform, NEW f \in Filled
    PROVE  Len(f.samples) = worker.size /\ f.samples \in Seq(Nat) /\ Len(f.samples) = frameLength
PROOF
<1>1. f.buf \in AnyArray /\ Len(f.samples) = f.buf.len /\ f.samples \in Seq(Nat)
  BY DEF Filled
<1>2. f.buf.len = build.rnnoise
  BY <1>1 DEF AnyArray, Arrays, Uniform
<1>3. worker.size = build.rnnoise /\ frameLength = build.rnnoise
  BY DEF Types, WorkerType, Lengths, Uniform
<1> QED BY <1>1, <1>2, <1>3

LEMMA SamplesSame ==
    ASSUME NEW f \in Seq(Piece), NEW g \in Seq(Piece), Len(f) = Len(g),
           \A i \in 1 .. Len(f) : g[i].samples = f[i].samples
    PROVE  SamplesOf(g) = SamplesOf(f)
PROOF
<1>1. DOMAIN f = 1 .. Len(f) /\ DOMAIN g = 1 .. Len(f)
  BY LenProperties
<1>2. [i \in DOMAIN f |-> f[i].samples] = [i \in DOMAIN g |-> g[i].samples]
  BY <1>1
<1> QED BY <1>2 DEF SamplesOf

\* What comes back of a batch that is done.
LEMMA BackFromWorker ==
    ASSUME Types, toWorker # <<>>, CanAcquire(Free(Head(toWorker)), Len(Head(toWorker).frames))
    PROVE  LET msg == Head(toWorker)
           IN  /\ SamplesOf(Results(msg)) \in Seq(Nat) /\ SamplesOf(msg.frames) \in Seq(Nat)
               /\ Thins(SamplesOf(Results(msg)), SamplesOf(msg.frames))
               /\ Uniform => SamplesOf(Results(msg)) = SamplesOf(msg.frames)
PROOF
<1> DEFINE msg == Head(toWorker)
           n == Len(msg.frames)
<1>1. /\ n \in Nat /\ Results(msg) \in Seq(Filled) /\ Len(Results(msg)) = n
      /\ \A i \in 1 .. n : Results(msg)[i].samples = Denoised(msg.frames[i].samples)
  BY ResultsType
<1>2. msg.frames \in Seq(Filled)
  BY HeadOfTo
<1>3. Results(msg) \in Seq(Piece) /\ msg.frames \in Seq(Piece)
  BY <1>1, <1>2, Widen, SeqMonotonic DEF Types
<1>4. \A i \in 1 .. n : msg.frames[i] \in Filled
  BY <1>2, ElementOfSeq
<1>5. ASSUME NEW i \in 1 .. n
      PROVE  /\ Thins(Results(msg)[i].samples, msg.frames[i].samples)
             /\ Uniform => Results(msg)[i].samples = msg.frames[i].samples
  <2> DEFINE s == msg.frames[i].samples
  <2>1. s \in Seq(Nat) /\ (Uniform => Len(s) = worker.size)
    BY <1>4, UniformFrames DEF Filled
  <2>2. Results(msg)[i].samples = Denoised(s)
    BY <1>1
  <2> HIDE DEF s
  <2>3. Thins(Denoised(s), s) /\ (Len(s) = worker.size => Denoised(s) = s)
    BY <2>1, DenoisedType
  <2>4. Thins(Denoised(s), s) /\ (Uniform => Denoised(s) = s)
    BY <2>1, <2>3
  <2> QED BY <2>2, <2>4 DEF s
<1>6. SamplesOf(Results(msg)) \in Seq(Nat) /\ SamplesOf(msg.frames) \in Seq(Nat)
  BY <1>3, SamplesType
<1> DEFINE f == msg.frames
           g == Results(msg)
<1>7. f \in Seq(Piece) /\ g \in Seq(Piece) /\ Len(f) = Len(g)
      /\ \A i \in 1 .. Len(f) : Thins(g[i].samples, f[i].samples)
  BY <1>1, <1>3, <1>5
<1>8. Uniform => \A i \in 1 .. Len(f) : g[i].samples = f[i].samples
  BY <1>1, <1>5
<1> HIDE DEF f, g
<1>9. Thins(SamplesOf(g), SamplesOf(f))
  BY <1>7, ResultsThin
<1>10. Uniform => SamplesOf(g) = SamplesOf(f)
  BY <1>7, <1>8, SamplesSame
<1> QED BY <1>6, <1>9, <1>10 DEF f, g

LEMMA WorkerReceivesLine ==
    ASSUME Types, Phase, WorkerReceives, Types'
    PROVE  /\ Thins(Line', Line)
           /\ Uniform /\ ~dropped' /\ ~destroyed => Line' = Line
           /\ Uniform => Len(Line') <= Len(Line)
PROOF
<1> DEFINE msg == Head(toWorker)
           n == Len(msg.frames)
           s == SamplesOf(msg.frames)
           t == Carried(Tail(toWorker))
           f == Carried(fromWorker)
           b == SamplesOf(batchQueue)
<1>1. /\ toWorker # <<>> /\ toWorker' = Tail(toWorker)
      /\ \/ /\ msg.type = "PROCESS_FRAME_BATCH" /\ CanAcquire(Free(msg), n)
            /\ \/ BatchDone(msg)
               \/ \E k \in 1 .. n : \E l \in {k - 1, k} : BatchFailed(msg, k, l)
         \/ /\ msg.type # "PROCESS_FRAME_BATCH"
            /\ msg.frames = <<>> /\ msg.recycles = <<>>
            /\ \/ \E m \in Modules : Switched(m)
               \/ SameAgain
               \/ \E on \in BOOLEAN : Toggled(on)
               \/ Reset
      /\ UNCHANGED <<build, output, input, batchQueue, destroyed>>
  BY WorkerReceivesDoes
<1>2. /\ output \in Seq(Nat) /\ f \in Seq(Nat) /\ Carried(toWorker) \in Seq(Nat)
      /\ b \in Seq(Nat) /\ input \in Seq(Nat) /\ toWorker \in Seq(Msg) /\ fromWorker \in Seq(Msg)
  BY Pieces, Wide
<1>3. t \in Seq(Nat) /\ Carried(fromWorker') \in Seq(Nat) /\ fromWorker' \in Seq(Msg)
  BY <1>1, PiecesNext
<1>4. s \in Seq(Nat)
  <2>1. msg.frames \in Seq(Filled)
    BY <1>1, HeadOfTo
  <2>2. msg.frames \in Seq(Piece)
    BY <2>1, Widen, SeqMonotonic DEF Types
  <2> QED BY <2>2, SamplesType
<1>5. Carried(toWorker) = s \o t
  BY <1>1, <1>2, CarriedHead
<1>6. Line = Join(output, f \o s, t, b, input)
  <2>1. Line = Join(output, f, s \o t, b, input)
    BY <1>5, LineJoins
  <2> HIDE DEF f, s, t, b
  <2> QED BY <1>2, <1>3, <1>4, <2>1, JoinOver, SMTT(30)
<1>7. Line' = Join(output, Carried(fromWorker'), t, b, input)
  BY <1>1, LineJoins
<1>8. f \o s \in Seq(Nat)
  BY <1>2, <1>4, ConcatProperties
<1>9. ASSUME Thins(Carried(fromWorker'), f \o s)
      PROVE  Thins(Line', Line)
  <2>1. Thins(output, output) /\ Thins(t, t) /\ Thins(input, input)
    BY ThinsSelf
  <2> HIDE DEF f, s, t, b
  <2> DEFINE fs == f \o s
             g == Carried(fromWorker')
  <2>2. fs \in Seq(Nat) /\ g \in Seq(Nat) /\ Thins(g, fs)
    BY <1>3, <1>8, <1>9
  <2>3. Line = Join(output, fs, t, b, input) /\ Line' = Join(output, g, t, b, input)
    BY <1>6, <1>7
  <2> HIDE DEF fs, g
  <2> QED BY <1>2, <1>3, <2>1, <2>2, <2>3, JoinThins
<1>10. Thins(f, f \o s)
  <2> HIDE DEF f, s
  <2>1. Thins(f, f) /\ Thins(<<>>, s) /\ <<>> \in Seq(Nat)
    BY ThinsSelf, ThinsNothing
  <2>2. Thins(f \o <<>>, f \o s)
    BY <1>2, <1>4, <2>1, ThinsConcat
  <2> QED BY <1>2, <2>2, ConcatEmptySeq
<1>11. ASSUME NEW x \in FromMsg, x.frames = <<>>, Respond(x)
       PROVE  Carried(fromWorker') = f
  <2>1. x \in Msg
    BY <1>11, Widen DEF Types
  <2> QED BY <1>2, <1>11, <2>1, CarriedBare DEF Respond
<1>19. ASSUME Carried(fromWorker') = f
       PROVE  Len(Line') <= Len(Line)
  <2> HIDE DEF f, s, t, b
  <2> DEFINE fs == f \o s
  <2>1. fs \in Seq(Nat) /\ Len(fs) = Len(f) + Len(s)
    BY <1>2, <1>4, ConcatProperties
  <2>2. Line = Join(output, fs, t, b, input) /\ Line' = Join(output, f, t, b, input)
    BY <1>6, <1>7, <1>19
  <2> HIDE DEF fs
  <2>3. /\ Len(Line) = Len(output) + Len(fs) + Len(t) + Len(b) + Len(input)
        /\ Len(Line') = Len(output) + Len(f) + Len(t) + Len(b) + Len(input)
    <3> DEFINE o == output
               i == input
    <3>1. /\ o \in Seq(Nat) /\ fs \in Seq(Nat) /\ f \in Seq(Nat) /\ t \in Seq(Nat) /\ b \in Seq(Nat)
          /\ i \in Seq(Nat) /\ Line = Join(o, fs, t, b, i) /\ Line' = Join(o, f, t, b, i)
      BY <1>2, <1>3, <2>1, <2>2
    <3> HIDE DEF o, i
    <3>2. Len(Join(o, fs, t, b, i)) = Len(o) + Len(fs) + Len(t) + Len(b) + Len(i)
      BY <3>1, JoinLength
    <3>3. Len(Join(o, f, t, b, i)) = Len(o) + Len(f) + Len(t) + Len(b) + Len(i)
      BY <3>1, JoinLength
    <3> QED BY <3>1, <3>2, <3>3 DEF o, i
  <2>4. /\ Len(output) \in Nat /\ Len(f) \in Nat /\ Len(s) \in Nat /\ Len(t) \in Nat /\ Len(b) \in Nat
        /\ Len(input) \in Nat
    BY <1>2, <1>3, <1>4, LenProperties
  <2> QED BY <2>1, <2>3, <2>4
<1>20. Line' = Line => Len(Line') <= Len(Line)
  <2>1. Len(Line) \in Nat
    BY Pieces, LenProperties
  <2> QED BY <2>1
<1>12. CASE BatchDone(msg) /\ CanAcquire(Free(msg), n)
  <2> DEFINE r == SamplesOf(Results(msg))
             x == Batch("FRAME_RESULT_BATCH", Results(msg), worker.recycles \o ArraysOf(msg.frames), msg.age)
  <2>1. r \in Seq(Nat) /\ Thins(r, s) /\ (Uniform => r = s)
    BY <1>1, <1>12, BackFromWorker
  <2>2. fromWorker' = IF destroyed THEN fromWorker ELSE Append(fromWorker, x)
    BY <1>12 DEF BatchDone, Respond
  <2>3. x.frames = Results(msg)
    BY DEF Batch
  <2>4. CASE destroyed
    BY <1>9, <1>10, <1>19, <2>2, <2>4
  <2>5. CASE ~destroyed
    <3>1. fromWorker' = Append(fromWorker, x)
      BY <2>2, <2>5
    <3>2. x \in Msg
      <4>1. /\ fromWorker' \in Seq(Msg) /\ fromWorker'[Len(fromWorker) + 1] = x
            /\ Len(fromWorker') = Len(fromWorker) + 1 /\ Len(fromWorker) \in Nat
        <5> HIDE DEF x
        <5> QED BY <1>2, <1>3, <3>1, AppendProperties, LenProperties
      <4> QED BY <4>1, ElementOfSeq
    <3>3. Carried(fromWorker') = f \o r
      <4> HIDE DEF x
      <4> QED BY <1>2, <2>3, <3>1, <3>2, CarriedAppend
    <3>4. Thins(f \o r, f \o s)
      <4>1. Thins(f, f)
        BY ThinsSelf
      <4> HIDE DEF f, r, s
      <4> QED BY <1>2, <1>4, <2>1, <4>1, ThinsConcat
    <3>5. Uniform => Carried(fromWorker') = f \o s
      BY <2>1, <3>3
    <3> HIDE DEF f, r, s, t, b, x
    <3>6. Uniform => Line' = Line
      BY <1>6, <1>7, <3>5
    <3> QED BY <1>9, <1>20, <3>3, <3>4, <3>6
  <2> QED BY <2>4, <2>5
<1>13. CASE \E k \in 1 .. n : \E l \in {k - 1, k} : BatchFailed(msg, k, l)
  <2>1. Respond(Message("ERROR", "none")) /\ dropped' = TRUE
    BY <1>13 DEF BatchFailed
  <2>2. Carried(fromWorker') = f
    <3>1. Message("ERROR", "none") \in FromMsg /\ Message("ERROR", "none").frames = <<>>
      BY MessageType
    <3> QED BY <1>11, <2>1, <3>1
  <2> QED BY <1>9, <1>10, <1>19, <2>1, <2>2
<1>14. ASSUME msg.frames = <<>>, Carried(fromWorker') = f
       PROVE  Line' = Line
  <2>1. s = <<>>
    BY <1>14, SamplesEmpty
  <2>2. f \o s = f
    BY <1>2, <2>1, ConcatEmptySeq
  <2> QED BY <1>6, <1>7, <1>14, <2>2
<1>15. Thins(Line, Line)
  BY ThinsSelf
<1>16. ASSUME NEW m \in Modules, Switched(m)
       PROVE  Carried(fromWorker') = f
  <2>1. Message("MODULE_CHANGED", FrameOf(m)) \in FromMsg /\ Message("MODULE_CHANGED", FrameOf(m)).frames = <<>>
    BY MessageType
  <2> QED BY <1>11, <1>16, <2>1 DEF Switched
<1>17. SameAgain \/ Reset \/ (\E on \in BOOLEAN : Toggled(on)) => Carried(fromWorker') = f
  BY DEF SameAgain, Reset, Toggled
<1>18. ASSUME msg.frames = <<>>,
              (\E m \in Modules : Switched(m)) \/ SameAgain \/ (\E on \in BOOLEAN : Toggled(on)) \/ Reset
       PROVE  Line' = Line
  BY <1>14, <1>16, <1>17, <1>18
<1> HIDE DEF msg, n, s, t, f, b
<1> QED BY <1>1, <1>12, <1>13, <1>15, <1>18, <1>20

-----------------------------------------------------------------------------
(* The line is in order, and complete.                                     *)

\* Until the output queue is overrun.
Sorted ==
    /\ Ord(Line) /\ Vals(Line) \subseteq lastPlayed + 1 .. quanta * Quantum
    /\ lastPlayed <= quanta * Quantum

\* Whatever happens to it.
Bounded ==
    /\ Vals(Line) \subseteq 1 .. quanta * Quantum /\ Vals(stale) \subseteq 1 .. quanta * Quantum
    /\ lastPlayed <= quanta * Quantum

LEMMA LineParts ==
    ASSUME Types
    PROVE  /\ Vals(Line) = Vals(output) \cup Vals(Carried(fromWorker)) \cup Vals(Carried(toWorker))
                            \cup Vals(SamplesOf(batchQueue)) \cup Vals(input)
           /\ Len(Line) = Len(output) + Len(Carried(fromWorker)) + Len(Carried(toWorker))
                          + Len(SamplesOf(batchQueue)) + Len(input)
PROOF
<1> DEFINE o == output
           f == Carried(fromWorker)
           t == Carried(toWorker)
           b == SamplesOf(batchQueue)
           i == input
<1>1. /\ o \in Seq(Nat) /\ f \in Seq(Nat) /\ t \in Seq(Nat) /\ b \in Seq(Nat) /\ i \in Seq(Nat)
      /\ Line = Join(o, f, t, b, i)
  BY Pieces, LineJoins
<1> HIDE DEF o, f, t, b, i
<1>2. Len(Join(o, f, t, b, i)) = Len(o) + Len(f) + Len(t) + Len(b) + Len(i)
  BY <1>1, JoinLength
<1>3. Vals(Join(o, f, t, b, i)) = ValsOf(o, f, t, b, i)
  BY <1>1, JoinLength
<1> QED BY <1>1, <1>2, <1>3 DEF ValsOf, o, f, t, b, i

LEMMA LinePartsNext ==
    ASSUME Types, Types', build' = build
    PROVE  /\ Vals(Line') = Vals(output') \cup Vals(Carried(fromWorker')) \cup Vals(Carried(toWorker'))
                             \cup Vals(SamplesOf(batchQueue')) \cup Vals(input')
           /\ Len(Line') = Len(output') + Len(Carried(fromWorker')) + Len(Carried(toWorker'))
                           + Len(SamplesOf(batchQueue')) + Len(input')
PROOF
<1> DEFINE o == output'
           f == Carried(fromWorker')
           t == Carried(toWorker')
           b == SamplesOf(batchQueue')
           i == input'
           l == Line'
<1>1. /\ o \in Seq(Nat) /\ f \in Seq(Nat) /\ t \in Seq(Nat) /\ b \in Seq(Nat) /\ i \in Seq(Nat)
      /\ l = Join(o, f, t, b, i)
  BY PiecesNext, LineJoins
<1> HIDE DEF o, f, t, b, i, l
<1>2. Len(Join(o, f, t, b, i)) = Len(o) + Len(f) + Len(t) + Len(b) + Len(i)
  BY <1>1, JoinLength
<1>3. Vals(Join(o, f, t, b, i)) = ValsOf(o, f, t, b, i)
  BY <1>1, JoinLength
<1> QED BY <1>1, <1>2, <1>3 DEF ValsOf, o, f, t, b, i, l

LEMMA ValsAreNumbered ==
    ASSUME NEW s \in Seq(Nat)
    PROVE  /\ \A k \in 1 .. Len(Numbered(s)) : Numbered(s)[k] \in Vals(s)
           /\ Numbered(s) # <<>> => Last(Numbered(s)) \in Vals(s)
           /\ Numbered(s) \in Seq(Nat) /\ Len(Numbered(s)) \in Nat
PROOF
<1>1. Numbered(s) \in Seq(Nat) /\ Range(Numbered(s)) \subseteq Range(s) \ {0}
  BY NumberedType, NumberedRange
<1>2. Range(s) \ {0} \subseteq Vals(s)
  <2>1. Range(s) = {s[i] : i \in 1 .. Len(s)}
    BY RangeOfSeq, LenProperties DEF Range
  <2> QED BY <2>1 DEF Vals
<1> DEFINE n == Numbered(s)
<1>3. n \in Seq(Nat) /\ Range(n) \subseteq Vals(s)
  BY <1>1, <1>2
<1> HIDE DEF n
<1>4. DOMAIN n = 1 .. Len(n) /\ Len(n) \in Nat
  BY <1>3, LenProperties
<1>5. \A k \in 1 .. Len(n) : n[k] \in Vals(s)
  BY <1>3, <1>4 DEF Range
<1>6. n # <<>> => Last(n) \in Vals(s)
  <2>1. n # <<>> => Len(n) \in 1 .. Len(n)
    BY <1>3, <1>4, EmptySeq
  <2> QED BY <1>5, <2>1 DEF Last
<1> QED BY <1>3, <1>4, <1>5, <1>6 DEF n

LEMMA QuantaType ==
    ASSUME Types
    PROVE  /\ quanta \in Nat /\ Quantum \in Nat \ {0} /\ quanta * Quantum \in Nat
           /\ (quanta + 1) * Quantum = quanta * Quantum + Quantum
           /\ quanta * Quantum <= build.quanta * Quantum /\ build.quanta * Quantum \in Nat
PROOF
<1>1. quanta \in Nat /\ Quantum \in Nat \ {0} /\ build.quanta \in Nat /\ quanta <= build.quanta
  BY BuildType, PipelineAssumption DEF Types
<1>2. quanta * Quantum \in Nat /\ build.quanta * Quantum \in Nat /\ (quanta + 1) * Quantum = quanta * Quantum + Quantum
  BY <1>1
<1> DEFINE d == build.quanta - quanta
<1>3. d \in Nat /\ build.quanta = quanta + d
  BY <1>1
<1> HIDE DEF d
<1>4. (quanta + d) * Quantum = quanta * Quantum + d * Quantum /\ d * Quantum \in Nat
  BY <1>1, <1>3
<1> QED BY <1>1, <1>2, <1>3, <1>4

LEMMA FreshVals ==
    ASSUME Types
    PROVE  /\ Vals(Fresh) \subseteq quanta * Quantum + 1 .. quanta * Quantum + Quantum
           /\ Ord(Fresh) /\ Numbered(Fresh) = Fresh
PROOF
<1>1. Fresh \in Seq(Nat) /\ Len(Fresh) = Quantum /\ \A k \in 1 .. Quantum : Fresh[k] = quanta * Quantum + k
  BY HeardType
<1> DEFINE m == quanta * Quantum
           f == Fresh
<1>2. m \in Nat /\ Quantum \in Nat \ {0}
  BY QuantaType
<1>3. f \in Seq(Nat) /\ Len(f) = Quantum /\ \A k \in 1 .. Quantum : f[k] = m + k
  BY <1>1
<1> HIDE DEF m, f
<1>4. Vals(f) \subseteq m + 1 .. m + Quantum
  BY <1>2, <1>3 DEF Vals
<1>5. Ord(f)
  BY <1>2, <1>3 DEF Ord
<1>6. Numbered(f) = f
  <2>1. f \in Seq(Nat \ {0})
    <3>1. \A k \in 1 .. Quantum : f[k] \in Nat \ {0}
      BY <1>2, <1>3
    <3>2. f \in [1 .. Quantum -> Nat \ {0}]
      BY <1>2, <1>3, <3>1, LenProperties
    <3> QED BY <1>2, <3>2
  <2> QED BY <2>1, NumberedAll
<1> QED BY <1>4, <1>5, <1>6 DEF m, f

LEMMA ThinnedSorted ==
    ASSUME Sorted, Thins(Line', Line), lastPlayed' = lastPlayed, quanta' = quanta
    PROVE  Sorted'
BY DEF Sorted, Thins

\* Playing what is in front.
LEMMA PlayedSorted ==
    ASSUME NEW p \in Seq(Nat), NEW s \in Seq(Nat), NEW a \in Nat, NEW e \in Nat, a <= e,
           Ord(p \o s), Vals(p \o s) \subseteq a + 1 .. e
    PROVE  LET b == IF Numbered(p) = <<>> THEN a ELSE Last(Numbered(p))
           IN  Ord(s) /\ Vals(s) \subseteq b + 1 .. e /\ b <= e
PROOF
<1>1. Ord(p) /\ Ord(s) /\ \A x \in Vals(p), y \in Vals(s) : x < y
  BY OrdConcat
<1>2. Vals(p) \subseteq a + 1 .. e /\ Vals(s) \subseteq a + 1 .. e
  BY ValsConcat
<1>3. Numbered(p) # <<>> => Last(Numbered(p)) \in Vals(p)
  BY ValsAreNumbered
<1> DEFINE l == Last(Numbered(p))
<1>4. CASE Numbered(p) = <<>>
  BY <1>1, <1>2, <1>4
<1>5. CASE Numbered(p) # <<>>
  <2>1. l \in Vals(p)
    BY <1>3, <1>5
  <2> HIDE DEF l
  <2>2. l \in a + 1 .. e /\ \A y \in Vals(s) : l < y /\ y \in a + 1 .. e
    BY <1>1, <1>2, <2>1
  <2>3. Vals(s) \subseteq l + 1 .. e /\ l <= e
    BY <2>2
  <2> QED BY <1>1, <1>5, <2>3 DEF l
<1> QED BY <1>4, <1>5

\* What process() plays, and what that leaves.
LEMMA ProcessPlays ==
    ASSUME Types, Process
    PROVE  LET p == Played(Supply.held)
           IN  /\ p \in Seq(Nat) /\ output' \in Seq(Nat) /\ p \o output' = Supply.held
               /\ Len(p) = IF Len(Supply.held) >= Quantum THEN Quantum ELSE 0
               /\ Len(output') = IF Len(Supply.held) >= Quantum THEN Len(Supply.held) - Quantum ELSE Len(Supply.held)
               /\ lastPlayed' = IF Numbered(p) = <<>> THEN lastPlayed ELSE Last(Numbered(p))
               /\ Vals(stale') \subseteq Vals(Supply.held) \cup Vals(Supply.stale)
               /\ starved' = IF Len(Supply.held) < Quantum /\ prefilled THEN starved + 1 ELSE starved
               /\ starved \in Nat /\ Supply.held \in Seq(Nat)
PROOF
<1> DEFINE h == Supply.held
<1>1. Play(Supply) /\ RingOK(Supply, QueueCapacity) /\ h \in Seq(Nat)
  BY ProcessDoes
<1>2. QueueCapacity \in Nat \ {0} /\ lastPlayed \in Nat /\ starved \in Nat /\ prefilled \in BOOLEAN
  BY CapacityNow, BuildType DEF Types
<1>3. /\ output' = Kept(h)
      /\ lastPlayed' = IF Numbered(Played(h)) = <<>> THEN lastPlayed ELSE Last(Numbered(Played(h)))
      /\ Vals(stale') \subseteq Vals(h) \cup Vals(Supply.stale)
      /\ starved' = IF Len(h) < Quantum /\ prefilled THEN starved + 1 ELSE starved
  BY <1>1, <1>2, PlayDoes
<1> HIDE DEF h
<1>4. /\ Played(h) \in Seq(Nat) /\ Kept(h) \in Seq(Nat) /\ Played(h) \o Kept(h) = h
      /\ Len(Played(h)) = IF Len(h) >= Quantum THEN Quantum ELSE 0
      /\ Len(Kept(h)) = IF Len(h) >= Quantum THEN Len(h) - Quantum ELSE Len(h)
  BY <1>1, PlaySplits
<1> QED BY <1>1, <1>2, <1>3, <1>4 DEF h

LEMMA ProcessSorted ==
    ASSUME Types, Phase, Process, Types', Sorted, ~overrun'
    PROVE  Sorted'
PROOF
<1> DEFINE p == Played(Supply.held)
           m == quanta * Quantum
           all == Line \o Fresh
<1>1. Supply.held \in Seq(Nat) /\ quanta' = quanta + 1 /\ build' = build
  BY ProcessDoes
<1>2. p \in Seq(Nat) /\ lastPlayed' = IF Numbered(p) = <<>> THEN lastPlayed ELSE Last(Numbered(p))
  BY ProcessPlays
<1>3. Line \in Seq(Nat) /\ Line' \in Seq(Nat)
  BY <1>1, Pieces, PiecesNext
<1>4. p \o Line' = all
  BY ProcessLine
<1>5. Fresh \in Seq(Nat) /\ Vals(Fresh) \subseteq m + 1 .. m + Quantum /\ Ord(Fresh)
  BY FreshVals, HeardType
<1>6. m \in Nat /\ Quantum \in Nat \ {0} /\ lastPlayed \in Nat /\ (quanta + 1) * Quantum = m + Quantum
  BY QuantaType DEF Types
<1>7. Ord(Line) /\ Vals(Line) \subseteq lastPlayed + 1 .. m /\ lastPlayed <= m
  BY DEF Sorted
<1> HIDE DEF m, p
<1>8. Ord(all) /\ Vals(all) \subseteq lastPlayed + 1 .. m + Quantum
  <2>1. \A x \in Vals(Line), y \in Vals(Fresh) : x < y
    BY <1>5, <1>6, <1>7
  <2>2. Ord(all)
    BY <1>3, <1>5, <1>7, <2>1, OrdConcat
  <2>3. Vals(all) = Vals(Line) \cup Vals(Fresh)
    BY <1>3, <1>5, ValsConcat
  <2>4. /\ \A x \in lastPlayed + 1 .. m : x \in lastPlayed + 1 .. m + Quantum
        /\ \A x \in m + 1 .. m + Quantum : x \in lastPlayed + 1 .. m + Quantum
    BY <1>6, <1>7
  <2> HIDE DEF all
  <2> QED BY <1>5, <1>7, <2>2, <2>3, <2>4
<1> DEFINE s == Line'
           e == m + Quantum
<1>9. e \in Nat /\ lastPlayed <= e /\ s \in Seq(Nat)
  BY <1>3, <1>6, <1>7
<1>10. Ord(p \o s) /\ Vals(p \o s) \subseteq lastPlayed + 1 .. e
  BY <1>4, <1>8
<1> HIDE DEF s, e, all
<1>11. LET b == IF Numbered(p) = <<>> THEN lastPlayed ELSE Last(Numbered(p))
       IN  Ord(s) /\ Vals(s) \subseteq b + 1 .. e /\ b <= e
  BY <1>2, <1>6, <1>9, <1>10, PlayedSorted
<1>12. Ord(s) /\ Vals(s) \subseteq lastPlayed' + 1 .. e /\ lastPlayed' <= e
  BY <1>2, <1>11
<1>13. quanta' * Quantum = e
  BY <1>1, <1>6 DEF e
<1> QED BY <1>12, <1>13 DEF Sorted, s

\* The samples from one number to another.
Run(a, e) == [k \in 1 .. e - a |-> a + k]

LEMMA RunType ==
    ASSUME NEW a \in Nat, NEW e \in Nat, a <= e
    PROVE  /\ Run(a, e) \in Seq(Nat) /\ Len(Run(a, e)) = e - a
           /\ \A k \in 1 .. e - a : Run(a, e)[k] = a + k
PROOF
<1>1. e - a \in Nat
  OBVIOUS
<1>2. \A k \in 1 .. e - a : a + k \in Nat
  OBVIOUS
<1> QED BY <1>1, <1>2 DEF Run

LEMMA RunSplits ==
    ASSUME NEW p \in Seq(Nat), NEW s \in Seq(Nat), NEW a \in Nat, NEW e \in Nat, a <= e, p \o s = Run(a, e)
    PROVE  LET b == IF p = <<>> THEN a ELSE Last(p)
           IN  b <= e /\ b \in Nat /\ s = Run(b, e) /\ b = a + Len(p)
PROOF
<1> DEFINE n == Len(p)
           l == Len(s)
           u == p \o s
<1>1. /\ n \in Nat /\ l \in Nat /\ Len(u) = n + l
      /\ \A i \in 1 .. n + l : u[i] = IF i <= n THEN p[i] ELSE s[i - n]
  BY ConcatProperties, LenProperties
<1>2. Len(u) = e - a /\ \A k \in 1 .. e - a : u[k] = a + k
  BY RunType
<1>3. s = [k \in 1 .. l |-> s[k]]
  BY LenProperties
<1>4. p = <<>> <=> n = 0
  BY EmptySeq
<1>5. n # 0 => Last(p) = p[n]
  BY DEF Last
<1> HIDE DEF u, n, l
<1>6. n + l = e - a
  BY <1>1, <1>2
<1>7. \A k \in 1 .. l : s[k] = a + n + k
  <2> SUFFICES ASSUME NEW k \in 1 .. l PROVE s[k] = a + n + k
    OBVIOUS
  <2>1. n + k \in 1 .. n + l /\ ~(n + k <= n) /\ (n + k) - n = k
    BY <1>1
  <2>2. u[n + k] = s[k]
    BY <1>1, <2>1
  <2>3. u[n + k] = a + (n + k)
    BY <1>2, <1>6, <2>1
  <2> QED BY <1>1, <2>2, <2>3
<1>8. n # 0 => p[n] = a + n
  <2> SUFFICES ASSUME n # 0 PROVE p[n] = a + n
    OBVIOUS
  <2>1. n \in 1 .. n + l /\ n <= n
    BY <1>1
  <2> QED BY <1>1, <1>2, <1>6, <2>1
<1> DEFINE b == a + n
<1>9. (IF p = <<>> THEN a ELSE Last(p)) = b
  <2>1. CASE n = 0
    BY <1>4, <2>1
  <2>2. CASE n # 0
    <3>1. p # <<>> /\ Last(p) = b
      BY <1>4, <1>5, <1>8, <2>2
    <3> HIDE DEF b
    <3> QED BY <3>1
  <2> QED BY <2>1, <2>2
<1>10. b \in Nat /\ b <= e /\ e - b = l
  BY <1>1, <1>6
<1>11. s = Run(b, e)
  BY <1>3, <1>7, <1>10 DEF Run
<1> QED BY <1>9, <1>10, <1>11 DEF n

LEMMA RunGrows ==
    ASSUME NEW a \in Nat, NEW e \in Nat, a <= e, NEW f \in Seq(Nat), NEW q \in Nat, Len(f) = q,
           \A k \in 1 .. q : f[k] = e + k
    PROVE  Run(a, e) \o f = Run(a, e + q)
PROOF
<1> DEFINE r == Run(a, e)
           u == r \o f
<1>1. r \in Seq(Nat) /\ Len(r) = e - a /\ \A k \in 1 .. e - a : r[k] = a + k
  BY RunType
<1> HIDE DEF r
<1>2. /\ u \in Seq(Nat) /\ Len(u) = (e - a) + q
      /\ \A i \in 1 .. (e - a) + q : u[i] = IF i <= e - a THEN r[i] ELSE f[i - (e - a)]
  <2>1. /\ u \in Seq(Nat) /\ Len(u) = Len(r) + Len(f)
        /\ \A i \in 1 .. Len(r) + Len(f) : u[i] = IF i <= Len(r) THEN r[i] ELSE f[i - Len(r)]
    BY <1>1, ConcatProperties
  <2>2. Len(r) = e - a /\ Len(f) = q
    BY <1>1
  <2> HIDE DEF u
  <2> QED BY <2>1, <2>2
<1>3. u = [i \in 1 .. Len(u) |-> u[i]]
  BY <1>2, LenProperties
<1> HIDE DEF u
<1>4. \A i \in 1 .. (e - a) + q : u[i] = a + i
  <2> SUFFICES ASSUME NEW i \in 1 .. (e - a) + q PROVE u[i] = a + i
    OBVIOUS
  <2>1. CASE i <= e - a
    BY <1>1, <1>2, <2>1
  <2>2. CASE ~(i <= e - a)
    <3>1. i - (e - a) \in 1 .. q
      BY <2>2
    <3>2. f[i - (e - a)] = e + (i - (e - a))
      BY <3>1
    <3> QED BY <1>2, <2>2, <3>2
  <2> QED BY <2>1, <2>2
<1>5. (e + q) - a = (e - a) + q
  OBVIOUS
<1> QED BY <1>2, <1>3, <1>4, <1>5 DEF Run, u, r

\* No sample is made up.
LEMMA ProcessBounded ==
    ASSUME Types, Phase, Process, Types', Bounded
    PROVE  Bounded'
PROOF
<1> DEFINE cut == SamplesOf(CutFrames)
           h == Supply.held
           p == Played(h)
           all == 1 .. quanta * Quantum + Quantum
           t == Carried(toWorker')
           b == SamplesOf(batchQueue')
<1>1. build' = build /\ quanta' = quanta + 1 /\ CanAcquire(pool, Needed)
  BY ProcessDoes
<1>2. /\ Rest \in Seq(Nat) /\ cut \in Seq(Nat) /\ cut \o Rest = input \o Fresh /\ Fresh \in Seq(Nat)
      /\ input' = Rest /\ Carried(fromWorker') = Carried(fromWorker)
      /\ t \in Seq(Nat) /\ b \in Seq(Nat)
      /\ workerReady => t \o b = (Carried(toWorker) \o SamplesOf(batchQueue)) \o cut
      /\ ~workerReady => t = <<>> /\ b = <<>>
  BY ProcessMoves
<1>3. /\ quanta * Quantum \in Nat /\ Quantum \in Nat \ {0} /\ lastPlayed \in Nat
      /\ quanta' * Quantum = quanta * Quantum + Quantum
  BY <1>1, QuantaType DEF Types
<1>4. 1 .. quanta * Quantum \subseteq all
  BY <1>3
<1>5. /\ Vals(output) \subseteq all /\ Vals(Carried(fromWorker)) \subseteq all /\ Vals(Carried(toWorker)) \subseteq all
      /\ Vals(SamplesOf(batchQueue)) \subseteq all /\ Vals(input) \subseteq all /\ Vals(stale) \subseteq all
  <2> HIDE DEF all
  <2> QED BY <1>4, LineParts DEF Bounded
<1>6. /\ output \in Seq(Nat) /\ Carried(fromWorker) \in Seq(Nat) /\ Carried(toWorker) \in Seq(Nat)
      /\ SamplesOf(batchQueue) \in Seq(Nat) /\ input \in Seq(Nat)
  BY Pieces
<1>7. Vals(Fresh) \subseteq all
  BY <1>3, FreshVals
<1> HIDE DEF all
<1>8. Vals(cut) \subseteq all /\ Vals(Rest) \subseteq all
  <2> HIDE DEF cut
  <2>1. Vals(cut \o Rest) = Vals(cut) \cup Vals(Rest) /\ Vals(input \o Fresh) = Vals(input) \cup Vals(Fresh)
    BY <1>2, <1>6, ValsConcat
  <2> QED BY <1>2, <1>5, <1>7, <2>1
<1>9. Vals(h) \subseteq all /\ Vals(Supply.stale) \subseteq all
  <2> DEFINE c == IF workerReady THEN <<>> ELSE cut
  <2>1. /\ Vals(Supply.held) \subseteq Vals(output) \cup Vals(stale) \cup Vals(c)
        /\ Vals(Supply.stale) \subseteq Vals(output) \cup Vals(stale) \cup Vals(c)
    BY <1>1, SupplyType
  <2>2. Vals(<<>>) = {}
    BY DEF Vals
  <2>3. Vals(c) \subseteq all
    BY <1>8, <2>2
  <2> HIDE DEF c
  <2> QED BY <1>5, <2>1, <2>3
<1>10. /\ p \in Seq(Nat) /\ output' \in Seq(Nat) /\ p \o output' = h
       /\ lastPlayed' = IF Numbered(p) = <<>> THEN lastPlayed ELSE Last(Numbered(p))
       /\ Vals(stale') \subseteq Vals(h) \cup Vals(Supply.stale)
  BY ProcessPlays
<1> HIDE DEF cut, h, p, t, b
<1>11. Vals(p) \subseteq all /\ Vals(output') \subseteq all
  <2>1. Vals(p \o output') = Vals(p) \cup Vals(output')
    BY <1>10, ValsConcat
  <2> QED BY <1>9, <1>10, <2>1
<1>12. Vals(t) \subseteq all /\ Vals(b) \subseteq all
  <2>1. CASE workerReady
    <3> DEFINE tb == Carried(toWorker) \o SamplesOf(batchQueue)
    <3>1. tb \in Seq(Nat) /\ Vals(tb) = Vals(Carried(toWorker)) \cup Vals(SamplesOf(batchQueue))
      BY <1>6, ConcatProperties, ValsConcat
    <3>2. t \o b = tb \o cut
      BY <1>2, <2>1
    <3> HIDE DEF tb
    <3>3. Vals(tb \o cut) = Vals(tb) \cup Vals(cut) /\ Vals(t \o b) = Vals(t) \cup Vals(b)
      BY <1>2, <3>1, ValsConcat
    <3> QED BY <1>5, <1>8, <3>1, <3>2, <3>3
  <2>2. CASE ~workerReady
    <3>1. Vals(<<>>) = {}
      BY DEF Vals
    <3> QED BY <1>2, <2>2, <3>1
  <2> QED BY <2>1, <2>2
<1>13. Vals(Line') \subseteq all
  <2>1. Vals(Line') = Vals(output') \cup Vals(Carried(fromWorker)) \cup Vals(t) \cup Vals(b) \cup Vals(Rest)
    BY <1>1, <1>2, LinePartsNext DEF t, b
  <2> QED BY <1>5, <1>8, <1>11, <1>12, <2>1
<1>14. Vals(stale') \subseteq all
  BY <1>9, <1>10
<1>15. lastPlayed' <= quanta * Quantum + Quantum
  <2>1. CASE Numbered(p) = <<>>
    BY <1>3, <1>10, <2>1 DEF Bounded
  <2>2. CASE Numbered(p) # <<>>
    <3>1. Last(Numbered(p)) \in all
      BY <1>10, <1>11, <2>2, ValsAreNumbered
    <3>2. lastPlayed' \in all
      BY <1>10, <2>2, <3>1
    <3> QED BY <1>3, <3>2 DEF all
  <2> QED BY <2>1, <2>2
<1> QED BY <1>3, <1>13, <1>14, <1>15 DEF Bounded, all

\* What holds no more than it did, or less, keeps within bounds.
LEMMA ThinnedBounded ==
    ASSUME Bounded, Vals(Line') \subseteq Vals(Line) \cup Vals(stale), Vals(stale') \subseteq Vals(Line) \cup Vals(stale),
           lastPlayed' = lastPlayed, quanta' = quanta
    PROVE  Bounded'
PROOF
<1> DEFINE all == 1 .. quanta * Quantum
<1>1. Vals(Line) \subseteq all /\ Vals(stale) \subseteq all /\ lastPlayed <= quanta * Quantum
  BY DEF Bounded
<1> HIDE DEF all
<1>2. Vals(Line') \subseteq all /\ Vals(stale') \subseteq all
  BY <1>1
<1>3. quanta' * Quantum = quanta * Quantum
  OBVIOUS
<1> QED BY <1>1, <1>2, <1>3 DEF Bounded, all

LEMMA InitPipelineBounded ==
    ASSUME Types, Phase, InitPipeline, Types', Bounded
    PROVE  Bounded'
PROOF
<1> DEFINE len == FrameOf(worker.module)
           cap == CapacityOf(len)
           d == Drained(len)
           silent == Silent(Prefill')
           p == Pushed(d, silent, cap)
<1>1. /\ len \in Lengths /\ build' = build
      /\ Queue' = p \/ Queue' = d
      /\ UNCHANGED <<input, batchQueue, toWorker, fromWorker, lastPlayed, quanta>>
  BY InitPipelineDoes
<1>2. cap \in Nat \ {0} /\ output \in Seq(Nat)
  BY <1>1, CapacityType DEF Types
<1>3. RingOK(d, cap) /\ Vals(d.held) \subseteq Vals(output) /\ Vals(d.stale) \subseteq Vals(output)
  BY <1>1, DrainedType
<1>4. silent \in Seq(Nat) /\ Vals(silent) = {}
  <2>1. Prefill' \in Nat
    BY InitPipelineTypes
  <2>2. silent \in Seq(Nat) /\ Len(silent) = Prefill' /\ \A i \in 1 .. Prefill' : silent[i] = 0
    BY <2>1, ThinsSilent
  <2> HIDE DEF silent
  <2> QED BY <2>2 DEF Vals
<1> HIDE DEF len, cap, d, silent
<1>5. Vals(p.held) \subseteq Vals(output) /\ Vals(p.stale) \subseteq Vals(output)
  <2>1. /\ Vals(p.held) \subseteq Vals(d.held) \cup Vals(d.stale) \cup Vals(silent)
        /\ Vals(p.stale) \subseteq Vals(d.held) \cup Vals(d.stale) \cup Vals(silent)
    BY <1>2, <1>3, <1>4, PushedType
  <2> HIDE DEF p
  <2> QED BY <1>3, <1>4, <2>1
<1>6. output' = Queue'.held /\ stale' = Queue'.stale
  BY DEF Queue
<1> HIDE DEF p
<1>7. Vals(output') \subseteq Vals(output) /\ Vals(stale') \subseteq Vals(output)
  BY <1>1, <1>3, <1>5, <1>6
<1>8. Vals(Line') \subseteq Vals(Line) /\ Vals(output) \subseteq Vals(Line)
  <2>1. Vals(Line') = Vals(output') \cup Vals(Carried(fromWorker)) \cup Vals(Carried(toWorker))
                      \cup Vals(SamplesOf(batchQueue)) \cup Vals(input)
    BY <1>1, LinePartsNext
  <2> QED BY <1>7, <2>1, LineParts
<1> QED BY <1>1, <1>7, <1>8, ThinnedBounded

LEMMA WorkletReceivesBounded ==
    ASSUME Types, Phase, WorkletReceives, Types', Bounded
    PROVE  Bounded'
PROOF
<1> DEFINE msg == Head(fromWorker)
           s == SamplesOf(msg.frames)
<1>1. /\ fromWorker # <<>> /\ fromWorker' = Tail(fromWorker)
      /\ ResultArrives(msg) \/ ChangeArrives(msg) \/ NothingArrives(msg)
      /\ UNCHANGED <<build, toWorker, lastPlayed, quanta>>
  BY WorkletReceivesDoes
<1>2. fromWorker \in Seq(Msg) /\ Carried(fromWorker) \in Seq(Nat) /\ Carried(fromWorker') \in Seq(Nat)
  BY <1>1, Wide, PiecesNext
<1>3. msg \in FromMsg /\ msg.frames \in Seq(Filled)
  BY <1>1, HeadOfFrom
<1>4. s \in Seq(Nat)
  <2>1. msg.frames \in Seq(Piece)
    BY <1>3, Widen, SeqMonotonic DEF Types
  <2> QED BY <2>1, SamplesType
<1>5. Vals(Carried(fromWorker)) = Vals(s) \cup Vals(Carried(fromWorker'))
  <2>1. Carried(fromWorker) = s \o Carried(fromWorker')
    BY <1>1, <1>2, CarriedHead
  <2> HIDE DEF s
  <2> QED BY <1>2, <1>4, <2>1, ValsConcat
<1> HIDE DEF msg, s
<1>6. /\ batchQueue' = batchQueue /\ input' = input
      /\ Vals(output') \subseteq Vals(output) \cup Vals(stale) \cup Vals(s)
      /\ Vals(stale') \subseteq Vals(output) \cup Vals(stale) \cup Vals(s)
  <2>1. CASE ResultArrives(msg)
    BY <1>3, <2>1, ResultPushed DEF ResultArrives, s
  <2>2. CASE ChangeArrives(msg)
    <3>1. msg.arg \in Lengths
      BY <1>3, <2>2 DEF ChangeArrives, FromMsg
    <3>2. Vals(output') \subseteq Vals(output) /\ Vals(stale') \subseteq Vals(output)
      BY <2>2, <3>1, ChangeDrains
    <3> QED BY <2>2, <3>2 DEF ChangeArrives
  <2>3. CASE NothingArrives(msg)
    BY <2>3 DEF NothingArrives
  <2> QED BY <1>1, <2>1, <2>2, <2>3
<1>7. /\ Vals(Line) = Vals(output) \cup Vals(Carried(fromWorker)) \cup Vals(Carried(toWorker))
                       \cup Vals(SamplesOf(batchQueue)) \cup Vals(input)
      /\ Vals(Line') = Vals(output') \cup Vals(Carried(fromWorker')) \cup Vals(Carried(toWorker))
                        \cup Vals(SamplesOf(batchQueue)) \cup Vals(input)
  BY <1>1, <1>6, LineParts, LinePartsNext
<1>8. /\ Vals(Line') \subseteq Vals(Line) \cup Vals(stale)
      /\ Vals(stale') \subseteq Vals(Line) \cup Vals(stale)
  BY <1>5, <1>6, <1>7
<1> QED BY <1>1, <1>8, ThinnedBounded

\* How much there is between the microphone and the speaker with frames of one
\* length: what the worker was prefilled for, what a cut may leave, and a
\* quantum for each time the speaker starved.  An overrun takes more.
Ready == IF workerReady THEN Prefill ELSE 0

Stall ==
    /\ ~prefilled => starved = 0
    /\ Uniform /\ ~overrun /\ ~destroyed => Len(Line) + 2 <= Ready + Quantum + frameLength + starved * Quantum
    /\ Uniform /\ overrun => CapacityOf(frameLength) < Cushion + starved * Quantum

LEMMA StallTypes ==
    ASSUME Types
    PROVE  /\ Quantum \in Nat \ {0} /\ frameLength \in Nat \ {0} /\ Prefill \in Nat /\ 2 * Quantum <= Prefill
           /\ starved \in Nat /\ starved * Quantum \in Nat /\ (starved + 1) * Quantum = starved * Quantum + Quantum
           /\ Ready \in {0, Prefill} /\ Cushion = Prefill + Quantum + frameLength
           /\ CapacityOf(frameLength) \in Nat /\ QueueCapacity \in Nat
           /\ Len(Line) \in Nat /\ Len(output) \in Nat /\ Len(input) \in Nat /\ Len(output) + Len(input) <= Len(Line)
PROOF
<1>1. Quantum \in Nat \ {0} /\ frameLength \in Nat \ {0} /\ starved \in Nat
  BY PipelineAssumption, BuildType DEF Types
<1>2. starved * Quantum \in Nat /\ (starved + 1) * Quantum = starved * Quantum + Quantum
  BY <1>1
<1>3. Prefill \in Nat /\ 2 * Quantum <= Prefill
  BY <1>1, PrefillType
<1>4. CapacityOf(frameLength) \in Nat /\ QueueCapacity \in Nat
  BY CapacityNow
<1>5. Len(Line) \in Nat /\ Len(output) \in Nat /\ Len(input) \in Nat /\ Len(output) + Len(input) <= Len(Line)
  <2>1. /\ Len(output) \in Nat /\ Len(Carried(fromWorker)) \in Nat /\ Len(Carried(toWorker)) \in Nat
        /\ Len(SamplesOf(batchQueue)) \in Nat /\ Len(input) \in Nat
    BY Pieces, LenProperties
  <2> QED BY <2>1, LineParts
<1> QED BY <1>1, <1>2, <1>3, <1>4, <1>5 DEF Ready, Cushion

LEMMA SameCushion ==
    ASSUME build' = build, frameLength' = frameLength
    PROVE  /\ Prefill' = Prefill /\ Cushion' = Cushion /\ CapacityOf(frameLength)' = CapacityOf(frameLength)
           /\ Uniform' = Uniform
BY DEF Prefill, RoundTripQuanta, CeilDiv, Cushion, CapacityOf, Larger, Uniform

\* What holds no more than it did does not fill the queue.
LEMMA QuietStall ==
    ASSUME Types, Stall, Uniform => Len(Line') <= Len(Line), Len(Line') \in Nat,
           UNCHANGED <<build, frameLength, workerReady, prefilled, starved, overrun, destroyed>>
    PROVE  Stall'
PROOF
<1>1. Prefill' = Prefill /\ Cushion' = Cushion /\ CapacityOf(frameLength)' = CapacityOf(frameLength) /\ Uniform' = Uniform
  BY SameCushion
<1>2. Ready' = Ready
  BY <1>1 DEF Ready
<1>3. ASSUME Uniform, ~overrun, ~destroyed
      PROVE  Len(Line') + 2 <= Ready + Quantum + frameLength + starved * Quantum
  <2> DEFINE m == starved * Quantum
             l == Len(Line)
             k == Len(Line')
  <2>1. l + 2 <= Ready + Quantum + frameLength + m /\ k <= l
    BY <1>3 DEF Stall
  <2>2. l \in Nat /\ k \in Nat /\ m \in Nat /\ Ready \in Nat /\ Quantum \in Nat /\ frameLength \in Nat
    <3>1. Ready \in Nat
      <4>1. Ready \in {0, Prefill} /\ Prefill \in Nat
        BY StallTypes
      <4> QED BY <4>1
    <3>2. Len(Line) \in Nat /\ starved * Quantum \in Nat /\ Quantum \in Nat /\ frameLength \in Nat
      BY StallTypes
    <3> QED BY <3>1, <3>2
  <2> HIDE DEF m, l, k
  <2>3. k + 2 <= Ready + Quantum + frameLength + m
    BY <2>1, <2>2
  <2> QED BY <2>3 DEF m, k
<1> QED BY <1>1, <1>2, <1>3 DEF Stall

LEMMA ProcessStall ==
    ASSUME Types, Phase, Process, Types', Stall
    PROVE  Stall'
PROOF
<1> DEFINE h == Supply.held
           m == starved * Quantum
           n == starved' * Quantum
           l == Len(Line)
           k == Len(Line')
           cap == CapacityOf(frameLength)
           queued == Count * frameLength
<1>1. /\ ~destroyed
      /\ workerReady => overrun' = overrun
      /\ ~workerReady => overrun' = (overrun \/ Len(output) + queued > QueueCapacity)
      /\ UNCHANGED <<build, frameLength, workerReady, prefilled, destroyed>>
  BY ProcessDoes
<1>2. /\ Len(Played(h)) = IF Len(h) >= Quantum THEN Quantum ELSE 0
      /\ Played(h) \in Seq(Nat) /\ output' \in Seq(Nat)
      /\ Len(output') = IF Len(h) >= Quantum THEN Len(h) - Quantum ELSE Len(h)
      /\ starved' = IF Len(h) < Quantum /\ prefilled THEN starved + 1 ELSE starved
      /\ h \in Seq(Nat)
  BY ProcessPlays
<1>3. /\ Quantum \in Nat \ {0} /\ frameLength \in Nat \ {0} /\ Prefill \in Nat /\ 2 * Quantum <= Prefill
      /\ m \in Nat /\ (starved + 1) * Quantum = m + Quantum
      /\ Ready \in {0, Prefill} /\ Cushion = Prefill + Quantum + frameLength
      /\ cap \in Nat /\ QueueCapacity \in Nat
      /\ l \in Nat /\ Len(output) \in Nat /\ Len(input) \in Nat /\ Len(output) + Len(input) <= l
  BY StallTypes
<1>4. k \in Nat /\ Line' \in Seq(Nat) /\ Line \in Seq(Nat)
  BY <1>1, Pieces, PiecesNext, LenProperties
<1>5. Prefill' = Prefill /\ Cushion' = Cushion /\ CapacityOf(frameLength)' = cap /\ Uniform' = Uniform /\ Ready' = Ready
  BY <1>1, SameCushion DEF Ready
<1>6. Len(h) \in Nat
  BY <1>2, LenProperties
<1>7. Len(Rest) \in Nat /\ Len(Rest) < frameLength /\ queued \in Nat /\ queued <= Len(input) + Quantum
  <2>1. /\ Len(Heard) = Len(input) + Quantum /\ queued \in Nat /\ queued <= Len(Heard)
        /\ Len(Heard) < queued + frameLength
    BY HeardType
  <2>2. Rest \in Seq(Nat) /\ Len(Rest) = Len(Heard) - queued
    <3>1. CanAcquire(pool, Needed)
      BY ProcessDoes
    <3> QED BY <3>1, CutType
  <2> QED BY <1>3, <2>1, <2>2, LenProperties
<1> HIDE DEF h, m, l, k, cap, queued
<1>8. ~prefilled => starved' = 0
  BY <1>2 DEF Stall
<1>9. (n = m \/ n = m + Quantum) /\ (prefilled /\ ~(Len(h) >= Quantum) => n = m + Quantum)
  <2>1. (starved' = starved \/ starved' = starved + 1) /\ (prefilled /\ Len(h) < Quantum => starved' = starved + 1)
    BY <1>2
  <2>2. (starved' = starved => n = m) /\ (starved' = starved + 1 => n = m + Quantum)
    BY <1>3 DEF m
  <2>3. ~(Len(h) >= Quantum) => Len(h) < Quantum
    BY <1>3, <1>6
  <2> QED BY <2>1, <2>2, <2>3
<1> HIDE DEF n
<1>10. ASSUME Uniform, ~overrun'
       PROVE  k + 2 <= Ready + Quantum + frameLength + n
  <2>1. ~overrun /\ skew = 0
    BY <1>10, SupplyKept
  <2>2. l + 2 <= Ready + Quantum + frameLength + m
    BY <1>1, <1>10, <2>1 DEF Stall, l, m
  <2>3. Len(Played(h)) + k = l + Quantum
    <3>1. Played(h) \o Line' = Line \o Fresh /\ Fresh \in Seq(Nat) /\ Len(Fresh) = Quantum
      BY <1>10, ProcessLine, HeardType DEF h
    <3> DEFINE p == Played(h)
               line == Line'
    <3>2. p \in Seq(Nat) /\ line \in Seq(Nat) /\ p \o line = Line \o Fresh
      BY <1>2, <1>4, <3>1
    <3> HIDE DEF p, line
    <3>3. Len(p \o line) = Len(p) + Len(line) /\ Len(Line \o Fresh) = Len(Line) + Len(Fresh)
      BY <1>4, <3>1, <3>2, ConcatProperties
    <3> QED BY <3>1, <3>2, <3>3 DEF p, line, k, l
  <2>4. CASE Len(h) >= Quantum
    <3>1. k = l
      BY <1>2, <1>3, <1>4, <2>3, <2>4
    <3> QED BY <1>3, <1>9, <2>2, <3>1
  <2>5. CASE ~(Len(h) >= Quantum) /\ workerReady
    <3>1. n = m + Quantum
      BY <1>9, <2>5 DEF Phase
    <3>2. k = l + Quantum
      BY <1>2, <1>3, <1>4, <2>3, <2>5
    <3> QED BY <1>3, <2>2, <3>1, <3>2
  <2>6. CASE ~(Len(h) >= Quantum) /\ ~workerReady
    <3>1. /\ Carried(fromWorker') = <<>> /\ Carried(toWorker') = <<>> /\ SamplesOf(batchQueue') = <<>>
          /\ input' = Rest
      BY <1>1, <2>6, ProcessMoves, BypassCarries
    <3>2. k = Len(output') + 0 + 0 + 0 + Len(Rest)
      <4>1. Len(<<>>) = 0
        OBVIOUS
      <4> QED BY <1>1, <3>1, <4>1, LinePartsNext DEF k
    <3>3. Len(output') = Len(h)
      BY <1>2, <2>6
    <3>4. Len(h) + 1 <= Quantum /\ Len(Rest) + 1 <= frameLength
      BY <1>3, <1>6, <1>7, <2>6
    <3>5. Ready \in Nat /\ n \in Nat
      BY <1>3, <1>9
    <3> QED BY <1>3, <1>6, <1>7, <3>2, <3>3, <3>4, <3>5
  <2> QED BY <2>4, <2>5, <2>6
<1>11. ASSUME Uniform, overrun'
       PROVE  cap < Cushion + n
  <2>1. CASE overrun
    <3>1. cap < Cushion + m
      BY <1>11, <2>1 DEF Stall, cap, m
    <3>2. Cushion \in Nat
      BY <1>3
    <3> QED BY <1>3, <1>9, <3>1, <3>2
  <2>2. CASE ~overrun
    <3>1. ~workerReady /\ Len(output) + queued > QueueCapacity
      <4>1. ~workerReady
        BY <1>1, <1>11, <2>2
      <4>2. overrun \/ Len(output) + queued > QueueCapacity
        BY <1>1, <1>11, <4>1
      <4> QED BY <2>2, <4>1, <4>2
    <3>2. l + 2 <= Quantum + frameLength + m
      <4>1. l + 2 <= Ready + Quantum + frameLength + m
        BY <1>1, <1>11, <2>2 DEF Stall, l, m
      <4>2. Ready = 0
        BY <3>1 DEF Ready
      <4> QED BY <1>3, <4>1, <4>2
    <3>3. QueueCapacity + 2 <= 2 * Quantum + frameLength + m
      BY <1>3, <1>7, <3>1, <3>2
    <3>4. prefilled
      <4> SUFFICES ASSUME ~prefilled PROVE FALSE
        OBVIOUS
      <4>1. QueueCapacity = InitialFrames * build.rnnoise /\ frameLength = build.rnnoise
        BY <1>1 DEF QueueCapacity, Phase
      <4>2. QueueCapacity >= 2 * Quantum + frameLength
        BY <4>1, CapacityType DEF Types
      <4>3. m = 0
        <5>1. starved = 0 /\ 0 * Quantum = 0
          BY <1>3 DEF Stall
        <5> QED BY <5>1 DEF m
      <4> QED BY <1>3, <3>3, <4>2, <4>3
    <3>5. QueueCapacity = cap
      BY <3>4 DEF QueueCapacity, cap
    <3> QED BY <1>3, <1>9, <3>3, <3>5
  <2> QED BY <2>1, <2>2 DEF Types
<1>12. Stall'
  <2>1. (~prefilled)' => starved' = 0
    BY <1>1, <1>8
  <2>2. (Uniform /\ ~overrun /\ ~destroyed)' => k + 2 <= Ready' + Quantum + frameLength' + n
    BY <1>1, <1>5, <1>10
  <2>3. (Uniform /\ overrun)' => CapacityOf(frameLength)' < Cushion' + n
    BY <1>5, <1>11
  <2> QED BY <2>1, <2>2, <2>3 DEF Stall, k, n
<1> QED BY <1>12

LEMMA InitPipelineStall ==
    ASSUME Types, Phase, InitPipeline, Types', Stall
    PROVE  Stall'
PROOF
<1> DEFINE len == FrameOf(worker.module)
           m == starved * Quantum
           l == Len(Line)
           k == Len(Line')
           cap == CapacityOf(frameLength)
<1>1. /\ ~workerReady /\ ~prefilled /\ ~destroyed /\ build' = build /\ prefilled' = TRUE
      /\ len \in Lengths /\ frameLength' = len
      /\ starved' = starved /\ destroyed' = destroyed
      /\ \/ workerReady' = TRUE /\ overrun' = (overrun \/ Len(output) + Prefill' > CapacityOf(len))
         \/ workerReady' = FALSE /\ overrun' = (overrun \/ Len(output) + 0 > CapacityOf(len))
  BY InitPipelineDoes
<1>2. /\ Quantum \in Nat \ {0} /\ frameLength \in Nat \ {0} /\ Prefill \in Nat /\ 2 * Quantum <= Prefill
      /\ m \in Nat /\ Cushion = Prefill + Quantum + frameLength
      /\ cap \in Nat
      /\ l \in Nat /\ Len(output) \in Nat /\ Len(input) \in Nat /\ Len(output) + Len(input) <= l
  BY StallTypes
<1>3. starved = 0 /\ m = 0
  <2>1. starved = 0 /\ 0 * Quantum = 0
    BY <1>1, <1>2 DEF Stall
  <2> QED BY <2>1
<1>4. ASSUME Uniform
      PROVE  /\ frameLength' = frameLength /\ CapacityOf(len) = cap /\ Prefill' = Prefill /\ Cushion' = Cushion
             /\ CapacityOf(frameLength)' = cap /\ Uniform' = Uniform
  <2>1. frameLength' = frameLength /\ len = frameLength
    BY <1>1, <1>4 DEF Types, Lengths, Uniform
  <2>2. Prefill' = Prefill /\ Cushion' = Cushion /\ CapacityOf(frameLength)' = CapacityOf(frameLength) /\ Uniform' = Uniform
    BY <1>1, <2>1, SameCushion
  <2>3. CapacityOf(len) = cap
    <3> HIDE DEF len
    <3> QED BY <2>1
  <2> QED BY <2>1, <2>2, <2>3
<1>5. Uniform' => Uniform
  BY <1>1 DEF Uniform
<1> HIDE DEF len, m, l, k, cap
<1>6. ASSUME Uniform, ~overrun PROVE l + 2 <= Quantum + frameLength
  <2>1. l + 2 <= Ready + Quantum + frameLength + m
    BY <1>1, <1>6 DEF Stall, l, m
  <2>2. Ready = 0
    BY <1>1 DEF Ready
  <2> QED BY <1>2, <1>3, <2>1, <2>2
<1>7. ASSUME Uniform, ~overrun'
      PROVE  k + 2 <= Ready' + Quantum + frameLength + m
  <2>1. ~overrun /\ k = IF workerReady' THEN l + Prefill ELSE l
    BY <1>4, <1>7, InitPipelineLine DEF k, l
  <2>2. l + 2 <= Quantum + frameLength
    BY <1>6, <1>7, <2>1
  <2>3. Ready' = IF workerReady' THEN Prefill ELSE 0
    BY <1>4, <1>7 DEF Ready
  <2>4. CASE workerReady'
    <3>1. Ready' = Prefill /\ k = l + Prefill
      BY <2>1, <2>3, <2>4
    <3> QED BY <1>2, <2>2, <3>1
  <2>5. CASE ~workerReady'
    <3>1. Ready' = 0 /\ k = l
      BY <2>1, <2>3, <2>5
    <3> QED BY <1>2, <2>2, <3>1
  <2> QED BY <2>4, <2>5
<1>8. ASSUME Uniform, overrun'
      PROVE  cap < Cushion + m
  <2>1. CASE overrun
    BY <1>8, <2>1 DEF Stall, cap, m
  <2>2. CASE ~overrun
    <3>1. l + 2 <= Quantum + frameLength
      BY <1>6, <1>8, <2>2
    <3>2. Len(output) + Prefill > cap \/ Len(output) + 0 > cap
      BY <1>1, <1>4, <1>8, <2>2
    <3> QED BY <1>2, <3>1, <3>2
  <2> QED BY <2>1, <2>2 DEF Types
<1>9. starved' * Quantum = m
  BY <1>1 DEF m
<1>10. (Uniform /\ ~overrun /\ ~destroyed)' => k + 2 <= Ready' + Quantum + frameLength' + m
  BY <1>4, <1>5, <1>7
<1>11. (Uniform /\ overrun)' => CapacityOf(frameLength)' < Cushion' + m
  BY <1>4, <1>5, <1>8
<1> QED BY <1>1, <1>9, <1>10, <1>11 DEF Stall, k

LEMMA WorkletReceivesStall ==
    ASSUME Types, Phase, WorkletReceives, Types', Stall
    PROVE  Stall'
PROOF
<1> DEFINE msg == Head(fromWorker)
           s == SamplesOf(msg.frames)
<1>1. /\ fromWorker # <<>> /\ fromWorker' = Tail(fromWorker)
      /\ ResultArrives(msg) \/ ChangeArrives(msg) \/ NothingArrives(msg)
      /\ UNCHANGED <<build, workerReady, prefilled, destroyed, starved>>
  BY WorkletReceivesDoes
<1>2. msg \in FromMsg /\ msg.frames \in Seq(Filled) /\ fromWorker \in Seq(Msg) /\ Carried(fromWorker') \in Seq(Nat)
  BY <1>1, HeadOfFrom, Wide, PiecesNext
<1>3. prefilled /\ ~destroyed
  BY <1>1 DEF Phase
<1>4. Len(Carried(fromWorker)) = Len(s) + Len(Carried(fromWorker')) /\ s \in Seq(Nat)
  <2>1. s \in Seq(Nat)
    <3>1. msg.frames \in Seq(Piece)
      BY <1>2, Widen, SeqMonotonic DEF Types
    <3> QED BY <3>1, SamplesType
  <2>2. Carried(fromWorker) = s \o Carried(fromWorker')
    BY <1>1, <1>2, CarriedHead
  <2> HIDE DEF s
  <2> QED BY <1>2, <2>1, <2>2, ConcatProperties
<1> HIDE DEF msg, s
<1>5. Len(Line') \in Nat
  BY <1>1, PiecesNext, LenProperties
<1>6. ~overrun' => Len(Line') <= Len(Line)
  <2>1. ~overrun' => Line' = Line
    BY WorkletReceivesLine
  <2>2. Len(Line) \in Nat
    BY StallTypes
  <2> QED BY <1>5, <2>1, <2>2
<1>7. Uniform => frameLength' = frameLength
  <2>1. frameLength \in Lengths /\ frameLength' \in Lengths
    BY <1>1, SetsStay DEF Types
  <2> QED BY <2>1 DEF Lengths, Uniform
<1>8. Uniform => ~ChangeArrives(msg)
  <2>1. ChangeArrives(msg) => msg.arg \in Lengths /\ msg.arg # frameLength
    BY <1>2 DEF ChangeArrives, FromMsg
  <2> QED BY <2>1 DEF Types, Lengths, Uniform
<1>9. ASSUME Uniform, overrun', ~overrun
      PROVE  CapacityOf(frameLength) < Cushion + starved * Quantum
  <2>1. ResultArrives(msg)
    <3>1. ~NothingArrives(msg)
      BY <1>9 DEF NothingArrives
    <3> QED BY <1>1, <1>8, <1>9, <3>1
  <2>2. Len(output) + Len(s) > CapacityOf(frameLength)
    <3>1. overrun' = (overrun \/ Len(output) + Len(s) > QueueCapacity)
      BY <1>2, <2>1, ResultPushed DEF s
    <3> QED BY <1>3, <1>9, <3>1 DEF QueueCapacity
  <2>3. Len(output) + Len(s) <= Len(Line)
    <3>1. /\ Len(output) \in Nat /\ Len(s) \in Nat /\ Len(Carried(fromWorker')) \in Nat
          /\ Len(Carried(toWorker)) \in Nat /\ Len(SamplesOf(batchQueue)) \in Nat /\ Len(input) \in Nat
      BY <1>2, <1>4, Pieces, LenProperties
    <3> QED BY <1>4, <3>1, LineParts
  <2> DEFINE m == starved * Quantum
             l == Len(Line)
  <2>4. l + 2 <= Ready + Quantum + frameLength + m
    BY <1>3, <1>9 DEF Stall
  <2>5. /\ l \in Nat /\ m \in Nat /\ Ready \in {0, Prefill} /\ Prefill \in Nat /\ Quantum \in Nat /\ frameLength \in Nat
        /\ Cushion = Prefill + Quantum + frameLength /\ CapacityOf(frameLength) \in Nat /\ Len(output) \in Nat
    BY StallTypes
  <2>6. Len(s) \in Nat
    BY <1>4, LenProperties
  <2> HIDE DEF m, l
  <2>7. CapacityOf(frameLength) < Cushion + m
    BY <2>2, <2>3, <2>4, <2>5, <2>6 DEF l
  <2> QED BY <2>7 DEF m
<1>10. ASSUME Uniform PROVE Stall'
  <2>1. frameLength' = frameLength
    BY <1>7, <1>10
  <2>2. CASE overrun' = overrun /\ ~overrun
    <3>1. Len(Line') <= Len(Line)
      BY <1>6, <2>2
    <3> QED BY <1>1, <1>5, <2>1, <2>2, <3>1, QuietStall
  <2>3. CASE overrun' /\ (overrun \/ ~overrun)
    <3>1. CapacityOf(frameLength) < Cushion + starved * Quantum
      BY <1>9, <1>10, <2>3 DEF Stall, Types
    <3>2. Cushion' = Cushion /\ CapacityOf(frameLength)' = CapacityOf(frameLength)
      BY <1>1, <2>1, SameCushion
    <3> QED BY <1>1, <1>3, <2>3, <3>1, <3>2 DEF Stall
  <2>4. overrun => overrun'
    <3>1. ResultArrives(msg) \/ NothingArrives(msg)
      BY <1>1, <1>8, <1>10
    <3> QED BY <3>1 DEF ResultArrives, NothingArrives, Overruns
  <2>5. overrun \in BOOLEAN /\ overrun' \in BOOLEAN
    BY DEF Types
  <2> QED BY <2>2, <2>3, <2>4, <2>5
<1>11. Uniform' = Uniform
  BY <1>1 DEF Uniform
<1> QED BY <1>1, <1>3, <1>10, <1>11 DEF Stall

\* NothingLost, with its condition named.
Complete == Numbered(Line) = Run(lastPlayed, quanta * Quantum)

LEMMA NothingLostIs == NothingLost <=> (~dropped /\ ~overrun /\ ~destroyed /\ Uniform => Complete)
BY DEF NothingLost, Uniform, Complete, Run

LEMMA ProcessComplete ==
    ASSUME Types, Phase, Process, Types', Sorted, ~overrun', Complete
    PROVE  /\ Complete'
           /\ Numbered(Played(Supply.held)) \o Numbered(Line') = Run(lastPlayed, quanta * Quantum + Quantum)
PROOF
<1> DEFINE p == Played(Supply.held)
           m == quanta * Quantum
           s == Numbered(Line')
           n == Numbered(p)
<1>1. Supply.held \in Seq(Nat) /\ quanta' = quanta + 1 /\ build' = build
  BY ProcessDoes
<1>2. p \in Seq(Nat) /\ lastPlayed' = IF n = <<>> THEN lastPlayed ELSE Last(n)
  BY ProcessPlays
<1>3. Line \in Seq(Nat) /\ Line' \in Seq(Nat)
  BY <1>1, Pieces, PiecesNext
<1>4. Fresh \in Seq(Nat) /\ Len(Fresh) = Quantum /\ (\A k \in 1 .. Quantum : Fresh[k] = m + k)
      /\ Numbered(Fresh) = Fresh
  BY FreshVals, HeardType
<1>5. m \in Nat /\ Quantum \in Nat \ {0} /\ lastPlayed \in Nat /\ (quanta + 1) * Quantum = m + Quantum
      /\ lastPlayed <= m
  BY QuantaType DEF Types, Sorted
<1>6. Numbered(Line) = Run(lastPlayed, m)
  BY DEF Complete
<1>7. n \o s = Numbered(Line) \o Fresh
  <2>1. Numbered(p \o Line') = n \o s
    BY <1>2, <1>3, NumberedConcat
  <2>2. Numbered(Line \o Fresh) = Numbered(Line) \o Fresh
    BY <1>3, <1>4, NumberedConcat
  <2>3. p \o Line' = Line \o Fresh
    BY ProcessLine
  <2> HIDE DEF p, s, n
  <2> QED BY <2>1, <2>2, <2>3
<1>8. n \in Seq(Nat) /\ s \in Seq(Nat)
  BY <1>2, <1>3, NumberedType
<1> HIDE DEF p, s, n, m
<1> DEFINE e == m + Quantum
<1>9. e \in Nat /\ lastPlayed <= e
  BY <1>5
<1>10. n \o s = Run(lastPlayed, e)
  <2>1. Run(lastPlayed, m) \o Fresh = Run(lastPlayed, m + Quantum)
    BY <1>4, <1>5, RunGrows
  <2> QED BY <1>6, <1>7, <2>1
<1> HIDE DEF e
<1>11. LET b == IF n = <<>> THEN lastPlayed ELSE Last(n)
       IN  b <= e /\ b \in Nat /\ s = Run(b, e) /\ b = lastPlayed + Len(n)
  BY <1>5, <1>8, <1>9, <1>10, RunSplits
<1>12. s = Run(lastPlayed', e)
  BY <1>2, <1>11
<1>13. quanta' * Quantum = e
  BY <1>1, <1>5 DEF e
<1>14. Complete'
  BY <1>12, <1>13 DEF Complete, s
<1> QED BY <1>10, <1>14 DEF n, p, s, e, m

\* The invariants of the line together.
Flow == Types /\ Phase /\ Bounded /\ Stall /\ (~overrun => Sorted) /\ NothingLost

LEMMA InitFlow ==
    ASSUME Init
    PROVE  Flow
PROOF
<1>1. Types /\ Phase
  BY InitTypes
<1>2. /\ input = <<>> /\ output = <<>> /\ toWorker = <<>> /\ fromWorker = <<>> /\ batchQueue = <<>>
      /\ lastPlayed = 0 /\ quanta = 0 /\ stale = <<>> /\ starved = 0 /\ ~overrun /\ ~workerReady
  BY DEF Init
<1>3. Line = <<>>
  <2>1. Line = Join(<<>>, <<>>, <<>>, <<>>, <<>>)
    BY <1>2, CarriedEmpty, SamplesEmpty, LineJoins
  <2>2. <<>> \in Seq(Nat)
    OBVIOUS
  <2>3. Line = <<>> \o <<>>
    BY <2>1, <2>2, JoinEmpty
  <2> QED BY <2>2, <2>3, ConcatEmptySeq
<1>4. quanta * Quantum = 0
  BY <1>2, PipelineAssumption
<1>5. Sorted
  <2>1. Ord(<<>>) /\ Vals(<<>>) = {}
    BY DEF Ord, Vals
  <2> QED BY <1>2, <1>3, <1>4, <2>1 DEF Sorted
<1>6. Complete
  <2>1. Numbered(<<>>) = <<>>
    BY NumberedEmpty
  <2>2. Run(0, 0) = <<>>
    BY DEF Run
  <2> QED BY <1>2, <1>3, <1>4, <2>1, <2>2 DEF Complete
<1>7. Bounded
  <2>1. Vals(<<>>) = {}
    BY DEF Vals
  <2> QED BY <1>2, <1>3, <1>4, <2>1 DEF Bounded
<1>8. Stall
  <2>1. Len(Line) = 0
    BY <1>3
  <2>2. starved * Quantum = 0 /\ Quantum \in Nat \ {0} /\ frameLength \in Nat \ {0} /\ Ready = 0
    <3>1. Quantum \in Nat \ {0} /\ frameLength \in Nat \ {0}
      BY <1>1, StallTypes
    <3> QED BY <1>2, <3>1 DEF Ready
  <2> QED BY <1>2, <2>1, <2>2 DEF Stall
<1> QED BY <1>1, <1>2, <1>5, <1>6, <1>7, <1>8, NothingLostIs DEF Flow

LEMMA DroppedStays ==
    ASSUME Types, WorkerReceives
    PROVE  dropped => dropped'
PROOF
<1> DEFINE msg == Head(toWorker)
           n == Len(msg.frames)
<1>1. \/ BatchDone(msg)
      \/ \E k \in 1 .. n : \E l \in {k - 1, k} : BatchFailed(msg, k, l)
      \/ \E m \in Modules : Switched(m)
      \/ SameAgain
      \/ \E on \in BOOLEAN : Toggled(on)
      \/ Reset
  BY WorkerReceivesDoes
<1> HIDE DEF msg
<1>2. ASSUME NEW k, NEW l, BatchFailed(msg, k, l) PROVE dropped'
  BY <1>2 DEF BatchFailed
<1>3. ASSUME NEW m, Switched(m) PROVE dropped' = dropped
  BY <1>3 DEF Switched
<1>4. ASSUME NEW on, Toggled(on) PROVE dropped' = dropped
  BY <1>4 DEF Toggled
<1>5. BatchDone(msg) \/ SameAgain \/ Reset => dropped' = dropped
  BY DEF BatchDone, SameAgain, Reset
<1> QED BY <1>1, <1>2, <1>3, <1>4, <1>5, Zenon

LEMMA OverrunStays ==
    ASSUME Types, Types', [Next]_vars
    PROVE  overrun => overrun'
PROOF
<1>1. CASE Process
  BY <1>1 DEF Process, Overruns
<1>2. CASE InitPipeline
  BY <1>2 DEF InitPipeline, Overruns
<1>3. CASE WorkletReceives
  BY <1>3 DEF WorkletReceives, Overruns, outputVars
<1>4. ASSUME NEW type, NEW arg, Control(type, arg) PROVE overrun' = overrun
  BY <1>4 DEF Control, outputVars
<1>5. CASE WorkerReceives
  BY <1>5 DEF WorkerReceives, outputVars
<1>6. CASE Destroy
  BY <1>6 DEF Destroy
<1>7. CASE UNCHANGED vars
  BY <1>7 DEF vars, outputVars
<1> QED BY <1>1, <1>2, <1>3, <1>4, <1>5, <1>6, <1>7 DEF Next

LEMMA TypesStep ==
    ASSUME Types, Phase, [Next]_vars
    PROVE  Types' /\ Phase'
PROOF
<1>1. CASE Process
  BY <1>1, ProcessTypes
<1>2. CASE InitPipeline
  BY <1>2, InitPipelineTypes
<1>3. ASSUME NEW m \in Modules, Control("SET_MODULE", m) PROVE Types' /\ Phase'
  BY <1>3, ControlTypes
<1>4. ASSUME NEW switch \in {"on", "off"}, Control("SET_ENABLED", switch) PROVE Types' /\ Phase'
  BY <1>4, ControlTypes
<1>5. CASE WorkletReceives
  BY <1>5, WorkletReceivesTypes
<1>6. CASE WorkerReceives
  BY <1>6, WorkerReceivesTypes
<1>7. CASE Destroy
  BY <1>7, DestroyTypes
<1>8. CASE UNCHANGED vars
  <2>1. /\ UNCHANGED <<build, quanta, controls, input, output, skew, stale, overrun, lastPlayed, frameLength, workerReady,
                       prefilled, destroyed, pool, recycles, batchQueue, toWorker, fromWorker, worker, starved,
                       dropped>>
    BY <1>8 DEF vars, outputVars
  <2>2. Queue' = Queue /\ QueueCapacity' = QueueCapacity /\ Longest' = Longest
    BY <2>1, SameQueue, SameCapacity
  <2>3. RingOK(Queue, QueueCapacity)' /\ Len(input') < Longest'
    BY <2>1, <2>2 DEF Types
  <2>4. WorkerType'
    BY <2>1, SetsStay DEF Types, WorkerType
  <2>5. Types'
    BY <2>1, <2>3, <2>4, SetsStay DEF Types
  <2>6. Phase'
    BY <2>1 DEF Phase
  <2> QED BY <2>5, <2>6
<1> QED BY <1>1, <1>2, <1>3, <1>4, <1>5, <1>6, <1>7, <1>8 DEF Next

\* A step that keeps the line, or thins it, and leaves what is stale.
LEMMA QuietFlow ==
    ASSUME Flow, Types', Phase', Thins(Line', Line), stale' = stale,
           UNCHANGED <<build, quanta, lastPlayed, overrun>>
    PROVE  Bounded' /\ (~overrun' => Sorted')
PROOF
<1>1. Bounded /\ (~overrun => Sorted)
  BY DEF Flow
<1>2. Vals(Line') \subseteq Vals(Line)
  BY DEF Thins
<1>3. Bounded'
  <2>1. Vals(Line') \subseteq Vals(Line) \cup Vals(stale) /\ Vals(stale') \subseteq Vals(Line) \cup Vals(stale)
    BY <1>2
  <2> QED BY <1>1, <2>1, ThinnedBounded
<1>4. ~overrun' => Sorted'
  BY <1>1, ThinnedSorted
<1> QED BY <1>3, <1>4

LEMMA FlowStep ==
    ASSUME Flow, [Next]_vars
    PROVE  Flow'
PROOF
<1>1. /\ Types /\ Phase /\ Bounded /\ Stall /\ (~overrun => Sorted)
      /\ ~dropped /\ ~overrun /\ ~destroyed /\ Uniform => Complete
  BY NothingLostIs DEF Flow
<1>2. NothingLost' <=> (~dropped' /\ ~overrun' /\ ~destroyed' /\ Uniform' => Complete')
  BY DEF NothingLost, Uniform, Complete, Run
<1>3. ASSUME Numbered(Line') = Numbered(Line), lastPlayed' = lastPlayed, quanta' = quanta, Complete
      PROVE  Complete'
  BY <1>3 DEF Complete
<1>4. Thins(Line, Line)
  BY ThinsSelf
<1>5. Types' /\ Phase'
  BY <1>1, TypesStep
<1>6. overrun => overrun'
  BY <1>1, <1>5, OverrunStays
<1>7. CASE Process
  <2>1. Bounded' /\ Stall'
    BY <1>1, <1>5, <1>7, ProcessBounded, ProcessStall
  <2>2. ~overrun' => Sorted'
    BY <1>1, <1>5, <1>6, <1>7, ProcessSorted
  <2>3. UNCHANGED <<build, destroyed, dropped>>
    BY <1>7 DEF Process
  <2>4. ~overrun' /\ Complete => Complete'
    BY <1>1, <1>5, <1>6, <1>7, ProcessComplete
  <2>5. ~dropped' /\ ~overrun' /\ ~destroyed' /\ Uniform' => Complete'
    BY <1>1, <1>6, <2>3, <2>4 DEF Uniform
  <2> QED BY <1>2, <1>5, <2>1, <2>2, <2>5 DEF Flow
<1>8. CASE InitPipeline
  <2>1. Bounded' /\ Stall'
    BY <1>1, <1>5, <1>8, InitPipelineBounded, InitPipelineStall
  <2>2. ~overrun' => Thins(Line', Line) /\ Numbered(Line') = Numbered(Line)
    BY <1>1, <1>8, InitPipelineLine
  <2>3. UNCHANGED <<build, quanta, lastPlayed, destroyed, dropped>>
    BY <1>8 DEF InitPipeline
  <2>4. ~overrun' => Sorted'
    BY <1>1, <1>6, <2>2, <2>3, ThinnedSorted
  <2>5. ~overrun' /\ Complete => Complete'
    BY <1>3, <2>2, <2>3
  <2>6. ~dropped' /\ ~overrun' /\ ~destroyed' /\ Uniform' => Complete'
    BY <1>1, <1>6, <2>3, <2>5 DEF Uniform
  <2> QED BY <1>2, <1>5, <2>1, <2>4, <2>6 DEF Flow
<1>9. ASSUME NEW type, NEW arg, Control(type, arg),
             (type = "SET_MODULE" /\ arg \in Modules) \/ (type = "SET_ENABLED" /\ arg \in {"on", "off"})
      PROVE  Flow'
  <2>1. Line' = Line
    BY <1>1, <1>9, ControlLine
  <2>2. UNCHANGED <<build, quanta, lastPlayed, destroyed, dropped, overrun, stale, frameLength, workerReady, prefilled,
                    starved>>
    BY <1>9 DEF Control, outputVars
  <2>3. Bounded' /\ (~overrun' => Sorted')
    BY <1>4, <1>5, <2>1, <2>2, QuietFlow
  <2>4. Stall'
    <3>1. Len(Line') \in Nat /\ Len(Line') <= Len(Line)
      <4>1. Len(Line) \in Nat
        BY <1>1, StallTypes
      <4> QED BY <2>1, <4>1
    <3> QED BY <1>1, <2>2, <3>1, QuietStall
  <2>5. Complete => Complete'
    BY <1>3, <2>1, <2>2
  <2>6. ~dropped' /\ ~overrun' /\ ~destroyed' /\ Uniform' => Complete'
    BY <1>1, <2>2, <2>5 DEF Uniform
  <2> QED BY <1>2, <1>5, <2>3, <2>4, <2>6 DEF Flow
<1>10. CASE WorkletReceives
  <2>1. Bounded' /\ Stall'
    BY <1>1, <1>5, <1>10, WorkletReceivesBounded, WorkletReceivesStall
  <2>2. ~overrun' => Line' = Line
    BY <1>1, <1>5, <1>10, WorkletReceivesLine
  <2>3. UNCHANGED <<build, quanta, lastPlayed, destroyed, dropped>>
    BY <1>10 DEF WorkletReceives, controlVars
  <2>4. ~overrun' => Sorted'
    BY <1>1, <1>4, <1>6, <2>2, <2>3, ThinnedSorted
  <2>5. ~overrun' /\ Complete => Complete'
    BY <1>3, <2>2, <2>3
  <2>6. ~dropped' /\ ~overrun' /\ ~destroyed' /\ Uniform' => Complete'
    BY <1>1, <1>6, <2>3, <2>5 DEF Uniform
  <2> QED BY <1>2, <1>5, <2>1, <2>4, <2>6 DEF Flow
<1>11. CASE WorkerReceives
  <2>1. /\ Thins(Line', Line) /\ (Uniform /\ ~dropped' /\ ~destroyed => Line' = Line)
        /\ Uniform => Len(Line') <= Len(Line)
    BY <1>1, <1>5, <1>11, WorkerReceivesLine
  <2>2. UNCHANGED <<build, quanta, lastPlayed, destroyed, overrun, stale, frameLength, workerReady, prefilled, starved>>
    BY <1>11 DEF WorkerReceives, outputVars
  <2>3. Bounded' /\ (~overrun' => Sorted')
    BY <1>5, <2>1, <2>2, QuietFlow
  <2>4. Stall'
    <3>1. Len(Line') \in Nat
      BY <1>1, <1>5, <2>2, PiecesNext, LenProperties
    <3> QED BY <1>1, <2>1, <2>2, <3>1, QuietStall
  <2>5. dropped => dropped'
    BY <1>1, <1>11, DroppedStays
  <2>6. ~dropped' /\ ~overrun' /\ ~destroyed' /\ Uniform' => Complete'
    <3> SUFFICES ASSUME ~dropped', ~overrun', ~destroyed', Uniform' PROVE Complete'
      OBVIOUS
    <3>1. Uniform /\ ~destroyed /\ ~dropped /\ ~overrun
      BY <2>2, <2>5 DEF Uniform
    <3>2. Line' = Line /\ Complete
      BY <1>1, <2>1, <3>1
    <3> QED BY <1>3, <2>2, <3>2
  <2> QED BY <1>2, <1>5, <2>3, <2>4, <2>6 DEF Flow
<1>12. CASE Destroy
  <2>1. Thins(Line', Line)
    BY <1>1, <1>12, DestroyLine
  <2>2. UNCHANGED <<build, quanta, lastPlayed, overrun, prefilled, starved, frameLength>> /\ destroyed' /\ stale' = <<>>
    BY <1>12 DEF Destroy, controlVars, OutputBecomes, EmptyQueue
  <2>3. ~overrun' => Sorted'
    BY <1>1, <2>1, <2>2, ThinnedSorted
  <2>4. Bounded'
    <3>1. Vals(Line') \subseteq Vals(Line) \cup Vals(stale)
      BY <2>1 DEF Thins
    <3>2. Vals(stale') \subseteq Vals(Line) \cup Vals(stale)
      BY <2>2 DEF Vals
    <3> QED BY <1>1, <2>2, <3>1, <3>2, ThinnedBounded
  <2>5. Stall'
    <3>1. Cushion' = Cushion /\ CapacityOf(frameLength)' = CapacityOf(frameLength) /\ Uniform' = Uniform
      BY <2>2, SameCushion
    <3> QED BY <1>1, <2>2, <3>1 DEF Stall
  <2> QED BY <1>2, <1>5, <2>2, <2>3, <2>4, <2>5 DEF Flow
<1>13. CASE UNCHANGED vars
  <2>1. UNCHANGED <<build, quanta, lastPlayed, destroyed, dropped, overrun, stale, frameLength, workerReady, prefilled,
                    starved, output, input, batchQueue, toWorker, fromWorker>>
    BY <1>13 DEF vars, outputVars
  <2>2. Line' = Line
    BY <2>1 DEF Line
  <2>3. Bounded' /\ (~overrun' => Sorted')
    BY <1>4, <1>5, <2>1, <2>2, QuietFlow
  <2>4. Stall'
    <3>1. Len(Line') \in Nat /\ Len(Line') <= Len(Line)
      <4>1. Len(Line) \in Nat
        BY <1>1, StallTypes
      <4> QED BY <2>2, <4>1
    <3> QED BY <1>1, <2>1, <3>1, QuietStall
  <2>5. Complete => Complete'
    BY <1>3, <2>1, <2>2
  <2>6. ~dropped' /\ ~overrun' /\ ~destroyed' /\ Uniform' => Complete'
    BY <1>1, <2>1, <2>5 DEF Uniform
  <2> QED BY <1>2, <1>5, <2>3, <2>4, <2>6 DEF Flow
<1> QED BY <1>7, <1>8, <1>9, <1>10, <1>11, <1>12, <1>13 DEF Next

\* The types and phases of the audio path hold of every build, and so does what
\* bounds the line: nothing is made up, order and completeness until the output
\* queue is overrun, and how long the speaker must starve for that.
THEOREM PipelineFlow == Spec => []Flow
PROOF
<1>1. Init => Flow
  BY InitFlow
<1>2. Flow /\ [Next]_vars => Flow'
  BY FlowStep
<1> QED BY <1>1, <1>2, PTL DEF Spec

LEMMA FilledWell ==
    ASSUME NEW f \in Seq(Filled)
    PROVE  WellFormed(f)
PROOF
<1>1. DOMAIN f = 1 .. Len(f) /\ \A i \in 1 .. Len(f) : f[i] \in Filled
  BY LenProperties, ElementOfSeq
<1> QED BY <1>1 DEF WellFormed, Filled

LEMMA FlowTypeOK ==
    ASSUME Flow
    PROVE  TypeOK
PROOF
<1>1. Types /\ Bounded
  BY DEF Flow
<1>2. /\ quanta * Quantum \in Nat /\ quanta * Quantum <= build.quanta * Quantum /\ build.quanta * Quantum \in Nat
  BY <1>1, QuantaType
<1>3. Range(Line) \subseteq 0 .. build.quanta * Quantum /\ lastPlayed \in 0 .. build.quanta * Quantum
  <2> DEFINE m == quanta * Quantum
             e == build.quanta * Quantum
             l == Line
  <2>1. m \in Nat /\ e \in Nat /\ m <= e /\ lastPlayed \in Nat
    BY <1>1, <1>2 DEF Types
  <2>2. Vals(l) \subseteq 1 .. m /\ lastPlayed <= m /\ l \in Seq(Nat)
    BY <1>1, Pieces DEF Bounded
  <2> HIDE DEF m, e, l
  <2>3. Range(l) = {l[i] : i \in 1 .. Len(l)}
    BY <2>2, RangeOfSeq, LenProperties DEF Range
  <2>4. \A x \in Range(l) : x = 0 \/ x \in Vals(l)
    BY <2>3 DEF Vals
  <2>5. \A x \in Range(l) : x \in 0 .. e
    BY <2>1, <2>2, <2>4
  <2> QED BY <2>1, <2>2, <2>5 DEF e, l
<1>9. /\ Len(input) + Quantum <= QueueCapacity /\ Len(output) <= QueueCapacity
      /\ IF skew = 0 THEN stale = <<>>
         ELSE skew \in 1 .. QueueCapacity - 1 /\ Len(output) + Len(stale) = QueueCapacity
  <2>1. /\ Len(output) <= QueueCapacity /\ skew \in Nat
        /\ IF skew = 0 THEN stale = <<>> ELSE skew < QueueCapacity /\ Len(output) + Len(stale) = QueueCapacity
    BY <1>1 DEF Types, RingOK, Queue
  <2>2. Longest + Quantum <= QueueCapacity
    <3>1. CASE prefilled
      BY <1>1, <3>1, CapacityType DEF Types, Longest, QueueCapacity
    <3>2. CASE ~prefilled
      <4>1. build.rnnoise \in Nat /\ Quantum \in Nat
        BY <1>1, BuildType, PipelineAssumption DEF Types
      <4>2. InitialFrames * build.rnnoise \in Nat /\ InitialFrames * build.rnnoise >= 2 * Quantum + build.rnnoise
        BY <1>1, CapacityType DEF Types
      <4> QED BY <3>2, <4>1, <4>2 DEF Longest, QueueCapacity
    <3> QED BY <3>1, <3>2
  <2>3. Len(input) < Longest /\ Len(input) \in Nat /\ Longest \in Nat /\ QueueCapacity \in Nat /\ Quantum \in Nat
    BY <1>1, LongestType, CapacityNow, LenProperties, PipelineAssumption DEF Types
  <2>4. Len(input) + Quantum <= QueueCapacity
    BY <2>2, <2>3
  <2>5. skew # 0 => skew \in 1 .. QueueCapacity - 1
    BY <2>1, <2>3
  <2> QED BY <2>1, <2>4, <2>5
<1>4. /\ {frameLength, worker.size} \subseteq {build.rnnoise, build.deepfilternet}
      /\ worker.module \in Modules
      /\ pool \subseteq Arrays(frameLength) /\ worker.pool \subseteq Arrays(worker.size)
  BY <1>1 DEF Types, WorkerType, Lengths
<1>5. {workerReady, prefilled, destroyed, overrun, dropped, worker.enabled} \subseteq BOOLEAN
  <2>1. /\ workerReady \in BOOLEAN /\ prefilled \in BOOLEAN /\ destroyed \in BOOLEAN
        /\ overrun \in BOOLEAN /\ dropped \in BOOLEAN /\ worker.enabled \in BOOLEAN
    BY <1>1 DEF Types, WorkerType
  <2> QED BY <2>1
<1>6. Range(recycles) \cup Range(worker.recycles) \subseteq AnyArray
  <2>1. recycles \in Seq(AnyArray) /\ worker.recycles \in Seq(AnyArray)
    BY <1>1, Wide DEF Types
  <2> QED BY <2>1, RangeOfSeq
<1>7. WellFormed(batchQueue)
  BY <1>1, FilledWell DEF Types
<1>8. \A i \in DOMAIN InFlight : WellFormed(InFlight[i].frames)
  <2>1. toWorker \in Seq(ToMsg) /\ fromWorker \in Seq(FromMsg)
    BY <1>1 DEF Types
  <2>2. toWorker \in Seq(ToMsg \cup FromMsg) /\ fromWorker \in Seq(ToMsg \cup FromMsg)
    BY <2>1, SeqMonotonic
  <2>3. InFlight \in Seq(ToMsg \cup FromMsg)
    BY <2>2, ConcatProperties DEF InFlight
  <2>4. DOMAIN InFlight = 1 .. Len(InFlight)
        /\ \A i \in 1 .. Len(InFlight) : InFlight[i] \in ToMsg \cup FromMsg
    BY <2>3, LenProperties, ElementOfSeq
  <2>5. \A m \in ToMsg \cup FromMsg : m.frames \in Seq(Filled)
    <3>1. <<>> \in Seq(Filled)
      OBVIOUS
    <3> QED BY <3>1 DEF ToMsg, FromMsg
  <2> QED BY <2>4, <2>5, FilledWell
<1> QED BY <1>1, <1>3, <1>4, <1>5, <1>6, <1>7, <1>8, <1>9 DEF TypeOK, Types

\* Every frame fills its array, every pool holds arrays of its own length, and
\* neither queue holds more than it can, the output by cutting what is pushed,
\* the input because a quantum always fits, whatever the frame lengths of the
\* modules and wherever a switch comes.
THEOREM PipelineTypeOK == Spec => []TypeOK
BY PipelineFlow, FlowTypeOK, PTL

LEMMA FlowOrderKept ==
    ASSUME Flow
    PROVE  OrderKept
PROOF
<1> DEFINE coming == Numbered(Line)
           m == quanta * Quantum
<1>1. Types /\ (~overrun => Sorted)
  BY DEF Flow
<1>2. Line \in Seq(Nat) /\ m \in Nat /\ lastPlayed \in Nat
  BY <1>1, Pieces, QuantaType DEF Types
<1>3. ~overrun => \A i, j \in 1 .. Len(coming) : i < j => coming[i] < coming[j]
  BY <1>1, <1>2, NumberedIncreases DEF Sorted
<1>4. /\ \A k \in 1 .. Len(coming) : coming[k] \in Vals(Line)
      /\ coming # <<>> => Last(coming) \in Vals(Line)
      /\ coming \in Seq(Nat) /\ Len(coming) \in Nat
  BY <1>2, ValsAreNumbered
<1>5. ~overrun => Vals(Line) \subseteq lastPlayed + 1 .. m
  BY <1>1 DEF Sorted
<1> HIDE DEF coming, m
<1>6. ~overrun => \A i \in 1 .. Len(coming) - 1 : coming[i] < coming[i + 1]
  <2> SUFFICES ASSUME ~overrun, NEW i \in 1 .. Len(coming) - 1 PROVE coming[i] < coming[i + 1]
    OBVIOUS
  <2>1. i \in 1 .. Len(coming) /\ i + 1 \in 1 .. Len(coming) /\ i < i + 1
    BY <1>4
  <2> QED BY <1>3, <2>1
<1>7. ~overrun => (coming # <<>> => lastPlayed < coming[1] /\ Last(coming) <= m)
  <2> SUFFICES ASSUME ~overrun, coming # <<>> PROVE lastPlayed < coming[1] /\ Last(coming) <= m
    OBVIOUS
  <2>1. 1 \in 1 .. Len(coming)
    BY <1>4, EmptySeq
  <2>2. coming[1] \in lastPlayed + 1 .. m /\ Last(coming) \in lastPlayed + 1 .. m
    BY <1>4, <1>5, <2>1
  <2> QED BY <1>2, <2>2
<1>8. overrun /\ Uniform => Cushion + starved * Quantum > CapacityOf(frameLength)
  <2>1. Uniform /\ overrun => CapacityOf(frameLength) < Cushion + starved * Quantum
    BY DEF Flow, Stall
  <2>2. /\ CapacityOf(frameLength) \in Nat /\ starved * Quantum \in Nat /\ Cushion = Prefill + Quantum + frameLength
        /\ Prefill \in Nat /\ Quantum \in Nat /\ frameLength \in Nat
    BY <1>1, StallTypes
  <2> QED BY <2>1, <2>2
<1> QED BY <1>6, <1>7, <1>8 DEF OrderKept, Uniform, coming, m

\* No sample is played twice or after a later one, with batches dropped by a
\* throwing module, modules switched and denoising toggled at any moment, until
\* the output queue, of the capacity the worklet gives it, is overrun; and with
\* frames of one length that takes a stall of the worker in which the speaker
\* starves for what the queue holds over the cushion.
THEOREM LineInOrder == Spec => []OrderKept
BY PipelineFlow, FlowOrderKept, PTL

\* As long as no batch fails and the output queue is not overrun, nothing is lost
\* between the microphone and the speaker, for every frame length, batch size,
\* pool and capacity.
THEOREM LineComplete == Spec => []NothingLost
PROOF
<1>1. Flow => NothingLost
  BY DEF Flow
<1> QED BY <1>1, PipelineFlow, PTL

-----------------------------------------------------------------------------
(* The cushion of the prefill.                                             *)

\* The samples of a batch are not older than its age and the batch explain.
Recent(m, now, slack) ==
    \A s \in Range(SamplesOf(m.frames)) : s # 0 /\ now < s + slack + (m.age + 1) * Quantum

Slack == build.batch * frameLength

Covered ==
    /\ Len(input) < frameLength /\ Len(batchQueue) < build.batch
    /\ 0 \notin Range(input) /\ 0 \notin Range(SamplesOf(batchQueue))
    /\ \A i \in 1 .. Len(toWorker) : Recent(toWorker[i], quanta * Quantum, Slack)
    /\ \A i \in 1 .. Len(fromWorker) : Recent(fromWorker[i], quanta * Quantum, Slack)
    /\ workerReady => Len(Line) >= Prefill

Ideal == build.timely /\ Uniform /\ ~dropped /\ Cushion <= CapacityOf(frameLength)
Cushioned == Ideal => /\ starved = 0
                      /\ ~destroyed => Covered /\ (prefilled => workerReady)

\* A cushion that fits stays in the queue while the speaker does not starve.
LEMMA NotOverrun ==
    ASSUME Types, Stall, Ideal, starved = 0
    PROVE  ~overrun
PROOF
<1> DEFINE cap == CapacityOf(frameLength)
           c == Cushion
           z == starved * Quantum
<1>1. c \in Nat /\ cap \in Nat /\ z = 0
  <2>1. /\ Prefill \in Nat /\ Quantum \in Nat /\ frameLength \in Nat /\ cap \in Nat
        /\ Cushion = Prefill + Quantum + frameLength
    BY StallTypes
  <2>2. 0 * Quantum = 0
    BY <2>1
  <2> HIDE DEF cap
  <2> QED BY <2>1, <2>2
<1>2. c <= cap /\ (overrun => cap < c + z)
  BY DEF Ideal, Stall
<1> HIDE DEF c, cap, z
<1> QED BY <1>1, <1>2

LEMMA NotOverrunNext ==
    ASSUME Types, Stall', Ideal, starved' = 0, build' = build, frameLength' = frameLength
    PROVE  ~overrun'
PROOF
<1> DEFINE cap == CapacityOf(frameLength)
           c == Cushion
           z == starved' * Quantum
<1>1. c \in Nat /\ cap \in Nat /\ z = 0
  <2>1. /\ Prefill \in Nat /\ Quantum \in Nat /\ frameLength \in Nat /\ cap \in Nat
        /\ Cushion = Prefill + Quantum + frameLength
    BY StallTypes
  <2>2. 0 * Quantum = 0
    BY <2>1
  <2> HIDE DEF cap
  <2> QED BY <2>1, <2>2
<1>2. Cushion' = c /\ CapacityOf(frameLength)' = cap /\ Uniform'
  BY SameCushion DEF Ideal
<1>3. c <= cap /\ (overrun' => cap < c + z)
  BY <1>2 DEF Ideal, Stall
<1> HIDE DEF c, cap, z
<1> QED BY <1>1, <1>3

\* With frames of one length no step changes the length, or the cushion.
LEMMA IdealBefore ==
    ASSUME Types, Types', build' = build, dropped => dropped', Ideal'
    PROVE  Ideal /\ frameLength' = frameLength
PROOF
<1>1. Uniform
  BY DEF Ideal, Uniform
<1>2. frameLength' = frameLength
  <2>1. frameLength \in Lengths /\ frameLength' \in Lengths'
    BY DEF Types
  <2>2. Lengths' = Lengths
    BY SetsStay
  <2>3. \A x, y \in Lengths : x = y
    BY <1>1 DEF Lengths, Uniform
  <2> QED BY <2>1, <2>2, <2>3
<1>3. Cushion' = Cushion /\ CapacityOf(frameLength)' = CapacityOf(frameLength)
  BY <1>2, SameCushion
<1> QED BY <1>1, <1>2, <1>3 DEF Ideal

LEMMA CeilDivUp ==
    ASSUME NEW a \in Nat, NEW q \in Nat \ {0}
    PROVE  CeilDiv(a, q) \in Nat /\ a <= CeilDiv(a, q) * q
PROOF
<1> DEFINE x == a + q - 1
           c == x \div q
<1>1. x \in Nat
  OBVIOUS
<1>2. c \in Nat /\ x < q * c + q
  <2> HIDE DEF x
  <2> QED BY <1>1
<1>3. c * q = q * c /\ q * c \in Nat
  BY <1>2
<1>4. CeilDiv(a, q) = c
  BY DEF CeilDiv
<1> HIDE DEF c
<1> QED BY <1>2, <1>3, <1>4

\* The prefill covers a batch and the round trip.
LEMMA PrefillCovers ==
    ASSUME Types
    PROVE  /\ frameLength \in Nat \ {0} /\ build.batch \in Nat \ {0} /\ Slack \in Nat \ {0}
           /\ Quantum \in Nat \ {0} /\ (2 * build.batch) * Quantum \in Nat
           /\ Prefill \in Nat /\ Slack + (2 * build.batch) * Quantum <= Prefill
           /\ Slack = (build.batch - 1) * frameLength + frameLength
PROOF
<1>1. frameLength \in Nat \ {0} /\ build.batch \in Nat \ {0} /\ Quantum \in Nat \ {0}
  BY BuildType, PipelineAssumption DEF Types
<1>2. Slack \in Nat \ {0} /\ Slack = (build.batch - 1) * frameLength + frameLength
  <2> DEFINE p == build.batch - 1
  <2>1. p \in Nat /\ build.batch = p + 1
    BY <1>1
  <2> HIDE DEF p
  <2>2. (p + 1) * frameLength = p * frameLength + frameLength /\ p * frameLength \in Nat
    BY <1>1, <2>1
  <2> QED BY <1>1, <2>1, <2>2 DEF Slack, p
<1> DEFINE c == CeilDiv(Slack, Quantum)
           r == 2 * build.batch
<1>3. c \in Nat /\ Slack <= c * Quantum /\ r \in Nat
  BY <1>1, <1>2, CeilDivUp, SMTT(30)
<1>4. Prefill = (c + r) * Quantum
  BY DEF Prefill, RoundTripQuanta, Slack
<1> HIDE DEF c, r
<1>5. (c + r) * Quantum = c * Quantum + r * Quantum /\ c * Quantum \in Nat /\ r * Quantum \in Nat
  BY <1>1, <1>3
<1>6. Prefill \in Nat /\ Slack + r * Quantum <= Prefill
  BY <1>2, <1>3, <1>4, <1>5
<1> QED BY <1>1, <1>2, <1>5, <1>6 DEF r

LEMMA JoinOutput ==
    ASSUME NEW o, NEW f, NEW t, NEW b, NEW i, Seqs(o, f, t, b, i)
    PROVE  Join(o, f, t, b, i) = o \o Join(<<>>, f, t, b, i)
PROOF
<1>1. o \in Seq(Nat)
  BY DEF Seqs
<1>2. <<>> \in Seq(Nat)
  OBVIOUS
<1>3. Seqs(<<>>, f, t, b, i)
  BY <1>2 DEF Seqs
<1> DEFINE z == <<>>
<1>4. Seqs(z, f, t, b, i)
  BY <1>3
<1>5. o \o z = o
  BY <1>1, ConcatEmptySeq
<1> HIDE DEF z
<1>6. Join(o \o z, f, t, b, i) = o \o Join(z, f, t, b, i)
  BY <1>1, <1>4, JoinFront
<1> QED BY <1>5, <1>6 DEF z

LEMMA JoinHalves ==
    ASSUME NEW f, NEW t, NEW b, NEW i, Seqs(<<>>, f, t, b, i)
    PROVE  Join(<<>>, f, t, b, i) = (f \o t) \o (b \o i)
PROOF
<1>1. f \in Seq(Nat) /\ t \in Seq(Nat)
  BY DEF Seqs
<1>2. b \in Seq(Nat) /\ i \in Seq(Nat)
  BY DEF Seqs
<1> DEFINE g == f \o t
<1>3. g \in Seq(Nat) /\ <<>> \o f = f
  BY <1>1, ConcatProperties, ConcatEmptySeq
<1>4. (g \o b) \o i = g \o (b \o i)
  <2> HIDE DEF g
  <2> QED BY <1>2, <1>3, Assoc
<1> QED BY <1>3, <1>4 DEF Join

\* Samples without silence that end a run are a run, with its last samples.
LEMMA RunEnd ==
    ASSUME NEW s \in Seq(Nat), NEW x \in Nat, NEW e \in Nat, x <= e, s = Run(x, e)
    PROVE  /\ Len(s) = e - x /\ \A v \in Range(s) : v # 0 /\ e < v + Len(s)
           /\ s # <<>> => x + 1 \in Range(s)
PROOF
<1>1. Len(s) = e - x /\ \A k \in 1 .. e - x : s[k] = x + k
  BY RunType
<1>2. Range(s) = {s[k] : k \in 1 .. Len(s)}
  BY RangeEquality
<1>3. \A v \in Range(s) : v # 0 /\ e < v + Len(s)
  <2> SUFFICES ASSUME NEW k \in 1 .. Len(s) PROVE s[k] # 0 /\ e < s[k] + Len(s)
    BY <1>2
  <2> QED BY <1>1, SMTT(30)
<1>4. s # <<>> => x + 1 \in Range(s)
  <2> SUFFICES ASSUME s # <<>> PROVE x + 1 \in Range(s)
    OBVIOUS
  <2>1. Len(s) \in Nat /\ Len(s) # 0
    BY EmptySeq, LenProperties
  <2>2. 1 \in 1 .. Len(s) /\ s[1] = x + 1
    BY <1>1, <2>1
  <2> QED BY <1>2, <2>2
<1> QED BY <1>1, <1>3, <1>4

LEMMA CleanNumbered ==
    ASSUME NEW s \in Seq(Nat), 0 \notin Range(s)
    PROVE  Numbered(s) = s
PROOF
<1>1. \A k \in 1 .. Len(s) : s[k] \in Nat \ {0}
  <2>1. Range(s) = {s[k] : k \in 1 .. Len(s)}
    BY RangeEquality
  <2> QED BY <2>1, ElementOfSeq
<1>2. s \in [1 .. Len(s) -> Nat \ {0}] /\ Len(s) \in Nat
  BY <1>1, LenProperties
<1>3. s \in Seq(Nat \ {0})
  BY <1>2
<1> QED BY <1>3, NumberedAll

\* What is behind a numbered prefix of a line that is complete.
LEMMA CompleteTail ==
    ASSUME NEW o \in Seq(Nat), NEW u \in Seq(Nat), 0 \notin Range(u), NEW a \in Nat, NEW e \in Nat, a <= e,
           Numbered(o \o u) = Run(a, e)
    PROVE  \E x \in Nat : x <= e /\ u = Run(x, e)
PROOF
<1> DEFINE n == Numbered(o)
<1>1. n \in Seq(Nat)
  BY NumberedType
<1>2. Numbered(o \o u) = n \o u
  <2>1. Numbered(u) = u
    BY CleanNumbered
  <2> QED BY <2>1, NumberedConcat
<1> HIDE DEF n
<1>3. n \o u = Run(a, e)
  BY <1>2
<1>4. LET b == IF n = <<>> THEN a ELSE Last(n)
      IN  b <= e /\ b \in Nat /\ u = Run(b, e) /\ b = a + Len(n)
  BY <1>1, <1>3, RunSplits
<1> QED BY <1>4

\* The end of a run is a run.
LEMMA RunBack ==
    ASSUME NEW g \in Seq(Nat), NEW h \in Seq(Nat), NEW x \in Nat, NEW e \in Nat, x <= e, g \o h = Run(x, e)
    PROVE  \A v \in Range(h) : v # 0 /\ e < v + Len(h)
PROOF
<1>1. LET b == IF g = <<>> THEN x ELSE Last(g)
      IN  b <= e /\ b \in Nat /\ h = Run(b, e) /\ b = x + Len(g)
  BY RunSplits
<1>2. PICK b \in Nat : b <= e /\ h = Run(b, e)
  BY <1>1
<1> QED BY <1>2, RunEnd

\* What process() leaves behind the output queue.
Behind == SamplesOf(Gathered) \o Rest

LEMMA BehindSize ==
    ASSUME Types, Uniform, Covered, CanAcquire(pool, Needed)
    PROVE  /\ Rest \in Seq(Nat) /\ Len(Rest) < frameLength /\ 0 \notin Range(Rest)
           /\ SamplesOf(Gathered) \in Seq(Nat) /\ 0 \notin Range(SamplesOf(Gathered))
           /\ Behind \in Seq(Nat) /\ Len(Behind) < Slack + Quantum
           /\ Range(SamplesOf(Gathered)) \subseteq Range(Behind) /\ 0 \notin Range(Behind)
           /\ Gathered \in Seq(Filled)
PROOF
<1> DEFINE cut == SamplesOf(CutFrames)
           b == SamplesOf(batchQueue)
<1>1. /\ CutFrames \in Seq(Filled) /\ Rest \in Seq(Nat) /\ Len(Rest) = Len(Heard) - Count * frameLength
      /\ cut \in Seq(Nat) /\ cut \o Rest = Heard
  BY CutType
<1>2. /\ Fresh \in Seq(Nat) /\ Len(Fresh) = Quantum /\ (\A k \in 1 .. Quantum : Fresh[k] = quanta * Quantum + k)
      /\ Heard \in Seq(Nat) /\ Len(Heard) = Len(input) + Quantum /\ Len(Heard) \in Nat
      /\ Count * frameLength \in Nat /\ Len(Heard) < Count * frameLength + frameLength
      /\ frameLength \in Nat \ {0}
  BY HeardType
<1>3. b \in Seq(Nat) /\ input \in Seq(Nat) /\ batchQueue \in Seq(Piece)
  BY Wide DEF Types
<1>4. 0 \notin Range(Fresh)
  <2>1. Range(Fresh) = {Fresh[k] : k \in 1 .. Quantum}
    BY <1>2, RangeEquality
  <2>2. quanta * Quantum \in Nat
    BY QuantaType
  <2> QED BY <1>2, <2>1, <2>2
<1>5. 0 \notin Range(Heard)
  <2>1. Range(Heard) = Range(input) \cup Range(Fresh)
    BY <1>2, <1>3, RangeConcatenation DEF Heard
  <2> QED BY <1>4, <2>1 DEF Covered
<1>6. Range(cut) \cup Range(Rest) = Range(Heard)
  BY <1>1, RangeConcatenation, ZenonT(60)
<1>7. Gathered \in Seq(Filled) /\ SamplesOf(Gathered) = b \o cut
  <2>1. batchQueue \in Seq(Filled)
    BY DEF Types
  <2>2. CutFrames \in Seq(Piece)
    BY <1>1, Widen, SeqMonotonic DEF Types
  <2>3. SamplesOf(batchQueue \o CutFrames) = b \o cut
    BY <1>3, <2>2, SamplesConcat
  <2> QED BY <1>1, <2>1, <2>3, ConcatProperties DEF Gathered
<1> HIDE DEF cut, b
<1>8. b \o cut \in Seq(Nat) /\ Range(b \o cut) = Range(b) \cup Range(cut)
      /\ Len(b \o cut) = Len(b) + Len(cut)
  BY <1>1, <1>3, ConcatProperties, RangeConcatenation
<1>9. 0 \notin Range(b \o cut)
  BY <1>5, <1>6, <1>8 DEF Covered, b
<1> DEFINE g == b \o cut
<1>10. g \in Seq(Nat) /\ 0 \notin Range(g) /\ SamplesOf(Gathered) = g /\ Len(g) = Len(b) + Len(cut)
  BY <1>7, <1>8, <1>9
<1> HIDE DEF g
<1>11. /\ g \o Rest \in Seq(Nat) /\ Range(g \o Rest) = Range(g) \cup Range(Rest)
       /\ Len(g \o Rest) = Len(g) + Len(Rest)
  BY <1>1, <1>10, ConcatProperties, RangeConcatenation, ZenonT(60)
<1>12. Len(b) = Len(batchQueue) * frameLength
  <2>1. \A i \in 1 .. Len(batchQueue) : Len(batchQueue[i].samples) = frameLength
    <3>1. \A i \in 1 .. Len(batchQueue) : batchQueue[i] \in Filled
      BY ElementOfSeq DEF Types
    <3> QED BY <3>1, UniformFrames
  <2> QED BY <1>2, <1>3, <2>1, SamplesLength DEF b
<1>13. Len(cut) + Len(Rest) = Len(Heard)
  BY <1>1, ConcatProperties
<1>14. Len(batchQueue) * frameLength <= (build.batch - 1) * frameLength
       /\ Len(batchQueue) * frameLength \in Nat
  <2>1. Len(batchQueue) \in Nat /\ build.batch \in Nat \ {0} /\ Len(batchQueue) < build.batch
    BY <1>3, LenProperties, PrefillCovers DEF Covered
  <2> DEFINE d == (build.batch - 1) - Len(batchQueue)
             l == Len(batchQueue)
             c == build.batch - 1
  <2>2. d \in Nat /\ c = l + d /\ l \in Nat
    BY <2>1
  <2> HIDE DEF d, l, c
  <2>3. (l + d) * frameLength = l * frameLength + d * frameLength /\ d * frameLength \in Nat
        /\ l * frameLength \in Nat
    BY <1>2, <2>2
  <2>4. l * frameLength <= c * frameLength
    BY <2>2, <2>3
  <2> QED BY <2>3, <2>4 DEF l, c
<1>15. Len(g) + Len(Rest) < Slack + Quantum
  <2> DEFINE x == Len(batchQueue) * frameLength
             y == (build.batch - 1) * frameLength
  <2>1. x \in Nat /\ x <= y /\ Slack = y + frameLength
    BY <1>14, PrefillCovers
  <2>2. Len(g) = x + Len(cut)
    BY <1>10, <1>12
  <2>3. Len(cut) + Len(Rest) = Len(input) + Quantum /\ Len(input) < frameLength
    BY <1>2, <1>13 DEF Covered
  <2>4. Len(cut) \in Nat /\ Len(Rest) \in Nat /\ Len(input) \in Nat /\ Quantum \in Nat
    BY <1>1, <1>3, LenProperties, PipelineAssumption DEF cut
  <2> HIDE DEF x, y
  <2>5. y \in Int
    <3>1. build.batch - 1 \in Int /\ frameLength \in Int
      BY PrefillCovers
    <3> QED BY <3>1 DEF y
  <2> QED BY <1>2, <2>1, <2>2, <2>3, <2>4, <2>5
<1>16. Len(Rest) < frameLength
  BY <1>1, <1>2, SMTT(30)
<1> QED BY <1>1, <1>5, <1>6, <1>7, <1>10, <1>11, <1>15, <1>16 DEF Behind

LEMMA FramesOfMessage ==
    ASSUME Types, NEW S, S \in {ToMsg, FromMsg}, NEW m \in S
    PROVE  /\ SamplesOf(m.frames) \in Seq(Nat) /\ m.age \in Nat /\ m \in Msg
           /\ m.type \notin {"PROCESS_FRAME_BATCH", "FRAME_RESULT_BATCH"} => SamplesOf(m.frames) = <<>>
PROOF
<1>1. m.age \in Nat
  BY DEF ToMsg, FromMsg
<1>2. m.frames \in Seq(Filled)
  <2>1. <<>> \in Seq(Filled)
    OBVIOUS
  <2>2. CASE m \in ToMsg
    BY <2>1, <2>2 DEF ToMsg
  <2>3. CASE m \in FromMsg
    BY <2>1, <2>3 DEF FromMsg
  <2> QED BY <2>2, <2>3
<1>3. m.frames \in Seq(Piece)
  BY <1>2, Widen, SeqMonotonic DEF Types
<1>4. m.type \notin {"PROCESS_FRAME_BATCH", "FRAME_RESULT_BATCH"} => m.frames = <<>>
  BY DEF ToMsg, FromMsg
<1>5. m \in Msg
  BY Widen DEF Types
<1> QED BY <1>1, <1>3, <1>4, <1>5, SamplesType, SamplesEmpty

\* A quantum later the samples of a batch are as recent for its new age.
LEMMA RecentAged ==
    ASSUME Types, build.timely, NEW S, S \in {ToMsg, FromMsg}, NEW c \in Seq(S), NEW now \in Nat, NEW slack \in Nat,
           \A i \in 1 .. Len(c) : Recent(c[i], now, slack)
    PROVE  \A i \in 1 .. Len(Aged(c)) : Recent(Aged(c)[i], now + Quantum, slack)
PROOF
<1>1. /\ Len(Aged(c)) = Len(c)
      /\ \A i \in 1 .. Len(c) : Aged(c)[i].frames = c[i].frames /\ Aged(c)[i].age = Older(c[i].age)
  BY AgedType
<1>2. Quantum \in Nat
  BY PipelineAssumption
<1>3. ASSUME NEW i \in 1 .. Len(c)
      PROVE  Recent(Aged(c)[i], now + Quantum, slack)
  <2>1. c[i] \in S
    BY ElementOfSeq
  <2>2. SamplesOf(c[i].frames) \in Seq(Nat) /\ c[i].age \in Nat
    BY <2>1, FramesOfMessage
  <2>3. Range(SamplesOf(c[i].frames)) \subseteq Nat
    BY <2>2, RangeOfSeq
  <2> DEFINE a == c[i].age
             b == (a + 1) * Quantum
  <2>4. a \in Nat /\ b \in Nat /\ (a + 1 + 1) * Quantum = b + Quantum
    BY <1>2, <2>2
  <2>5. Aged(c)[i].age = a + 1
    BY <1>1 DEF Older
  <2>6. \A s \in Range(SamplesOf(c[i].frames)) : s # 0 /\ now < s + slack + b
    BY <1>3 DEF Recent
  <2> HIDE DEF a, b
  <2>7. \A s \in Range(SamplesOf(c[i].frames)) : s # 0 /\ now + Quantum < s + slack + (b + Quantum)
    BY <1>2, <2>3, <2>4, <2>6
  <2> QED BY <1>1, <2>4, <2>5, <2>7 DEF Recent
<1> QED BY <1>1, <1>3

\* The guard of a timely build.
LEMMA OnTime ==
    ASSUME Types, Process, build.timely
    PROVE  /\ \A i \in 1 .. Len(toWorker) : toWorker[i].type \in {"PROCESS_FRAME_BATCH", "FRAME_RESULT_BATCH"}
                                              => toWorker[i].age + 1 < 2 * build.batch
           /\ \A i \in 1 .. Len(fromWorker) : fromWorker[i].type \in {"PROCESS_FRAME_BATCH", "FRAME_RESULT_BATCH"}
                                              => fromWorker[i].age + 1 < 2 * build.batch
PROOF
<1>1. \A i \in DOMAIN InFlight :
                    InFlight[i].type \in {"PROCESS_FRAME_BATCH", "FRAME_RESULT_BATCH"}
                        => InFlight[i].age + 1 < 2 * build.batch
  BY DEF Process, RoundTripQuanta
<1> DEFINE m == Len(toWorker)
           n == Len(fromWorker)
<1>2. toWorker \in Seq(Msg) /\ fromWorker \in Seq(Msg)
  BY Wide
<1>3. /\ m \in Nat /\ n \in Nat /\ DOMAIN InFlight = 1 .. m + n
      /\ \A i \in 1 .. m + n : InFlight[i] = IF i <= m THEN toWorker[i] ELSE fromWorker[i - m]
  BY <1>2, ConcatProperties, LenProperties DEF InFlight
<1> HIDE DEF m, n
<1>4. \A i \in 1 .. m : i \in DOMAIN InFlight /\ InFlight[i] = toWorker[i]
  BY <1>3
<1>5. \A i \in 1 .. n : m + i \in DOMAIN InFlight /\ InFlight[m + i] = fromWorker[i]
  <2> SUFFICES ASSUME NEW i \in 1 .. n PROVE m + i \in DOMAIN InFlight /\ InFlight[m + i] = fromWorker[i]
    OBVIOUS
  <2>1. m + i \in 1 .. m + n /\ ~(m + i <= m) /\ (m + i) - m = i
    BY <1>3
  <2> QED BY <1>3, <2>1
<1> QED BY <1>1, <1>4, <1>5 DEF m, n

\* What batches on their way carry once process() has aged them.
LEMMA CarriedLate ==
    ASSUME Types, build.timely, NEW S, S \in {ToMsg, FromMsg}, NEW c \in Seq(S), NEW now \in Nat, NEW slack \in Nat,
           \A i \in 1 .. Len(c) : Recent(c[i], now, slack),
           \A i \in 1 .. Len(c) : c[i].type \in {"PROCESS_FRAME_BATCH", "FRAME_RESULT_BATCH"}
                                   => c[i].age + 1 < 2 * build.batch
    PROVE  \A v \in Range(Carried(c)) : v # 0 /\ now + Quantum < v + slack + (2 * build.batch) * Quantum
PROOF
<1> DEFINE r == (2 * build.batch) * Quantum
           R == {v \in Nat : v # 0 /\ now + Quantum < v + slack + r}
<1>1. Quantum \in Nat \ {0} /\ build.batch \in Nat \ {0} /\ r \in Nat
  BY PrefillCovers
<1>2. ASSUME NEW i \in 1 .. Len(c)
      PROVE  Range(SamplesOf(c[i].frames)) \subseteq R
  <2>1. c[i] \in S
    BY ElementOfSeq
  <2>2. /\ SamplesOf(c[i].frames) \in Seq(Nat) /\ c[i].age \in Nat
        /\ c[i].type \notin {"PROCESS_FRAME_BATCH", "FRAME_RESULT_BATCH"} => SamplesOf(c[i].frames) = <<>>
    BY <2>1, FramesOfMessage
  <2>3. CASE c[i].type \notin {"PROCESS_FRAME_BATCH", "FRAME_RESULT_BATCH"}
    <3>1. SamplesOf(c[i].frames) = <<>>
      BY <2>2, <2>3
    <3>2. Range(<<>>) = {}
      BY DEF Range
    <3> QED BY <3>1, <3>2
  <2>4. CASE c[i].type \in {"PROCESS_FRAME_BATCH", "FRAME_RESULT_BATCH"}
    <3> DEFINE a == c[i].age
               b == (a + 1) * Quantum
               e == 2 * build.batch
               d == e - (a + 1 + 1)
    <3>1. a \in Nat /\ a + 1 < 2 * build.batch
      BY <2>2, <2>4
    <3>2. e \in Nat /\ a + 1 < e
      BY <1>1, <3>1
    <3>3. \A s \in Range(SamplesOf(c[i].frames)) : s # 0 /\ now < s + slack + b
      BY <1>2 DEF Recent
    <3>4. Range(SamplesOf(c[i].frames)) \subseteq Nat
      BY <2>2, RangeOfSeq
    <3>8. r = e * Quantum
      OBVIOUS
    <3> HIDE DEF a, e, r
    <3>5. d \in Nat /\ e = (a + 1) + 1 + d
      BY <3>1, <3>2
    <3> HIDE DEF d
    <3>6. b \in Nat /\ b + Quantum <= r
      <4> DEFINE p == a + 1
      <4>1. p \in Nat
        BY <3>1
      <4> HIDE DEF p
      <4>2. p * Quantum \in Nat /\ (p + 1 + d) * Quantum = p * Quantum + Quantum + d * Quantum
            /\ d * Quantum \in Nat
        BY <1>1, <3>5, <4>1
      <4> QED BY <1>1, <3>5, <3>8, <4>2, SMTT(30) DEF p
    <3> HIDE DEF b
    <3>7. \A s \in Range(SamplesOf(c[i].frames)) : s \in Nat /\ s # 0 /\ now + Quantum < s + slack + r
      BY <1>1, <3>3, <3>4, <3>6
    <3> QED BY <3>7
  <2> QED BY <2>3, <2>4
<1>3. c \in Seq(Msg)
  <2>1. S \subseteq Msg
    BY Widen DEF Types
  <2> QED BY <2>1, SeqMonotonic
<1> HIDE DEF R
<1>4. Range(Carried(c)) \subseteq R
  BY <1>2, <1>3, CarriedRange
<1> QED BY <1>4 DEF R

LEMMA JoinSent ==
    ASSUME NEW f, NEW t, NEW g, NEW i, Seqs(<<>>, f, t, g, i)
    PROVE  /\ Join(<<>>, f, t \o g, <<>>, i) = (f \o t) \o (g \o i)
           /\ Join(<<>>, f, t, g, i) = (f \o t) \o (g \o i)
PROOF
<1>1. f \in Seq(Nat) /\ t \in Seq(Nat)
  BY DEF Seqs
<1>2. g \in Seq(Nat) /\ i \in Seq(Nat)
  BY DEF Seqs
<1>3. Join(<<>>, f, t, g, i) = (f \o t) \o (g \o i)
  BY JoinHalves
<1> DEFINE h == t \o g
           k == f \o t
<1>4. h \in Seq(Nat) /\ k \in Seq(Nat)
  BY <1>1, <1>2, ConcatProperties
<1>5. f \o h = k \o g
  BY <1>1, <1>2, Assoc
<1> HIDE DEF h, k
<1>6. f \o h \in Seq(Nat) /\ k \o g \in Seq(Nat)
  BY <1>1, <1>2, <1>4, ConcatProperties
<1>7. Join(<<>>, f, h, <<>>, i) = (f \o h) \o i
  <2>1. <<>> \o f = f /\ (f \o h) \o <<>> = f \o h
    BY <1>1, <1>6, ConcatEmptySeq
  <2> QED BY <2>1 DEF Join
<1>8. (k \o g) \o i = k \o (g \o i)
  BY <1>2, <1>4, Assoc
<1> QED BY <1>3, <1>5, <1>7, <1>8 DEF h, k

LEMMA PhaseReady ==
    ASSUME Phase, workerReady
    PROVE  prefilled /\ ~destroyed
BY DEF Phase

\* What is left unplayed is less than the prefill covers.
LEMMA ProcessUnplayed ==
    ASSUME Flow, Process, Types', Ideal, Covered, workerReady, starved = 0
    PROVE  /\ \E u \in Seq(Nat) : Line' = output' \o u /\ Len(u) <= Slack + (2 * build.batch) * Quantum
           /\ \A v \in Range(Behind) : v # 0 /\ quanta * Quantum + Quantum < v + Slack + Quantum
PROOF
<1> DEFINE f == Carried(fromWorker)
           t == Carried(toWorker)
           g == SamplesOf(Gathered)
           h == Behind
           r == (2 * build.batch) * Quantum
           n == quanta * Quantum + Quantum
<1>1. Types /\ Phase /\ Sorted /\ Complete /\ build.timely /\ Uniform /\ ~overrun'
  <2>1. ~overrun
    BY NotOverrun DEF Flow
  <2>2. overrun' = overrun
    BY ProcessDoes DEF Flow
  <2> QED BY <2>1, <2>2, NothingLostIs, PhaseReady DEF Flow, Ideal
<1>2. /\ CanAcquire(pool, Needed) /\ Collect(CutFrames) /\ input' = Rest /\ build' = build /\ quanta' = quanta + 1
      /\ fromWorker' = Aged(fromWorker)
  BY <1>1, ProcessDoes
<1>3. /\ Rest \in Seq(Nat) /\ g \in Seq(Nat) /\ h \in Seq(Nat) /\ Len(h) < Slack + Quantum /\ 0 \notin Range(h)
  BY <1>1, <1>2, BehindSize
<1>4. f \in Seq(Nat) /\ t \in Seq(Nat) /\ output' \in Seq(Nat) /\ Line' \in Seq(Nat)
      /\ Carried(Aged(toWorker)) = t /\ Carried(fromWorker') = f
  BY <1>1, <1>2, Pieces, PiecesNext, CarriedAged
<1>5. /\ toWorker \in Seq(ToMsg) /\ fromWorker \in Seq(FromMsg) /\ Aged(toWorker) \in Seq(Msg)
  <2>1. toWorker \in Seq(ToMsg) /\ fromWorker \in Seq(FromMsg) /\ ToMsg \subseteq Msg
    BY <1>1, Widen DEF Types
  <2>2. Aged(toWorker) \in Seq(ToMsg)
    BY <1>1, <2>1, AgedType
  <2> QED BY <2>1, <2>2, SeqMonotonic
<1> DEFINE u == (f \o t) \o h
<1>6. Line' = output' \o u
  <2>1. h = g \o Rest
    BY DEF Behind
  <2>2. Seqs(output', f, t, g, Rest) /\ Seqs(<<>>, f, t, g, Rest)
    <3>1. <<>> \in Seq(Nat)
      OBVIOUS
    <3> HIDE DEF f, t, g
    <3> QED BY <1>3, <1>4, <3>1 DEF Seqs
  <2>3. \/ batchQueue' = Gathered /\ toWorker' = Aged(toWorker)
        \/ /\ batchQueue' = <<>>
           /\ toWorker' = Append(Aged(toWorker), Batch("PROCESS_FRAME_BATCH", Gathered, recycles, 0))
           /\ Batch("PROCESS_FRAME_BATCH", Gathered, recycles, 0) \in ToMsg
    BY <1>1, <1>2, CollectDoes
  <2>4. CASE batchQueue' = Gathered /\ toWorker' = Aged(toWorker)
    <3>1. Line' = Join(output', f, t, g, Rest)
      BY <1>2, <1>4, <2>4, LineJoins
    <3> HIDE DEF f, t, g, h
    <3>2. Join(output', f, t, g, Rest) = output' \o Join(<<>>, f, t, g, Rest)
      BY <2>2, JoinOutput
    <3>3. Join(<<>>, f, t, g, Rest) = (f \o t) \o (g \o Rest)
      BY <2>2, JoinSent
    <3> QED BY <2>1, <3>1, <3>2, <3>3
  <2>5. ASSUME batchQueue' = <<>>,
               toWorker' = Append(Aged(toWorker), Batch("PROCESS_FRAME_BATCH", Gathered, recycles, 0)),
               Batch("PROCESS_FRAME_BATCH", Gathered, recycles, 0) \in ToMsg
        PROVE  Line' = output' \o u
    <3> DEFINE m == Batch("PROCESS_FRAME_BATCH", Gathered, recycles, 0)
               tg == t \o g
    <3>1. m.frames = Gathered
      BY DEF Batch
    <3>2. m \in Msg
      BY <1>1, <2>5, Widen DEF Types
    <3>3. toWorker' = Append(Aged(toWorker), m)
      BY <2>5
    <3> HIDE DEF m
    <3>4. Carried(toWorker') = tg
      <4>1. Carried(toWorker') = Carried(Aged(toWorker)) \o SamplesOf(m.frames)
        BY <1>5, <3>2, <3>3, CarriedAppend
      <4> QED BY <1>4, <3>1, <4>1
    <3>5. SamplesOf(batchQueue') = <<>>
      BY <2>5, SamplesEmpty
    <3>6. Line' = Join(output', f, tg, <<>>, Rest)
      BY <1>2, <1>4, <3>4, <3>5, LineJoins
    <3>7. Seqs(output', f, tg, <<>>, Rest)
      <4>1. tg \in Seq(Nat) /\ <<>> \in Seq(Nat)
        BY <1>3, <1>4, ConcatProperties
      <4> HIDE DEF tg, f
      <4> QED BY <1>3, <1>4, <4>1 DEF Seqs
    <3> HIDE DEF f, t, g, h, tg
    <3>8. Join(output', f, tg, <<>>, Rest) = output' \o Join(<<>>, f, tg, <<>>, Rest)
      BY <3>7, JoinOutput
    <3>9. Join(<<>>, f, tg, <<>>, Rest) = (f \o t) \o (g \o Rest)
      <4>1. Join(<<>>, f, t \o g, <<>>, Rest) = (f \o t) \o (g \o Rest)
        BY <2>2, JoinSent
      <4> QED BY <4>1 DEF tg
    <3> QED BY <2>1, <3>6, <3>8, <3>9
  <2> QED BY <2>3, <2>4, <2>5
<1>7. r \in Nat /\ Quantum <= r /\ Slack \in Nat /\ Quantum \in Nat \ {0} /\ n \in Nat
  <2>1. build.batch \in Nat \ {0} /\ Quantum \in Nat \ {0} /\ Slack \in Nat /\ r \in Nat
    BY <1>1, PrefillCovers
  <2> DEFINE e == 2 * build.batch
             d == e - 1
  <2>2. e \in Nat /\ d \in Nat /\ e = d + 1
    BY <2>1
  <2>3. r = e * Quantum
    OBVIOUS
  <2> HIDE DEF e, d, r
  <2>4. (d + 1) * Quantum = d * Quantum + Quantum /\ d * Quantum \in Nat
    BY <2>1, <2>2
  <2>5. quanta * Quantum \in Nat
    BY <1>1, QuantaType
  <2> QED BY <2>1, <2>2, <2>3, <2>4, <2>5
<1>8. \A v \in Range(f) \cup Range(t) : v # 0 /\ n < v + Slack + r
  <2>1. /\ \A i \in 1 .. Len(toWorker) : Recent(toWorker[i], quanta * Quantum, Slack)
        /\ \A i \in 1 .. Len(fromWorker) : Recent(fromWorker[i], quanta * Quantum, Slack)
    BY DEF Covered
  <2>2. /\ \A i \in 1 .. Len(toWorker) : toWorker[i].type \in {"PROCESS_FRAME_BATCH", "FRAME_RESULT_BATCH"}
                                              => toWorker[i].age + 1 < 2 * build.batch
        /\ \A i \in 1 .. Len(fromWorker) : fromWorker[i].type \in {"PROCESS_FRAME_BATCH", "FRAME_RESULT_BATCH"}
                                              => fromWorker[i].age + 1 < 2 * build.batch
    BY <1>1, OnTime
  <2> DEFINE w == quanta * Quantum
  <2>3. w \in Nat /\ Slack \in Nat
    BY <1>1, <1>7, QuantaType
  <2> HIDE DEF w
  <2>4. \A v \in Range(f) : v # 0 /\ w + Quantum < v + Slack + r
    BY <1>1, <1>5, <2>1, <2>2, <2>3, CarriedLate DEF w
  <2>5. \A v \in Range(t) : v # 0 /\ w + Quantum < v + Slack + r
    BY <1>1, <1>5, <2>1, <2>2, <2>3, CarriedLate DEF w
  <2> QED BY <2>4, <2>5 DEF w
<1>9. u \in Seq(Nat) /\ f \o t \in Seq(Nat) /\ Range(u) = (Range(f) \cup Range(t)) \cup Range(h)
  <2> HIDE DEF f, t, g, h
  <2> DEFINE ft == f \o t
  <2>1. ft \in Seq(Nat) /\ Range(ft) = Range(f) \cup Range(t)
    BY <1>4, ConcatProperties, RangeConcatenation
  <2> HIDE DEF ft
  <2>2. ft \o h \in Seq(Nat) /\ Range(ft \o h) = Range(ft) \cup Range(h)
    BY <1>3, <2>1, ConcatProperties, RangeConcatenation
  <2> QED BY <2>1, <2>2 DEF ft
<1>10. 0 \notin Range(u)
  BY <1>3, <1>8, <1>9
<1>11. Complete' /\ Sorted'
  BY <1>1, ProcessComplete, ProcessSorted
<1>12. lastPlayed' \in Nat /\ lastPlayed' <= n /\ Numbered(output' \o u) = Run(lastPlayed', n)
  <2>1. quanta' * Quantum = n
    BY <1>1, <1>2, QuantaType
  <2>2. lastPlayed' \in Nat
    BY DEF Types
  <2>3. lastPlayed' <= n /\ Numbered(Line') = Run(lastPlayed', n)
    BY <1>11, <2>1 DEF Complete, Sorted
  <2> HIDE DEF u, n
  <2> QED BY <1>6, <2>2, <2>3
<1> DEFINE ft == f \o t
<1>13. u = ft \o h /\ ft \in Seq(Nat)
  BY <1>9
<1> HIDE DEF f, t, g, h, n, r, u, ft
<1>14. PICK x \in Nat : x <= n /\ u = Run(x, n)
  BY <1>4, <1>7, <1>9, <1>10, <1>12, CompleteTail
<1>15. \A v \in Range(h) : v # 0 /\ n < v + Len(h)
  <2>1. ft \o h = Run(x, n)
    BY <1>13, <1>14
  <2> QED BY <1>3, <1>7, <1>13, <1>14, <2>1, RunBack
<1>16. \A v \in Range(h) : v \in Nat /\ v # 0 /\ n < v + Slack + Quantum
  <2>1. Range(h) \subseteq Nat /\ Len(h) \in Nat
    BY <1>3, RangeOfSeq, LenProperties
  <2> QED BY <1>3, <1>7, <1>15, <2>1
<1>17. \A v \in Range(u) : n < v + Slack + r
  <2>1. \A v \in Range(h) : n < v + Slack + r
    BY <1>7, <1>16
  <2> QED BY <1>8, <1>9, <2>1
<1>18. Len(u) = n - x /\ (u # <<>> => x + 1 \in Range(u))
  BY <1>7, <1>9, <1>14, RunEnd
<1>19. Len(u) <= Slack + r
  <2>1. CASE u = <<>>
    <3>1. Len(<<>>) = 0
      OBVIOUS
    <3> QED BY <1>7, <2>1, <3>1
  <2>2. CASE u # <<>>
    <3>1. n < (x + 1) + Slack + r
      BY <1>17, <1>18, <2>2
    <3> QED BY <1>7, <1>14, <1>18, <3>1
  <2> QED BY <2>1, <2>2
<1>20. \A v \in Range(Behind) : v # 0 /\ quanta * Quantum + Quantum < v + Slack + Quantum
  BY <1>16 DEF h, n
<1>21. \E u1 \in Seq(Nat) : Line' = output' \o u1 /\ Len(u1) <= Slack + (2 * build.batch) * Quantum
  BY <1>6, <1>9, <1>19 DEF r
<1> QED BY <1>20, <1>21

\* process() finds a quantum to play: what it cannot play is covered.
LEMMA ProcessCovered ==
    ASSUME Flow, Process, Types', Ideal, Covered, workerReady, starved = 0
    PROVE  starved' = 0 /\ Len(Line') = Len(Line)
PROOF
<1>1. Types /\ Phase /\ prefilled /\ ~overrun'
  <2>1. ~overrun
    BY NotOverrun DEF Flow
  <2>2. overrun' = overrun
    BY ProcessDoes DEF Flow
  <2> QED BY <2>1, <2>2, PhaseReady DEF Flow
<1>2. Supply.held = output
  BY DEF Supply, Queue
<1>3. output \in Seq(Nat) /\ output' \in Seq(Nat) /\ Line \in Seq(Nat) /\ Line' \in Seq(Nat) /\ Fresh \in Seq(Nat)
      /\ Len(Fresh) = Quantum
  <2>1. build' = build
    BY <1>1, ProcessDoes
  <2> QED BY <1>1, <2>1, Pieces, PiecesNext, HeardType
<1>4. starved' = IF Len(output) < Quantum THEN 1 ELSE 0
  <2>1. starved' = IF Len(output) < Quantum /\ prefilled THEN starved + 1 ELSE starved
    BY <1>1, <1>2, ProcessPlays
  <2> QED BY <1>1, <2>1
<1>5. /\ Played(output) \in Seq(Nat)
      /\ Len(Played(output)) = IF Len(output) >= Quantum THEN Quantum ELSE 0
      /\ Len(output') = IF Len(output) >= Quantum THEN Len(output) - Quantum ELSE Len(output)
  BY <1>1, <1>2, ProcessPlays
<1>6. Played(output) \o Line' = Line \o Fresh
  BY <1>1, <1>2, ProcessLine
<1>7. PICK u \in Seq(Nat) : Line' = output' \o u /\ Len(u) <= Slack + (2 * build.batch) * Quantum
  BY ProcessUnplayed
<1>8. Len(Played(output)) + Len(Line') = Len(Line) + Quantum
  <2> DEFINE p == Played(output)
             l == Line
             k == Line'
  <2>1. p \in Seq(Nat) /\ l \in Seq(Nat) /\ k \in Seq(Nat) /\ p \o k = l \o Fresh
    BY <1>3, <1>5, <1>6
  <2> HIDE DEF p, l, k
  <2>2. Len(p \o k) = Len(p) + Len(k) /\ Len(l \o Fresh) = Len(l) + Len(Fresh)
    BY <1>3, <2>1, ConcatProperties
  <2>3. Len(p) + Len(k) = Len(l) + Quantum
    BY <1>3, <2>1, <2>2
  <2> QED BY <2>3 DEF p, l, k
<1>9. Len(Line') = Len(output') + Len(u)
  <2> DEFINE o == output'
             k == Line'
  <2>1. o \in Seq(Nat) /\ k = o \o u
    BY <1>3, <1>7
  <2> HIDE DEF o, k
  <2>2. Len(k) = Len(o) + Len(u)
    BY <2>1, ConcatProperties
  <2> QED BY <2>2 DEF o, k
<1>10. Len(Line) >= Prefill
  BY DEF Covered
<1> DEFINE r == (2 * build.batch) * Quantum
           a == Len(output)
           l == Len(Line)
           k == Len(Line')
           d == Len(u)
           p == Prefill
           s == Slack
<1>11. r \in Nat /\ p \in Nat /\ s \in Nat /\ s + r <= p /\ Quantum \in Nat \ {0}
  BY <1>1, PrefillCovers
<1>12. a \in Nat /\ l \in Nat /\ k \in Nat /\ d \in Nat
  BY <1>3, LenProperties
<1>13. /\ d <= s + r /\ l >= p
       /\ k = (IF a >= Quantum THEN a - Quantum ELSE a) + d
       /\ (IF a >= Quantum THEN Quantum ELSE 0) + k = l + Quantum
  BY <1>4, <1>5, <1>7, <1>8, <1>9, <1>10
<1> HIDE DEF r, a, l, k, d, p, s
<1>14. a >= Quantum /\ k = l
  BY <1>11, <1>12, <1>13
<1>15. ~(a < Quantum) /\ a = Len(output)
  BY <1>11, <1>12, <1>14 DEF a
<1> QED BY <1>4, <1>14, <1>15 DEF k, l

\* What is in a channel stays recent when a recent message is added or one
\* is taken; a message without frames is.
LEMMA RecentChannel ==
    ASSUME NEW S, NEW c \in Seq(S), NEW m \in S, NEW now, NEW slack,
           \A i \in 1 .. Len(c) : Recent(c[i], now, slack)
    PROVE  /\ Recent(m, now, slack) => \A i \in 1 .. Len(Append(c, m)) : Recent(Append(c, m)[i], now, slack)
           /\ c # <<>> => /\ Recent(Head(c), now, slack)
                         /\ \A i \in 1 .. Len(Tail(c)) : Recent(Tail(c)[i], now, slack)
           /\ m.frames = <<>> => Recent(m, now, slack)
PROOF
<1>1. Len(c) \in Nat
  BY LenProperties
<1>2. Recent(m, now, slack) => \A i \in 1 .. Len(Append(c, m)) : Recent(Append(c, m)[i], now, slack)
  <2>1. Len(Append(c, m)) = Len(c) + 1
        /\ \A i \in 1 .. Len(c) + 1 : Append(c, m)[i] = IF i <= Len(c) THEN c[i] ELSE m
    BY AppendProperties
  <2>2. \A i \in 1 .. Len(c) + 1 : i \in 1 .. Len(c) \/ ~(i <= Len(c))
    BY <1>1
  <2> QED BY <1>1, <2>1, <2>2
<1>3. c # <<>> => /\ Recent(Head(c), now, slack)
                  /\ \A i \in 1 .. Len(Tail(c)) : Recent(Tail(c)[i], now, slack)
  <2> SUFFICES ASSUME c # <<>>
      PROVE  Recent(Head(c), now, slack) /\ \A i \in 1 .. Len(Tail(c)) : Recent(Tail(c)[i], now, slack)
    OBVIOUS
  <2>1. /\ Head(c) = c[1] /\ Len(c) # 0 /\ Len(Tail(c)) = Len(c) - 1
        /\ \A i \in 1 .. Len(c) - 1 : Tail(c)[i] = c[i + 1]
    BY HeadTailProperties, EmptySeq
  <2>2. 1 \in 1 .. Len(c) /\ \A i \in 1 .. Len(c) - 1 : i + 1 \in 1 .. Len(c)
    BY <1>1, <2>1
  <2> QED BY <2>1, <2>2
<1>4. m.frames = <<>> => Recent(m, now, slack)
  <2>1. Range(<<>>) = {}
    BY DEF Range
  <2> QED BY <2>1, SamplesEmpty DEF Recent
<1> QED BY <1>2, <1>3, <1>4

\* The batches stay recent: those on their way age with the clock, and a new
\* one takes no more than a batch of frames and a quantum.
LEMMA ProcessRecent ==
    ASSUME Flow, Process, Types', Ideal, Covered, workerReady, starved = 0
    PROVE  /\ Len(batchQueue') < build.batch /\ 0 \notin Range(SamplesOf(batchQueue'))
           /\ \A i \in 1 .. Len(toWorker') : Recent(toWorker'[i], quanta * Quantum + Quantum, Slack)
           /\ \A i \in 1 .. Len(fromWorker') : Recent(fromWorker'[i], quanta * Quantum + Quantum, Slack)
PROOF
<1> DEFINE w == quanta * Quantum
<1>1. Types /\ build.timely /\ Uniform
  BY DEF Flow, Ideal
<1>2. /\ CanAcquire(pool, Needed) /\ Collect(CutFrames) /\ fromWorker' = Aged(fromWorker)
  BY <1>1, ProcessDoes
<1>3. /\ SamplesOf(Gathered) \in Seq(Nat) /\ 0 \notin Range(SamplesOf(Gathered))
      /\ Range(SamplesOf(Gathered)) \subseteq Range(Behind)
  BY <1>1, <1>2, BehindSize
<1>4. \A v \in Range(Behind) : v # 0 /\ w + Quantum < v + Slack + Quantum
  BY ProcessUnplayed
<1>5. w \in Nat /\ Slack \in Nat \ {0} /\ Quantum \in Nat \ {0} /\ build.batch \in Nat \ {0}
  BY <1>1, QuantaType, PrefillCovers
<1>6. /\ toWorker \in Seq(ToMsg) /\ fromWorker \in Seq(FromMsg) /\ Aged(toWorker) \in Seq(ToMsg)
  BY <1>1, AgedType DEF Types
<1>7. /\ \A i \in 1 .. Len(toWorker) : Recent(toWorker[i], w, Slack)
      /\ \A i \in 1 .. Len(fromWorker) : Recent(fromWorker[i], w, Slack)
  BY DEF Covered
<1> HIDE DEF w
<1>8. /\ \A i \in 1 .. Len(Aged(toWorker)) : Recent(Aged(toWorker)[i], w + Quantum, Slack)
      /\ \A i \in 1 .. Len(Aged(fromWorker)) : Recent(Aged(fromWorker)[i], w + Quantum, Slack)
  <2>1. \A i \in 1 .. Len(Aged(toWorker)) : Recent(Aged(toWorker)[i], w + Quantum, Slack)
    BY <1>1, <1>5, <1>6, <1>7, RecentAged
  <2>2. \A i \in 1 .. Len(Aged(fromWorker)) : Recent(Aged(fromWorker)[i], w + Quantum, Slack)
    BY <1>1, <1>5, <1>6, <1>7, RecentAged
  <2> QED BY <2>1, <2>2
<1> DEFINE m == Batch("PROCESS_FRAME_BATCH", Gathered, recycles, 0)
<1>9. Recent(m, w + Quantum, Slack)
  <2>1. m.frames = Gathered /\ m.age = 0 /\ (0 + 1) * Quantum = Quantum
    BY <1>5 DEF Batch
  <2>2. \A v \in Range(SamplesOf(Gathered)) : v # 0 /\ w + Quantum < v + Slack + Quantum
    BY <1>3, <1>4
  <2> HIDE DEF m
  <2> QED BY <2>1, <2>2 DEF Recent
<1>10. \/ Len(Gathered) < build.batch /\ batchQueue' = Gathered /\ toWorker' = Aged(toWorker)
       \/ batchQueue' = <<>> /\ toWorker' = Append(Aged(toWorker), m) /\ m \in ToMsg
  BY <1>1, <1>2, CollectDoes
<1> HIDE DEF m
<1>11. \A i \in 1 .. Len(toWorker') : Recent(toWorker'[i], w + Quantum, Slack)
  BY <1>6, <1>8, <1>9, <1>10, RecentChannel
<1>12. Len(batchQueue') < build.batch /\ 0 \notin Range(SamplesOf(batchQueue'))
  <2>1. CASE Len(Gathered) < build.batch /\ batchQueue' = Gathered
    BY <1>3, <2>1
  <2>2. CASE batchQueue' = <<>>
    <3>1. SamplesOf(batchQueue') = <<>> /\ Len(batchQueue') = 0
      BY <2>2, SamplesEmpty
    <3>2. Range(<<>>) = {}
      BY DEF Range
    <3> QED BY <1>5, <3>1, <3>2
  <2> QED BY <1>10, <2>1, <2>2
<1> QED BY <1>2, <1>8, <1>11, <1>12 DEF w

LEMMA ProcessCushion ==
    ASSUME Flow, Process, Types', Ideal, Covered, starved = 0, prefilled => workerReady
    PROVE  starved' = 0 /\ Covered'
PROOF
<1>1. Types /\ Phase /\ Uniform
  BY DEF Flow, Ideal
<1>2. /\ CanAcquire(pool, Needed) /\ ~destroyed /\ input' = Rest /\ quanta' = quanta + 1
      /\ fromWorker' = Aged(fromWorker) /\ build' = build /\ frameLength' = frameLength
      /\ workerReady' = workerReady
      /\ ~workerReady => batchQueue' = batchQueue /\ toWorker' = toWorker
  BY <1>1, ProcessDoes
<1>3. /\ Len(Rest) < frameLength /\ 0 \notin Range(Rest)
  BY <1>1, <1>2, BehindSize
<1>4. Slack' = Slack /\ Prefill' = Prefill
  BY <1>2 DEF Slack, Prefill, RoundTripQuanta
<1>5. quanta' * Quantum = quanta * Quantum + Quantum
  BY <1>1, <1>2, QuantaType
<1>6. CASE workerReady
  <2>1. starved' = 0 /\ Len(Line') = Len(Line)
    BY <1>6, ProcessCovered
  <2>2. Len(Line) >= Prefill
    BY <1>6 DEF Covered
  <2>3. Len(Line') >= Prefill'
    BY <1>4, <2>1, <2>2
  <2>4. /\ Len(batchQueue') < build.batch /\ 0 \notin Range(SamplesOf(batchQueue'))
        /\ \A i \in 1 .. Len(toWorker') : Recent(toWorker'[i], quanta * Quantum + Quantum, Slack)
        /\ \A i \in 1 .. Len(fromWorker') : Recent(fromWorker'[i], quanta * Quantum + Quantum, Slack)
    BY <1>6, ProcessRecent
  <2>5. Covered'
    BY <1>2, <1>3, <1>4, <1>5, <2>3, <2>4 DEF Covered
  <2> QED BY <2>1, <2>5
<1>7. CASE ~workerReady
  <2>1. ~prefilled /\ toWorker = <<>> /\ fromWorker = <<>> /\ batchQueue = <<>>
    BY <1>1, <1>2, <1>7 DEF Phase
  <2>2. starved' = 0
    <3>1. starved' = IF Len(Supply.held) < Quantum /\ prefilled THEN starved + 1 ELSE starved
      BY <1>1, ProcessPlays
    <3> QED BY <2>1, <3>1
  <2>3. Len(toWorker') = 0 /\ Len(fromWorker') = 0
    <3>1. fromWorker \in Seq(FromMsg) /\ Len(fromWorker) = 0
      BY <1>1, <2>1 DEF Types
    <3>2. Len(Aged(fromWorker)) = Len(fromWorker)
      BY <1>1, <3>1, AgedType
    <3> QED BY <1>2, <1>7, <2>1, <3>1, <3>2
  <2>4. Len(batchQueue') < build.batch /\ 0 \notin Range(SamplesOf(batchQueue'))
    <3>1. batchQueue' = batchQueue
      BY <1>2, <1>7
    <3> QED BY <1>2, <3>1 DEF Covered
  <2>5. \A i \in 1 .. 0 : FALSE
    OBVIOUS
  <2>6. Covered'
    BY <1>2, <1>3, <1>7, <2>3, <2>4, <2>5 DEF Covered
  <2> QED BY <2>2, <2>6
<1> QED BY <1>6, <1>7

\* The first pull after the prefill has all of it.
LEMMA InitPipelineCushion ==
    ASSUME Flow, InitPipeline, Types', Stall', Ideal, Covered, starved = 0, frameLength' = frameLength
    PROVE  workerReady' /\ Covered'
PROOF
<1> DEFINE len == FrameOf(worker.module)
           cap == CapacityOf(frameLength)
           p == Prefill
<1>1. Types /\ Phase /\ Uniform /\ ~overrun
  BY NotOverrun DEF Flow, Ideal
<1>2. /\ ~workerReady /\ ~prefilled /\ ~destroyed /\ len = frameLength /\ build' = build /\ starved' = starved
      /\ \/ workerReady' = TRUE
         \/ /\ workerReady' = FALSE
            /\ Prefill' > 2 * CapacityOf(len) - WriteIndex(Drained(len), CapacityOf(len))
      /\ UNCHANGED <<input, batchQueue, quanta, toWorker, fromWorker>>
  BY <1>1, InitPipelineDoes
<1>3. Slack' = Slack /\ Prefill' = p
  BY <1>2, SameCushion DEF Slack
<1>4. /\ p \in Nat /\ Quantum \in Nat \ {0} /\ frameLength \in Nat \ {0} /\ cap \in Nat
      /\ p + Quantum + frameLength <= cap /\ Len(Line) \in Nat
  BY <1>1, StallTypes DEF Ideal
<1>5. workerReady'
  <2> DEFINE at == WriteIndex(Drained(frameLength), cap)
             n == Len(Drained(frameLength).held) + Drained(frameLength).skew
  <2>1. cap \in Nat \ {0} /\ frameLength \in Lengths
    BY <1>1, <1>4 DEF Types
  <2>2. RingOK(Drained(frameLength), cap)
    BY <1>1, <2>1, DrainedType
  <2>3. n \in Nat /\ at = n % cap
    <3>1. Drained(frameLength).held \in Seq(Nat) /\ Drained(frameLength).skew \in Nat
      BY <2>2 DEF RingOK
    <3> QED BY <3>1, LenProperties DEF WriteIndex
  <2> HIDE DEF n, at
  <2>4. at \in 0 .. cap - 1
    BY <2>1, <2>3, Modulo
  <2> HIDE DEF cap, p
  <2>5. ~(p > 2 * cap - at)
    BY <1>4, <2>1, <2>4
  <2>6. workerReady' = TRUE \/ p > 2 * cap - at
    <3> HIDE DEF len
    <3> QED BY <1>2, <1>3 DEF cap, at
  <2> QED BY <2>5, <2>6
<1>6. toWorker = <<>> /\ fromWorker = <<>> /\ batchQueue = <<>>
  BY <1>1, <1>2 DEF Phase
<1>7. Len(Line') >= Prefill'
  <2>1. ~overrun'
    BY <1>1, <1>2, NotOverrunNext
  <2>2. Len(Line') = Len(Line) + Prefill'
    BY <1>1, <1>5, <2>1, InitPipelineLine
  <2> HIDE DEF p
  <2> QED BY <1>3, <1>4, <2>2
<1> QED BY <1>2, <1>3, <1>5, <1>6, <1>7 DEF Covered

LEMMA ControlCushion ==
    ASSUME Flow, Covered, NEW type, NEW arg, Control(type, arg),
           (type = "SET_MODULE" /\ arg \in Modules) \/ (type = "SET_ENABLED" /\ arg \in {"on", "off"})
    PROVE  Covered'
PROOF
<1>1. Types
  BY DEF Flow
<1>2. /\ toWorker' = Append(toWorker, Message(type, arg))
      /\ UNCHANGED <<build, quanta, input, frameLength, workerReady, batchQueue, fromWorker>>
  BY DEF Control
<1>3. Line' = Line
  BY <1>1, ControlLine
<1>4. Message(type, arg) \in ToMsg /\ Message(type, arg).frames = <<>> /\ toWorker \in Seq(ToMsg)
  BY <1>1, MessageType DEF Types
<1>5. \A i \in 1 .. Len(toWorker) : Recent(toWorker[i], quanta * Quantum, Slack)
  BY DEF Covered
<1> DEFINE m == Message(type, arg)
           w == quanta * Quantum
<1> HIDE DEF m, w
<1>6. \A i \in 1 .. Len(Append(toWorker, m)) : Recent(Append(toWorker, m)[i], w, Slack)
  BY <1>4, <1>5, RecentChannel DEF m, w
<1>7. Slack' = Slack /\ Prefill' = Prefill
  BY <1>2 DEF Slack, Prefill, RoundTripQuanta
<1> QED BY <1>2, <1>3, <1>6, <1>7 DEF Covered, m, w

LEMMA WorkletReceivesCushion ==
    ASSUME Flow, WorkletReceives, Types', Ideal, Covered, ~overrun', frameLength' = frameLength
    PROVE  Covered'
PROOF
<1>1. Types /\ Phase /\ Uniform
  BY DEF Flow, Ideal
<1>2. /\ fromWorker # <<>> /\ fromWorker' = Tail(fromWorker)
      /\ \/ ResultArrives(Head(fromWorker))
         \/ ChangeArrives(Head(fromWorker))
         \/ NothingArrives(Head(fromWorker))
      /\ UNCHANGED <<build, quanta, workerReady, toWorker>>
  BY WorkletReceivesDoes
<1>3. Line' = Line
  BY <1>1, WorkletReceivesLine
<1>5. input' = input /\ batchQueue' = batchQueue
  BY <1>2 DEF ResultArrives, ChangeArrives, NothingArrives
<1>6. fromWorker \in Seq(FromMsg) /\ Head(fromWorker) \in FromMsg
  BY <1>1, <1>2, HeadOfFrom DEF Types
<1>7. \A i \in 1 .. Len(fromWorker) : Recent(fromWorker[i], quanta * Quantum, Slack)
  BY DEF Covered
<1>8. \A i \in 1 .. Len(Tail(fromWorker)) : Recent(Tail(fromWorker)[i], quanta * Quantum, Slack)
  BY <1>2, <1>6, <1>7, RecentChannel
<1>9. Slack' = Slack /\ Prefill' = Prefill
  BY <1>2 DEF Slack, Prefill, RoundTripQuanta
<1> QED BY <1>2, <1>3, <1>5, <1>8, <1>9 DEF Covered

\* The worker answers a batch with the same samples, as old as the batch is.
LEMMA WorkerReceivesCushion ==
    ASSUME Flow, WorkerReceives, Types', Ideal, Covered, ~dropped', ~destroyed
    PROVE  Covered'
PROOF
<1>1. Types /\ Phase /\ Uniform
  BY DEF Flow, Ideal
<1> DEFINE msg == Head(toWorker)
<1>2. /\ toWorker # <<>> /\ toWorker' = Tail(toWorker)
      /\ \/ /\ msg.type = "PROCESS_FRAME_BATCH" /\ CanAcquire(Free(msg), Len(msg.frames))
            /\ \/ BatchDone(msg)
               \/ \E k \in 1 .. Len(msg.frames) : \E l \in {k - 1, k} : BatchFailed(msg, k, l)
         \/ /\ msg.type # "PROCESS_FRAME_BATCH"
            /\ msg.frames = <<>> /\ msg.recycles = <<>>
            /\ \/ \E m \in Modules : Switched(m)
               \/ SameAgain
               \/ \E on \in BOOLEAN : Toggled(on)
               \/ Reset
      /\ UNCHANGED <<build, quanta, input, frameLength, workerReady, destroyed, batchQueue>>
  BY <1>1, WorkerReceivesDoes
<1>3. Line' = Line
  <2>1. Uniform /\ ~dropped' /\ ~destroyed'
    BY <1>1, <1>2
  <2> QED BY <1>1, <2>1, WorkerReceivesLine
<1>4. Slack' = Slack /\ Prefill' = Prefill
  BY <1>2 DEF Slack, Prefill, RoundTripQuanta
<1>5. /\ toWorker \in Seq(ToMsg) /\ msg \in ToMsg /\ fromWorker \in Seq(FromMsg)
  BY <1>1, <1>2, HeadOfTo DEF Types
<1>6. /\ \A i \in 1 .. Len(toWorker) : Recent(toWorker[i], quanta * Quantum, Slack)
      /\ \A i \in 1 .. Len(fromWorker) : Recent(fromWorker[i], quanta * Quantum, Slack)
  BY DEF Covered
<1>7. /\ Recent(msg, quanta * Quantum, Slack)
      /\ \A i \in 1 .. Len(Tail(toWorker)) : Recent(Tail(toWorker)[i], quanta * Quantum, Slack)
  BY <1>2, <1>5, <1>6, RecentChannel
<1>8. \A i \in 1 .. Len(fromWorker') : Recent(fromWorker'[i], quanta * Quantum, Slack)
  <2>1. ASSUME NEW m \in FromMsg, Recent(m, quanta * Quantum, Slack), Respond(m)
        PROVE  \A i \in 1 .. Len(fromWorker') : Recent(fromWorker'[i], quanta * Quantum, Slack)
    <3>1. fromWorker' = Append(fromWorker, m)
      BY <2>1 DEF Respond
    <3>2. \A i \in 1 .. Len(Append(fromWorker, m)) : Recent(Append(fromWorker, m)[i], quanta * Quantum, Slack)
      BY <1>5, <1>6, <2>1, RecentChannel
    <3> QED BY <3>1, <3>2
  <2>2. CASE CanAcquire(Free(msg), Len(msg.frames)) /\ BatchDone(msg)
    <3> DEFINE m == Batch("FRAME_RESULT_BATCH", Results(msg), worker.recycles \o ArraysOf(msg.frames), msg.age)
    <3>1. m.frames = Results(msg) /\ m.age = msg.age
      BY DEF Batch
    <3>2. SamplesOf(m.frames) = SamplesOf(msg.frames)
      BY <1>1, <1>2, <2>2, <3>1, BackFromWorker
    <3>3. Respond(m)
      BY <2>2 DEF BatchDone
    <3>4. m \in FromMsg
      BY <1>1, <1>2, <2>2, DoneType
    <3> HIDE DEF m
    <3>5. Recent(m, quanta * Quantum, Slack)
      BY <1>7, <3>1, <3>2 DEF Recent
    <3> QED BY <2>1, <3>3, <3>4, <3>5
  <2>3. ASSUME NEW k, NEW l, BatchFailed(msg, k, l) PROVE FALSE
    BY <2>3 DEF BatchFailed
  <2>4. ASSUME NEW m \in Modules, Switched(m)
        PROVE  \A i \in 1 .. Len(fromWorker') : Recent(fromWorker'[i], quanta * Quantum, Slack)
    <3> DEFINE c == Message("MODULE_CHANGED", FrameOf(m))
    <3>1. c \in FromMsg /\ c.frames = <<>>
      BY <1>1, MessageType
    <3>2. Respond(c)
      BY <2>4 DEF Switched
    <3> HIDE DEF c
    <3>3. Recent(c, quanta * Quantum, Slack)
      BY <1>5, <1>6, <3>1, RecentChannel
    <3> QED BY <2>1, <3>1, <3>2, <3>3
  <2>5. CASE fromWorker' = fromWorker
    BY <1>6, <2>5
  <2>6. SameAgain => fromWorker' = fromWorker
    BY DEF SameAgain
  <2>7. \A on : Toggled(on) => fromWorker' = fromWorker
    BY DEF Toggled
  <2>8. Reset => fromWorker' = fromWorker
    BY DEF Reset
  <2> HIDE DEF msg
  <2> QED BY <1>2, <2>2, <2>3, <2>4, <2>5, <2>6, <2>7, <2>8
<1> QED BY <1>2, <1>3, <1>4, <1>7, <1>8 DEF Covered

LEMMA InitCushioned ==
    ASSUME Init
    PROVE  Cushioned
PROOF
<1>1. Types
  BY InitTypes
<1>2. frameLength \in Nat \ {0} /\ build.batch \in Nat \ {0}
  BY <1>1, PrefillCovers
<1>3. /\ input = <<>> /\ batchQueue = <<>> /\ toWorker = <<>> /\ fromWorker = <<>> /\ ~workerReady
      /\ starved = 0 /\ ~prefilled
  BY DEF Init
<1>4. Len(<<>>) = 0 /\ Range(<<>>) = {}
  BY DEF Range
<1>5. Covered
  BY <1>2, <1>3, <1>4, SamplesEmpty DEF Covered
<1> QED BY <1>3, <1>5 DEF Cushioned

LEMMA CushionedStep ==
    ASSUME Flow, Flow', Cushioned, [Next]_vars
    PROVE  Cushioned'
PROOF
<1>1. Types /\ Types' /\ Phase /\ Stall /\ Stall'
  BY DEF Flow
<1>2. CASE Process
  <2>1. build' = build /\ dropped' = dropped /\ ~destroyed /\ UNCHANGED <<prefilled, workerReady>>
    BY <1>1, <1>2, ProcessDoes
  <2>2. Ideal' => Ideal
    BY <1>1, <2>1, IdealBefore
  <2>3. Ideal => starved' = 0 /\ Covered' /\ (prefilled => workerReady)
    BY <1>1, <1>2, <2>1, ProcessCushion DEF Cushioned
  <2> QED BY <2>1, <2>2, <2>3 DEF Cushioned
<1>3. CASE InitPipeline
  <2>1. build' = build /\ dropped' = dropped /\ ~destroyed /\ starved' = starved
    BY <1>3 DEF InitPipeline
  <2>2. Ideal' => Ideal /\ frameLength' = frameLength
    BY <1>1, <2>1, IdealBefore
  <2>3. Ideal' => starved' = 0 /\ workerReady' /\ Covered'
    BY <1>1, <1>3, <2>1, <2>2, InitPipelineCushion DEF Cushioned
  <2> QED BY <2>3 DEF Cushioned
<1>4. ASSUME NEW type, NEW arg, Control(type, arg),
             (type = "SET_MODULE" /\ arg \in Modules) \/ (type = "SET_ENABLED" /\ arg \in {"on", "off"})
      PROVE  Cushioned'
  <2>1. build' = build /\ dropped' = dropped /\ destroyed' = destroyed /\ starved' = starved
        /\ UNCHANGED <<prefilled, workerReady>>
    BY <1>4 DEF Control
  <2>2. Ideal' => Ideal
    BY <1>1, <2>1, IdealBefore
  <2>3. Covered => Covered'
    BY <1>4, ControlCushion
  <2> QED BY <2>1, <2>2, <2>3 DEF Cushioned
<1>5. CASE WorkletReceives
  <2>1. build' = build /\ dropped' = dropped /\ destroyed' = destroyed /\ starved' = starved
        /\ UNCHANGED <<prefilled, workerReady>>
    BY <1>5, WorkletReceivesDoes
  <2>2. Ideal' => Ideal /\ frameLength' = frameLength
    BY <1>1, <2>1, IdealBefore
  <2>3. Ideal' => ~overrun'
    BY <1>1, <2>1, <2>2, NotOverrunNext DEF Cushioned
  <2>4. Ideal' /\ Covered => Covered'
    BY <1>1, <1>5, <2>2, <2>3, WorkletReceivesCushion
  <2> QED BY <2>1, <2>2, <2>4 DEF Cushioned
<1>6. CASE WorkerReceives
  <2>1. build' = build /\ destroyed' = destroyed /\ starved' = starved /\ (dropped => dropped')
        /\ UNCHANGED <<prefilled, workerReady>>
    BY <1>1, <1>6, WorkerReceivesDoes, DroppedStays
  <2>2. Ideal' => Ideal /\ ~dropped'
    BY <1>1, <2>1, IdealBefore DEF Ideal
  <2>3. Ideal /\ Covered /\ ~dropped' /\ ~destroyed => Covered'
    BY <1>1, <1>6, WorkerReceivesCushion
  <2> QED BY <2>1, <2>2, <2>3 DEF Cushioned
<1>7. CASE Destroy
  <2>1. build' = build /\ dropped' = dropped /\ destroyed' /\ starved' = starved
    BY <1>7 DEF Destroy, controlVars
  <2>2. Ideal' => Ideal
    BY <1>1, <2>1, IdealBefore
  <2> QED BY <2>1, <2>2 DEF Cushioned
<1>8. CASE UNCHANGED vars
  <2>1. /\ UNCHANGED <<build, quanta, input, output, frameLength, workerReady, prefilled, destroyed, batchQueue>>
        /\ UNCHANGED <<toWorker, fromWorker, starved, dropped>>
    BY <1>8 DEF vars, outputVars
  <2>2. Slack' = Slack /\ Prefill' = Prefill /\ Line' = Line /\ (Ideal' => Ideal)
    <3>1. Ideal' => Ideal
      BY <1>1, <2>1, IdealBefore
    <3> QED BY <2>1, <3>1 DEF Slack, Prefill, RoundTripQuanta, Line
  <2>3. Covered => Covered'
    BY <2>1, <2>2 DEF Covered
  <2> QED BY <2>1, <2>2, <2>3 DEF Cushioned
<1> QED BY <1>2, <1>3, <1>4, <1>5, <1>6, <1>7, <1>8 DEF Next

\* The prefill is enough, whatever the frame, batch and quantum sizes, as long
\* as the cushion fits the output queue: while batches return within the round
\* trip it allows for and none is dropped, process() never lacks samples after
\* it (_sendBatch and the prefill of AudioPipelineWorklet.ts, lines 241 to 263).
THEOREM PrefillSuffices == Spec => []NoUnderrun
PROOF
<1>1. Init => Flow /\ Cushioned
  BY InitFlow, InitCushioned
<1>2. (Flow /\ Cushioned) /\ [Next]_vars => (Flow /\ Cushioned)'
  BY FlowStep, CushionedStep
<1>3. Flow /\ Cushioned => NoUnderrun
  BY DEF Cushioned, Ideal, Uniform, NoUnderrun
<1> QED BY <1>1, <1>2, <1>3, PTL DEF Spec

-----------------------------------------------------------------------------
(* Arrays are owned once.                                                  *)

IdsIn(list) == {list[i].id : i \in 1 .. Len(list)}
Distinct(list) == \A i, j \in 1 .. Len(list) : list[i].id = list[j].id => i = j

\* The arrays in a message, and in the messages of a channel.
Inside(msg) == ArraysOf(msg.frames) \o msg.recycles
Held(channel) == FlattenSeq([i \in DOMAIN channel |-> Inside(channel[i])])

LEMMA DistinctConcat ==
    ASSUME NEW s \in Seq(Buf), NEW t \in Seq(Buf)
    PROVE  /\ s \o t \in Seq(Buf) /\ IdsIn(s \o t) = IdsIn(s) \cup IdsIn(t)
           /\ Distinct(s \o t) <=> (Distinct(s) /\ Distinct(t) /\ IdsIn(s) \cap IdsIn(t) = {})
PROOF
<1> DEFINE u == s \o t
           m == Len(s)
           n == Len(t)
<1>1. u \in Seq(Buf) /\ Len(u) = m + n /\ \A i \in 1 .. m + n : u[i] = IF i <= m THEN s[i] ELSE t[i - m]
  BY ConcatProperties
<1>2. m \in Nat /\ n \in Nat
  BY LenProperties
<1>9. m = Len(s) /\ n = Len(t)
  OBVIOUS
<1> HIDE DEF u, m, n
<1>3. \A i \in 1 .. m : i \in 1 .. m + n /\ u[i] = s[i]
  BY <1>1, <1>2
<1>4. \A i \in 1 .. n : m + i \in 1 .. m + n /\ u[m + i] = t[i]
  <2> SUFFICES ASSUME NEW i \in 1 .. n PROVE m + i \in 1 .. m + n /\ u[m + i] = t[i]
    OBVIOUS
  <2>1. m + i \in 1 .. m + n /\ ~(m + i <= m) /\ (m + i) - m = i
    BY <1>2
  <2> QED BY <1>1, <2>1
<1>5. \A k \in 1 .. m + n : \/ k \in 1 .. m /\ u[k] = s[k]
                            \/ k - m \in 1 .. n /\ u[k] = t[k - m]
  BY <1>1, <1>2
<1>15. \A k \in 1 .. m + n : k - m \in 1 .. n => u[k] = t[k - m]
  BY <1>1, <1>2
<1>6. {u[i].id : i \in 1 .. m + n} = {s[i].id : i \in 1 .. m} \cup {t[i].id : i \in 1 .. n}
  BY <1>3, <1>4, <1>5
<1>7. (\A i, j \in 1 .. m + n : u[i].id = u[j].id => i = j)
        => /\ \A i, j \in 1 .. m : s[i].id = s[j].id => i = j
           /\ \A i, j \in 1 .. n : t[i].id = t[j].id => i = j
           /\ \A i \in 1 .. m : \A j \in 1 .. n : s[i].id # t[j].id
  <2> SUFFICES ASSUME \A i, j \in 1 .. m + n : u[i].id = u[j].id => i = j
               PROVE  /\ \A i, j \in 1 .. m : s[i].id = s[j].id => i = j
                      /\ \A i, j \in 1 .. n : t[i].id = t[j].id => i = j
                      /\ \A i \in 1 .. m : \A j \in 1 .. n : s[i].id # t[j].id
    OBVIOUS
  <2>1. \A i, j \in 1 .. m : s[i].id = s[j].id => i = j
    BY <1>3
  <2>2. ASSUME NEW i \in 1 .. n, NEW j \in 1 .. n, t[i].id = t[j].id PROVE i = j
    <3>1. u[m + i].id = u[m + j].id /\ m + i \in 1 .. m + n /\ m + j \in 1 .. m + n
      BY <1>4, <2>2
    <3>2. m + i = m + j
      BY <3>1
    <3> QED BY <1>2, <3>2
  <2>3. ASSUME NEW i \in 1 .. m, NEW j \in 1 .. n, s[i].id = t[j].id PROVE FALSE
    <3>1. u[i].id = u[m + j].id /\ i \in 1 .. m + n /\ m + j \in 1 .. m + n
      BY <1>3, <1>4, <2>3
    <3>2. i = m + j
      BY <3>1
    <3> QED BY <1>2, <3>2
  <2> QED BY <2>1, <2>2, <2>3
<1>8. ASSUME \A i, j \in 1 .. m : s[i].id = s[j].id => i = j,
             \A i, j \in 1 .. n : t[i].id = t[j].id => i = j,
             \A i \in 1 .. m : \A j \in 1 .. n : s[i].id # t[j].id,
             NEW k \in 1 .. m + n, NEW l \in 1 .. m + n, u[k].id = u[l].id
      PROVE  k = l
  <2>1. CASE k \in 1 .. m /\ l \in 1 .. m
    BY <1>3, <1>8, <2>1
  <2>2. CASE k - m \in 1 .. n /\ l - m \in 1 .. n
    <3>1. u[k] = t[k - m] /\ u[l] = t[l - m]
      BY <1>15, <2>2
    <3>2. k - m = l - m
      BY <1>8, <2>2, <3>1
    <3> QED BY <1>2, <3>2
  <2>3. CASE k \in 1 .. m /\ l - m \in 1 .. n
    <3>1. u[k] = s[k] /\ u[l] = t[l - m]
      BY <1>3, <1>15, <2>3
    <3> QED BY <1>8, <2>3, <3>1
  <2>4. CASE l \in 1 .. m /\ k - m \in 1 .. n
    <3>1. u[l] = s[l] /\ u[k] = t[k - m]
      BY <1>3, <1>15, <2>4
    <3> QED BY <1>8, <2>4, <3>1
  <2> QED BY <1>5, <2>1, <2>2, <2>3, <2>4
<1>10. IdsIn(s) \cap IdsIn(t) = {} <=> \A i \in 1 .. m : \A j \in 1 .. n : s[i].id # t[j].id
  <2>1. IdsIn(s) = {s[i].id : i \in 1 .. m} /\ IdsIn(t) = {t[i].id : i \in 1 .. n}
    BY <1>9 DEF IdsIn
  <2> QED BY <2>1
<1>11. Distinct(u) <=> \A i, j \in 1 .. m + n : u[i].id = u[j].id => i = j
  BY <1>1 DEF Distinct
<1>12. Distinct(s) /\ Distinct(t) <=> /\ \A i, j \in 1 .. m : s[i].id = s[j].id => i = j
                                      /\ \A i, j \in 1 .. n : t[i].id = t[j].id => i = j
  BY <1>9 DEF Distinct
<1>13. IdsIn(u) = IdsIn(s) \cup IdsIn(t)
  BY <1>1, <1>6, <1>9 DEF IdsIn
<1>14. Distinct(u) <=> (Distinct(s) /\ Distinct(t) /\ IdsIn(s) \cap IdsIn(t) = {})
  BY <1>7, <1>8, <1>10, <1>11, <1>12
<1> QED BY <1>1, <1>13, <1>14 DEF u

LEMMA DistinctEmpty == Distinct(<<>>) /\ IdsIn(<<>>) = {}
PROOF
<1>1. 1 .. Len(<<>>) = {}
  OBVIOUS
<1> QED BY <1>1 DEF Distinct, IdsIn

\* The first of a list of arrays.
LEMMA DistinctPrefix ==
    ASSUME NEW s \in Seq(Buf), NEW n \in 0 .. Len(s)
    PROVE  /\ SubSeq(s, 1, n) \in Seq(Buf) /\ IdsIn(SubSeq(s, 1, n)) \subseteq IdsIn(s)
           /\ Distinct(s) => Distinct(SubSeq(s, 1, n))
PROOF
<1> DEFINE p == SubSeq(s, 1, n)
<1>1. Len(s) \in Nat
  BY LenProperties
<1>2. p \in Seq(Buf) /\ Len(p) = n /\ \A i \in 1 .. n : p[i] = s[i]
  BY <1>1, SubSeqProperties
<1>3. \A i \in 1 .. n : i \in 1 .. Len(s)
  BY <1>1
<1> HIDE DEF p
<1>4. IdsIn(p) \subseteq IdsIn(s)
  BY <1>2, <1>3 DEF IdsIn
<1>5. Distinct(s) => Distinct(p)
  BY <1>2, <1>3 DEF Distinct
<1> QED BY <1>2, <1>4, <1>5 DEF p

\* A flattened sequence with one more at its end, or at its front.
LEMMA FlattenLonger ==
    ASSUME NEW S, NEW a \in Seq(Seq(S)), NEW b \in Seq(Seq(S)), Len(b) = Len(a) + 1
    PROVE  /\ (\A i \in 1 .. Len(a) : b[i] = a[i]) => FlattenSeq(b) = FlattenSeq(a) \o b[Len(b)]
           /\ (\A i \in 1 .. Len(a) : b[i + 1] = a[i]) => FlattenSeq(b) = b[1] \o FlattenSeq(a)
PROOF
<1> DEFINE n == Len(a)
<1>1. n \in Nat /\ n + 1 \in 1 .. Len(b) /\ 1 \in 1 .. Len(b)
  BY LenProperties
<1>2. b[n + 1] \in Seq(S) /\ b[1] \in Seq(S) /\ b # <<>>
  BY <1>1, ElementOfSeq
<1>3. ASSUME \A i \in 1 .. n : b[i] = a[i]
      PROVE  FlattenSeq(b) = FlattenSeq(a) \o b[Len(b)]
  <2> DEFINE e == b[n + 1]
             c == Append(a, e)
  <2>1. e \in Seq(S)
    BY <1>2
  <2> HIDE DEF e
  <2>2. c \in Seq(Seq(S)) /\ Len(c) = n + 1 /\ c[n + 1] = e /\ \A i \in 1 .. n : c[i] = a[i]
    BY <2>1, AppendProperties
  <2>3. ASSUME NEW i \in 1 .. n + 1 PROVE b[i] = c[i]
    <3>1. i \in 1 .. n \/ i = n + 1
      BY <1>1
    <3> QED BY <1>3, <2>2, <3>1 DEF e
  <2>4. b = c
    BY <2>2, <2>3, SeqEqual
  <2>5. FlattenSeq(c) = FlattenSeq(a) \o e
    BY <2>1, FlattenOne
  <2> QED BY <2>4, <2>5 DEF e
<1>4. ASSUME \A i \in 1 .. n : b[i + 1] = a[i]
      PROVE  FlattenSeq(b) = b[1] \o FlattenSeq(a)
  <2>1. /\ Tail(b) \in Seq(Seq(S)) /\ Len(Tail(b)) = Len(b) - 1 /\ Head(b) = b[1]
        /\ \A i \in 1 .. Len(Tail(b)) : Tail(b)[i] = b[i + 1]
    BY <1>2, HeadTailProperties
  <2>2. Len(Tail(b)) = Len(a)
    BY <1>1, <2>1
  <2>3. ASSUME NEW i \in 1 .. Len(a) PROVE Tail(b)[i] = a[i]
    BY <1>4, <2>1, <2>2
  <2>4. Tail(b) = a
    BY <2>1, <2>2, <2>3, SeqEqual
  <2> QED BY <1>2, <2>1, <2>4, FlattenHead
<1> QED BY <1>3, <1>4

LEMMA HeldMap ==
    ASSUME NEW c \in Seq(Msg), c \in Seq(ToMsg) \/ c \in Seq(FromMsg), build \in Builds
    PROVE  LET m == [i \in DOMAIN c |-> Inside(c[i])]
           IN  /\ m \in Seq(Seq(Buf)) /\ Len(m) = Len(c)
               /\ \A i \in 1 .. Len(c) : m[i] = Inside(c[i])
PROOF
<1> DEFINE m == [i \in DOMAIN c |-> Inside(c[i])]
<1>1. DOMAIN c = 1 .. Len(c) /\ Len(c) \in Nat
  BY LenProperties
<1>2. ASSUME NEW i \in 1 .. Len(c)
      PROVE  Inside(c[i]) \in Seq(Buf)
  <2>1. c[i].frames \in Seq(Filled) /\ c[i].recycles \in Seq(AnyArray)
    <3>1. c[i] \in ToMsg \/ c[i] \in FromMsg
      BY ElementOfSeq
    <3>2. <<>> \in Seq(Filled) /\ <<>> \in Seq(AnyArray)
      OBVIOUS
    <3>3. CASE c[i] \in ToMsg
      BY <3>2, <3>3 DEF ToMsg
    <3>4. CASE c[i] \in FromMsg
      BY <3>2, <3>4 DEF FromMsg
    <3> QED BY <3>1, <3>3, <3>4
  <2>2. ArraysOf(c[i].frames) \in Seq(AnyArray) /\ AnyArray \subseteq Buf
    BY <2>1, ArraysOfType, Widen
  <2>3. ArraysOf(c[i].frames) \in Seq(Buf) /\ c[i].recycles \in Seq(Buf)
    BY <2>1, <2>2, SeqMonotonic
  <2> QED BY <2>3, ConcatProperties DEF Inside
<1>3. m \in [1 .. Len(c) -> Seq(Buf)]
  BY <1>1, <1>2
<1> QED BY <1>1, <1>3

LEMMA HeldType ==
    ASSUME build \in Builds, NEW S, S \in {ToMsg, FromMsg}, NEW c \in Seq(S)
    PROVE  Held(c) \in Seq(Buf)
PROOF
<1>1. c \in Seq(Msg) /\ (c \in Seq(ToMsg) \/ c \in Seq(FromMsg))
  BY Widen, SeqMonotonic
<1> QED BY <1>1, HeldMap, FlattenType DEF Held

LEMMA HeldEmpty == Held(<<>>) = <<>>
PROOF
<1>1. [i \in DOMAIN <<>> |-> Inside(<<>>[i])] = <<>>
  OBVIOUS
<1> QED BY <1>1, FlattenEmpty DEF Held

\* Channels that hold the same arrays.
LEMMA HeldSame ==
    ASSUME NEW c \in Seq(Msg), NEW d \in Seq(Msg), Len(c) = Len(d),
           \A i \in 1 .. Len(c) : c[i].frames = d[i].frames /\ c[i].recycles = d[i].recycles
    PROVE  Held(c) = Held(d)
PROOF
<1>1. DOMAIN c = DOMAIN d /\ DOMAIN c = 1 .. Len(c)
  BY LenProperties
<1>2. [i \in DOMAIN c |-> Inside(c[i])] = [i \in DOMAIN d |-> Inside(d[i])]
  BY <1>1 DEF Inside
<1> QED BY <1>2 DEF Held

LEMMA HeldEnds ==
    ASSUME build \in Builds, NEW S, S \in {ToMsg, FromMsg}, NEW c \in Seq(S), NEW x \in S
    PROVE  /\ Held(Append(c, x)) = Held(c) \o Inside(x)
           /\ c # <<>> => Held(c) = Inside(Head(c)) \o Held(Tail(c))
PROOF
<1> DEFINE m(y) == [i \in DOMAIN y |-> Inside(y[i])]
<1>1. \A y \in Seq(S) : m(y) \in Seq(Seq(Buf)) /\ Len(m(y)) = Len(y) /\ \A i \in 1 .. Len(y) : m(y)[i] = Inside(y[i])
  <2> SUFFICES ASSUME NEW y \in Seq(S)
               PROVE  m(y) \in Seq(Seq(Buf)) /\ Len(m(y)) = Len(y) /\ \A i \in 1 .. Len(y) : m(y)[i] = Inside(y[i])
    OBVIOUS
  <2>1. y \in Seq(Msg) /\ (y \in Seq(ToMsg) \/ y \in Seq(FromMsg))
    BY Widen, SeqMonotonic
  <2> QED BY <2>1, HeldMap
<1>2. \A y : Held(y) = FlattenSeq(m(y))
  BY DEF Held
<1>3. Len(c) \in Nat
  BY LenProperties
<1> HIDE DEF m
<1>4. Held(Append(c, x)) = Held(c) \o Inside(x)
  <2>1. /\ Append(c, x) \in Seq(S) /\ Len(Append(c, x)) = Len(c) + 1
        /\ Append(c, x)[Len(c) + 1] = x /\ \A i \in 1 .. Len(c) : Append(c, x)[i] = c[i]
    BY AppendProperties
  <2> DEFINE a == m(c)
             b == m(Append(c, x))
  <2>2. a \in Seq(Seq(Buf)) /\ b \in Seq(Seq(Buf)) /\ Len(a) = Len(c) /\ Len(b) = Len(c) + 1
    BY <1>1, <2>1
  <2>3. b[Len(c) + 1] = Inside(x) /\ \A i \in 1 .. Len(c) : b[i] = a[i]
    <3>1. Len(c) + 1 \in 1 .. Len(c) + 1 /\ \A i \in 1 .. Len(c) : i \in 1 .. Len(c) + 1
      BY <1>3
    <3> QED BY <1>1, <2>1, <3>1
  <2> HIDE DEF a, b
  <2>4. FlattenSeq(b) = FlattenSeq(a) \o b[Len(b)]
    BY <2>2, <2>3, FlattenLonger
  <2> QED BY <1>2, <2>2, <2>3, <2>4 DEF a, b
<1>5. ASSUME c # <<>>
      PROVE  Held(c) = Inside(Head(c)) \o Held(Tail(c))
  <2> DEFINE d == Tail(c)
             a == m(d)
             b == m(c)
             n == Len(c)
  <2>1. /\ d \in Seq(S) /\ Len(d) = n - 1 /\ n # 0 /\ n \in Nat
        /\ \A i \in 1 .. n - 1 : d[i] = c[i + 1]
        /\ Head(c) = c[1]
    BY <1>3, <1>5, HeadTailProperties, EmptySeq
  <2>9. c \in Seq(S) /\ Len(c) = n
    OBVIOUS
  <2> HIDE DEF d, n
  <2>5. a \in Seq(Seq(Buf)) /\ Len(a) = Len(d) /\ \A i \in 1 .. Len(d) : a[i] = Inside(d[i])
    BY <1>1, <2>1
  <2>6. b \in Seq(Seq(Buf)) /\ Len(b) = n /\ \A i \in 1 .. n : b[i] = Inside(c[i])
    BY <1>1, <2>9
  <2> HIDE DEF a, b
  <2>2. Len(b) = Len(a) + 1
    BY <2>1, <2>5, <2>6
  <2>3. b[1] = Inside(Head(c)) /\ \A i \in 1 .. Len(a) : b[i + 1] = a[i]
    <3>1. 1 \in 1 .. n /\ \A i \in 1 .. n - 1 : i + 1 \in 1 .. n
      BY <2>1
    <3> QED BY <2>1, <2>5, <2>6, <3>1
  <2>4. FlattenSeq(b) = b[1] \o FlattenSeq(a)
    BY <2>2, <2>3, <2>5, <2>6, FlattenLonger
  <2> QED BY <1>2, <2>3, <2>4 DEF a, b, d
<1> QED BY <1>4, <1>5

\* Sets of identities that are disjoint: of the batch, the recycles of both
\* sides, the two channels and the two pools.
Apart(a, b, c, d, e, p, w) ==
    /\ a \cap (b \cup c \cup d \cup e \cup p \cup w) = {}
    /\ b \cap (c \cup d \cup e \cup p \cup w) = {}
    /\ c \cap (d \cup e \cup p \cup w) = {}
    /\ d \cap (e \cup p \cup w) = {}
    /\ e \cap (p \cup w) = {}
    /\ p \cap w = {}

All(a, b, c, d, e, p, w) == a \cup b \cup c \cup d \cup e \cup p \cup w

LEMMA ApartLess ==
    ASSUME NEW a, NEW b, NEW c, NEW d, NEW e, NEW p, NEW w, Apart(a, b, c, d, e, p, w),
           NEW k, NEW l, NEW m, NEW n, NEW o, k \subseteq c, l \subseteq d, m \subseteq e, n \subseteq p, o \subseteq w
    PROVE  Apart(a, b, k, l, m, n, o)
BY DEF Apart

\* Arrays g are taken from the pool p or are new (of u), for the batch.
LEMMA ApartTaken ==
    ASSUME NEW a, NEW b, NEW c, NEW d, NEW e, NEW p, NEW w, Apart(a, b, c, d, e, p, w),
           NEW g, NEW u, g \subseteq p \cup u, u \cap All(a, b, c, d, e, p, w) = {}
    PROVE  /\ a \cap g = {} /\ (a \cup g) \cap b = {} /\ d \cap ((a \cup g) \cup b) = {}
           /\ Apart(a \cup g, b, c, d, e, p \ g, w)
           /\ Apart({}, {}, c, d \cup ((a \cup g) \cup b), e, p \ g, w)
           /\ Apart(a, b, c, d, e, p \cup g, w)
BY DEF Apart, All

Own(a, b, c, d, e, p, w) ==
    /\ Distinct(a) /\ Distinct(b) /\ Distinct(c) /\ Distinct(d) /\ Distinct(e)
    /\ Apart(IdsIn(a), IdsIn(b), IdsIn(c), IdsIn(d), IdsIn(e), IdsOf(p), IdsOf(w))

\* Every array is in one place, once.
Owned == Own(ArraysOf(batchQueue), recycles, worker.recycles, Held(toWorker), Held(fromWorker), pool, worker.pool)

\* The arrays that are unused are in none of them.
LEMMA UnusedApart ==
    ASSUME Types
    PROVE  Unused \cap All(IdsIn(ArraysOf(batchQueue)), IdsIn(recycles), IdsIn(worker.recycles),
                           IdsIn(Held(toWorker)), IdsIn(Held(fromWorker)), IdsOf(pool), IdsOf(worker.pool)) = {}
PROOF
<1>1. \A s \in Seq(Buf) : IdsIn(s) = IdsOf(Range(s))
  <2> SUFFICES ASSUME NEW s \in Seq(Buf) PROVE IdsIn(s) = IdsOf(Range(s))
    OBVIOUS
  <2>1. Range(s) = {s[k] : k \in 1 .. Len(s)}
    BY RangeEquality
  <2> QED BY <2>1 DEF IdsIn, IdsOf
<1>2. ASSUME NEW S, S \in {ToMsg, FromMsg}, NEW c \in Seq(S), InMessages(c) \subseteq Live
      PROVE  IdsIn(Held(c)) \cap Unused = {}
  <2> DEFINE m == [i \in DOMAIN c |-> Inside(c[i])]
  <2>0. build \in Builds
    BY DEF Types
  <2>1. c \in Seq(Msg) /\ (c \in Seq(ToMsg) \/ c \in Seq(FromMsg))
    BY <1>2, <2>0, Widen, SeqMonotonic
  <2>2. m \in Seq(Seq(Buf)) /\ Len(m) = Len(c) /\ \A i \in 1 .. Len(c) : m[i] = Inside(c[i])
    BY <2>0, <2>1, HeldMap
  <2>3. Held(c) = FlattenSeq(m) /\ Held(c) \in Seq(Buf)
    BY <1>2, <2>0, HeldType DEF Held
  <2> HIDE DEF m
  <2>4. ASSUME NEW i \in 1 .. Len(m) PROVE Range(m[i]) \subseteq InMessages(c)
    <3>1. c[i] \in S /\ i \in DOMAIN c
      BY <2>2, ElementOfSeq, LenProperties
    <3>2. c[i].frames \in Seq(Filled) /\ c[i].recycles \in Seq(AnyArray)
      <4>1. <<>> \in Seq(Filled) /\ <<>> \in Seq(AnyArray)
        OBVIOUS
      <4>2. CASE c[i] \in ToMsg
        BY <4>1, <4>2 DEF ToMsg
      <4>3. CASE c[i] \in FromMsg
        BY <4>1, <4>3 DEF FromMsg
      <4> QED BY <1>2, <3>1, <4>2, <4>3
    <3>3. Range(ArraysOf(c[i].frames) \o c[i].recycles) = Range(ArraysOf(c[i].frames)) \cup Range(c[i].recycles)
      <4>1. ArraysOf(c[i].frames) \in Seq(AnyArray)
        BY <3>2, ArraysOfType
      <4> QED BY <3>2, <4>1, RangeConcatenation
    <3> QED BY <2>2, <3>1, <3>3 DEF Inside, InMessages
  <2>5. Range(Held(c)) \subseteq InMessages(c)
    BY <2>2, <2>3, <2>4, FlattenRange
  <2>6. IdsOf(Range(Held(c))) \cap Unused = {}
    BY <1>2, <2>5, PoolUsed
  <2> QED BY <1>1, <2>3, <2>6
<1>3. /\ IdsIn(Held(toWorker)) \cap Unused = {} /\ IdsIn(Held(fromWorker)) \cap Unused = {}
  <2>1. InMessages(toWorker) \subseteq Live /\ InMessages(fromWorker) \subseteq Live
    BY DEF Live
  <2> QED BY <1>2, <2>1 DEF Types
<1>4. /\ IdsIn(ArraysOf(batchQueue)) \cap Unused = {} /\ IdsIn(recycles) \cap Unused = {}
      /\ IdsIn(worker.recycles) \cap Unused = {}
  <2>1. ArraysOf(batchQueue) \in Seq(Buf) /\ recycles \in Seq(Buf) /\ worker.recycles \in Seq(Buf)
    <3>1. ArraysOf(batchQueue) \in Seq(AnyArray) /\ AnyArray \subseteq Buf
      BY ArraysOfType, Widen DEF Types
    <3> QED BY <3>1, Wide, SeqMonotonic
  <2>2. Range(ArraysOf(batchQueue)) \subseteq Live /\ Range(recycles) \subseteq Live /\ Range(worker.recycles) \subseteq Live
    BY DEF Live
  <2> QED BY <1>1, <2>1, <2>2, PoolUsed
<1>5. IdsOf(pool) \cap Unused = {} /\ IdsOf(worker.pool) \cap Unused = {}
  BY PoolUsed
<1> QED BY <1>3, <1>4, <1>5 DEF All

LEMMA ArraysConcat ==
    ASSUME NEW f \in Seq(Filled), NEW g \in Seq(Filled)
    PROVE  ArraysOf(f \o g) = ArraysOf(f) \o ArraysOf(g)
PROOF
<1> DEFINE h == f \o g
           a == ArraysOf(f)
           b == ArraysOf(g)
           c == ArraysOf(h)
           m == Len(f)
           n == Len(g)
<1>1. h \in Seq(Filled) /\ Len(h) = m + n /\ \A i \in 1 .. m + n : h[i] = IF i <= m THEN f[i] ELSE g[i - m]
  BY ConcatProperties
<1>2. m \in Nat /\ n \in Nat /\ f \in Seq(Filled) /\ g \in Seq(Filled) /\ Len(f) = m /\ Len(g) = n
  BY LenProperties
<1> HIDE DEF h, m, n
<1>3. a \in Seq(AnyArray) /\ Len(a) = m /\ \A i \in 1 .. m : a[i] = f[i].buf
  BY <1>2, ArraysOfType
<1>4. b \in Seq(AnyArray) /\ Len(b) = n /\ \A i \in 1 .. n : b[i] = g[i].buf
  BY <1>2, ArraysOfType
<1>5. c \in Seq(AnyArray) /\ Len(c) = m + n /\ \A i \in 1 .. m + n : c[i] = h[i].buf
  BY <1>1, ArraysOfType
<1> HIDE DEF a, b, c
<1>6. a \o b \in Seq(AnyArray) /\ Len(a \o b) = m + n
      /\ \A i \in 1 .. m + n : (a \o b)[i] = IF i <= m THEN a[i] ELSE b[i - m]
  BY <1>3, <1>4, ConcatProperties
<1>7. ASSUME NEW i \in 1 .. m + n PROVE c[i] = (a \o b)[i]
  <2>1. CASE i <= m
    <3>1. i \in 1 .. m
      BY <1>2, <2>1
    <3> QED BY <1>1, <1>3, <1>5, <1>6, <2>1, <3>1
  <2>2. CASE ~(i <= m)
    <3>1. i - m \in 1 .. n
      BY <1>2, <2>2
    <3> QED BY <1>1, <1>4, <1>5, <1>6, <2>2, <3>1
  <2> QED BY <2>1, <2>2
<1>8. c = a \o b
  BY <1>5, <1>6, <1>7, SeqEqual
<1> QED BY <1>8 DEF a, b, c, h

\* The lists of arrays are lists.
LEMMA Lists ==
    ASSUME Types
    PROVE  /\ ArraysOf(batchQueue) \in Seq(Buf) /\ recycles \in Seq(Buf) /\ worker.recycles \in Seq(Buf)
           /\ Held(toWorker) \in Seq(Buf) /\ Held(fromWorker) \in Seq(Buf) /\ build \in Builds
           /\ AnyArray \subseteq Buf /\ Seq(AnyArray) \subseteq Seq(Buf)
PROOF
<1>1. build \in Builds /\ toWorker \in Seq(ToMsg) /\ fromWorker \in Seq(FromMsg) /\ batchQueue \in Seq(Filled)
  BY DEF Types
<1>2. AnyArray \subseteq Buf
  BY <1>1, Widen
<1>3. Seq(AnyArray) \subseteq Seq(Buf)
  BY <1>2, SeqMonotonic
<1>4. ArraysOf(batchQueue) \in Seq(AnyArray)
  BY <1>1, ArraysOfType
<1>5. Held(toWorker) \in Seq(Buf) /\ Held(fromWorker) \in Seq(Buf)
  BY <1>1, HeldType
<1> QED BY <1>1, <1>2, <1>3, <1>4, <1>5, Wide

\* A message without arrays.
LEMMA HeldBare ==
    ASSUME build \in Builds, NEW S, S \in {ToMsg, FromMsg}, NEW c \in Seq(S), NEW x \in S,
           x.frames = <<>>, x.recycles = <<>>
    PROVE  Held(Append(c, x)) = Held(c)
PROOF
<1>1. Held(Append(c, x)) = Held(c) \o Inside(x) /\ Held(c) \in Seq(Buf)
  BY HeldEnds, HeldType
<1>2. <<>> \in Seq(Filled)
  OBVIOUS
<1>3. ArraysOf(<<>>) = <<>>
  BY DEF ArraysOf
<1>4. Inside(x) = <<>> \o <<>> /\ <<>> \o <<>> = <<>>
  BY <1>3 DEF Inside
<1> DEFINE h == Held(c)
<1> HIDE DEF h
<1>5. h \in Seq(Buf) => h \o <<>> = h
  BY ConcatEmptySeq
<1> QED BY <1>1, <1>4, <1>5 DEF h

LEMMA HeldAged ==
    ASSUME Types
    PROVE  Held(Aged(toWorker)) = Held(toWorker) /\ Held(Aged(fromWorker)) = Held(fromWorker)
PROOF
<1>1. toWorker \in Seq(ToMsg) /\ fromWorker \in Seq(FromMsg) /\ build \in Builds
  BY DEF Types
<1>2. ASSUME NEW S, S \in {ToMsg, FromMsg}, NEW c \in Seq(S)
      PROVE  Held(Aged(c)) = Held(c)
  <2>1. /\ Aged(c) \in Seq(S) /\ Len(Aged(c)) = Len(c)
        /\ \A i \in 1 .. Len(c) : Aged(c)[i].frames = c[i].frames /\ Aged(c)[i].recycles = c[i].recycles
    BY <1>2, AgedType
  <2>2. S \subseteq Msg
    BY <1>1, <1>2, Widen
  <2>3. c \in Seq(Msg) /\ Aged(c) \in Seq(Msg)
    BY <2>1, <2>2, SeqMonotonic
  <2> QED BY <2>1, <2>3, HeldSame
<1> QED BY <1>1, <1>2

\* A pool without arrays taken from it, or with arrays added to it, and their
\* identities.
Without(free, got) == free \ Range(got)
With(free, got) == free \cup Range(got)

LEMMA TakenIds ==
    ASSUME NEW len, NEW free, free \subseteq Arrays(len), NEW got \in Seq(Arrays(len))
    PROVE  /\ IdsOf(Without(free, got)) = IdsOf(free) \ IdsIn(got)
           /\ IdsOf(With(free, got)) = IdsOf(free) \cup IdsIn(got)
           /\ (\A i \in 1 .. Len(got) : got[i] \in free \/ got[i].id \in Unused)
                => IdsIn(got) \subseteq IdsOf(free) \cup Unused
PROOF
<1>1. Range(got) = {got[k] : k \in 1 .. Len(got)}
  BY RangeEquality
<1>2. \A k \in 1 .. Len(got) : got[k] \in Arrays(len)
  BY ElementOfSeq
<1>3. \A b \in Arrays(len), c \in Arrays(len) : b.id = c.id => b = c
  BY DEF Arrays
<1>4. IdsIn(got) = {got[k].id : k \in 1 .. Len(got)}
  BY DEF IdsIn
<1>5. \A b \in free : b \in Range(got) <=> b.id \in IdsIn(got)
  BY <1>1, <1>2, <1>3, <1>4
<1>6. IdsOf(free \ Range(got)) = IdsOf(free) \ IdsIn(got)
  <2>1. ASSUME NEW x \in IdsOf(free \ Range(got)) PROVE x \in IdsOf(free) \ IdsIn(got)
    BY <1>5 DEF IdsOf
  <2>2. ASSUME NEW x \in IdsOf(free) \ IdsIn(got) PROVE x \in IdsOf(free \ Range(got))
    BY <1>5 DEF IdsOf
  <2> QED BY <2>1, <2>2
<1>7. IdsOf(free \cup Range(got)) = IdsOf(free) \cup IdsIn(got)
  BY <1>1, <1>4 DEF IdsOf
<1>8. ASSUME \A i \in 1 .. Len(got) : got[i] \in free \/ got[i].id \in Unused
      PROVE  IdsIn(got) \subseteq IdsOf(free) \cup Unused
  BY <1>4, <1>8 DEF IdsOf
<1> QED BY <1>6, <1>7, <1>8 DEF Without, With

LEMMA IdsSubset ==
    ASSUME NEW A, NEW B, A \subseteq B
    PROVE  IdsOf(A) \subseteq IdsOf(B)
BY DEF IdsOf

LEMMA ReleasedIds ==
    ASSUME NEW free, NEW s \in Seq(Buf), NEW len
    PROVE  IdsOf(Release(free, s, len)) \subseteq IdsOf(free) \cup IdsIn(s)
PROOF
<1>1. Range(s) = {s[k] : k \in 1 .. Len(s)}
  BY RangeEquality
<1> QED BY <1>1 DEF IdsOf, IdsIn, Release

LEMMA ProcessOwned ==
    ASSUME Types, Process, Types', Owned
    PROVE  Owned'
PROOF
<1> DEFINE A == ArraysOf(batchQueue)
           R == recycles
           C == worker.recycles
           D == Held(toWorker)
           E == Held(fromWorker)
           G == Got
           a == IdsIn(A)
           b == IdsIn(R)
           c == IdsIn(C)
           d == IdsIn(D)
           e == IdsIn(E)
           p == IdsOf(pool)
           w == IdsOf(worker.pool)
           g == IdsIn(G)
<1>1. /\ Distinct(A) /\ Distinct(R) /\ Distinct(C) /\ Distinct(D) /\ Distinct(E) /\ Apart(a, b, c, d, e, p, w)
  BY DEF Owned, Own
<1>2. /\ CanAcquire(pool, Needed) /\ fromWorker' = Aged(fromWorker) /\ worker' = worker
      /\ workerReady => Collect(CutFrames) /\ pool' = pool \ Range(Got)
      /\ ~workerReady => /\ pool' = IF Count = 0 THEN pool ELSE pool \cup Range(Got)
                         /\ batchQueue' = batchQueue /\ recycles' = recycles /\ toWorker' = toWorker
  BY ProcessDoes
<1>3. A \in Seq(Buf) /\ R \in Seq(Buf) /\ C \in Seq(Buf) /\ D \in Seq(Buf) /\ E \in Seq(Buf)
      /\ Seq(AnyArray) \subseteq Seq(Buf) /\ build \in Builds /\ AnyArray \subseteq Buf
  BY Lists
<1>4. Held(fromWorker') = E /\ Held(Aged(toWorker)) = D
  BY <1>2, HeldAged
<1>5. /\ Got \in Seq(Arrays(frameLength)) /\ Len(Got) = Needed
      /\ \A i \in 1 .. Needed : Got[i] \in pool \/ Got[i].id \in Unused
      /\ \A i, j \in 1 .. Needed : Got[i].id = Got[j].id => i = j
      /\ CutFrames \in Seq(Filled) /\ Len(CutFrames) = Count
  BY <1>2, CutType
<1>6. G \in Seq(Buf) /\ Distinct(G) /\ g \subseteq p \cup Unused
      /\ IdsOf(Without(pool, G)) = p \ g /\ IdsOf(With(pool, G)) = p \cup g
  <2>1. frameLength \in Lengths /\ pool \subseteq Arrays(frameLength)
    BY DEF Types
  <2>2. Arrays(frameLength) \subseteq Buf
    BY <1>3, <2>1, Widen
  <2>3. Got \in Seq(Buf)
    BY <1>5, <2>2, SeqMonotonic
  <2>4. Distinct(Got)
    BY <1>5 DEF Distinct
  <2>6. \A i \in 1 .. Len(Got) : Got[i] \in pool \/ Got[i].id \in Unused
    BY <1>5
  <2>7. Got \in Seq(Arrays(frameLength))
    BY <1>5
  <2> HIDE DEF p, g, G
  <2>8. IdsOf(Without(pool, Got)) = IdsOf(pool) \ IdsIn(Got)
    BY <2>1, <2>7, TakenIds
  <2>9. IdsOf(With(pool, Got)) = IdsOf(pool) \cup IdsIn(Got)
    BY <2>1, <2>7, TakenIds
  <2>5. IdsIn(Got) \subseteq IdsOf(pool) \cup Unused
    BY <2>1, <2>6, <2>7, TakenIds
  <2> QED BY <2>3, <2>4, <2>5, <2>8, <2>9 DEF p, g, G
<1>7. Unused \cap All(a, b, c, d, e, p, w) = {}
  BY UnusedApart
<1> HIDE DEF a, b, c, d, e, p, w, g
<1>8. /\ a \cap g = {} /\ (a \cup g) \cap b = {} /\ d \cap ((a \cup g) \cup b) = {}
      /\ Apart(a \cup g, b, c, d, e, p \ g, w)
      /\ Apart({}, {}, c, d \cup ((a \cup g) \cup b), e, p \ g, w)
      /\ Apart(a, b, c, d, e, p \cup g, w)
  BY <1>1, <1>6, <1>7, ApartTaken
<1>9. CASE ~workerReady
  <2>1. batchQueue' = batchQueue /\ recycles' = recycles /\ toWorker' = toWorker /\ (pool' = pool \/ pool' = With(pool, G))
    BY <1>2, <1>9 DEF With
  <2>2. Apart(a, b, c, d, e, IdsOf(pool'), w)
    BY <1>1, <1>6, <1>8, <2>1 DEF p
  <2>3. Own(A, R, C, D, E, pool', worker.pool)
    BY <1>1, <2>2 DEF Own, a, b, c, d, e, w
  <2>4. Held(toWorker') = D /\ Held(fromWorker') = E
    BY <1>4, <2>1
  <2> QED BY <1>2, <2>1, <2>3, <2>4 DEF Owned
<1>10. CASE workerReady
  <2>1. ArraysOf(CutFrames) = G
    <3>1. ArraysOf(CutFrames) \in Seq(AnyArray) /\ Len(ArraysOf(CutFrames)) = Count
          /\ \A i \in 1 .. Count : ArraysOf(CutFrames)[i] = CutFrames[i].buf
      BY <1>5, ArraysOfType
    <3>2. Needed = Count
      BY <1>10 DEF Needed
    <3>3. \A i \in 1 .. Count : CutFrames[i].buf = Got[i]
      BY <1>10 DEF CutFrames, Frame
    <3>4. \A i \in 1 .. Count : ArraysOf(CutFrames)[i] = Got[i]
      BY <3>1, <3>3
    <3> QED BY <1>5, <3>1, <3>2, <3>4, SeqEqual
  <2>2. ArraysOf(Gathered) = A \o G
    BY <1>5, <2>1, ArraysConcat DEF Types, Gathered
  <2>3. pool' = Without(pool, G)
    BY <1>2, <1>10 DEF Without
  <2>4. /\ A \o G \in Seq(Buf) /\ IdsIn(A \o G) = a \cup g /\ Distinct(A \o G)
    <3> HIDE DEF A, G
    <3>1. /\ A \o G \in Seq(Buf) /\ IdsIn(A \o G) = IdsIn(A) \cup IdsIn(G)
          /\ Distinct(A \o G) <=> (Distinct(A) /\ Distinct(G) /\ IdsIn(A) \cap IdsIn(G) = {})
      BY <1>3, <1>6, DistinctConcat
    <3> QED BY <1>1, <1>6, <1>8, <3>1 DEF a, g
  <2> DEFINE AG == A \o G
             m == Batch("PROCESS_FRAME_BATCH", Gathered, recycles, 0)
  <2>5. \/ batchQueue' = Gathered /\ toWorker' = Aged(toWorker) /\ recycles' = recycles
        \/ /\ batchQueue' = <<>> /\ recycles' = <<>>
           /\ toWorker' = Append(Aged(toWorker), m) /\ m \in ToMsg
    BY <1>2, <1>10, CollectDoes
  <2>6. CASE batchQueue' = Gathered /\ toWorker' = Aged(toWorker) /\ recycles' = recycles
    <3>1. Own(AG, R, C, D, E, pool', worker.pool)
      BY <1>1, <1>6, <1>8, <2>3, <2>4 DEF Own, b, c, d, e, w
    <3>2. ArraysOf(batchQueue') = AG /\ Held(toWorker') = D /\ Held(fromWorker') = E
      BY <1>4, <2>2, <2>6
    <3> QED BY <1>2, <2>6, <3>1, <3>2 DEF Owned
  <2>7. CASE batchQueue' = <<>> /\ recycles' = <<>> /\ toWorker' = Append(Aged(toWorker), m) /\ m \in ToMsg
    <3>1. Inside(m) = AG \o R
      BY <2>2 DEF Inside, Batch
    <3>2. Held(toWorker') = D \o (AG \o R)
      <4>1. Aged(toWorker) \in Seq(ToMsg)
        <5>1. toWorker \in Seq(ToMsg)
          BY DEF Types
        <5> QED BY <5>1, AgedType
      <4> HIDE DEF m
      <4>2. Held(Append(Aged(toWorker), m)) = Held(Aged(toWorker)) \o Inside(m)
        BY <1>3, <2>7, <4>1, HeldEnds
      <4> QED BY <1>4, <2>7, <3>1, <4>2
    <3> HIDE DEF A, R, C, D, E, G, AG, m
    <3>3. AG \in Seq(Buf) /\ IdsIn(AG) = a \cup g /\ Distinct(AG)
      BY <2>4 DEF AG
    <3>4. /\ AG \o R \in Seq(Buf) /\ IdsIn(AG \o R) = (a \cup g) \cup b /\ Distinct(AG \o R)
      <4>1. /\ AG \o R \in Seq(Buf) /\ IdsIn(AG \o R) = IdsIn(AG) \cup IdsIn(R)
            /\ Distinct(AG \o R) <=> (Distinct(AG) /\ Distinct(R) /\ IdsIn(AG) \cap IdsIn(R) = {})
        BY <1>3, <3>3, DistinctConcat
      <4> QED BY <1>1, <1>8, <3>3, <4>1 DEF b
    <3> DEFINE H == AG \o R
    <3>5. H \in Seq(Buf) /\ IdsIn(H) = (a \cup g) \cup b /\ Distinct(H)
      BY <3>4
    <3> HIDE DEF H
    <3>6. /\ IdsIn(D \o H) = d \cup ((a \cup g) \cup b) /\ Distinct(D \o H)
      <4>1. /\ IdsIn(D \o H) = IdsIn(D) \cup IdsIn(H)
            /\ Distinct(D \o H) <=> (Distinct(D) /\ Distinct(H) /\ IdsIn(D) \cap IdsIn(H) = {})
        BY <1>3, <3>5, DistinctConcat
      <4> QED BY <1>1, <1>8, <3>5, <4>1 DEF d
    <3>7. Own(<<>>, <<>>, C, D \o H, E, pool', worker.pool)
      BY <1>1, <1>6, <1>8, <2>3, <3>6, DistinctEmpty DEF Own, c, e, w
    <3>8. ArraysOf(batchQueue') = <<>>
      BY <2>7 DEF ArraysOf
    <3> QED BY <1>2, <1>4, <2>7, <3>2, <3>7, <3>8 DEF Owned, C, E, H
  <2> HIDE DEF m
  <2> QED BY <2>5, <2>6, <2>7
<1> QED BY <1>9, <1>10

LEMMA InitPipelineOwned ==
    ASSUME Types, InitPipeline, Owned
    PROVE  Owned'
PROOF
<1>1. /\ pool' = Resized(pool, frameLength, FrameOf(worker.module))
      /\ UNCHANGED <<batchQueue, recycles, worker, toWorker, fromWorker>>
  BY DEF InitPipeline, Rebuild
<1>2. IdsOf(pool') \subseteq IdsOf(pool)
  BY <1>1, IdsSubset DEF Resized
<1>3. Own(ArraysOf(batchQueue), recycles, worker.recycles, Held(toWorker), Held(fromWorker), pool', worker.pool)
  BY <1>2, ApartLess DEF Owned, Own
<1>4. Held(toWorker') = Held(toWorker) /\ Held(fromWorker') = Held(fromWorker)
      /\ ArraysOf(batchQueue') = ArraysOf(batchQueue)
  BY <1>1
<1> QED BY <1>1, <1>3, <1>4 DEF Owned

LEMMA ControlOwned ==
    ASSUME Types, Owned, NEW type, NEW arg, Control(type, arg),
           (type = "SET_MODULE" /\ arg \in Modules) \/ (type = "SET_ENABLED" /\ arg \in {"on", "off"})
    PROVE  Owned'
PROOF
<1>1. /\ toWorker' = Append(toWorker, Message(type, arg))
      /\ UNCHANGED <<pool, batchQueue, recycles, worker, fromWorker>>
  BY DEF Control
<1>2. Held(toWorker') = Held(toWorker)
  <2>1. /\ Message(type, arg) \in ToMsg /\ Message(type, arg).frames = <<>> /\ Message(type, arg).recycles = <<>>
    BY MessageType
  <2>2. toWorker \in Seq(ToMsg) /\ build \in Builds
    BY DEF Types
  <2> DEFINE m == Message(type, arg)
  <2> HIDE DEF m
  <2>3. Held(Append(toWorker, m)) = Held(toWorker)
    BY <2>1, <2>2, HeldBare DEF m
  <2> QED BY <1>1, <2>3 DEF m
<1>3. Held(fromWorker') = Held(fromWorker) /\ ArraysOf(batchQueue') = ArraysOf(batchQueue)
  BY <1>1
<1> QED BY <1>1, <1>2, <1>3 DEF Owned

\* What the first message of a channel holds is disjoint from the others.
LEMMA HeldHead ==
    ASSUME build \in Builds, NEW S, S \in {ToMsg, FromMsg}, NEW ch \in Seq(S), ch # <<>>,
           Head(ch).frames \in Seq(Filled), Head(ch).recycles \in Seq(AnyArray)
    PROVE  LET f == ArraysOf(Head(ch).frames)
               r == Head(ch).recycles
           IN  /\ f \in Seq(Buf) /\ r \in Seq(Buf) /\ Held(Tail(ch)) \in Seq(Buf)
               /\ IdsIn(Held(ch)) = (IdsIn(f) \cup IdsIn(r)) \cup IdsIn(Held(Tail(ch)))
               /\ Distinct(Held(ch)) => /\ Distinct(f) /\ Distinct(r) /\ Distinct(Held(Tail(ch)))
                                        /\ IdsIn(f) \cap IdsIn(r) = {}
                                        /\ (IdsIn(f) \cup IdsIn(r)) \cap IdsIn(Held(Tail(ch))) = {}
PROOF
<1> DEFINE f == ArraysOf(Head(ch).frames)
           r == Head(ch).recycles
           t == Held(Tail(ch))
           h == f \o r
<1>1. f \in Seq(Buf) /\ r \in Seq(Buf)
  <2>1. f \in Seq(AnyArray) /\ AnyArray \subseteq Buf
    BY ArraysOfType, Widen
  <2> QED BY <2>1, SeqMonotonic
<1>2. Tail(ch) \in Seq(S)
  BY HeadTailProperties
<1>3. t \in Seq(Buf) /\ Held(ch) = h \o t
  <2>1. Head(ch) \in S
    BY HeadTailProperties
  <2> QED BY <1>2, <2>1, HeldType, HeldEnds DEF Inside
<1> HIDE DEF f, r, t
<1>4. /\ h \in Seq(Buf) /\ IdsIn(h) = IdsIn(f) \cup IdsIn(r)
      /\ Distinct(h) <=> (Distinct(f) /\ Distinct(r) /\ IdsIn(f) \cap IdsIn(r) = {})
  BY <1>1, DistinctConcat
<1> HIDE DEF h
<1>5. /\ IdsIn(h \o t) = IdsIn(h) \cup IdsIn(t)
      /\ Distinct(h \o t) <=> (Distinct(h) /\ Distinct(t) /\ IdsIn(h) \cap IdsIn(t) = {})
  BY <1>3, <1>4, DistinctConcat
<1>6. /\ IdsIn(Held(ch)) = (IdsIn(f) \cup IdsIn(r)) \cup IdsIn(t)
      /\ Distinct(Held(ch)) => /\ Distinct(f) /\ Distinct(r) /\ Distinct(t)
                               /\ IdsIn(f) \cap IdsIn(r) = {}
                               /\ (IdsIn(f) \cup IdsIn(r)) \cap IdsIn(t) = {}
  BY <1>3, <1>4, <1>5
<1> QED BY <1>1, <1>3, <1>6 DEF f, r, t

LEMMA WorkletReceivesOwned ==
    ASSUME Types, WorkletReceives, Types', Owned
    PROVE  Owned'
PROOF
<1> DEFINE msg == Head(fromWorker)
           A == ArraysOf(batchQueue)
           R == recycles
           C == worker.recycles
           D == Held(toWorker)
           E == Held(fromWorker)
           T == Held(Tail(fromWorker))
           F == ArraysOf(msg.frames)
           M == msg.recycles
           a == IdsIn(A)
           b == IdsIn(R)
           c == IdsIn(C)
           d == IdsIn(D)
           e == IdsIn(E)
           p == IdsOf(pool)
           w == IdsOf(worker.pool)
           f == IdsIn(F)
           r == IdsIn(M)
           t == IdsIn(T)
<1>1. /\ Distinct(A) /\ Distinct(R) /\ Distinct(C) /\ Distinct(D) /\ Distinct(E) /\ Apart(a, b, c, d, e, p, w)
  BY DEF Owned, Own
<1>2. /\ fromWorker # <<>> /\ fromWorker' = Tail(fromWorker)
      /\ ResultArrives(msg) \/ ChangeArrives(msg) \/ NothingArrives(msg)
      /\ toWorker' = toWorker /\ worker' = worker
  BY WorkletReceivesDoes
<1>3. R \in Seq(Buf)
  BY Lists
<1>4. /\ F \in Seq(Buf) /\ M \in Seq(Buf) /\ T \in Seq(Buf) /\ e = (f \cup r) \cup t
      /\ Distinct(E) => /\ Distinct(F) /\ Distinct(M) /\ Distinct(T)
                        /\ f \cap r = {} /\ (f \cup r) \cap t = {}
  <2>1. build \in Builds /\ fromWorker \in Seq(FromMsg) /\ msg.frames \in Seq(Filled) /\ msg.recycles \in Seq(AnyArray)
    BY <1>2, HeadOfFrom DEF Types
  <2> QED BY <1>2, <2>1, HeldHead
<1>5. /\ batchQueue' = batchQueue /\ Held(fromWorker') = T /\ Held(toWorker') = D
      /\ \/ recycles' = R \o F /\ pool' = Release(pool, M, frameLength)
         \/ recycles' = R /\ pool' = Resized(pool, frameLength, msg.arg)
         \/ recycles' = R /\ pool' = pool
  BY <1>2 DEF ResultArrives, ChangeArrives, NothingArrives
<1>6. IdsOf(pool') \subseteq p \cup r
  <2>1. IdsOf(Release(pool, M, frameLength)) \subseteq p \cup r
    BY <1>4, ReleasedIds
  <2>2. IdsOf(Resized(pool, frameLength, msg.arg)) \subseteq p
    BY IdsSubset DEF Resized
  <2> HIDE DEF M, msg, p, r
  <2> QED BY <1>5, <2>1, <2>2 DEF p
<1>7. /\ R \o F \in Seq(Buf) /\ IdsIn(R \o F) = b \cup f
      /\ Distinct(R \o F) <=> (Distinct(R) /\ Distinct(F) /\ b \cap f = {})
  <2> HIDE DEF R, F
  <2> QED BY <1>3, <1>4, DistinctConcat
<1> DEFINE q == IdsOf(pool')
<1>8. q \subseteq p \cup r
  BY <1>6
<1> HIDE DEF a, b, c, d, e, p, w, f, r, t, q
<1>9. b \cap f = {} /\ Apart(a, b \cup f, c, d, t, q, w)
  <2>1. Apart(a, b, c, d, e, p, w) /\ e = (f \cup r) \cup t /\ f \cap r = {} /\ (f \cup r) \cap t = {}
    BY <1>1, <1>4
  <2> HIDE DEF A, R, C, D, E, F, M, T, msg
  <2> QED BY <1>8, <2>1 DEF Apart
<1>10. Apart(a, b, c, d, t, q, w)
  BY <1>9 DEF Apart
<1>11. Own(A, R \o F, C, D, T, pool', worker.pool)
  BY <1>1, <1>4, <1>7, <1>9 DEF Own, a, c, d, t, q, w
<1>12. Own(A, R, C, D, T, pool', worker.pool)
  BY <1>1, <1>4, <1>10 DEF Own, a, b, c, d, t, q, w
<1> HIDE DEF R, F, T, D, msg
<1>13. recycles' = R \o F \/ recycles' = R
  BY <1>5
<1> QED BY <1>2, <1>5, <1>11, <1>12, <1>13 DEF Owned

LEMMA DestroyOwned ==
    ASSUME Types, Destroy, Owned
    PROVE  Owned'
PROOF
<1>1. /\ toWorker' = IF prefilled THEN Append(toWorker, Message("DESTROY", "none")) ELSE toWorker
      /\ fromWorker' = <<>> /\ UNCHANGED <<pool, recycles, batchQueue, worker>>
  BY DEF Destroy
<1>2. Held(toWorker') = Held(toWorker)
  <2>1. Message("DESTROY", "none") \in ToMsg /\ Message("DESTROY", "none").frames = <<>>
        /\ Message("DESTROY", "none").recycles = <<>>
    BY MessageType
  <2>2. toWorker \in Seq(ToMsg) /\ build \in Builds
    BY DEF Types
  <2> DEFINE m == Message("DESTROY", "none")
  <2> HIDE DEF m
  <2>3. Held(Append(toWorker, m)) = Held(toWorker)
    BY <2>1, <2>2, HeldBare DEF m
  <2> QED BY <1>1, <2>3 DEF m
<1>3. Held(fromWorker') = <<>> /\ ArraysOf(batchQueue') = ArraysOf(batchQueue)
  BY <1>1, HeldEmpty
<1>4. Own(ArraysOf(batchQueue), recycles, worker.recycles, Held(toWorker), <<>>, pool, worker.pool)
  BY DistinctEmpty, ApartLess DEF Owned, Own
<1> QED BY <1>1, <1>2, <1>3, <1>4 DEF Owned

\* The worker's outputs are new lists of arrays, pooled or returned before.
LEMMA OutputsApart ==
    ASSUME Types, toWorker # <<>>, CanAcquire(Free(Head(toWorker)), Len(Head(toWorker).frames))
    PROVE  LET msg == Head(toWorker)
               out == Outputs(msg)
           IN  /\ out \in Seq(Buf) /\ Distinct(out) /\ ArraysOf(Results(msg)) = out
               /\ IdsIn(out) \subseteq IdsOf(Free(msg)) \cup Unused
               /\ IdsOf(Without(Free(msg), out)) = IdsOf(Free(msg)) \ IdsIn(out)
               /\ IdsOf(Free(msg)) \subseteq IdsOf(worker.pool) \cup IdsIn(msg.recycles)
PROOF
<1> DEFINE msg == Head(toWorker)
           n == Len(msg.frames)
           out == Outputs(msg)
           free == Free(msg)
<1>1. /\ n \in Nat /\ out \in Seq(Arrays(worker.size)) /\ Len(out) = n
      /\ \A i \in 1 .. n : out[i] \in free \/ out[i].id \in Unused
      /\ \A i, j \in 1 .. n : out[i].id = out[j].id => i = j
      /\ Results(msg) \in Seq(Filled) /\ Len(Results(msg)) = n
      /\ \A i \in 1 .. n : Results(msg)[i].buf = out[i]
  BY ResultsType
<1>2. free \subseteq Arrays(worker.size)
  BY FreeType
<1>3. msg.recycles \in Seq(Buf)
  <2>1. msg.recycles \in Seq(AnyArray) /\ AnyArray \subseteq Buf
    BY HeadOfTo, Lists
  <2> QED BY <2>1, SeqMonotonic
<1>4. IdsOf(free) \subseteq IdsOf(worker.pool) \cup IdsIn(msg.recycles)
  BY <1>3, ReleasedIds DEF Free
<1>5. Arrays(worker.size) \subseteq Buf
  <2>1. build \in Builds /\ worker.size \in Lengths
    BY DEF Types, WorkerType
  <2> QED BY <2>1, Widen
<1> HIDE DEF out, free
<1>6. out \in Seq(Buf) /\ Distinct(out)
  <2>1. out \in Seq(Buf)
    BY <1>1, <1>5, SeqMonotonic
  <2> QED BY <1>1, <2>1 DEF Distinct
<1>7. ArraysOf(Results(msg)) = out
  <2>1. /\ ArraysOf(Results(msg)) \in Seq(AnyArray) /\ Len(ArraysOf(Results(msg))) = n
        /\ \A i \in 1 .. n : ArraysOf(Results(msg))[i] = Results(msg)[i].buf
    BY <1>1, ArraysOfType
  <2>2. \A i \in 1 .. n : ArraysOf(Results(msg))[i] = out[i]
    BY <1>1, <2>1
  <2> QED BY <1>1, <2>1, <2>2, SeqEqual, SMTT(30)
<1>8. IdsOf(Without(free, out)) = IdsOf(free) \ IdsIn(out)
  BY <1>1, <1>2, TakenIds
<1>9. IdsIn(out) \subseteq IdsOf(free) \cup Unused
  <2>1. \A i \in 1 .. Len(out) : out[i] \in free \/ out[i].id \in Unused
    BY <1>1
  <2> QED BY <1>1, <1>2, <2>1, TakenIds
<1> QED BY <1>4, <1>6, <1>7, <1>8, <1>9 DEF out, free

\* An answer to a destroyed worklet is not sent.
LEMMA RespondHolds ==
    ASSUME Types, NEW msg \in FromMsg, Respond(msg)
    PROVE  Held(fromWorker') = Held(fromWorker) \/ Held(fromWorker') = Held(fromWorker) \o Inside(msg)
PROOF
<1>1. fromWorker' = fromWorker \/ fromWorker' = Append(fromWorker, msg)
  BY DEF Respond
<1>2. fromWorker \in Seq(FromMsg) /\ build \in Builds
  BY DEF Types
<1>3. Held(Append(fromWorker, msg)) = Held(fromWorker) \o Inside(msg)
  BY <1>2, HeldEnds
<1> QED BY <1>1, <1>3

LEMMA RespondBare ==
    ASSUME Types, NEW msg \in FromMsg, Respond(msg), msg.frames = <<>>, msg.recycles = <<>>
    PROVE  Held(fromWorker') = Held(fromWorker)
PROOF
<1>1. fromWorker' = fromWorker \/ fromWorker' = Append(fromWorker, msg)
  BY DEF Respond
<1>2. fromWorker \in Seq(FromMsg) /\ build \in Builds
  BY DEF Types
<1>3. Held(Append(fromWorker, msg)) = Held(fromWorker)
  BY <1>2, HeldBare
<1> QED BY <1>1, <1>3

LEMMA WorkerReceivesOwned ==
    ASSUME Types, WorkerReceives, Types', Owned
    PROVE  Owned'
PROOF
<1> DEFINE msg == Head(toWorker)
           A == ArraysOf(batchQueue)
           R == recycles
           C == worker.recycles
           D == Held(toWorker)
           E == Held(fromWorker)
           T == Held(Tail(toWorker))
           F == ArraysOf(msg.frames)
           M == msg.recycles
           a == IdsIn(A)
           b == IdsIn(R)
           c == IdsIn(C)
           d == IdsIn(D)
           e == IdsIn(E)
           p == IdsOf(pool)
           w == IdsOf(worker.pool)
           f == IdsIn(F)
           r == IdsIn(M)
           t == IdsIn(T)
<1>1. /\ Distinct(A) /\ Distinct(R) /\ Distinct(C) /\ Distinct(D) /\ Distinct(E) /\ Apart(a, b, c, d, e, p, w)
  BY DEF Owned, Own
<1>2. /\ toWorker # <<>> /\ toWorker' = Tail(toWorker)
      /\ \/ /\ CanAcquire(Free(msg), Len(msg.frames))
            /\ \/ BatchDone(msg)
               \/ \E k \in 1 .. Len(msg.frames) : \E l \in {k - 1, k} : BatchFailed(msg, k, l)
         \/ \E m \in Modules : Switched(m)
         \/ SameAgain
         \/ \E on \in BOOLEAN : Toggled(on)
         \/ Reset
      /\ UNCHANGED <<pool, recycles, batchQueue>>
  BY WorkerReceivesDoes
<1>3. C \in Seq(Buf) /\ E \in Seq(Buf) /\ A \in Seq(Buf) /\ R \in Seq(Buf)
  BY Lists
<1>4. /\ msg.frames \in Seq(Filled) /\ msg.recycles \in Seq(AnyArray) /\ build \in Builds
      /\ toWorker \in Seq(ToMsg)
  BY <1>2, HeadOfTo DEF Types
<1>5. /\ F \in Seq(Buf) /\ M \in Seq(Buf) /\ T \in Seq(Buf) /\ d = (f \cup r) \cup t
      /\ Distinct(D) => /\ Distinct(F) /\ Distinct(M) /\ Distinct(T)
                        /\ f \cap r = {} /\ (f \cup r) \cap t = {}
  BY <1>2, <1>4, HeldHead
<1>6. Unused \cap All(a, b, c, d, e, p, w) = {}
  BY UnusedApart
<1>7. worker \in [module : Modules, enabled : BOOLEAN, size : Lengths, pool : SUBSET AnyArray,
                  recycles : Seq(AnyArray)]
  BY DEF Types, WorkerType
<1> HIDE DEF a, b, c, d, e, p, w, f, r, t
<1>8. Apart(a, b, c, t, e, p, w)
  BY <1>1, <1>5 DEF Apart
\* Whatever the worker keeps of its pool, when it answers without arrays.
<1>9. ASSUME NEW v, IdsOf(v) \subseteq w, worker'.pool = v, worker'.recycles = C \/ worker'.recycles = <<>>,
             Held(fromWorker') = E
      PROVE  Owned'
  <2> DEFINE u == IdsOf(v)
  <2>1. Apart(a, b, c, t, e, p, u)
    BY <1>8, <1>9, ApartLess
  <2>2. Apart(a, b, {}, t, e, p, u)
    BY <2>1 DEF Apart
  <2>3. Own(A, R, C, T, E, pool, v)
    BY <1>1, <1>5, <2>1 DEF Own, a, b, c, t, e, p
  <2>4. Own(A, R, <<>>, T, E, pool, v)
    BY <1>1, <1>5, <2>2, DistinctEmpty DEF Own, a, b, t, e, p
  <2>5. worker'.recycles = C => Owned'
    BY <1>2, <1>9, <2>3 DEF Owned
  <2>6. worker'.recycles = <<>> => Owned'
    BY <1>2, <1>9, <2>4 DEF Owned
  <2> QED BY <1>9, <2>5, <2>6
<1>10. CASE SameAgain \/ (\E on \in BOOLEAN : Toggled(on)) \/ Reset \/ (\E m \in Modules : Switched(m))
  <2>1. CASE SameAgain \/ \E on \in BOOLEAN : Toggled(on)
    <3>1. worker'.pool = worker.pool /\ worker'.recycles = C /\ fromWorker' = fromWorker
      BY <1>7, <2>1 DEF SameAgain, Toggled
    <3> QED BY <1>9, <3>1 DEF w
  <2>2. CASE Reset
    <3>1. worker'.pool = {} /\ worker'.recycles = <<>> /\ fromWorker' = fromWorker /\ IdsOf({}) = {}
      BY <2>2 DEF Reset, InitialWorker, IdsOf
    <3> QED BY <1>9, <3>1
  <2>3. ASSUME NEW m \in Modules, Switched(m) PROVE Owned'
    <3>1. /\ worker'.pool = Resized(worker.pool, worker.size, FrameOf(m)) /\ worker'.recycles = C
          /\ Respond(Message("MODULE_CHANGED", FrameOf(m)))
      BY <1>7, <2>3 DEF Switched
    <3>2. IdsOf(worker'.pool) \subseteq w
      BY <3>1, IdsSubset DEF Resized, w
    <3>3. Held(fromWorker') = E
      <4>1. /\ Message("MODULE_CHANGED", FrameOf(m)) \in FromMsg
            /\ Message("MODULE_CHANGED", FrameOf(m)).frames = <<>>
            /\ Message("MODULE_CHANGED", FrameOf(m)).recycles = <<>>
        BY MessageType
      <4> QED BY <3>1, <4>1, RespondBare
    <3> QED BY <1>9, <3>1, <3>2, <3>3
  <2> QED BY <1>10, <2>1, <2>2, <2>3
<1>11. CASE CanAcquire(Free(msg), Len(msg.frames)) /\ BatchDone(msg)
  <2> DEFINE out == Outputs(msg)
             back == C \o F
             free == Free(msg)
             o == IdsIn(out)
             v == IdsOf(free)
             x == Batch("FRAME_RESULT_BATCH", Results(msg), back, msg.age)
  <2>1. /\ out \in Seq(Buf) /\ Distinct(out) /\ ArraysOf(Results(msg)) = out
        /\ o \subseteq v \cup Unused /\ IdsOf(Without(free, out)) = v \ o
        /\ v \subseteq w \cup r
    BY <1>2, <1>11, OutputsApart DEF w, r
  <2>2. worker'.pool = Without(free, out) /\ worker'.recycles = <<>> /\ Respond(x)
    BY <1>7, <1>11 DEF BatchDone, Without
  <2>3. Held(fromWorker') = E \/ Held(fromWorker') = E \o (out \o back)
    <3>1. x \in FromMsg
      BY <1>2, <1>11, DoneType
    <3>2. Inside(x) = out \o back
      BY <2>1 DEF Inside, Batch
    <3> HIDE DEF x
    <3>3. Held(fromWorker') = E \/ Held(fromWorker') = E \o Inside(x)
      BY <2>2, <3>1, RespondHolds
    <3> HIDE DEF out, back, E
    <3> QED BY <3>2, <3>3
  <2> HIDE DEF x
  <2> HIDE DEF o, v
  <2>4. /\ c \cap f = {} /\ o \cap (c \cup f) = {} /\ e \cap (o \cup (c \cup f)) = {}
        /\ Apart(a, b, {}, t, e \cup (o \cup (c \cup f)), p, v \ o)
        /\ Apart(a, b, {}, t, e, p, v \ o)
    <3>1. /\ Apart(a, b, c, d, e, p, w) /\ d = (f \cup r) \cup t /\ f \cap r = {} /\ (f \cup r) \cap t = {}
          /\ Unused \cap All(a, b, c, d, e, p, w) = {} /\ o \subseteq v \cup Unused /\ v \subseteq w \cup r
      BY <1>1, <1>5, <1>6, <2>1
    <3> QED BY <3>1 DEF Apart, All
  <2> HIDE DEF A, R, C, D, E, T, F, M, out
  <2>5. back \in Seq(Buf) /\ IdsIn(back) = c \cup f /\ Distinct(back)
    <3>1. /\ C \o F \in Seq(Buf) /\ IdsIn(C \o F) = IdsIn(C) \cup IdsIn(F)
          /\ Distinct(C \o F) <=> (Distinct(C) /\ Distinct(F) /\ IdsIn(C) \cap IdsIn(F) = {})
      BY <1>3, <1>5, DistinctConcat
    <3> QED BY <1>1, <1>5, <2>4, <3>1 DEF c, f
  <2> HIDE DEF back
  <2> DEFINE H == out \o back
  <2>6. H \in Seq(Buf) /\ IdsIn(H) = o \cup (c \cup f) /\ Distinct(H)
    <3>1. /\ out \o back \in Seq(Buf) /\ IdsIn(out \o back) = IdsIn(out) \cup IdsIn(back)
          /\ Distinct(out \o back) <=> (Distinct(out) /\ Distinct(back) /\ IdsIn(out) \cap IdsIn(back) = {})
      BY <2>1, <2>5, DistinctConcat
    <3> QED BY <2>1, <2>4, <2>5, <3>1 DEF o
  <2> HIDE DEF H
  <2>7. IdsIn(E \o H) = e \cup (o \cup (c \cup f)) /\ Distinct(E \o H)
    <3>1. /\ IdsIn(E \o H) = IdsIn(E) \cup IdsIn(H)
          /\ Distinct(E \o H) <=> (Distinct(E) /\ Distinct(H) /\ IdsIn(E) \cap IdsIn(H) = {})
      BY <1>3, <2>6, DistinctConcat
    <3> QED BY <1>1, <2>4, <2>6, <3>1 DEF e
  <2> DEFINE W == Without(free, out)
  <2>8. IdsOf(W) = v \ o
    BY <2>1 DEF out
  <2> HIDE DEF W
  <2>9. Own(A, R, <<>>, T, E \o H, pool, W)
    BY <1>1, <1>5, <2>4, <2>7, <2>8, DistinctEmpty DEF Own, a, b, t, p
  <2>10. Own(A, R, <<>>, T, E, pool, W)
    BY <1>1, <1>5, <2>4, <2>8, DistinctEmpty DEF Own, a, b, t, e, p
  <2>11. worker'.pool = W /\ worker'.recycles = <<>> /\ Held(toWorker') = T /\ ArraysOf(batchQueue') = A /\ recycles' = R
    BY <1>2, <2>2 DEF W, T, A, R, out
  <2>12. Held(fromWorker') = E \/ Held(fromWorker') = E \o H
    BY <2>3 DEF H
  <2> HIDE DEF free
  <2>13. pool' = pool
    BY <1>2
  <2> QED BY <2>9, <2>10, <2>11, <2>12, <2>13 DEF Owned
<1>12. ASSUME CanAcquire(Free(msg), Len(msg.frames)), NEW k \in 1 .. Len(msg.frames),
              NEW l \in {k - 1, k}, BatchFailed(msg, k, l)
       PROVE  Owned'
  <2> DEFINE x == SubSeq(F, 1, k - 1)
             free == Free(msg)
             V == worker'.pool
             v == IdsOf(V)
             kept == C \o x
  <2>1. IdsOf(free) \subseteq w \cup r
    BY <1>2, <1>12, OutputsApart DEF w, r
  <2>2. /\ V = free \ Lost(msg, l) /\ worker'.recycles = kept /\ Respond(Message("ERROR", "none"))
    BY <1>7, <1>12 DEF BatchFailed
  <2>3. v \subseteq w \cup r
    <3>1. V \subseteq free
      BY <2>2
    <3>2. IdsOf(V) \subseteq IdsOf(free)
      BY <3>1, IdsSubset
    <3> QED BY <2>1, <3>2
  <2>4. Held(fromWorker') = E
    BY <2>2, MessageType, RespondBare
  <2>5. x \in Seq(Buf) /\ IdsIn(x) \subseteq f /\ Distinct(x)
    <3>1. Len(F) = Len(msg.frames) /\ Len(msg.frames) \in Nat
      BY <1>4, ArraysOfType, LenProperties
    <3>2. k - 1 \in 0 .. Len(F)
      BY <3>1
    <3>3. Distinct(F)
      BY <1>1, <1>5
    <3> HIDE DEF F
    <3> QED BY <1>5, <3>2, <3>3, DistinctPrefix DEF f
  <2> DEFINE y == IdsIn(x)
  <2>6. y \subseteq f
    BY <2>5
  <2> HIDE DEF v, y
  <2>7. c \cap y = {} /\ Apart(a, b, c \cup y, t, e, p, v)
    <3>1. /\ Apart(a, b, c, d, e, p, w) /\ d = (f \cup r) \cup t /\ f \cap r = {} /\ (f \cup r) \cap t = {}
      BY <1>1, <1>5
    <3> QED BY <3>1, <2>3, <2>6 DEF Apart
  <2> HIDE DEF A, R, C, D, E, T, F, M, x, V
  <2>8. IdsIn(kept) = c \cup y /\ Distinct(kept)
    <3>1. /\ C \o x \in Seq(Buf) /\ IdsIn(C \o x) = IdsIn(C) \cup IdsIn(x)
          /\ Distinct(C \o x) <=> (Distinct(C) /\ Distinct(x) /\ IdsIn(C) \cap IdsIn(x) = {})
      BY <1>3, <2>5, DistinctConcat
    <3> QED BY <1>1, <2>5, <2>7, <3>1 DEF c, y
  <2> HIDE DEF kept
  <2>9. Own(A, R, kept, T, E, pool, V)
    BY <1>1, <1>5, <2>7, <2>8 DEF Own, a, b, t, e, p, v
  <2>10. Held(toWorker') = T /\ ArraysOf(batchQueue') = A /\ recycles' = R /\ worker'.recycles = kept /\ pool' = pool
         /\ worker'.pool = V
    BY <1>2, <2>2 DEF T, A, R, V
  <2> QED BY <2>4, <2>9, <2>10 DEF Owned
<1> HIDE DEF msg
<1> QED BY <1>2, <1>10, <1>11, <1>12

LEMMA HeldInFlight ==
    ASSUME Types
    PROVE  Held(InFlight) = Held(toWorker) \o Held(fromWorker)
PROOF
<1> DEFINE g(y) == [i \in DOMAIN y |-> Inside(y[i])]
           m == Len(toWorker)
           n == Len(fromWorker)
<1>1. toWorker \in Seq(ToMsg) /\ fromWorker \in Seq(FromMsg) /\ build \in Builds
  BY DEF Types
<1>2. toWorker \in Seq(Msg) /\ fromWorker \in Seq(Msg)
  BY Wide
<1>3. /\ InFlight \in Seq(Msg) /\ Len(InFlight) = m + n
      /\ \A i \in 1 .. m + n : InFlight[i] = IF i <= m THEN toWorker[i] ELSE fromWorker[i - m]
  BY <1>2, ConcatProperties DEF InFlight
<1>4. m \in Nat /\ n \in Nat /\ DOMAIN InFlight = 1 .. m + n
  BY <1>2, <1>3, LenProperties
<1>5. /\ g(toWorker) \in Seq(Seq(Buf)) /\ Len(g(toWorker)) = m
      /\ \A i \in 1 .. m : g(toWorker)[i] = Inside(toWorker[i])
  BY <1>1, <1>2, HeldMap
<1>6. /\ g(fromWorker) \in Seq(Seq(Buf)) /\ Len(g(fromWorker)) = n
      /\ \A i \in 1 .. n : g(fromWorker)[i] = Inside(fromWorker[i])
  BY <1>1, <1>2, HeldMap
<1>7. Held(toWorker) = FlattenSeq(g(toWorker)) /\ Held(fromWorker) = FlattenSeq(g(fromWorker))
      /\ Held(InFlight) = FlattenSeq(g(InFlight))
  BY DEF Held
<1>8. \A i \in 1 .. m + n : g(InFlight)[i] = Inside(InFlight[i])
  BY <1>4
<1>9. g(InFlight) = [i \in 1 .. m + n |-> g(InFlight)[i]]
  BY <1>4
<1> DEFINE x == g(toWorker)
           y == g(fromWorker)
           z == g(InFlight)
<1> HIDE DEF g, m, n
<1>10. /\ x \o y \in Seq(Seq(Buf)) /\ Len(x \o y) = m + n
       /\ \A i \in 1 .. m + n : (x \o y)[i] = IF i <= m THEN x[i] ELSE y[i - m]
  BY <1>5, <1>6, ConcatProperties
<1>11. ASSUME NEW i \in 1 .. m + n PROVE z[i] = (x \o y)[i]
  <2>1. CASE i <= m
    <3>1. i \in 1 .. m
      BY <1>4, <2>1
    <3> QED BY <1>3, <1>5, <1>8, <1>10, <2>1, <3>1
  <2>2. CASE ~(i <= m)
    <3>1. i - m \in 1 .. n
      BY <1>4, <2>2
    <3> QED BY <1>3, <1>6, <1>8, <1>10, <2>2, <3>1
  <2> QED BY <2>1, <2>2
<1>12. z = x \o y
  <2>1. z = [i \in 1 .. m + n |-> z[i]]
    BY <1>9
  <2>2. \A i \in 1 .. m + n : (x \o y)[i] \in Seq(Buf)
    BY <1>10, ElementOfSeq
  <2> DEFINE xy == x \o y
  <2>3. xy \in Seq(Seq(Buf)) /\ Len(xy) = m + n /\ \A i \in 1 .. m + n : xy[i] \in Seq(Buf) /\ z[i] = xy[i]
    BY <1>10, <1>11, <2>2
  <2> HIDE DEF xy, z
  <2>4. PICK k \in Nat : k = m + n
    BY <1>4
  <2>6. z \in [1 .. k -> Seq(Buf)]
    BY <2>1, <2>3, <2>4
  <2>7. z \in Seq(Seq(Buf)) /\ Len(z) = k
    BY <2>4, <2>6
  <2>5. z = xy
    BY <2>3, <2>4, <2>7, SeqEqual
  <2> QED BY <2>5 DEF xy
<1>13. FlattenSeq(x \o y) = FlattenSeq(x) \o FlattenSeq(y)
  BY <1>5, <1>6, FlattenConcat
<1> QED BY <1>7, <1>12, <1>13

\* As many arrays as identities.
LEMMA PoolSize ==
    ASSUME NEW len, NEW A, A \subseteq Arrays(len)
    PROVE  IsFiniteSet(IdsOf(A)) /\ Cardinality(A) = Cardinality(IdsOf(A))
PROOF
<1>1. IsFiniteSet(A) /\ DistinctIds(A)
  BY ArraysFinite
<1> DEFINE f == [b \in A |-> b.id]
<1>2. f \in Bijection(A, IdsOf(A))
  <2>1. f \in [A -> IdsOf(A)]
    BY DEF IdsOf
  <2>2. f \in Injection(A, IdsOf(A))
    BY <1>1, <2>1 DEF DistinctIds, Injection, IsInjective
  <2>3. f \in Surjection(A, IdsOf(A))
    BY <2>1 DEF IdsOf, Surjection
  <2> QED BY <2>2, <2>3 DEF Bijection
<1> HIDE DEF f
<1>3. ExistsBijection(A, IdsOf(A))
  BY <1>2 DEF ExistsBijection
<1> QED BY <1>1, <1>3, FS_Bijection

LEMMA OwnedArrays ==
    ASSUME Types, Owned
    PROVE  ArraysOwnedOnce
PROOF
<1> DEFINE A == ArraysOf(batchQueue)
           R == recycles
           C == worker.recycles
           D == Held(toWorker)
           E == Held(fromWorker)
           a == IdsIn(A)
           b == IdsIn(R)
           c == IdsIn(C)
           d == IdsIn(D)
           e == IdsIn(E)
           p == IdsOf(pool)
           w == IdsOf(worker.pool)
           listed == A \o R \o C \o (D \o E)
<1>1. /\ Distinct(A) /\ Distinct(R) /\ Distinct(C) /\ Distinct(D) /\ Distinct(E) /\ Apart(a, b, c, d, e, p, w)
  BY DEF Owned, Own
<1>2. A \in Seq(Buf) /\ R \in Seq(Buf) /\ C \in Seq(Buf) /\ D \in Seq(Buf) /\ E \in Seq(Buf)
  BY Lists
<1>3. /\ a \cap b = {} /\ (a \cup b) \cap c = {} /\ d \cap e = {} /\ ((a \cup b) \cup c) \cap (d \cup e) = {}
      /\ (((a \cup b) \cup c) \cup (d \cup e)) \cap (p \cup w) = {} /\ p \cap w = {}
  <2> HIDE DEF a, b, c, d, e, p, w
  <2> QED BY <1>1 DEF Apart
<1>4. FlattenSeq([i \in DOMAIN InFlight |-> ArraysOf(InFlight[i].frames) \o InFlight[i].recycles]) = D \o E
  BY HeldInFlight DEF Held, Inside
<1>5. Distinct(listed) /\ IdsIn(listed) = ((a \cup b) \cup c) \cup (d \cup e) /\ listed \in Seq(Buf)
  <2> DEFINE AR == A \o R
             ARC == AR \o C
             DE == D \o E
  <2> HIDE DEF A, R, C, D, E
  <2>1. AR \in Seq(Buf) /\ IdsIn(AR) = a \cup b /\ Distinct(AR)
    BY <1>1, <1>2, <1>3, DistinctConcat
  <2>2. DE \in Seq(Buf) /\ IdsIn(DE) = d \cup e /\ Distinct(DE)
    BY <1>1, <1>2, <1>3, DistinctConcat
  <2> HIDE DEF AR, DE
  <2>3. ARC \in Seq(Buf) /\ IdsIn(ARC) = (a \cup b) \cup c /\ Distinct(ARC)
    BY <1>1, <1>2, <1>3, <2>1, DistinctConcat
  <2> HIDE DEF ARC
  <2>4. ARC \o DE \in Seq(Buf) /\ IdsIn(ARC \o DE) = ((a \cup b) \cup c) \cup (d \cup e) /\ Distinct(ARC \o DE)
    BY <1>3, <2>2, <2>3, DistinctConcat
  <2> QED BY <2>4 DEF AR, ARC, DE
<1>6. IdsOf(pool) = {x.id : x \in pool} /\ IdsOf(worker.pool) = {x.id : x \in worker.pool}
  BY DEF IdsOf
<1>7. Cardinality(pool) + Cardinality(worker.pool) = Cardinality(p \cup w)
  <2>1. /\ IsFiniteSet(p) /\ IsFiniteSet(w)
        /\ Cardinality(pool) = Cardinality(p) /\ Cardinality(worker.pool) = Cardinality(w)
    BY PoolSize DEF Types, WorkerType
  <2> HIDE DEF p, w
  <2>2. Cardinality(p \cup w) = Cardinality(p) + Cardinality(w) - Cardinality({})
    BY <1>3, <2>1, FS_Union
  <2>3. Cardinality({}) = 0 /\ Cardinality(p) \in Nat /\ Cardinality(w) \in Nat
    BY <2>1, FS_EmptySet, FS_CardinalityType
  <2> QED BY <2>1, <2>2, <2>3
<1> HIDE DEF listed
<1>8. DOMAIN listed = 1 .. Len(listed)
  BY <1>5, LenProperties
<1>9. \A i, j \in DOMAIN listed : listed[i].id = listed[j].id => i = j
  BY <1>5, <1>8 DEF Distinct
<1>10. \A i \in DOMAIN listed : listed[i].id \notin p \cup w
  <2>1. \A i \in DOMAIN listed : listed[i].id \in IdsIn(listed)
    BY <1>8 DEF IdsIn
  <2>2. IdsIn(listed) \cap (p \cup w) = {}
    BY <1>3, <1>5
  <2> QED BY <2>1, <2>2
<1> HIDE DEF a, b, c, d, e, p, w, A, R, C, D, E
<1>11. p \cup w = {x.id : x \in pool} \cup {x.id : x \in worker.pool}
  BY <1>6 DEF p, w
<1>12. listed = ArraysOf(batchQueue) \o recycles \o worker.recycles
                \o FlattenSeq([i \in DOMAIN InFlight |-> ArraysOf(InFlight[i].frames) \o InFlight[i].recycles])
  BY <1>4 DEF listed, A, R, C
<1> QED BY <1>7, <1>9, <1>10, <1>11, <1>12 DEF ArraysOwnedOnce

LEMMA InitOwned ==
    ASSUME Init
    PROVE  Owned
PROOF
<1>1. /\ batchQueue = <<>> /\ recycles = <<>> /\ toWorker = <<>> /\ fromWorker = <<>>
      /\ \E m \in Modules : worker = InitialWorker(m)
  BY DEF Init
<1>2. worker.pool = {} /\ worker.recycles = <<>>
  BY <1>1 DEF InitialWorker
<1>3. IdsOf({}) = {} /\ ArraysOf(<<>>) = <<>>
  BY DEF IdsOf, ArraysOf
<1>4. Own(<<>>, <<>>, <<>>, <<>>, <<>>, pool, {})
  BY <1>3, DistinctEmpty DEF Own, Apart
<1> QED BY <1>1, <1>2, <1>3, <1>4, HeldEmpty DEF Owned

LEMMA OwnedStep ==
    ASSUME Flow, Flow', Owned, [Next]_vars
    PROVE  Owned'
PROOF
<1>1. Types /\ Types'
  BY DEF Flow
<1>2. ASSUME NEW type, NEW arg, Control(type, arg),
             (type = "SET_MODULE" /\ arg \in Modules) \/ (type = "SET_ENABLED" /\ arg \in {"on", "off"})
      PROVE  Owned'
  BY <1>1, <1>2, ControlOwned
<1>3. CASE UNCHANGED vars
  <2>1. UNCHANGED <<batchQueue, recycles, worker, toWorker, fromWorker, pool>>
    BY <1>3 DEF vars
  <2>2. ArraysOf(batchQueue') = ArraysOf(batchQueue) /\ Held(toWorker') = Held(toWorker)
        /\ Held(fromWorker') = Held(fromWorker)
    BY <2>1
  <2> QED BY <2>1, <2>2 DEF Owned
<1> QED BY <1>1, <1>2, <1>3, ProcessOwned, InitPipelineOwned, WorkletReceivesOwned, WorkerReceivesOwned,
           DestroyOwned DEF Next

\* A Float32Array is in one place, on whichever side of the port, however
\* batches, recycles, module switches and failed batches follow each other
\* (Float32ArrayPool.ts, _pendingRecycles of worklet and worker).
THEOREM ArraysInOnePlace == Spec => []ArraysOwnedOnce
PROOF
<1>1. Init => Flow /\ Owned
  BY InitFlow, InitOwned
<1>2. (Flow /\ Owned) /\ [Next]_vars => (Flow /\ Owned)'
  BY FlowStep, OwnedStep
<1>3. Flow /\ Owned => ArraysOwnedOnce
  BY OwnedArrays DEF Flow
<1> QED BY <1>1, <1>2, <1>3, PTL DEF Spec

(***************************************************************************)
(* The ring buffers between the quanta and the frames.  The audio path     *)
(* above takes them for sequences as long as they are not overrun: a ring  *)
(* is one, for every capacity, every set of samples and every length of the*)
(* calls that fits it.                                                     *)
(***************************************************************************)

\* An index advanced by at most the capacity wraps at most once.
LEMMA WrapAround ==
    ASSUME NEW a \in Slots, NEW b \in 0 .. Capacity
    PROVE  /\ (a + b) % Capacity = IF a + b < Capacity THEN a + b ELSE a + b - Capacity
           /\ (a + b) % Capacity \in Slots
PROOF BY BufferAssumption, SMTT(30) DEF Slots

\* What the callers push is a non-empty sequence that fits an empty buffer.
LEMMA GivenType ==
    ASSUME NEW given \in Inputs
    PROVE  given \in Seq(Samples) /\ Len(given) \in 1 .. Capacity
PROOF BY BufferAssumption DEF Inputs

\* Reading stays inside the array and yields as many samples as asked for.
LEMMA ReadType ==
    ASSUME RingTypeOK, NEW n \in 0 .. Capacity
    PROVE  Read(n) \in Seq(Samples) /\ Len(Read(n)) = n
PROOF
<1> DEFINE tail == Capacity - readIndex
           cell(k) == IF k <= tail THEN data[readIndex + k - 1] ELSE data[k - tail - 1]
<1>1. ASSUME NEW k \in 1 .. n PROVE cell(k) \in Samples
  BY <1>1, BufferAssumption DEF RingTypeOK, Slots
<1>2. Read(n) = [k \in 1 .. n |-> cell(k)]
  BY DEF Read
<1>3. Read(n) \in [1 .. n -> Samples]
  BY <1>1, <1>2
<1> QED BY <1>3

-----------------------------------------------------------------------------
LEMMA RingTypeInit == RingInit => RingTypeOK
PROOF BY BufferAssumption DEF RingInit, RingTypeOK, Slots

LEMMA RingTypeStep == RingTypeOK /\ [RingNext]_ringVars => RingTypeOK'
PROOF
<1> SUFFICES ASSUME RingTypeOK, [RingNext]_ringVars PROVE RingTypeOK'
  OBVIOUS
<1> USE BufferAssumption
<1>1. ASSUME NEW given \in Inputs, Push(given) PROVE RingTypeOK'
  <2> DEFINE tail == Capacity - writeIndex
             cell(j) == IF tail + j < Len(given) THEN given[tail + j + 1]
                        ELSE IF j >= writeIndex /\ j < writeIndex + Len(given) THEN given[j - writeIndex + 1]
                        ELSE data[j]
  <2>1. given \in Seq(Samples) /\ Len(given) \in 1 .. Capacity
    BY GivenType
  <2>2. ASSUME NEW j \in Slots PROVE cell(j) \in Samples
    BY <2>1, <2>2 DEF RingTypeOK, Slots
  <2>3. data' = [j \in Slots |-> cell(j)]
    BY <1>1 DEF Push, Written
  <2>4. data' \in [Slots -> Samples]
    BY <2>2, <2>3
  <2>5. writeIndex' \in Slots
    BY <1>1, <2>1, WrapAround DEF Push, RingTypeOK
  <2>6. framesAvailable' \in 0 .. Capacity
    BY <1>1, <2>1 DEF Push, Smaller, RingTypeOK
  <2> QED BY <1>1, <2>1, <2>4, <2>5, <2>6 DEF Push, RingTypeOK
<1>2. ASSUME NEW n \in 1 .. MaxLen, Pull(n) PROVE RingTypeOK'
  <2>1. n \in 0 .. Capacity /\ n <= framesAvailable
    BY <1>2 DEF Pull
  <2>2. passed' \in Seq(Samples)
    BY <1>2, <2>1, ReadType DEF Pull
  <2>3. readIndex' \in Slots
    BY <1>2, <2>1, WrapAround DEF Pull, RingTypeOK
  <2> QED BY <1>2, <2>1, <2>2, <2>3 DEF Pull, RingTypeOK
<1>3. ASSUME NEW n \in 1 .. MaxLen, PullSilence(n) PROVE RingTypeOK'
  BY <1>3 DEF PullSilence, RingTypeOK
<1>4. CASE DrainInto
  <2>1. passed' \in Seq(Samples)
    BY <1>4, ReadType DEF DrainInto, RingTypeOK
  <2>2. readIndex' \in Slots
    BY <1>4, WrapAround DEF DrainInto, RingTypeOK
  <2> QED BY <1>4, <2>1, <2>2 DEF DrainInto, RingTypeOK
<1>5. CASE Clear
  BY <1>5 DEF Clear, RingTypeOK, Slots
<1>6. CASE UNCHANGED ringVars
  BY <1>6 DEF ringVars, RingTypeOK
<1> QED BY <1>1, <1>2, <1>3, <1>4, <1>5, <1>6 DEF RingNext

\* The indices of the buffer stay inside the array and the count between 0 and
\* the capacity, in every state and through overruns.
THEOREM RingIndicesInRange == RingSpec => []RingTypeOK
PROOF BY RingTypeInit, RingTypeStep, PTL DEF RingSpec

-----------------------------------------------------------------------------
LEMMA IndicesInit == RingInit => IndicesAgree
PROOF BY BufferAssumption DEF RingInit, IndicesAgree

LEMMA IndicesStep == RingTypeOK /\ IndicesAgree /\ [RingNext]_ringVars => IndicesAgree'
PROOF
<1> SUFFICES ASSUME RingTypeOK, IndicesAgree, [RingNext]_ringVars PROVE IndicesAgree'
  OBVIOUS
<1> USE BufferAssumption
<1>0. /\ readIndex \in Slots /\ writeIndex \in Slots /\ framesAvailable \in 0 .. Capacity
      /\ intact => writeIndex = IF readIndex + framesAvailable < Capacity THEN readIndex + framesAvailable
                                ELSE readIndex + framesAvailable - Capacity
  BY WrapAround DEF RingTypeOK, IndicesAgree
<1>1. ASSUME NEW given \in Inputs, Push(given) PROVE IndicesAgree'
  <2>1. SUFFICES ASSUME intact' PROVE writeIndex' = (readIndex' + framesAvailable') % Capacity
    BY DEF IndicesAgree
  <2>2. Len(given) \in 1 .. Capacity
    BY GivenType
  <2>3. /\ intact /\ framesAvailable + Len(given) <= Capacity
        /\ framesAvailable' = framesAvailable + Len(given) /\ readIndex' = readIndex
    BY <1>1, <2>1, <2>2, <1>0 DEF Push, Smaller
  <2> DEFINE f == framesAvailable + Len(given)
  <2>4. (readIndex + f) % Capacity = IF readIndex + f < Capacity THEN readIndex + f ELSE readIndex + f - Capacity
    <3>1. f \in 0 .. Capacity
      BY <1>0, <2>2, <2>3
    <3> QED BY <1>0, <3>1, WrapAround
  <2>5. writeIndex' = IF writeIndex + Len(given) < Capacity THEN writeIndex + Len(given)
                      ELSE writeIndex + Len(given) - Capacity
    <3>1. Len(given) \in 0 .. Capacity
      BY <2>2
    <3> QED BY <1>0, <1>1, <3>1, WrapAround DEF Push
  <2>6. writeIndex' = (readIndex + f) % Capacity
    BY <1>0, <2>2, <2>3, <2>4, <2>5 DEF Slots
  <2> QED BY <2>3, <2>6
<1>2. ASSUME NEW n \in 1 .. Capacity, n <= framesAvailable, intact' = intact, writeIndex' = writeIndex,
             readIndex' = (readIndex + n) % Capacity, framesAvailable' = framesAvailable - n
      PROVE  IndicesAgree'
  <2>1. readIndex' \in Slots
        /\ readIndex' = IF readIndex + n < Capacity THEN readIndex + n ELSE readIndex + n - Capacity
    BY <1>0, <1>2, WrapAround
  <2>2. (readIndex' + framesAvailable') % Capacity =
            IF readIndex' + framesAvailable' < Capacity THEN readIndex' + framesAvailable'
            ELSE readIndex' + framesAvailable' - Capacity
    <3>1. framesAvailable - n \in 0 .. Capacity
      BY <1>0, <1>2
    <3> QED BY <1>2, <2>1, <3>1, WrapAround
  <2> QED BY <1>0, <1>2, <2>1, <2>2 DEF IndicesAgree, Slots
<1>3. ASSUME NEW n \in 1 .. MaxLen, Pull(n) PROVE IndicesAgree'
  BY <1>2, <1>3 DEF Pull
<1>4. ASSUME NEW n \in 1 .. MaxLen, PullSilence(n) PROVE IndicesAgree'
  BY <1>4 DEF PullSilence, IndicesAgree
<1>5. CASE DrainInto
  <2>1. framesAvailable \in 1 .. Capacity /\ framesAvailable' = framesAvailable - framesAvailable
    BY <1>0, <1>5 DEF DrainInto
  <2> QED BY <1>2, <1>5, <2>1 DEF DrainInto
<1>6. CASE Clear
  BY <1>6 DEF Clear, IndicesAgree
<1>7. CASE UNCHANGED ringVars
  BY <1>7 DEF ringVars, IndicesAgree
<1> QED BY <1>1, <1>3, <1>4, <1>5, <1>6, <1>7 DEF RingNext

\* The counters of the buffer stay inside the array, and as long as no push has
\* exceeded the capacity the write index is exactly framesAvailable slots after
\* the read index.
THEOREM RingIndicesAgree == RingSpec => []RingInvariant
PROOF
<1>1. RingTypeOK /\ IndicesAgree /\ [RingNext]_ringVars => (RingTypeOK /\ IndicesAgree)'
  BY RingTypeStep, IndicesStep
<1> QED BY <1>1, RingTypeInit, IndicesInit, PTL DEF RingSpec, RingInvariant

-----------------------------------------------------------------------------

\* The k-th sample held lies k - 1 slots after the read index.
LEMMA ContentsAt ==
    ASSUME RingTypeOK, NEW k \in 1 .. framesAvailable
    PROVE  Contents[k] = IF readIndex + k - 1 < Capacity THEN data[readIndex + k - 1]
                         ELSE data[readIndex + k - 1 - Capacity]
PROOF BY BufferAssumption DEF Contents, Read, RingTypeOK, Slots

LEMMA ContentsType == RingTypeOK => Contents \in Seq(Samples) /\ Len(Contents) = framesAvailable
PROOF BY ReadType DEF Contents, RingTypeOK

LEMMA ContentsEmpty == framesAvailable = 0 => Contents = <<>>
PROOF BY DEF Contents, Read

\* A push that fits appends its given to the contents.
LEMMA PushAppends ==
    ASSUME RingTypeOK, RingTypeOK', IndicesAgree, intact, NEW given \in Inputs, Push(given),
           framesAvailable + Len(given) <= Capacity
    PROVE  Contents' = Contents \o given
PROOF
<1> USE BufferAssumption
<1> DEFINE n == framesAvailable
           l == Len(given)
           both == Contents \o given
<1>1. given \in Seq(Samples) /\ l \in 1 .. Capacity
  BY GivenType
<1>2. readIndex' = readIndex /\ framesAvailable' = n + l /\ data' = Written(given)
  BY <1>1 DEF Push, Smaller, RingTypeOK
<1>3. readIndex \in Slots /\ writeIndex \in Slots /\ n \in 0 .. Capacity
      /\ writeIndex = IF readIndex + n < Capacity THEN readIndex + n ELSE readIndex + n - Capacity
  BY WrapAround DEF RingTypeOK, IndicesAgree
<1>4. Contents' \in Seq(Samples) /\ Len(Contents') = n + l
  <2>1. (RingTypeOK => Contents \in Seq(Samples) /\ Len(Contents) = framesAvailable)'
    BY ContentsType, PTL
  <2> QED BY <1>2, <2>1
<1>5. both \in Seq(Samples) /\ Len(both) = n + l
  BY <1>1, ContentsType
<1>6. ASSUME NEW k \in 1 .. n + l PROVE Contents'[k] = both[k]
  <2> DEFINE at == IF readIndex + k - 1 < Capacity THEN readIndex + k - 1 ELSE readIndex + k - 1 - Capacity
  <2>1. at \in Slots
    BY <1>1, <1>3, <1>6 DEF Slots
  <2>2. Contents'[k] = data'[at]
    BY <1>2, <1>3, <1>6 DEF Contents, Read, Slots
  <2>3. CASE k <= n
    <3>1. data'[at] = data[at]
      <4> DEFINE tail == Capacity - writeIndex
      <4>1. data'[at] = IF tail + at < l THEN given[tail + at + 1]
                        ELSE IF at >= writeIndex /\ at < writeIndex + l THEN given[at - writeIndex + 1]
                        ELSE data[at]
        BY <1>2, <2>1 DEF Written
      <4>2. ~(tail + at < l) /\ ~(at >= writeIndex /\ at < writeIndex + l)
        BY <1>1, <1>3, <1>6, <2>3 DEF Slots
      <4> HIDE DEF at, tail, l, n
      <4> QED BY <4>1, <4>2
    <3>2. Contents[k] = data[at]
      <4>1. k \in 1 .. framesAvailable
        BY <1>3, <1>6, <2>3
      <4> QED BY <4>1, ContentsAt
    <3>3. both[k] = Contents[k]
      BY <1>1, <1>3, <1>6, <2>3, ContentsType
    <3> QED BY <2>2, <3>1, <3>2, <3>3
  <2>4. CASE k > n
    <3>1. data'[at] = given[k - n]
      <4> DEFINE tail == Capacity - writeIndex
      <4>1. data'[at] = IF tail + at < l THEN given[tail + at + 1]
                        ELSE IF at >= writeIndex /\ at < writeIndex + l THEN given[at - writeIndex + 1]
                        ELSE data[at]
        BY <1>2, <2>1 DEF Written
      <4>2. \/ tail + at < l /\ tail + at + 1 = k - n
            \/ ~(tail + at < l) /\ at >= writeIndex /\ at < writeIndex + l /\ at - writeIndex + 1 = k - n
        BY <1>1, <1>3, <1>6, <2>4 DEF Slots
      <4> HIDE DEF at, tail, l, n
      <4> QED BY <4>1, <4>2
    <3>2. both[k] = given[k - n]
      BY <1>1, <1>3, <1>6, <2>4, ContentsType
    <3> QED BY <2>2, <3>1, <3>2
  <2>5. k <= n \/ k > n
    BY <1>1, <1>3, <1>6
  <2> HIDE DEF n, both
  <2> QED BY <2>3, <2>4, <2>5
<1> QED BY <1>4, <1>5, <1>6, SeqEqual

\* Taking the first n samples leaves the others.
LEMMA ReadTakes ==
    ASSUME RingTypeOK, RingTypeOK', NEW n \in 1 .. Capacity, n <= framesAvailable,
           readIndex' = (readIndex + n) % Capacity, framesAvailable' = framesAvailable - n, data' = data
    PROVE  /\ Read(n) = SubSeq(Contents, 1, n)
           /\ Contents' = SubSeq(Contents, n + 1, Len(Contents))
PROOF
<1> USE BufferAssumption
<1> DEFINE rest == SubSeq(Contents, n + 1, Len(Contents))
           first == SubSeq(Contents, 1, n)
<1>1. Contents \in Seq(Samples) /\ Len(Contents) = framesAvailable /\ framesAvailable \in 0 .. Capacity
      /\ readIndex \in Slots
  BY ContentsType DEF RingTypeOK
<1>2. readIndex' = IF readIndex + n < Capacity THEN readIndex + n ELSE readIndex + n - Capacity
  BY <1>1, WrapAround
<1>3. first \in Seq(Samples) /\ Len(first) = n /\ \A k \in 1 .. n : first[k] = Contents[k]
  BY <1>1
<1>4. rest \in Seq(Samples) /\ Len(rest) = framesAvailable - n
      /\ \A k \in 1 .. framesAvailable - n : rest[k] = Contents[n + k]
  <2>1. Contents \in Seq(Samples) /\ n + 1 \in 1 .. Len(Contents) + 1 /\ Len(Contents) \in Nat
        /\ Len(Contents) = framesAvailable /\ framesAvailable \in Nat /\ n \in Nat
    BY <1>1
  <2>2. PICK m \in Nat : m = n + 1
    BY <2>1
  <2>3. \A i \in m .. Len(Contents) : Contents[i] \in Samples
    BY <2>1, <2>2
  <2>4. SubSeq(Contents, m, Len(Contents)) \in Seq(Samples)
        /\ Len(SubSeq(Contents, m, Len(Contents))) = (IF m <= Len(Contents) THEN Len(Contents) - m + 1 ELSE 0)
        /\ \A k \in 1 .. Len(Contents) - m + 1 : SubSeq(Contents, m, Len(Contents))[k] = Contents[m + k - 1]
    BY <2>1, <2>2, <2>3, SubSeqProperties
  <2>5. rest = SubSeq(Contents, m, Len(Contents))
    BY <2>2
  <2> HIDE DEF rest
  <2>6. rest \in Seq(Samples) /\ Len(rest) = framesAvailable - n
    BY <2>1, <2>2, <2>4, <2>5
  <2>7. ASSUME NEW k \in 1 .. framesAvailable - n PROVE rest[k] = Contents[n + k]
    <3>1. k \in 1 .. Len(Contents) - m + 1 /\ m + k - 1 = n + k
      BY <2>1, <2>2
    <3> QED BY <2>4, <2>5, <3>1
  <2> QED BY <2>6, <2>7
<1>5. Read(n) = first
  <2>1. Read(n) \in Seq(Samples) /\ Len(Read(n)) = n
    BY ReadType
  <2>2. \A k \in 1 .. n : Read(n)[k] = first[k]
    BY <1>1, <1>3 DEF Contents, Read
  <2> QED BY <1>3, <2>1, <2>2, SeqEqual
<1>6. Contents' = rest
  <2>1. Contents' \in Seq(Samples) /\ Len(Contents') = framesAvailable - n
    <3>1. (RingTypeOK => Contents \in Seq(Samples) /\ Len(Contents) = framesAvailable)'
      BY ContentsType, PTL
    <3> QED BY <3>1
  <2>2. ASSUME NEW k \in 1 .. framesAvailable - n PROVE Contents'[k] = rest[k]
    <3>1. Contents'[k] = IF readIndex' + k - 1 < Capacity THEN data[readIndex' + k - 1]
                         ELSE data[readIndex' + k - 1 - Capacity]
      BY <1>1, <1>2, <2>2 DEF Contents, Read, Slots
    <3>2. n + k \in 1 .. framesAvailable
      BY <1>1, <2>2
    <3>3. Contents[n + k] = IF readIndex + (n + k) - 1 < Capacity THEN data[readIndex + (n + k) - 1]
                            ELSE data[readIndex + (n + k) - 1 - Capacity]
      BY <3>2, ContentsAt
    <3>4. rest[k] = Contents[n + k]
      BY <1>4, <2>2
    <3>5. (IF readIndex' + k - 1 < Capacity THEN readIndex' + k - 1 ELSE readIndex' + k - 1 - Capacity)
          = (IF readIndex + (n + k) - 1 < Capacity THEN readIndex + (n + k) - 1
             ELSE readIndex + (n + k) - 1 - Capacity)
      BY <1>1, <1>2, <2>2 DEF Slots
    <3> HIDE DEF rest
    <3> QED BY <3>1, <3>3, <3>4, <3>5
  <2> QED BY <1>4, <2>1, <2>2, SeqEqual
<1> QED BY <1>5, <1>6

-----------------------------------------------------------------------------
LEMMA QueueInitMaps == RingInit => Fifo!QueueInit
PROOF BY ContentsEmpty DEF RingInit, Fifo!QueueInit

LEMMA QueueStepMaps ==
    RingTypeOK /\ RingTypeOK' /\ IndicesAgree /\ [RingNext]_ringVars => [Fifo!QueueNext]_(Fifo!queueVars)
PROOF
<1> SUFFICES ASSUME RingTypeOK, RingTypeOK', IndicesAgree, [RingNext]_ringVars
             PROVE  [Fifo!QueueNext]_(Fifo!queueVars)
  OBVIOUS
<1> USE BufferAssumption
<1>0. Contents \in Seq(Samples) /\ Len(Contents) = framesAvailable /\ framesAvailable \in 0 .. Capacity
  BY ContentsType DEF RingTypeOK
<1>00. Contents' \in Seq(Samples) /\ Len(Contents') = framesAvailable'
  <2>1. (RingTypeOK => Contents \in Seq(Samples) /\ Len(Contents) = framesAvailable)'
    BY ContentsType, PTL
  <2> QED BY <2>1
<1>1. ASSUME NEW given \in Inputs, Push(given) PROVE Fifo!QueueNext
  <2>1. Len(given) \in 1 .. Capacity
    BY GivenType
  <2>2. CASE intact /\ framesAvailable + Len(given) <= Capacity
    <3>1. Contents' = Contents \o given
      BY <1>1, <2>2, PushAppends
    <3>2. passed' = given /\ intact' = intact
      BY <1>1, <2>2 DEF Push, RingTypeOK
    <3>3. Fifo!Put(given)
      BY <1>0, <2>2, <3>1, <3>2 DEF Fifo!Put
    <3> QED BY <3>3 DEF Fifo!QueueNext, Fifo!Inputs, Inputs
  <2>3. CASE framesAvailable + Len(given) > Capacity
    <3>1. framesAvailable' = Capacity /\ intact' = FALSE /\ passed' = given
      <4>1. ~(framesAvailable + Len(given) <= Capacity)
        BY <1>0, <2>1, <2>3
      <4>2. framesAvailable' = Capacity /\ passed' = given
        BY <1>1, <4>1 DEF Push, Smaller
      <4>3. intact' = FALSE
        BY <1>1, <4>1, Zenon DEF Push
      <4> QED BY <4>2, <4>3
    <3>2. Contents' \in [1 .. Capacity -> Samples]
      BY <1>00, <3>1
    <3>3. Fifo!Overrun(given)
      BY <1>0, <2>3, <3>1, <3>2 DEF Fifo!Overrun, Fifo!Scrambled
    <3> QED BY <3>3 DEF Fifo!QueueNext, Fifo!Inputs, Inputs
  <2>4. CASE ~intact /\ framesAvailable + Len(given) <= Capacity
    <3>1. framesAvailable' = framesAvailable + Len(given) /\ passed' = given
      BY <1>0, <1>1, <2>1, <2>4 DEF Push, Smaller
    <3>2. intact' = intact
      BY <1>1, <2>4 DEF Push, RingTypeOK
    <3>3. Contents' \in [1 .. framesAvailable + Len(given) -> Samples]
      BY <1>00, <3>1
    <3>4. Fifo!PutScrambled(given)
      BY <1>0, <2>4, <3>1, <3>2, <3>3 DEF Fifo!PutScrambled, Fifo!Scrambled
    <3> QED BY <3>4 DEF Fifo!QueueNext, Fifo!Inputs, Inputs
  <2> QED BY <1>0, <2>1, <2>2, <2>3, <2>4
<1>2. ASSUME NEW n \in 1 .. MaxLen, Pull(n) PROVE Fifo!QueueNext
  <2>1. n \in 1 .. Capacity /\ n <= framesAvailable
    BY <1>2 DEF Pull
  <2>2. Read(n) = SubSeq(Contents, 1, n) /\ Contents' = SubSeq(Contents, n + 1, Len(Contents))
    BY <1>2, <2>1, ReadTakes DEF Pull
  <2>3. Fifo!Take(n)
    BY <1>0, <1>2, <2>1, <2>2 DEF Pull, Fifo!Take
  <2> QED BY <2>3 DEF Fifo!QueueNext
<1>3. ASSUME NEW n \in 1 .. MaxLen, PullSilence(n) PROVE Fifo!QueueNext
  <2>1. Contents' = Contents
    BY <1>3 DEF PullSilence, Contents, Read
  <2>2. Fifo!Underrun(n)
    BY <1>0, <1>3, <2>1 DEF PullSilence, Fifo!Underrun
  <2> QED BY <2>2 DEF Fifo!QueueNext
<1>4. CASE DrainInto
  <2>1. Contents # <<>>
    BY <1>0, <1>4 DEF DrainInto
  <2>2. Contents' = <<>>
    <3>1. (framesAvailable = 0 => Contents = <<>>)'
      BY ContentsEmpty, PTL
    <3> QED BY <1>4, <3>1 DEF DrainInto
  <2>3. Fifo!TakeAll
    BY <1>4, <2>1, <2>2 DEF DrainInto, Contents, Fifo!TakeAll
  <2> QED BY <2>3 DEF Fifo!QueueNext
<1>5. CASE Clear
  <2>1. Contents' = <<>>
    <3>1. (framesAvailable = 0 => Contents = <<>>)'
      BY ContentsEmpty, PTL
    <3> QED BY <1>5, <3>1 DEF Clear
  <2>2. Fifo!Empty
    BY <1>5, <2>1 DEF Clear, Fifo!Empty
  <2> QED BY <2>2 DEF Fifo!QueueNext
<1>6. CASE UNCHANGED ringVars
  BY <1>6 DEF ringVars, Contents, Read, Fifo!queueVars
<1> QED BY <1>1, <1>2, <1>3, <1>4, <1>5, <1>6 DEF RingNext

\* The ring buffer implements the queue: pulls and drains hand out what was
\* pushed, in order, nothing lost and nothing twice, for every capacity.
THEOREM RingIsQueue == RingSpec => IsQueue
PROOF
<1>1. RingTypeOK /\ IndicesAgree /\ [RingNext]_ringVars => (RingTypeOK /\ IndicesAgree)'
  BY RingTypeStep, IndicesStep
<1> QED BY <1>1, RingTypeInit, IndicesInit, QueueInitMaps, QueueStepMaps, PTL
        DEF RingSpec, IsQueue, Fifo!QueueSpec

=============================================================================
