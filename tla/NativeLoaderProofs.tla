------------------------- MODULE NativeLoaderProofs -------------------------
(***************************************************************************)
(* Proof that NativeLoader delivers its epochs, for any workers, capacity  *)
(* of the channel, lengths of the dataset, batch sizes and faults.         *)
(*                                                                         *)
(* Three things move: numbers travel from the index channel over worker,   *)
(* channel and buffer to the batch (InFlight, Buffered); batches are cut   *)
(* from them (Delivered, Collected, Counted); and the epoch ends           *)
(* (Ended, Finished).                                                      *)
(***************************************************************************)
EXTENDS NativeLoader, TLAPS

Options == [dropLast : BOOLEAN, overfit : BOOLEAN, len : [Splits -> Nat], bs : [Splits -> Nat \ {0}]]
Calls == {"idle", "collect", "join", "batch", "closed", "error", "panicked"}
Goals == [after : {"none", "start", "end", "cleanup"}, split : Splits]
Jobs == [pc : {"off", "recv", "send", "panicked", "stuck"}, item : Int]
Counters == [epochs : Nat, batches : Nat, promised : Int, faults : Nat]

LoaderType ==
    /\ opts \in Options /\ call \in Calls /\ goal \in Goals
    /\ split \in Splits
    /\ opts.overfit => split = "train"
    /\ finished \in BOOLEAN /\ drained \in BOOLEAN /\ open \in BOOLEAN /\ early \in BOOLEAN
    /\ target \in Nat /\ cur \in Nat /\ indices \in Nat
    /\ samples \in Seq(Int) /\ channel \in Seq(Int) /\ given \in Seq(Int)
    /\ outBuf \subseteq Int
    /\ worker \in [Workers -> Jobs]
    /\ used \in Counters

\* The number k is computed and not yet in a batch.
Coming(k) == k \in cur .. N - 1 /\ k < indices

\* A number that was computed is in one place: with a worker that sends it, in
\* the channel, or in the buffer.
Ahead == open => cur <= indices /\ \A k \in outBuf : k < indices

HasComputed(w) == worker[w].pc = "send" /\ worker[w].item >= 0
Computed ==
    open => \A w \in Workers : HasComputed(w) =>
        /\ Coming(worker[w].item) /\ worker[w].item \notin outBuf
        /\ \A i \in 1 .. Len(channel) : channel[i] # worker[w].item
ComputedOnce ==
    open => \A v, w \in Workers :
        HasComputed(v) /\ HasComputed(w) /\ worker[v].item = worker[w].item => v = w

Sent ==
    open => \A i \in 1 .. Len(channel) : channel[i] >= 0 =>
        Coming(channel[i]) /\ channel[i] \notin outBuf
SentOnce ==
    open => \A i, j \in 1 .. Len(channel) : channel[i] >= 0 /\ channel[i] = channel[j] => i = j

InFlight ==
    /\ ~open => channel = <<>>
    /\ Ahead /\ Computed /\ ComputedOnce /\ Sent /\ SentOnce

Buffered == outBuf \subseteq cur .. N - 1

\* The batches returned are the samples from the first on.
Delivered ==
    /\ \A i \in 1 .. Len(given) : given[i] = i - 1
    /\ Len(given) <= N

\* The batch that is collected continues them.
Collected ==
    /\ call = "collect" =>
        /\ open
        /\ Len(given) + Len(samples) = cur
        /\ \A i \in 1 .. Len(samples) : samples[i] = Len(given) + i - 1
        /\ target = Least(N, Len(given) + opts.bs[split])
        /\ cur <= target
        /\ Len(given) = N => drained
    /\ call \in {"idle", "batch"} /\ open => cur = Len(given)
    /\ call \in {"join", "closed"} => ~open

\* Every batch but the last is full, and none is empty.
Counted ==
    open =>
        /\ Len(given) <= used.batches * opts.bs[split]
        /\ Len(given) < N => Len(given) = used.batches * opts.bs[split]
        /\ used.batches > 0 => (used.batches - 1) * opts.bs[split] < Len(given)

AsAsked == goal.split = "train" \/ ~opts.overfit

Announced ==
    open /\ AsAsked /\ ~opts.dropLast => used.promised = CeilDiv(N, opts.bs[split])

Complete ==
    ~opts.dropLast => Len(given) = N /\ (AsAsked => used.batches = used.promised)

Ended ==
    /\ call = "join" /\ goal.after = "end" => Complete
    /\ call = "join" /\ goal.after = "start" => ~finished
    /\ finished => ~open /\ Complete

\* The end of the epoch is noticed early, or when all samples are there.
Noticed ==
    /\ open /\ drained => early \/ cur >= N
    /\ call = "panicked" => opts.dropLast /\ early

Inv ==
    /\ LoaderType /\ InFlight /\ Buffered /\ Delivered /\ Collected
    /\ Counted /\ Announced /\ Ended /\ Noticed

-----------------------------------------------------------------------------
(* Arithmetic and sequences. *)

\* As many batches of b as n samples take.
LEMMA BatchesOf ==
    ASSUME NEW n \in Nat, NEW b \in Nat \ {0}, NEW m \in Nat,
           n <= m * b, m > 0 => (m - 1) * b < n
    PROVE  m = CeilDiv(n, b)
PROOF
<1> DEFINE q == (n + b - 1) \div b
<1>1. q \in Int /\ b * q <= n + b - 1 /\ n + b - 1 < b * q + b
  BY SMT
<1>2. CASE m = 0
  BY <1>1, <1>2, SMT DEF CeilDiv
<1>3. CASE m > 0
  BY <1>1, <1>3, SMT DEF CeilDiv
<1> QED BY <1>2, <1>3

LEMMA OneMore == ASSUME NEW m \in Nat, NEW b \in Nat PROVE (m + 1) * b = m * b + b
PROOF BY SMT

LEMMA CeilDivInt == \A n \in Nat, b \in Nat \ {0} : CeilDiv(n, b) \in Int /\ n \div b \in Int
PROOF BY SMT DEF CeilDiv

LEMMA EmptyFacts == <<>> \in Seq(Int) /\ Len(<<>>) = 0
PROOF OBVIOUS

LEMMA AppendFacts ==
    ASSUME NEW c \in Seq(Int), NEW k \in Int
    PROVE  /\ Append(c, k) \in Seq(Int) /\ Len(Append(c, k)) = Len(c) + 1
           /\ \A i \in 1 .. Len(c) : Append(c, k)[i] = c[i]
           /\ Append(c, k)[Len(c) + 1] = k
PROOF OBVIOUS

LEMMA CounterSteps ==
    ASSUME NEW u \in Counters
    PROVE  /\ [u EXCEPT !.epochs = @ + 1] \in Counters
           /\ [u EXCEPT !.batches = @ + 1] \in Counters
           /\ [u EXCEPT !.faults = @ + 1] \in Counters
           /\ \A n \in Int : [u EXCEPT !.batches = 0, !.promised = n] \in Counters
PROOF
<1>1. [u EXCEPT !.epochs = @ + 1] \in Counters
  BY DEF Counters
<1>2. [u EXCEPT !.batches = @ + 1] \in Counters
  BY DEF Counters
<1>3. [u EXCEPT !.faults = @ + 1] \in Counters
  BY DEF Counters
<1>4. ASSUME NEW n \in Int PROVE [u EXCEPT !.batches = 0, !.promised = n] \in Counters
  BY DEF Counters
<1> QED BY <1>1, <1>2, <1>3, <1>4

LEMMA JobTypes ==
    /\ Off \in Jobs /\ Receiving \in Jobs
    /\ [Off EXCEPT !.pc = "panicked"] \in Jobs /\ [Off EXCEPT !.pc = "stuck"] \in Jobs
    /\ \A k \in Int : Sending(k) \in Jobs
PROOF
<1>1. Off \in Jobs /\ Receiving \in Jobs
  BY DEF Off, Receiving, Jobs
<1>2. [Off EXCEPT !.pc = "panicked"] \in Jobs
  BY DEF Off, Jobs
<1>3. [Off EXCEPT !.pc = "stuck"] \in Jobs
  BY DEF Off, Jobs
<1>4. \A k \in Int : Sending(k) \in Jobs
  BY DEF Sending, Jobs
<1> QED BY <1>1, <1>2, <1>3, <1>4

LEMMA GoalTypes ==
    /\ \A a \in {"none", "start", "end", "cleanup"}, s \in Splits : [after |-> a, split |-> s] \in Goals
    /\ \A g \in Goals, a \in {"end", "cleanup"} : [g EXCEPT !.after = a] \in Goals
PROOF BY DEF Goals

LEMMA LengthTypes ==
    LoaderType => N \in Nat /\ (\A s \in Splits : DatasetLen(s) \in Nat /\ DataloaderLen(s) \in Int)
PROOF
<1> SUFFICES ASSUME LoaderType
             PROVE  N \in Nat /\ (\A s \in Splits : DatasetLen(s) \in Nat /\ DataloaderLen(s) \in Int)
  OBVIOUS
<1>1. \A s \in Splits : DatasetLen(s) \in Nat /\ opts.bs[s] \in Nat \ {0}
  BY DEF LoaderType, Options, DatasetLen, Least
<1>2. N \in Nat
  BY <1>1 DEF LoaderType, N
<1>3. ASSUME NEW s \in Splits PROVE DataloaderLen(s) \in Int
  BY <1>1, CeilDivInt DEF DataloaderLen
<1> QED BY <1>1, <1>2, <1>3

-----------------------------------------------------------------------------
(* The invariant is inductive. *)

LEMMA ComputeStep ==
    ASSUME Inv, NEW w \in Workers, Compute(w)
    PROVE  Inv'
PROOF
<1>1. LoaderType'
  <2>1. indices \in Int /\ SampleError \in Int
    BY DEF Inv, LoaderType, SampleError
  <2>2. PICK j \in Jobs : worker' = [worker EXCEPT ![w] = j]
    BY <2>1, JobTypes DEF Compute
  <2>3. worker' \in [Workers -> Jobs]
    BY <2>2 DEF Inv, LoaderType
  <2>4. used' \in Counters
    BY CounterSteps DEF Inv, LoaderType, Compute, Fault
  <2> QED BY <2>3, <2>4 DEF Inv, LoaderType, Compute, callerVars
<1>2. InFlight'
  <2>1. PICK j \in Jobs : /\ worker' = [worker EXCEPT ![w] = j]
                          /\ j.pc = "send" /\ j.item >= 0 => j.item = indices
    BY JobTypes DEF Compute, Sending, SampleError, Off, Inv, LoaderType
  <2>3. /\ indices' = indices + 1 /\ indices < N /\ N' = N
        /\ UNCHANGED <<open, cur, outBuf, channel>>
    BY DEF Compute, callerVars, N, DatasetLen
  <2>4. N \in Nat /\ cur \in Nat /\ indices \in Nat /\ outBuf \subseteq Int
        /\ \A v \in Workers : worker[v].item \in Int
    BY LengthTypes DEF Inv, LoaderType, Jobs
  <2> QED
    <3>1. Ahead'
      BY <2>3, <2>4 DEF Inv, InFlight, Ahead
    <3>2. Computed'
      BY <2>1, <2>3, <2>4 DEF Inv, InFlight, Ahead, Computed, Sent, HasComputed, Coming
    <3>3. ComputedOnce'
      BY <2>1, <2>3 DEF Inv, InFlight, Computed, ComputedOnce, HasComputed, Coming
    <3>4. Sent'
      BY <2>3, <2>4 DEF Inv, InFlight, Sent, Coming
    <3>5. SentOnce'
      BY <2>3 DEF Inv, InFlight, SentOnce
    <3>6. ~open' => channel' = <<>>
      BY <2>3 DEF Inv, InFlight
    <3> QED BY <3>1, <3>2, <3>3, <3>4, <3>5, <3>6 DEF InFlight
<1>3. Buffered'
  BY DEF Inv, Buffered, Compute, callerVars, N, DatasetLen
<1>4. Delivered'
  BY DEF Inv, Delivered, Compute, callerVars, N, DatasetLen
<1>5. Collected'
  BY DEF Inv, Collected, Compute, callerVars, N, DatasetLen
<1>6. Counted'
  BY DEF Inv, Counted, LoaderType, Compute, Fault, callerVars, Counters, N, DatasetLen
<1>7. Announced'
  BY DEF Inv, Announced, AsAsked, LoaderType, Compute, Fault, callerVars, Counters, N, DatasetLen
<1>8. Ended'
  BY DEF Inv, Ended, Complete, AsAsked, LoaderType, Compute, Fault, callerVars, Counters, N, DatasetLen
<1>9. Noticed'
  BY DEF Inv, Noticed, Compute, callerVars, N, DatasetLen
<1> QED BY <1>1, <1>2, <1>3, <1>4, <1>5, <1>6, <1>7, <1>8, <1>9 DEF Inv

LEMMA TakeMarkerStep ==
    ASSUME Inv, NEW w \in Workers, TakeMarker(w)
    PROVE  Inv'
PROOF
<1>1. LoaderType'
  <2>1. worker' \in [Workers -> Jobs]
    BY JobTypes DEF Inv, LoaderType, TakeMarker, EndMarker
  <2> QED BY <2>1 DEF Inv, LoaderType, TakeMarker, callerVars
<1>2. InFlight'
  <2>1. \A v \in Workers : worker'[v] = IF v = w THEN Sending(EndMarker) ELSE worker[v]
    BY DEF TakeMarker, Inv, LoaderType
  <2>2. indices' = indices + 1 /\ N' = N /\ UNCHANGED <<open, cur, outBuf, channel>>
    BY DEF TakeMarker, callerVars, N, DatasetLen
  <2>3. N \in Nat /\ cur \in Nat /\ indices \in Nat /\ outBuf \subseteq Int
        /\ \A v \in Workers : worker[v].item \in Int
    BY LengthTypes DEF Inv, LoaderType, Jobs
  <2>4. Sending(EndMarker).item = -1
    BY DEF Sending, EndMarker
  <2>5. \A v \in Workers : HasComputed(v)' => HasComputed(v) /\ worker'[v] = worker[v]
    BY <2>1, <2>4 DEF HasComputed
  <2> QED
    <3>1. Ahead'
      BY <2>2, <2>3 DEF Inv, InFlight, Ahead
    <3>2. Computed'
      BY <2>2, <2>3, <2>5 DEF Inv, InFlight, Computed, Coming
    <3>3. ComputedOnce'
      BY <2>2, <2>5 DEF Inv, InFlight, ComputedOnce
    <3>4. Sent'
      BY <2>2, <2>3 DEF Inv, InFlight, Sent, Coming
    <3>5. SentOnce'
      BY <2>2 DEF Inv, InFlight, SentOnce
    <3>6. ~open' => channel' = <<>>
      BY <2>2 DEF Inv, InFlight
    <3> QED BY <3>1, <3>2, <3>3, <3>4, <3>5, <3>6 DEF InFlight
<1>3. Buffered'
  BY DEF Inv, Buffered, TakeMarker, callerVars, N, DatasetLen
<1>4. Delivered'
  BY DEF Inv, Delivered, TakeMarker, callerVars, N, DatasetLen
<1>5. Collected'
  BY DEF Inv, Collected, TakeMarker, callerVars, N, DatasetLen
<1>6. Counted'
  BY DEF Inv, Counted, TakeMarker, callerVars, N, DatasetLen
<1>7. Announced'
  BY DEF Inv, Announced, AsAsked, TakeMarker, callerVars, N, DatasetLen
<1>8. Ended'
  BY DEF Inv, Ended, Complete, AsAsked, TakeMarker, callerVars, N, DatasetLen
<1>9. Noticed'
  BY DEF Inv, Noticed, TakeMarker, callerVars, N, DatasetLen
<1> QED BY <1>1, <1>2, <1>3, <1>4, <1>5, <1>6, <1>7, <1>8, <1>9 DEF Inv

LEMMA NothingLeftStep ==
    ASSUME Inv, NEW w \in Workers, NothingLeft(w)
    PROVE  Inv'
PROOF
<1>1. LoaderType'
  <2>1. worker' \in [Workers -> Jobs]
    BY JobTypes DEF Inv, LoaderType, NothingLeft
  <2> QED BY <2>1 DEF Inv, LoaderType, NothingLeft, callerVars
<1>2. InFlight'
  BY DEF Inv, InFlight, Ahead, Computed, ComputedOnce, Sent, SentOnce, HasComputed, Coming,
         NothingLeft, Off, callerVars, N, DatasetLen
<1>3. Buffered'
  BY DEF Inv, Buffered, NothingLeft, callerVars, N, DatasetLen
<1>4. Delivered'
  BY DEF Inv, Delivered, NothingLeft, callerVars, N, DatasetLen
<1>5. Collected'
  BY DEF Inv, Collected, NothingLeft, callerVars, N, DatasetLen
<1>6. Counted'
  BY DEF Inv, Counted, NothingLeft, callerVars, N, DatasetLen
<1>7. Announced'
  BY DEF Inv, Announced, AsAsked, NothingLeft, callerVars, N, DatasetLen
<1>8. Ended'
  BY DEF Inv, Ended, Complete, AsAsked, NothingLeft, callerVars, N, DatasetLen
<1>9. Noticed'
  BY DEF Inv, Noticed, NothingLeft, callerVars, N, DatasetLen
<1> QED BY <1>1, <1>2, <1>3, <1>4, <1>5, <1>6, <1>7, <1>8, <1>9 DEF Inv

LEMMA SendStep ==
    ASSUME Inv, NEW w \in Workers, Send(w)
    PROVE  Inv'
PROOF
<1>1. LoaderType'
  <2>1. worker' \in [Workers -> Jobs]
    <3>1. PICK j \in Jobs : worker' = [worker EXCEPT ![w] = j]
      BY JobTypes DEF Send
    <3> QED BY <3>1 DEF Inv, LoaderType
  <2>2. channel' \in Seq(Int)
    <3>1. worker[w].item \in Int
      BY DEF Inv, LoaderType, Jobs
    <3> QED BY <3>1, AppendFacts DEF Inv, LoaderType, Send
  <2> QED BY <2>1, <2>2 DEF Inv, LoaderType, Send, callerVars
<1>2. InFlight'
  <2>1. N' = N /\ UNCHANGED <<open, cur, outBuf, indices>>
    BY DEF Send, callerVars, N, DatasetLen
  <2>3. CASE ~open
    BY <2>1, <2>3 DEF Inv, InFlight, Ahead, Computed, ComputedOnce, Sent, SentOnce, Send
  <2>4. CASE open
    <3>1. channel' = Append(channel, worker[w].item) /\ worker[w].pc = "send"
      BY <2>4 DEF Send
    <3>2. \A v \in Workers : v # w => worker'[v] = worker[v]
      BY DEF Send, Inv, LoaderType
    <3>3. worker'[w].pc # "send"
      BY DEF Send, Inv, LoaderType, Off, Receiving
    <3>7. \A v \in Workers : HasComputed(v)' => v # w /\ HasComputed(v) /\ worker'[v] = worker[v]
      BY <3>2, <3>3 DEF HasComputed
    <3> QED
      <4>1. Ahead'
        BY <2>1 DEF Inv, InFlight, Ahead
      <4>2. Computed'
        BY <2>1, <3>1, <3>7 DEF Inv, InFlight, Computed, ComputedOnce, HasComputed, Coming
      <4>3. ComputedOnce'
        BY <2>1, <3>7 DEF Inv, InFlight, ComputedOnce
      <4>4. Sent'
        BY <2>1, <3>1 DEF Inv, InFlight, Computed, Sent, HasComputed, Coming
      <4>5. SentOnce'
        BY <3>1 DEF Inv, InFlight, Computed, SentOnce, HasComputed, Coming
      <4>6. ~open' => channel' = <<>>
        BY <2>1, <2>4 DEF Inv
      <4> QED BY <4>1, <4>2, <4>3, <4>4, <4>5, <4>6 DEF InFlight
  <2> QED BY <2>3, <2>4
<1>3. Buffered'
  BY DEF Inv, Buffered, Send, callerVars, N, DatasetLen
<1>4. Delivered'
  BY DEF Inv, Delivered, Send, callerVars, N, DatasetLen
<1>5. Collected'
  BY DEF Inv, Collected, Send, callerVars, N, DatasetLen
<1>6. Counted'
  BY DEF Inv, Counted, Send, callerVars, N, DatasetLen
<1>7. Announced'
  BY DEF Inv, Announced, AsAsked, Send, callerVars, N, DatasetLen
<1>8. Ended'
  BY DEF Inv, Ended, Complete, AsAsked, Send, callerVars, N, DatasetLen
<1>9. Noticed'
  BY DEF Inv, Noticed, Send, callerVars, N, DatasetLen
<1> QED BY <1>1, <1>2, <1>3, <1>4, <1>5, <1>6, <1>7, <1>8, <1>9 DEF Inv

LEMMA SetBatchSizeStep ==
    ASSUME Inv, NEW s \in Splits, NEW bs \in BatchSizes, SetBatchSize(s, bs)
    PROVE  Inv'
PROOF
<1>1. LoaderType'
  <2>1. opts' \in Options /\ opts'.overfit = opts.overfit
    BY NativeLoaderAssumption DEF Inv, LoaderType, SetBatchSize, Options
  <2> QED BY <2>1 DEF Inv, LoaderType, SetBatchSize, callerVars, workVars
<1>2. InFlight'
  BY DEF Inv, InFlight, Ahead, Computed, ComputedOnce, Sent, SentOnce, HasComputed, Coming,
         LoaderType, SetBatchSize, callerVars, workVars, N, DatasetLen
<1>3. Buffered'
  BY DEF Inv, Buffered, LoaderType, SetBatchSize, callerVars, N, DatasetLen
<1>4. Delivered'
  BY DEF Inv, Delivered, LoaderType, SetBatchSize, callerVars, N, DatasetLen
<1>5. Collected'
  BY DEF Inv, Collected, SetBatchSize, Idle, callerVars
<1>6. Counted'
  BY DEF Inv, Ended, Counted, SetBatchSize, callerVars
<1>7. Announced'
  BY DEF Inv, Ended, Announced, SetBatchSize, callerVars
<1>8. Ended'
  BY DEF Inv, Ended, Complete, AsAsked, LoaderType, SetBatchSize, callerVars, N, DatasetLen
<1>9. Noticed'
  BY DEF Inv, Noticed, LoaderType, SetBatchSize, callerVars, N, DatasetLen
<1> QED BY <1>1, <1>2, <1>3, <1>4, <1>5, <1>6, <1>7, <1>8, <1>9 DEF Inv

LEMMA StartEpochStep ==
    ASSUME Inv, NEW s \in Splits, StartEpoch(s)
    PROVE  Inv'
PROOF
<1>1. LoaderType'
  <2>1. used' \in Counters
    BY CounterSteps DEF Inv, LoaderType, StartEpoch
  <2>2. goal' \in Goals
    BY GoalTypes DEF StartEpoch, JoinFillThread
  <2>3. channel' \in Seq(Int) /\ call' \in Calls /\ open' \in BOOLEAN /\ finished' \in BOOLEAN
    BY EmptyFacts DEF StartEpoch, JoinFillThread, Calls
  <2> QED BY <2>1, <2>2, <2>3 DEF Inv, LoaderType, StartEpoch
<1>2. InFlight'
  BY DEF Inv, InFlight, Ahead, Computed, ComputedOnce, Sent, SentOnce, StartEpoch, JoinFillThread
<1>3. Buffered'
  BY DEF Inv, Buffered, StartEpoch, N, DatasetLen
<1>4. Delivered'
  BY DEF Inv, Delivered, StartEpoch, N, DatasetLen
<1>5. Collected'
  BY DEF Inv, Collected, StartEpoch, JoinFillThread
<1>6. Counted'
  BY DEF Inv, Counted, StartEpoch, JoinFillThread
<1>7. Announced'
  BY DEF Inv, Announced, StartEpoch, JoinFillThread
<1>8. Ended'
  BY DEF Inv, Ended, StartEpoch, JoinFillThread
<1>9. Noticed'
  BY DEF Inv, Noticed, StartEpoch, JoinFillThread
<1> QED BY <1>1, <1>2, <1>3, <1>4, <1>5, <1>6, <1>7, <1>8, <1>9 DEF Inv

LEMMA GetBatchStep ==
    ASSUME Inv, GetBatch
    PROVE  Inv'
PROOF
<1>1. LoaderType'
  <2>1. target' \in Nat
    BY LengthTypes DEF Inv, LoaderType, GetBatch, Least, Options
  <2>2. samples' \in Seq(Int) /\ call' \in Calls
    BY DEF GetBatch, Calls
  <2> QED BY <2>1, <2>2 DEF Inv, LoaderType, GetBatch, workVars
<1>2. InFlight'
  BY DEF Inv, InFlight, Ahead, Computed, ComputedOnce, Sent, SentOnce, HasComputed, Coming,
         GetBatch, workVars, N, DatasetLen
<1>3. Buffered'
  BY DEF Inv, Buffered, GetBatch, N, DatasetLen
<1>4. Delivered'
  BY DEF Inv, Delivered, GetBatch, N, DatasetLen
<1>5. Collected'
  BY DEF Inv, Collected, LoaderType, Delivered, GetBatch, Idle, Least, N, DatasetLen, Options
<1>6. Counted'
  BY DEF Inv, Counted, GetBatch, N, DatasetLen
<1>7. Announced'
  BY DEF Inv, Announced, AsAsked, GetBatch, N, DatasetLen
<1>8. Ended'
  BY DEF Inv, Ended, GetBatch
<1>9. Noticed'
  BY DEF Inv, Noticed, GetBatch, N, DatasetLen
<1> QED BY <1>1, <1>2, <1>3, <1>4, <1>5, <1>6, <1>7, <1>8, <1>9 DEF Inv

\* A sample that is due, from the channel or from the buffer, joins the batch.
LEMMA AddedSample ==
    ASSUME Inv, call = "collect", cur < target, cur' = cur + 1, samples' = Append(samples, cur),
           UNCHANGED <<call, target, given, opts, split, open, drained>>
    PROVE  Collected'
PROOF
<1>1. cur \in Nat /\ target \in Nat /\ samples \in Seq(Int) /\ Len(given) \in Nat /\ N' = N
  BY DEF Inv, LoaderType, N, DatasetLen
<1>2. /\ open /\ Len(given) + Len(samples) = cur
      /\ \A i \in 1 .. Len(samples) : samples[i] = Len(given) + i - 1
      /\ target = Least(N, Len(given) + opts.bs[split])
      /\ Len(given) = N => drained
  BY DEF Inv, Collected
<1>3. /\ Len(samples') = Len(samples) + 1 /\ Len(samples) \in Nat
      /\ \A i \in 1 .. Len(samples) : samples'[i] = samples[i]
      /\ samples'[Len(samples) + 1] = cur
  BY <1>1, AppendFacts
<1>4. Len(given) + Len(samples') = cur' /\ cur' <= target
  BY <1>1, <1>2, <1>3
<1>5. \A i \in 1 .. Len(samples') : samples'[i] = Len(given) + i - 1
  BY <1>1, <1>2, <1>3
<1>6. target = Least(N', Len(given) + opts.bs[split])
  BY <1>1, <1>2
<1> QED BY <1>1, <1>2, <1>4, <1>5, <1>6 DEF Collected, Least

LEMMA TakeBufferedStep ==
    ASSUME Inv, TakeBuffered
    PROVE  Inv'
PROOF
<1>1. LoaderType'
  BY DEF Inv, LoaderType, TakeBuffered, Add, workVars
<1>2. InFlight'
  <2>1. /\ cur \in outBuf /\ cur' = cur + 1 /\ outBuf' = outBuf \ {cur}
        /\ N' = N /\ UNCHANGED <<open, indices, worker, channel>>
    BY DEF TakeBuffered, Add, workVars, N, DatasetLen
  <2>2. N \in Nat /\ cur \in Nat /\ indices \in Nat /\ outBuf \subseteq Int
        /\ \A v \in Workers : worker[v].item \in Int
    BY LengthTypes DEF Inv, LoaderType, Jobs
  <2> QED
    <3>1. Ahead'
      BY <2>1, <2>2 DEF Inv, InFlight, Ahead
    <3>2. Computed'
      BY <2>1, <2>2 DEF Inv, InFlight, Computed, HasComputed, Coming
    <3>3. ComputedOnce'
      BY <2>1 DEF Inv, InFlight, ComputedOnce, HasComputed
    <3>4. Sent'
      BY <2>1, <2>2 DEF Inv, InFlight, Sent, Coming
    <3>5. SentOnce'
      BY <2>1 DEF Inv, InFlight, SentOnce
    <3>6. ~open' => channel' = <<>>
      BY <2>1 DEF Inv, InFlight
    <3> QED BY <3>1, <3>2, <3>3, <3>4, <3>5, <3>6 DEF InFlight
<1>3. Buffered'
  BY DEF Inv, Buffered, TakeBuffered, Add, N, DatasetLen
<1>4. Delivered'
  BY DEF Inv, Delivered, TakeBuffered, N, DatasetLen
<1>5. Collected'
  <2>1. /\ call = "collect" /\ cur < target /\ cur' = cur + 1 /\ samples' = Append(samples, cur)
        /\ UNCHANGED <<call, target, given, opts, split, open, drained>>
    BY DEF TakeBuffered, Collecting, Add
  <2> QED BY <2>1, AddedSample
<1>6. Counted'
  BY DEF Inv, Counted, TakeBuffered, N, DatasetLen
<1>7. Announced'
  BY DEF Inv, Announced, AsAsked, TakeBuffered, N, DatasetLen
<1>8. Ended'
  BY DEF Inv, Ended, Complete, AsAsked, TakeBuffered, N, DatasetLen
<1>9. Noticed'
  BY DEF Inv, Noticed, LoaderType, TakeBuffered, Add, N, DatasetLen, Options
<1> QED BY <1>1, <1>2, <1>3, <1>4, <1>5, <1>6, <1>7, <1>8, <1>9 DEF Inv

LEMMA ReceiveStep ==
    ASSUME Inv, Receive
    PROVE  Inv'
PROOF
<1>1. LoaderType'
  <2>1. Head(channel) \in Int /\ channel' \in Seq(Int)
    BY DEF Receive, Inv, LoaderType
  <2>2. samples' \in Seq(Int) /\ cur' \in Nat /\ outBuf' \subseteq Int
    <3>1. ASSUME NEW k \in Int, Keep(k) PROVE samples' \in Seq(Int) /\ cur' \in Nat /\ outBuf' \subseteq Int
      <4>1. CASE k = cur /\ Add(k) /\ UNCHANGED outBuf
        BY <4>1 DEF Add, Inv, LoaderType
      <4>2. CASE k # cur /\ outBuf' = outBuf \cup {k} /\ UNCHANGED <<samples, cur>>
        BY <4>2 DEF Inv, LoaderType
      <4> QED BY <3>1, <4>1, <4>2 DEF Keep
    <3> QED BY <2>1, <3>1 DEF Receive, Inv, LoaderType
  <2>3. call' \in Calls /\ drained' \in BOOLEAN /\ early' \in BOOLEAN
    BY DEF Receive, Inv, LoaderType, Calls
  <2> QED BY <2>2, <2>3 DEF Inv, LoaderType, Receive
<1>2. InFlight'
  <2>1. open /\ cur \notin outBuf /\ channel # <<>> /\ channel' = Tail(channel)
    BY DEF Receive, Collecting, Inv, Collected
  <2>2. N' = N /\ UNCHANGED <<open, indices, worker>>
    BY DEF Receive, N, DatasetLen
  <2>3. N \in Nat /\ cur \in Nat /\ indices \in Nat /\ channel \in Seq(Int) /\ outBuf \subseteq Int
        /\ \A v \in Workers : worker[v].item \in Int
    BY LengthTypes DEF Inv, LoaderType, Jobs
  <2>4. /\ Head(channel) = channel[1] /\ Len(channel) \in Nat /\ Len(channel) >= 1
        /\ Len(channel') = Len(channel) - 1
        /\ \A i \in 1 .. Len(channel') : channel'[i] = channel[i + 1]
        /\ \A i \in 1 .. Len(channel) : channel[i] \in Int
    BY <2>1, <2>3
  <2>5. ASSUME channel[1] >= 0, Keep(channel[1]) PROVE InFlight'
    <3>1. CASE channel[1] = cur
      <4>1. cur' = cur + 1 /\ outBuf' = outBuf
        BY <2>5, <3>1 DEF Keep, Add
      <4> QED
        <5>1. Ahead'
          BY <2>1, <2>2, <2>3, <2>5, <4>1 DEF Inv, InFlight, Ahead, Sent, Coming
        <5>2. Computed'
          BY <2>1, <2>2, <2>3, <3>1, <4>1 DEF Inv, InFlight, Computed, HasComputed, Coming
        <5>3. ComputedOnce'
          BY <2>2 DEF Inv, InFlight, ComputedOnce, HasComputed
        <5>4. Sent'
          BY <2>2, <2>4, <3>1, <4>1 DEF Inv, InFlight, Sent, SentOnce, HasComputed, Coming
        <5>5. SentOnce'
          BY <2>1 DEF Inv, InFlight, SentOnce
        <5>6. ~open' => channel' = <<>>
          BY <2>1, <2>2 DEF Inv
        <5> QED BY <5>1, <5>2, <5>3, <5>4, <5>5, <5>6 DEF InFlight
    <3>2. CASE channel[1] # cur
      <4>1. cur' = cur /\ outBuf' = outBuf \cup {channel[1]}
        BY <2>5, <3>2 DEF Keep
      <4> QED
        <5>1. Ahead'
          BY <2>1, <2>2, <2>3, <2>4, <2>5, <3>2, <4>1 DEF Inv, InFlight, Ahead, Sent, Coming
        <5>2. Computed'
          BY <2>1, <2>2, <4>1 DEF Inv, InFlight, Computed, HasComputed, Coming
        <5>3. ComputedOnce'
          BY <2>2 DEF Inv, InFlight, ComputedOnce, HasComputed
        <5>4. Sent'
          BY <2>1, <2>2, <4>1 DEF Inv, InFlight, Sent, SentOnce, Coming
        <5>5. SentOnce'
          BY <2>1 DEF Inv, InFlight, SentOnce
        <5>6. ~open' => channel' = <<>>
          BY <2>1, <2>2 DEF Inv
        <5> QED BY <5>1, <5>2, <5>3, <5>4, <5>5, <5>6 DEF InFlight
    <3> QED BY <3>1, <3>2
  <2>6. ASSUME UNCHANGED <<cur, outBuf>> PROVE InFlight'
    <3>1. Ahead'
      BY <2>2, <2>6 DEF Inv, InFlight, Ahead
    <3>2. Computed'
      BY <2>1, <2>2, <2>6 DEF Inv, InFlight, Computed, HasComputed, Coming
    <3>3. ComputedOnce'
      BY <2>2 DEF Inv, InFlight, ComputedOnce, HasComputed
    <3>4. Sent'
      BY <2>1, <2>2, <2>6 DEF Inv, InFlight, Sent, Coming
    <3>5. SentOnce'
      BY <2>1 DEF Inv, InFlight, SentOnce, Coming
    <3>6. ~open' => channel' = <<>>
      BY <2>1, <2>2 DEF Inv
    <3> QED BY <3>1, <3>2, <3>3, <3>4, <3>5, <3>6 DEF InFlight
  <2> QED BY <2>5, <2>6 DEF Receive
<1>3. Buffered'
  <2>1. open /\ cur \notin outBuf /\ channel # <<>> /\ channel' = Tail(channel)
    BY DEF Receive, Collecting, Inv, Collected
  <2>2. N' = N /\ UNCHANGED <<open, indices, worker>>
    BY DEF Receive, N, DatasetLen
  <2>3. N \in Nat /\ cur \in Nat /\ indices \in Nat /\ channel \in Seq(Int) /\ outBuf \subseteq Int
        /\ \A v \in Workers : worker[v].item \in Int
    BY LengthTypes DEF Inv, LoaderType, Jobs
  <2>5. ASSUME channel[1] >= 0, Keep(channel[1]) PROVE Buffered'
    <3>1. CASE channel[1] = cur
      <4>1. cur' = cur + 1 /\ outBuf' = outBuf
        BY <2>5, <3>1 DEF Keep, Add
      <4> QED BY <2>1, <2>2, <2>3, <4>1 DEF Inv, Buffered
    <3>2. CASE channel[1] # cur
      <4>1. cur' = cur /\ outBuf' = outBuf \cup {channel[1]}
        BY <2>5, <3>2 DEF Keep
      <4>2. channel[1] \in cur .. N - 1
        BY <2>1, <2>5 DEF Inv, InFlight, Sent, Coming
      <4> QED BY <2>2, <4>1, <4>2 DEF Inv, Buffered
    <3> QED BY <3>1, <3>2
  <2>6. ASSUME UNCHANGED <<cur, outBuf>> PROVE Buffered'
    BY <2>2, <2>6 DEF Inv, Buffered
  <2> QED BY <2>5, <2>6 DEF Receive
<1>4. Delivered'
  BY DEF Inv, Delivered, Receive, N, DatasetLen
<1>5. Collected'
  <2>1. open /\ cur \notin outBuf /\ channel # <<>> /\ channel' = Tail(channel)
    BY DEF Receive, Collecting, Inv, Collected
  <2>2. N' = N /\ UNCHANGED <<open, indices, worker>>
    BY DEF Receive, N, DatasetLen
  <2>3. N \in Nat /\ cur \in Nat /\ indices \in Nat /\ channel \in Seq(Int) /\ outBuf \subseteq Int
        /\ \A v \in Workers : worker[v].item \in Int
    BY LengthTypes DEF Inv, LoaderType, Jobs
  <2>4. /\ Head(channel) = channel[1] /\ Len(channel) \in Nat /\ Len(channel) >= 1
        /\ Len(channel') = Len(channel) - 1
        /\ \A i \in 1 .. Len(channel') : channel'[i] = channel[i + 1]
        /\ \A i \in 1 .. Len(channel) : channel[i] \in Int
    BY <2>1, <2>3
  <2>5. /\ call = "collect" /\ cur < target /\ target \in Nat /\ samples \in Seq(Int)
        /\ UNCHANGED <<target, given, opts, split, open>>
    BY DEF Receive, Collecting, Inv, LoaderType
  <2>7. ASSUME channel[1] >= 0, Keep(channel[1]), UNCHANGED <<call, drained>> PROVE Collected'
    <3>1. CASE channel[1] = cur
      <4>1. cur' = cur + 1 /\ samples' = Append(samples, cur)
        BY <2>7, <3>1 DEF Keep, Add
      <4> QED BY <2>5, <2>7, <4>1, AddedSample
    <3>2. CASE channel[1] # cur
      <4>1. UNCHANGED <<samples, cur>>
        BY <2>7, <3>2 DEF Keep
      <4> QED BY <2>2, <2>5, <2>7, <4>1 DEF Inv, Collected
    <3> QED BY <3>1, <3>2
  <2>8. ASSUME UNCHANGED <<cur, samples, call>>, drained' = TRUE PROVE Collected'
    BY <2>2, <2>5, <2>8 DEF Inv, Collected
  <2>9. ASSUME call' = "error" PROVE Collected'
    BY <2>9 DEF Collected
  <2> QED BY <2>4, <2>7, <2>8, <2>9 DEF Receive
<1>6. Counted'
  BY DEF Inv, Counted, Receive, N, DatasetLen
<1>7. Announced'
  BY DEF Inv, Announced, AsAsked, Receive, N, DatasetLen
<1>8. Ended'
  BY DEF Inv, Ended, Complete, AsAsked, Receive, N, DatasetLen
<1>9. Noticed'
  BY DEF Inv, Noticed, LoaderType, Receive, Keep, Add, N, DatasetLen, Options
<1> QED BY <1>1, <1>2, <1>3, <1>4, <1>5, <1>6, <1>7, <1>8, <1>9 DEF Inv

LEMMA TimeoutErrorStep ==
    ASSUME Inv, TimeoutError
    PROVE  Inv'
PROOF
<1>1. LoaderType'
  <2>1. used' \in Counters
    BY CounterSteps DEF Inv, LoaderType, TimeoutError, Fault
  <2> QED BY <2>1 DEF Inv, LoaderType, Calls, TimeoutError, workVars
<1>2. InFlight'
  BY DEF Inv, InFlight, Ahead, Computed, ComputedOnce, Sent, SentOnce, HasComputed, Coming,
         TimeoutError, workVars, N, DatasetLen
<1>3. Buffered'
  BY DEF Inv, Buffered, TimeoutError, N, DatasetLen
<1>4. Delivered'
  BY DEF Inv, Delivered, TimeoutError, N, DatasetLen
<1>5. Collected'
  BY DEF Inv, Collected, TimeoutError
<1>6. Counted'
  BY DEF Inv, Counted, LoaderType, TimeoutError, Fault, Counters, N, DatasetLen
<1>7. Announced'
  BY DEF Inv, Announced, AsAsked, LoaderType, TimeoutError, Fault, Counters, N, DatasetLen
<1>8. Ended'
  BY DEF Inv, Ended, Collected, TimeoutError, Collecting
<1>9. Noticed'
  BY DEF Inv, Noticed, TimeoutError, N, DatasetLen
<1> QED BY <1>1, <1>2, <1>3, <1>4, <1>5, <1>6, <1>7, <1>8, <1>9 DEF Inv

LEMMA EndEpochStep ==
    ASSUME Inv, EndEpoch
    PROVE  Inv'
PROOF
<1>1. LoaderType'
  <2>1. goal' \in Goals
    BY GoalTypes DEF EndEpoch, JoinFillThread, Inv, LoaderType
  <2>2. channel' \in Seq(Int) /\ call' \in Calls /\ open' \in BOOLEAN
    BY EmptyFacts DEF EndEpoch, JoinFillThread, Calls, Inv, LoaderType
  <2> QED BY <2>1, <2>2 DEF Inv, LoaderType, EndEpoch
<1>2. InFlight'
  <2>1. CASE open' = FALSE /\ channel' = <<>>
    BY <2>1 DEF InFlight, Ahead, Computed, ComputedOnce, Sent, SentOnce
  <2>2. CASE UNCHANGED <<open, channel>>
    BY <2>2 DEF Inv, InFlight, Ahead, Computed, ComputedOnce, Sent, SentOnce, HasComputed, Coming,
                EndEpoch, N, DatasetLen
  <2> QED BY <2>1, <2>2 DEF EndEpoch, JoinFillThread
<1>3. Buffered'
  BY DEF Inv, Buffered, EndEpoch, N, DatasetLen
<1>4. Delivered'
  BY DEF Inv, Delivered, EndEpoch, N, DatasetLen
<1>5. Collected'
  BY DEF Inv, Collected, EndEpoch, JoinFillThread
<1>6. Counted'
  BY DEF Inv, Counted, EndEpoch, JoinFillThread, N, DatasetLen
<1>7. Announced'
  BY DEF Inv, Announced, AsAsked, EndEpoch, JoinFillThread, N, DatasetLen
<1>8. Ended'
  <2>1. /\ call = "collect" /\ cur >= target /\ drained /\ (opts.dropLast \/ samples = <<>>)
        /\ UNCHANGED <<opts, split, cur, outBuf, early, given, used, finished>>
    BY DEF EndEpoch, Last
  <2>2. N \in Nat /\ cur \in Nat /\ target \in Nat /\ Len(given) \in Nat
        /\ opts.bs[split] \in Nat \ {0} /\ used.batches \in Nat /\ opts.dropLast \in BOOLEAN
    BY LengthTypes DEF Inv, LoaderType, Options, Counters
  <2>3. N' = N
    BY <2>1 DEF N, DatasetLen
  <2>4. ~opts.dropLast => Len(given) = N /\ cur = N
    BY <2>1, <2>2, EmptyFacts DEF Inv, Collected, Least
  <2>5. open /\ finished = FALSE
    BY <2>1 DEF Inv, Collected, Ended
  <2>6. ~opts.dropLast => used.batches = CeilDiv(N, opts.bs[split])
    <3>1. Len(given) <= used.batches * opts.bs[split]
          /\ (used.batches > 0 => (used.batches - 1) * opts.bs[split] < Len(given))
      BY <2>5 DEF Inv, Counted
    <3> QED BY <2>2, <2>4, <3>1, BatchesOf
  <2>7. Complete
    BY <2>4, <2>5, <2>6 DEF Inv, Announced, Complete
  <2>8. goal'.split = goal.split /\ (call' = "join" => goal'.after = "end")
    BY DEF EndEpoch, JoinFillThread, Inv, LoaderType, Goals
  <2>9. Complete'
    BY <2>1, <2>3, <2>7, <2>8 DEF Complete, AsAsked
  <2> QED BY <2>1, <2>5, <2>9 DEF Ended
<1>9. Noticed'
  <2>1. /\ call = "collect" /\ cur >= target /\ drained /\ (opts.dropLast \/ samples = <<>>)
        /\ UNCHANGED <<opts, split, cur, outBuf, early, given, used, finished>>
    BY DEF EndEpoch, Last
  <2>2. N \in Nat /\ cur \in Nat /\ target \in Nat /\ Len(given) \in Nat
        /\ opts.bs[split] \in Nat \ {0} /\ used.batches \in Nat /\ opts.dropLast \in BOOLEAN
    BY LengthTypes DEF Inv, LoaderType, Options, Counters
  <2>4. ~opts.dropLast => Len(given) = N /\ cur = N
    BY <2>1, <2>2, EmptyFacts DEF Inv, Collected, Least
  <2>5. CASE outBuf = {}
    BY <2>5 DEF EndEpoch, JoinFillThread, Noticed
  <2>6. CASE outBuf # {}
    <3>1. PICK k \in outBuf : TRUE
      BY <2>6
    <3>2. cur < N
      BY <2>2, <3>1 DEF Inv, Buffered
    <3>3. opts.dropLast /\ early
      BY <2>1, <2>2, <2>4, <3>2 DEF Inv, Collected, Noticed
    <3> QED BY <2>1, <3>3 DEF Noticed
  <2> QED BY <2>5, <2>6
<1> QED BY <1>1, <1>2, <1>3, <1>4, <1>5, <1>6, <1>7, <1>8, <1>9 DEF Inv

LEMMA ReturnBatchStep ==
    ASSUME Inv, ReturnBatch
    PROVE  Inv'
PROOF
<1>1. LoaderType'
  <2>2. used' \in Counters
    BY CounterSteps DEF Inv, LoaderType, ReturnBatch
  <2> QED BY <2>2 DEF Inv, LoaderType, ReturnBatch, workVars, Calls
<1>2. InFlight'
  BY DEF Inv, InFlight, Ahead, Computed, ComputedOnce, Sent, SentOnce, HasComputed, Coming,
         ReturnBatch, workVars, N, DatasetLen
<1>3. Buffered'
  BY DEF Inv, Buffered, ReturnBatch, N, DatasetLen
<1>4. Delivered'
  <2>1. /\ call = "collect" /\ cur >= target /\ ~Last /\ given' = given \o samples
        /\ UNCHANGED <<opts, split, cur, open, goal>>
    BY DEF ReturnBatch
  <2>2. N \in Nat /\ cur \in Nat /\ target \in Nat /\ given \in Seq(Int) /\ samples \in Seq(Int)
        /\ opts.bs[split] \in Nat \ {0} /\ used.batches \in Nat
    BY LengthTypes DEF Inv, LoaderType, Options, Counters
  <2>3. N' = N
    BY <2>1 DEF N, DatasetLen
  <2>5. /\ Len(given') = cur /\ cur = Least(N, Len(given) + opts.bs[split])
        /\ \A i \in 1 .. Len(given) + Len(samples) :
              given'[i] = IF i <= Len(given) THEN given[i] ELSE samples[i - Len(given)]
    <3>1. cur = target /\ Len(given) + Len(samples) = cur /\ target = Least(N, Len(given) + opts.bs[split])
      BY <2>1, <2>2 DEF Inv, Collected
    <3> QED BY <2>1, <3>1
  <2>6. \A i \in 1 .. cur : given'[i] = i - 1
    <3>1. Len(given) + Len(samples) = cur /\ \A i \in 1 .. Len(samples) : samples[i] = Len(given) + i - 1
      BY <2>1 DEF Inv, Collected
    <3>2. \A i \in 1 .. Len(given) : given[i] = i - 1
      BY DEF Inv, Delivered
    <3> QED BY <2>5, <3>1, <3>2
  <2>7. cur <= N
    BY <2>2, <2>5 DEF Least
  <2> QED BY <2>3, <2>5, <2>6, <2>7 DEF Delivered
<1>5. Collected'
  BY DEF Inv, Collected, ReturnBatch
<1>6. Counted'
  <2>1. /\ call = "collect" /\ cur >= target /\ ~Last /\ given' = given \o samples
        /\ UNCHANGED <<opts, split, cur, open, goal>>
    BY DEF ReturnBatch
  <2>2. N \in Nat /\ cur \in Nat /\ target \in Nat /\ given \in Seq(Int) /\ samples \in Seq(Int)
        /\ opts.bs[split] \in Nat \ {0} /\ used.batches \in Nat
    BY LengthTypes DEF Inv, LoaderType, Options, Counters
  <2>3. N' = N
    BY <2>1 DEF N, DatasetLen
  <2>5. /\ Len(given') = cur /\ cur = Least(N, Len(given) + opts.bs[split])
        /\ \A i \in 1 .. Len(given) + Len(samples) :
              given'[i] = IF i <= Len(given) THEN given[i] ELSE samples[i - Len(given)]
    <3>1. cur = target /\ Len(given) + Len(samples) = cur /\ target = Least(N, Len(given) + opts.bs[split])
      BY <2>1, <2>2 DEF Inv, Collected
    <3> QED BY <2>1, <3>1
  <2>6. used'.batches = used.batches + 1
    BY DEF ReturnBatch, Inv
  <2>7. open /\ Len(given) < N
    <3>1. Len(given) + Len(samples) = cur /\ (Len(given) = N => drained) /\ Len(given) <= N /\ open
      BY <2>1 DEF Inv, Collected, Delivered
    <3>2. Len(given) = N => samples = <<>>
      BY <2>5, <3>1 DEF Least
    <3> QED BY <2>1, <2>2, <3>1, <3>2 DEF Last
  <2>8. Len(given) = used.batches * opts.bs[split]
    BY <2>7 DEF Inv, Counted
  <2>9. (used.batches + 1) * opts.bs[split] = used.batches * opts.bs[split] + opts.bs[split]
    BY <2>2, OneMore
  <2>10. /\ cur <= (used.batches + 1) * opts.bs[split]
         /\ cur < N => cur = (used.batches + 1) * opts.bs[split]
         /\ used.batches * opts.bs[split] < cur
    BY <2>2, <2>5, <2>7, <2>8, <2>9 DEF Least
  <2>11. used'.batches - 1 = used.batches
    BY <2>2, <2>6
  <2> QED BY <2>1, <2>3, <2>5, <2>6, <2>10, <2>11 DEF Counted
<1>7. Announced'
  BY DEF Inv, Announced, AsAsked, ReturnBatch, N, DatasetLen
<1>8. Ended'
  BY DEF Inv, Ended, Collected, ReturnBatch
<1>9. Noticed'
  BY DEF Inv, Noticed, ReturnBatch, N, DatasetLen
<1> QED BY <1>1, <1>2, <1>3, <1>4, <1>5, <1>6, <1>7, <1>8, <1>9 DEF Inv

LEMMA CleanupStep ==
    ASSUME Inv, Cleanup
    PROVE  Inv'
PROOF
<1>1. LoaderType'
  <2>1. goal' \in Goals
    BY GoalTypes DEF Cleanup, JoinFillThread, Inv, LoaderType
  <2>2. channel' \in Seq(Int) /\ call' \in Calls /\ open' \in BOOLEAN
    BY EmptyFacts DEF Cleanup, JoinFillThread, Calls, Inv
  <2> QED BY <2>1, <2>2 DEF Inv, LoaderType, Cleanup
<1>2. InFlight'
  BY DEF Inv, InFlight, Ahead, Computed, ComputedOnce, Sent, SentOnce, Cleanup, JoinFillThread
<1>3. Buffered'
  BY DEF Inv, Buffered, Cleanup, N, DatasetLen
<1>4. Delivered'
  BY DEF Inv, Delivered, Cleanup, N, DatasetLen
<1>5. Collected'
  BY DEF Inv, Collected, Cleanup, JoinFillThread
<1>6. Counted'
  BY DEF Inv, Counted, Cleanup, JoinFillThread
<1>7. Announced'
  BY DEF Inv, Announced, Cleanup, JoinFillThread
<1>8. Ended'
  BY DEF Inv, Ended, Complete, AsAsked, Cleanup, JoinFillThread, N, DatasetLen
<1>9. Noticed'
  BY DEF Inv, Noticed, Cleanup, JoinFillThread
<1> QED BY <1>1, <1>2, <1>3, <1>4, <1>5, <1>6, <1>7, <1>8, <1>9 DEF Inv

LEMMA JoinEndsStep ==
    ASSUME Inv, JoinEnds
    PROVE  Inv'
PROOF
<1>1. LoaderType'
  <2>1. CASE goal.after = "start" /\ Begin(goal.split)
    <3>1. goal.split \in Splits /\ split' \in Splits /\ (opts.overfit => split' = "train")
      BY <2>1 DEF Begin, Inv, LoaderType, Goals
    <3>2. used' \in Counters
      BY <2>1, <3>1, LengthTypes, CounterSteps DEF Begin, Inv, LoaderType
    <3>3. worker' \in [Workers -> Jobs]
      BY <2>1, JobTypes DEF Begin
    <3>4. /\ outBuf' \subseteq Int /\ cur' \in Nat /\ indices' \in Nat
          /\ drained' \in BOOLEAN /\ open' \in BOOLEAN
      BY <2>1 DEF Begin
    <3>5. given' \in Seq(Int) /\ early' \in BOOLEAN /\ call' \in Calls
      BY <2>1, EmptyFacts DEF Begin, Calls
    <3> QED BY <3>1, <3>2, <3>3, <3>4, <3>5 DEF Inv, LoaderType, JoinEnds
  <2>2. CASE ~(goal.after = "start" /\ Begin(goal.split))
    <3>3. worker' \in [Workers -> Jobs]
      BY <2>2, JobTypes DEF JoinEnds
    <3>4. call' \in Calls /\ finished' \in BOOLEAN
      BY <2>2 DEF JoinEnds, Calls, Inv
    <3> QED BY <2>2, <3>3, <3>4 DEF Inv, LoaderType, JoinEnds
  <2> QED BY <2>1, <2>2
<1>2. InFlight'
  <2>1. ~open /\ channel = <<>> /\ channel' = <<>>
    BY DEF JoinEnds, Inv, Collected, InFlight
  <2>2. CASE goal.after = "start" /\ Begin(goal.split)
    <3>1. cur' = 0 /\ indices' = 0 /\ outBuf' = {} /\ \A w \in Workers : worker'[w].pc = "recv"
      BY <2>2 DEF Begin, Receiving
    <3> QED BY <2>1, <3>1 DEF InFlight, Ahead, Computed, ComputedOnce, Sent, SentOnce, HasComputed
  <2>3. CASE ~(goal.after = "start" /\ Begin(goal.split))
    BY <2>1, <2>3 DEF JoinEnds, InFlight, Ahead, Computed, ComputedOnce, Sent, SentOnce
  <2> QED BY <2>2, <2>3
<1>3. Buffered'
  BY DEF Inv, Buffered, JoinEnds, Begin, N, DatasetLen
<1>4. Delivered'
  <2>1. CASE goal.after = "start" /\ Begin(goal.split)
    <3>1. given' = <<>> /\ opts' = opts
      BY <2>1 DEF Begin, JoinEnds
    <3>2. N' \in Nat
      <4>1. \A s \in Splits : DatasetLen(s) \in Nat
        BY LengthTypes DEF Inv
      <4>2. split' \in Splits
        BY <1>1 DEF LoaderType
      <4> QED BY <3>1, <4>1, <4>2 DEF N, DatasetLen
    <3> QED BY <3>1, <3>2 DEF Delivered
  <2>2. CASE ~(goal.after = "start" /\ Begin(goal.split))
    <3>1. UNCHANGED <<given, opts, split>>
      BY <2>2 DEF JoinEnds
    <3> QED BY <3>1 DEF Inv, Delivered, N, DatasetLen
  <2> QED BY <2>1, <2>2
<1>5. Collected'
  BY DEF Inv, Collected, JoinEnds, Begin
<1>6. Counted'
  <2>1. CASE goal.after = "start" /\ Begin(goal.split)
    <3>1. given' = <<>> /\ used'.batches = 0 /\ opts' = opts /\ split' \in Splits
      BY <1>1, <2>1 DEF Begin, JoinEnds, Inv, LoaderType
    <3>2. opts'.bs[split'] \in Nat \ {0}
      BY <3>1 DEF Inv, LoaderType, Options
    <3>3. Len(given') = 0 /\ 0 * opts'.bs[split'] = 0
      BY <3>1, <3>2
    <3> QED BY <3>1, <3>3 DEF Counted
  <2>2. CASE ~(goal.after = "start" /\ Begin(goal.split))
    <3>1. ~open /\ UNCHANGED open
      BY <2>2 DEF JoinEnds, Inv, Collected
    <3> QED BY <3>1 DEF Counted
  <2> QED BY <2>1, <2>2
<1>7. Announced'
  <2>1. CASE goal.after = "start" /\ Begin(goal.split)
    <3>1. used'.promised = DataloaderLen(goal.split) /\ UNCHANGED <<opts, goal>>
      BY <2>1 DEF Begin, JoinEnds, Inv
    <3>2. AsAsked => split' = goal.split
      BY <2>1 DEF Begin, AsAsked, Inv
    <3>3. DatasetLen(goal.split)' = DatasetLen(goal.split)
      BY <3>1 DEF DatasetLen
    <3> QED BY <3>1, <3>2, <3>3 DEF Announced, AsAsked, DataloaderLen, N
  <2>2. CASE ~(goal.after = "start" /\ Begin(goal.split))
    <3>1. ~open /\ UNCHANGED open
      BY <2>2 DEF JoinEnds, Inv, Collected
    <3> QED BY <3>1 DEF Announced
  <2> QED BY <2>1, <2>2
<1>8. Ended'
  BY DEF Inv, Ended, Complete, AsAsked, LoaderType, Collected, JoinEnds, N, DatasetLen
<1>9. Noticed'
  BY DEF Inv, Noticed, JoinEnds, Begin, N, DatasetLen
<1> QED BY <1>1, <1>2, <1>3, <1>4, <1>5, <1>6, <1>7, <1>8, <1>9 DEF Inv

LEMMA InvInit == Init => Inv
PROOF
<1> SUFFICES ASSUME Init PROVE Inv
  OBVIOUS
<1>1. opts \in Options
  BY NativeLoaderAssumption DEF Init, Options
<1>2. LoaderType
  <2>1. samples \in Seq(Int) /\ channel \in Seq(Int) /\ given \in Seq(Int)
    BY DEF Init
  <2>2. goal \in Goals /\ split \in Splits
    BY DEF Init, Goals, Splits
  <2>3. worker \in [Workers -> Jobs] /\ used \in Counters
    BY JobTypes DEF Init, Counters
  <2> QED BY <1>1, <2>1, <2>2, <2>3 DEF Init, LoaderType, Calls
<1>3. N \in Nat /\ Len(given) = 0
  BY <1>2, LengthTypes DEF Init
<1> QED
  BY <1>2, <1>3 DEF Init, Inv, InFlight, Ahead, Computed, ComputedOnce, Sent, SentOnce, Buffered,
                    Delivered, Collected, Counted, Announced, Ended, Noticed

LEMMA InvStep == Inv /\ [Next]_vars => Inv'
PROOF
<1> SUFFICES ASSUME Inv, [Next]_vars PROVE Inv'
  OBVIOUS
<1>1. CASE \E w \in Workers : WorkerStep(w)
  BY <1>1, ComputeStep, TakeMarkerStep, NothingLeftStep, SendStep DEF WorkerStep
<1>2. CASE LoaderStep
  BY <1>2, TakeBufferedStep, ReceiveStep, TimeoutErrorStep, EndEpochStep, ReturnBatchStep, JoinEndsStep
     DEF LoaderStep
<1>3. CASE GetBatch \/ Cleanup
  BY <1>3, GetBatchStep, CleanupStep
<1>4. CASE \E s \in Splits : StartEpoch(s)
  BY <1>4, StartEpochStep
<1>5. CASE \E s \in Splits, bs \in BatchSizes : SetBatchSize(s, bs)
  BY <1>5, SetBatchSizeStep
<1>6. CASE UNCHANGED vars
  BY <1>6 DEF vars, callerVars, workVars, Inv, LoaderType, InFlight, Ahead, Computed, ComputedOnce,
              Sent, SentOnce, HasComputed, Coming, Buffered, Delivered, Collected, Counted,
              Announced, Ended, Complete, AsAsked, Noticed, N, DatasetLen
<1> QED BY <1>1, <1>2, <1>3, <1>4, <1>5, <1>6 DEF Next

-----------------------------------------------------------------------------
(* Theorems. *)

(* The invariant of the loader: a number of the epoch is in one place at a *)
(* time, whatever order the workers of start_idx_worker() finish in, and   *)
(* get_batch() has returned the numbers below cur_out_idx in full batches. *)
THEOREM NativeInvariant == Spec => []Inv
PROOF
<1>1. Init => Inv
  BY InvInit
<1>2. Inv /\ [Next]_vars => Inv'
  BY InvStep
<1> QED BY <1>1, <1>2, PTL DEF Spec

LEMMA AreNumbers ==
    ASSUME NEW c \in Seq(Int), \A i \in 1 .. Len(c) : c[i] = i - 1
    PROVE  c = Numbers(Len(c))
PROOF BY DEF Numbers

LEMMA InvDelivers == Inv => EpochDelivered
PROOF
<1> SUFFICES ASSUME Inv PROVE EpochDelivered
  OBVIOUS
<1>1. given \in Seq(Int) /\ samples \in Seq(Int) /\ cur \in Nat
  BY DEF Inv, LoaderType
<1>2. given = Numbers(Len(given)) /\ Len(given) <= N
  BY <1>1, AreNumbers DEF Inv, Delivered
<1>3. ASSUME call = "collect" PROVE given \o samples = Numbers(cur)
  <2>1. /\ Len(given) + Len(samples) = cur
        /\ \A i \in 1 .. Len(samples) : samples[i] = Len(given) + i - 1
        /\ \A i \in 1 .. Len(given) : given[i] = i - 1
    BY <1>3 DEF Inv, Collected, Delivered
  <2>2. /\ given \o samples \in Seq(Int) /\ Len(given \o samples) = cur
        /\ \A i \in 1 .. cur :
              (given \o samples)[i] = IF i <= Len(given) THEN given[i] ELSE samples[i - Len(given)]
    BY <1>1, <2>1
  <2>4. ASSUME NEW i \in 1 .. cur PROVE (given \o samples)[i] = i - 1
    BY <2>1
  <2> QED BY <2>2, <2>4, AreNumbers
<1>4. /\ finished /\ ~opts.dropLast => Len(given) = N
      /\ finished /\ ~opts.dropLast /\ (goal.split = "train" \/ ~opts.overfit) =>
            used.batches = used.promised
  BY DEF Inv, Ended, Complete, AsAsked
<1>5. call = "panicked" => opts.dropLast /\ early
  BY DEF Inv, Noticed
<1>6. outBuf \subseteq cur .. N - 1
  BY DEF Inv, Buffered
<1> QED BY <1>2, <1>3, <1>4, <1>5, <1>6 DEF EpochDelivered

(* Every epoch the native loader ends was delivered: its samples in order, *)
(* none twice and none left out, in as many batches as dataloader_len()    *)
(* says, and the assertions of get_batch() hold; with the exceptions that  *)
(* EpochDelivered names.                                                   *)
THEOREM EpochDeliveredHolds == Spec => []EpochDelivered
PROOF BY NativeInvariant, InvDelivers, PTL

-----------------------------------------------------------------------------
(* The loader is the source of batches that its callers take it for.       *)

\* What the source sees of the options, and that a batch is handed out only
\* while the epoch runs.
SourceInv ==
    /\ opts.len \in [Splits -> Lengths] /\ opts.bs \in [Splits -> BatchSizes]
    /\ call = "batch" => open

LEMMA SourceInvInit == Init => SourceInv
PROOF BY DEF Init, SourceInv

LEMMA SourceInvStep == Inv /\ SourceInv /\ [Next]_vars => SourceInv'
PROOF
<1> SUFFICES ASSUME Inv, SourceInv, [Next]_vars PROVE SourceInv'
  OBVIOUS
<1>1. ASSUME UNCHANGED <<opts, call, open>> PROVE SourceInv'
  BY <1>1 DEF SourceInv
<1>2. ASSUME NEW w \in Workers, WorkerStep(w) PROVE SourceInv'
  BY <1>1, <1>2 DEF WorkerStep, Compute, TakeMarker, NothingLeft, Send, callerVars
<1>3. CASE TakeBuffered
  BY <1>1, <1>3 DEF TakeBuffered
<1>4. CASE Receive \/ TimeoutError \/ EndEpoch \/ GetBatch \/ Cleanup
  BY <1>4 DEF Receive, TimeoutError, EndEpoch, GetBatch, Cleanup, JoinFillThread, Collecting, SourceInv
<1>5. CASE ReturnBatch
  BY <1>5 DEF ReturnBatch, SourceInv, Inv, Collected
<1>6. CASE JoinEnds
  BY <1>6 DEF JoinEnds, Begin, SourceInv
<1>7. ASSUME NEW s \in Splits, StartEpoch(s) PROVE SourceInv'
  BY <1>7 DEF StartEpoch, JoinFillThread, SourceInv
<1>8. ASSUME NEW s \in Splits, NEW bs \in BatchSizes, SetBatchSize(s, bs) PROVE SourceInv'
  <2>1. opts' = [opts EXCEPT !.bs[s] = bs] /\ UNCHANGED <<call, open>> /\ opts \in Options
    BY <1>8 DEF SetBatchSize, callerVars, Inv, LoaderType
  <2>2. opts'.len = opts.len /\ opts'.bs = [opts.bs EXCEPT ![s] = bs]
    BY <2>1 DEF Options
  <2> QED BY <2>1, <2>2 DEF SourceInv
<1>9. CASE UNCHANGED vars
  BY <1>1, <1>9 DEF vars, callerVars
<1> QED BY <1>2, <1>3, <1>4, <1>5, <1>6, <1>7, <1>8, <1>9 DEF Next, LoaderStep

\* A run of numbers, cut after the first k.
LEMMA FirstOfRun ==
    ASSUME NEW g \in Nat, NEW m \in Nat, NEW s \in Seq(Int), Len(s) \in 1 .. m,
           \A i \in 1 .. Len(s) : s[i] = g + i - 1
    PROVE  SubSeq([i \in 1 .. m |-> g + i - 1], 1, Len(s)) = s
PROOF
<1> DEFINE t == [i \in 1 .. m |-> g + i - 1]
<1>1. t \in Seq(Int) /\ Len(t) = m /\ \A i \in 1 .. m : t[i] = g + i - 1
  OBVIOUS
<1> HIDE DEF t
<1>2. SubSeq(t, 1, Len(s)) = [i \in 1 .. Len(s) |-> t[i]]
  BY <1>1
<1>3. [i \in 1 .. Len(s) |-> t[i]] = [i \in 1 .. Len(s) |-> s[i]]
  BY <1>1
<1>4. s = [i \in 1 .. Len(s) |-> s[i]]
  OBVIOUS
<1> QED BY <1>2, <1>3, <1>4 DEF t

LEMMA RestOfRun ==
    ASSUME NEW g \in Nat, NEW m \in Nat, NEW k \in 1 .. m
    PROVE  SubSeq([i \in 1 .. m |-> g + i - 1], k + 1, m) = [i \in 1 .. m - k |-> g + k + i - 1]
PROOF
<1> DEFINE t == [i \in 1 .. m |-> g + i - 1]
<1>1. t \in Seq(Int) /\ Len(t) = m /\ \A i \in 1 .. m : t[i] = g + i - 1
  OBVIOUS
<1> HIDE DEF t
<1>2. SubSeq(t, k + 1, m) = [i \in 1 .. m - k |-> t[k + i]]
  BY <1>1
<1>3. \A i \in 1 .. m - k : t[k + i] = g + k + i - 1
  BY <1>1
<1> QED BY <1>2, <1>3 DEF t

\* What the source shows changes only with these.
LEMMA SourceStays ==
    ASSUME UNCHANGED <<opts, finished, open, split, given>>, Runs' = Runs,
           call = "batch" <=> call' = "batch", call = "batch" => samples' = samples
    PROVE  UNCHANGED <<EpochState, Rest, Size, HandedOut>>
PROOF
<1>1. N' = N
  BY DEF N, DatasetLen
<1>2. EpochState' = EpochState
  BY DEF EpochState
<1>3. Rest' = Rest
  BY <1>1 DEF Rest
<1>4. Size' = Size
  BY DEF Size
<1>5. HandedOut' = HandedOut
  BY DEF HandedOut
<1> QED BY <1>2, <1>3, <1>4, <1>5

\* Outside an epoch there is nothing to hand out.
LEMMA NotRunning == ~Runs => EpochState \in {"off", "over"} /\ Rest = <<>> /\ Size = 0 /\ HandedOut = <<>>
PROOF BY DEF EpochState, Rest, Size, HandedOut

LEMMA SourceSteps ==
    Inv /\ SourceInv /\ Inv' /\ SourceInv' /\ [Next]_vars => [Source!SourceNext]_(Source!sourceVars)
PROOF
<1> SUFFICES ASSUME Inv, SourceInv, Inv', SourceInv', [Next]_vars,
                    ~ UNCHANGED <<EpochState, Rest, Size, HandedOut>>
             PROVE  Source!SourceNext
  BY DEF Source!sourceVars
<1>0. /\ opts \in Options /\ opts' \in Options /\ finished \in BOOLEAN /\ split \in Splits
      /\ cur \in Nat /\ target \in Nat /\ given \in Seq(Int) /\ samples \in Seq(Int) /\ N \in Nat
      /\ opts.bs[split] \in Nat \ {0}
  BY LengthTypes DEF Inv, LoaderType, Options
<1>1. ASSUME NEW w \in Workers, WorkerStep(w) PROVE FALSE
  <2>1. UNCHANGED <<opts, callerVars, given>>
    BY <1>1 DEF WorkerStep, Compute, TakeMarker, NothingLeft, Send
  <2> QED BY <2>1, SourceStays DEF callerVars, Runs
<1>2. CASE TakeBuffered \/ Receive \/ TimeoutError
  <2>1. UNCHANGED <<opts, goal, split, finished, open, given>> /\ call = "collect" /\ call' \in {"collect", "error"}
    BY <1>2 DEF TakeBuffered, Receive, TimeoutError, Collecting
  <2>2. Runs' = Runs
    BY <2>1 DEF Runs
  <2> QED BY <2>1, <2>2, SourceStays
<1>3. CASE EndEpoch
  <2>1. UNCHANGED <<opts, split, finished, given>> /\ call = "collect" /\ call' \in {"join", "panicked"}
    BY <1>3 DEF EndEpoch, JoinFillThread
  <2>2. open /\ (opts.dropLast \/ (call' = "join" /\ goal'.after = "end"))
    <3>1. open
      BY <2>1 DEF Inv, Collected
    <3>2. call' = "panicked" => opts.dropLast
      BY <2>1 DEF Inv, Noticed
    <3>3. call' = "join" => goal' = [goal EXCEPT !.after = "end"] /\ goal \in Goals
      BY <1>3, <2>1 DEF EndEpoch, JoinFillThread, Inv, LoaderType
    <3> QED BY <2>1, <3>1, <3>2, <3>3 DEF Goals
  <2> QED
    <3>1. Runs' = Runs
      BY <2>1, <2>2 DEF Runs
    <3>2. N' = N
      BY <2>1 DEF N, DatasetLen
    <3> QED BY <2>1, <3>1, <3>2 DEF EpochState, Rest, Size, HandedOut
<1>4. CASE ReturnBatch
  <2> DEFINE b == opts.bs[split]
             k == IF Len(Rest) < Size THEN Len(Rest) ELSE Size
  <2>1. /\ UNCHANGED <<opts, goal, split, finished, open, cur, samples>>
        /\ call = "collect" /\ call' = "batch" /\ cur >= target /\ ~Last
        /\ given' = given \o samples
    BY <1>4 DEF ReturnBatch
  <2>2. /\ open /\ Len(given) + Len(samples) = cur
        /\ \A i \in 1 .. Len(samples) : samples[i] = Len(given) + i - 1
        /\ target = Least(N, Len(given) + b) /\ cur <= target
        /\ Len(given) = N => drained
        /\ Len(given) <= N
    BY <2>1 DEF Inv, Collected, Delivered
  <2>3. Runs' = Runs /\ N' = N
    BY <2>1 DEF Runs, N, DatasetLen
  <2>4. CASE ~Runs
    BY <2>1, <2>3, <2>4 DEF EpochState, Rest, Size, HandedOut
  <2>5. CASE Runs
    <3>1. ~opts.dropLast
      BY <2>5 DEF Runs
    <3>2. cur = target /\ Len(given) # N
      <4>1. cur = target
        BY <1>0, <2>1, <2>2 DEF Least
      <4>2. ASSUME Len(given) = N PROVE FALSE
        <5>1. samples # <<>>
          BY <2>1, <2>2, <3>1, <4>2 DEF Last
        <5>2. Len(samples) = 0
          BY <1>0, <2>2, <4>1, <4>2 DEF Least
        <5> QED BY <1>0, <5>1, <5>2
      <4> QED BY <4>1, <4>2
    <3>3. /\ Rest = [i \in 1 .. N - Len(given) |-> Len(given) + i - 1]
          /\ Rest' = [i \in 1 .. N - cur |-> cur + i - 1]
      <4>1. Len(given') = cur
        BY <1>0, <2>1, <2>2
      <4> QED BY <2>3, <2>5, <4>1 DEF Rest
    <3>4. Size = b /\ Size' = b /\ HandedOut = <<>> /\ HandedOut' = samples
          /\ EpochState = "on" /\ EpochState' = "on"
      BY <2>1, <2>3, <2>5 DEF Size, HandedOut, EpochState
    <3>5. Rest \in Seq(Int) /\ Len(Rest) = N - Len(given) /\ Len(Rest) > 0
      <4>1. Len(given) \in Nat /\ N - Len(given) \in Nat /\ N - Len(given) > 0
        BY <1>0, <2>2, <3>2
      <4> QED BY <3>3, <4>1
    <3>6. k = Len(samples) /\ k \in 1 .. Len(Rest)
      <4>1. Len(samples) = Least(N, Len(given) + b) - Len(given) /\ Len(given) < N
        BY <1>0, <2>2, <3>2
      <4>2. Size \in Nat \ {0}
        BY <1>0, <3>4
      <4>3. Len(given) \in Nat /\ Len(samples) \in Nat
        BY <1>0
      <4>4. Len(samples) = (IF N - Len(given) < Size THEN N - Len(given) ELSE Size)
        BY <1>0, <3>4, <4>1, <4>2, <4>3 DEF Least
      <4>5. k = (IF N - Len(given) < Size THEN N - Len(given) ELSE Size)
        BY <3>5
      <4> HIDE DEF k
      <4>6. k = Len(samples) /\ k > 0
        BY <1>0, <4>1, <4>2, <4>3, <4>4, <4>5
      <4>7. k <= N - Len(given)
        BY <1>0, <4>2, <4>3, <4>5
      <4> QED BY <1>0, <3>5, <4>3, <4>6, <4>7
    <3> HIDE DEF k
    <3>7. SubSeq(Rest, 1, k) = samples
      BY <1>0, <2>2, <3>3, <3>5, <3>6, FirstOfRun
    <3>8. SubSeq(Rest, k + 1, Len(Rest)) = Rest'
      <4>0. Len(given) \in Nat /\ k \in Nat /\ cur = Len(given) + k
        BY <1>0, <2>2, <3>6
      <4>1. cur = Len(given) + k /\ N - cur = N - Len(given) - k /\ Len(given) \in Nat
        BY <1>0, <4>0
      <4>2. Rest' = [i \in 1 .. N - Len(given) - k |-> Len(given) + k + i - 1]
        BY <3>3, <4>1
      <4>3. N - Len(given) \in Nat /\ k \in 1 .. N - Len(given)
        BY <1>0, <2>2, <3>5, <3>6
      <4> QED BY <3>3, <3>5, <4>1, <4>2, <4>3, RestOfRun
    <3>9. Source!Serves
      BY <3>4, <3>5, <3>7, <3>8 DEF Source!Serves, k
    <3> QED BY <3>9 DEF Source!SourceNext
  <2> QED BY <2>4, <2>5
<1>5. CASE GetBatch
  <2>1. UNCHANGED <<opts, goal, split, finished, open, given>> /\ call # "join" /\ call' # "join" /\ call' # "batch"
    BY <1>5 DEF GetBatch, Idle
  <2>2. Runs' = Runs /\ N' = N
    BY <2>1 DEF Runs, N, DatasetLen
  <2>3. UNCHANGED <<EpochState, Rest, Size>> /\ HandedOut' = <<>>
    BY <2>1, <2>2 DEF EpochState, Rest, Size, HandedOut
  <2>4. Runs
    BY <2>2, <2>3, NotRunning
  <2>5. Source!Asked
    BY <2>3, <2>4 DEF Source!Asked, EpochState
  <2> QED BY <2>5 DEF Source!SourceNext
<1>6. CASE Cleanup \/ \E s \in Splits : StartEpoch(s)
  <2> DEFINE Stopped ==
        /\ UNCHANGED <<opts, split, given>> /\ open' = FALSE
        /\ call # "join" /\ call' = "join"
        /\ goal'.after \in {"start", "cleanup"}
        /\ finished' => finished /\ finished' = finished
  <2>1. Stopped
    <3>1. CASE Cleanup
      <4>1. goal' = [goal EXCEPT !.after = "cleanup"] /\ goal \in Goals
        BY <3>1 DEF Cleanup, JoinFillThread, Inv, LoaderType
      <4>2. goal'.after = "cleanup"
        BY <4>1 DEF Goals
      <4> QED BY <3>1, <4>2 DEF Cleanup, JoinFillThread
    <3>2. ASSUME NEW s \in Splits, StartEpoch(s) PROVE Stopped
      BY <3>2 DEF StartEpoch, JoinFillThread, Idle
    <3> HIDE DEF Stopped
    <3> QED BY <1>6, <3>1, <3>2
  <2>2. ~Runs'
    BY <2>1 DEF Runs
  <2>3. Source!Nothing'
    BY <2>2, NotRunning DEF Source!Nothing, Rest, Size, HandedOut
  <2>4. EpochState' = "off"
    <3>1. CASE finished'
      <4>1. finished /\ finished' = finished /\ UNCHANGED opts /\ call # "join"
        BY <2>1, <3>1
      <4>2. ~open
        BY <4>1 DEF Inv, Ended
      <4>3. ~Runs /\ EpochState' = EpochState
        BY <2>2, <4>1, <4>2 DEF Runs, EpochState
      <4> QED BY <2>2, <4>3 DEF Rest, Size, HandedOut
    <3>2. CASE ~finished'
      BY <2>2, <3>2 DEF EpochState
    <3> QED BY <3>1, <3>2
  <2>5. Source!GivesUp
    BY <2>3, <2>4 DEF Source!GivesUp
  <2> QED BY <2>5 DEF Source!SourceNext
<1>7. CASE JoinEnds
  <2>0. call = "join" /\ ~open /\ UNCHANGED <<opts, goal>> /\ call' # "join"
    BY <1>7 DEF JoinEnds, Begin, Inv, Collected
  <2>1. CASE goal.after = "start" /\ Begin(goal.split) /\ UNCHANGED finished
    <3>1. ~finished /\ ~finished' /\ ~Runs
      BY <2>0, <2>1 DEF Inv, Ended, Runs
    <3>2. EpochState = "off" /\ Rest = <<>> /\ Size = 0 /\ HandedOut = <<>>
      BY <3>1 DEF EpochState, Rest, Size, HandedOut
    <3>3. CASE opts.dropLast
      <4>1. ~Runs' /\ ~finished'
        BY <2>0, <3>1, <3>3 DEF Runs
      <4> QED BY <3>2, <4>1 DEF EpochState, Rest, Size, HandedOut
    <3>4. CASE ~opts.dropLast
      <4>1. /\ open' /\ given' = <<>> /\ call' = "idle" /\ split' \in Splits
            /\ opts.overfit => split' = "train"
        BY <2>1 DEF Begin, Inv, LoaderType, Goals, Splits
      <4>2. Runs'
        BY <2>0, <3>4, <4>1 DEF Runs
      <4>3. N' \in Lengths /\ opts'.bs[split'] \in BatchSizes /\ N' \in Nat
        <5>1. N' = opts.len[split']
          BY <2>0, <4>1 DEF N, DatasetLen
        <5>2. N' \in Nat
          BY <5>1, <4>1, <1>0 DEF Options
        <5> QED BY <2>0, <4>1, <5>1, <5>2 DEF SourceInv
      <4>4. /\ EpochState' = "on" /\ Size' = opts'.bs[split'] /\ HandedOut' = <<>>
            /\ Rest' = [i \in 1 .. N' |-> i - 1]
        <5>1. Rest' = [i \in 1 .. N' - 0 |-> 0 + i - 1]
          BY <4>1, <4>2, EmptyFacts DEF Rest
        <5> QED BY <4>1, <4>2, <4>3, <5>1 DEF EpochState, Size, HandedOut
      <4>5. Source!Starts(N', opts'.bs[split'])
        BY <3>2, <4>4 DEF Source!Starts
      <4> QED BY <4>3, <4>5 DEF Source!SourceNext
    <3> QED BY <3>3, <3>4
  <2>2. CASE ~(goal.after = "start" /\ Begin(goal.split) /\ UNCHANGED finished)
    <3>1. /\ UNCHANGED <<split, open, given>> /\ call' \in {"error", "closed"}
          /\ \/ finished' = finished
             \/ finished' = TRUE /\ goal.after = "end"
      BY <1>0, <1>7, <2>2 DEF JoinEnds
    <3>2. ~Runs'
      BY <2>0, <3>1 DEF Runs
    <3>3. Source!Nothing'
      BY <3>2 DEF Source!Nothing, Rest, Size, HandedOut
    <3>4. CASE Runs
      <4>1. ~opts.dropLast /\ goal.after = "end"
        BY <2>0, <3>4 DEF Runs
      <4>2. Len(given) = N
        BY <2>0, <4>1 DEF Inv, Ended, Complete
      <4>3. Rest = <<>> /\ HandedOut = <<>> /\ EpochState = "on"
        <5>1. Rest = [i \in 1 .. N - N |-> N + i - 1]
          BY <3>4, <4>2 DEF Rest
        <5> QED BY <1>0, <2>0, <3>4, <5>1 DEF HandedOut, EpochState
      <4>4. CASE finished'
        <5>1. EpochState' = "over"
          BY <2>0, <3>2, <4>1, <4>4 DEF EpochState
        <5> QED BY <3>3, <4>3, <5>1 DEF Source!EndsEpoch, Source!SourceNext
      <4>5. CASE ~finished'
        <5>1. EpochState' = "off"
          BY <3>2, <4>5 DEF EpochState
        <5> QED BY <3>3, <5>1 DEF Source!GivesUp, Source!SourceNext
      <4> QED BY <4>4, <4>5
    <3>5. CASE ~Runs
      <4>1. opts.dropLast \/ finished' = finished
        BY <2>0, <3>1, <3>5 DEF Runs
      <4> QED BY <2>0, <3>2, <3>5, <4>1 DEF EpochState, Rest, Size, HandedOut
    <3> QED BY <3>4, <3>5
  <2> QED BY <2>1, <2>2
<1>8. ASSUME NEW s \in Splits, NEW bs \in BatchSizes, SetBatchSize(s, bs) PROVE FALSE
  <2>1. UNCHANGED <<call, goal, finished, open>> /\ opts' = [opts EXCEPT !.bs[s] = bs] /\ call # "join" /\ ~open
    BY <1>8 DEF SetBatchSize, callerVars, Idle, Inv, Ended
  <2>2. opts'.dropLast = opts.dropLast
    BY <1>0, <2>1 DEF Options
  <2>3. ~Runs /\ ~Runs'
    BY <2>1 DEF Runs
  <2> QED BY <2>1, <2>2, <2>3 DEF EpochState, Rest, Size, HandedOut
<1>9. CASE UNCHANGED vars
  BY <1>9, SourceStays DEF vars, callerVars, Runs
<1> QED BY <1>1, <1>2, <1>3, <1>4, <1>5, <1>6, <1>7, <1>8, <1>9 DEF Next, LoaderStep

LEMMA SourceBegins == Init => Source!SourceInit
PROOF BY DEF Init, Source!SourceInit, Source!Nothing, Runs, EpochState, Rest, Size, HandedOut

\* Whatever the workers do, get_batch() hands out the batches of the epoch
\* that was started, in order, full but for the last, and ends it after that
\* one: every step of the loader is a step of BatchSource or shows nothing.
THEOREM SourceImplemented == Spec => IsSource
PROOF
<1>1. Inv /\ SourceInv /\ [Next]_vars => (Inv /\ SourceInv)'
  BY InvStep, SourceInvStep
<1> QED BY <1>1, InvInit, SourceInvInit, SourceBegins, SourceSteps, PTL DEF Spec, IsSource, Source!SourceSpec
=============================================================================
