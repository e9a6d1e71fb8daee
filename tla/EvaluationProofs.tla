-------------------------- MODULE EvaluationProofs --------------------------
(***************************************************************************)
(* Proofs that an evaluation which comes to its end has reported every     *)
(* file, and that one which is given up was given up for a cause: for any  *)
(* calls, test sets, numbers of workers, and any order in which the        *)
(* computations finish, raise or die.                                      *)
(***************************************************************************)
EXTENDS Evaluation, FiniteSetTheorems, WellFoundedInduction, TLAPS

-----------------------------------------------------------------------------
(* The invariant. *)

Asked == {k \in Kinds : k = "enh" \/ call.noisy}
Tasks == [metric : Numbers, kind : Asked, file : DOMAIN files]
Outcomes == [task : Tasks, how : {"value", "error", "scalar"}]
AfterAdd == {"csv_enh", "csv_noisy", "means", "returned"}

EvalType ==
    /\ call \in Calls /\ files \in TestSets
    /\ \A i \in Numbers : call.metrics[i] \in MetricNames(call.loop)
    /\ pc \in {"add", "raised"} \cup AfterAdd
    /\ file \in 1 .. Len(files) + 1 /\ metric \in 1 .. Len(call.metrics) + 1
    /\ pc = "add" => metric \in Numbers
    /\ values \in [Numbers -> [Kinds -> Seq(DOMAIN files)]]
    /\ waiting \in [Numbers -> Seq(Tasks)] /\ joined \subseteq Numbers
    /\ inqueue \in Seq(Tasks) /\ running \subseteq Tasks
    /\ results \in Seq(Outcomes) /\ settled \subseteq Outcomes /\ \A r \in settled : r.how # "scalar"
    /\ errors \in Nat

\* Has the loop come past the task?
SentBefore(t, f, i) == t.file < f \/ (t.file = f /\ t.metric < i)
Sent(t) == (pc = "add" /\ SentBefore(t, file, metric)) \/ pc \in AfterAdd

\* A task is in one place, once, and only after it was sent.
OncePlaced ==
    /\ \A m, n \in DOMAIN inqueue : inqueue[m] = inqueue[n] => m = n
    /\ \A m, n \in DOMAIN results : results[m].task = results[n].task => m = n
    /\ \A r, s \in settled : r.task = s.task => r = s
    /\ \A n \in DOMAIN inqueue :
          /\ inqueue[n] \notin running
          /\ \A m \in DOMAIN results : results[m].task # inqueue[n]
          /\ \A r \in settled : r.task # inqueue[n]
    /\ \A t \in running : /\ \A m \in DOMAIN results : results[m].task # t
                          /\ \A r \in settled : r.task # t
    /\ \A m \in DOMAIN results : \A r \in settled : r.task # results[m].task

SentOnly ==
    pc = "add" =>
        /\ \A n \in DOMAIN inqueue : Sent(inqueue[n])
        /\ \A t \in running : Sent(t)
        /\ \A n \in DOMAIN results : Sent(results[n].task)
        /\ \A r \in settled : Sent(r.task)

\* The values of a metric are those of the tasks that settled with one, each once.
Value(i, k, f) == [task |-> Task(i, k, f), how |-> "value"]
Collected ==
    \A i \in Numbers, k \in Kinds :
        /\ \A m, n \in DOMAIN values[i][k] : values[i][k][m] = values[i][k][n] => m = n
        /\ \A f \in DOMAIN files :
              (\E n \in DOMAIN values[i][k] : values[i][k][n] = f) <=> Value(i, k, f) \in settled

\* A metric waits for each of its tasks that was sent until it has the value.
Awaited ==
    \A t \in Tasks : Sent(t) =>
        \/ \E n \in DOMAIN waiting[t.metric] : waiting[t.metric][n] = t
        \/ [task |-> t, how |-> "value"] \in settled

\* The metrics join in turn, and wait for nothing afterwards.
InOrder ==
    /\ \A i \in joined : waiting[i] = <<>> /\ pc # "add"
    /\ pc \in AfterAdd => \A i \in 1 .. metric - 1 : i \in joined

Troubled ==
    (\E n \in DOMAIN results : results[n].how = "error") \/ (\E r \in settled : r.how = "error") => errors > 0

\* i is the last of the first n metrics with the column.
LastWith(col, i, n) ==
    /\ i \in 1 .. n /\ col \in Columns(call.metrics[i])
    /\ \A j \in 1 .. n : col \in Columns(call.metrics[j]) => j <= i

\* The cells of a table that has the first n metrics.
TableOf(cells, n) ==
    \A f \in DOMAIN files, i \in 1 .. n : \A col \in Columns(call.metrics[i]) :
        \E c \in cells : /\ c.row = files[f].base /\ c.col = col /\ LastWith(col, c.metric, n)
                         /\ c.file \in DOMAIN files /\ files[c.file].base = files[f].base
CellsOnly(cells) == \A c \in cells : c.col \in AllColumns /\ \E f \in DOMAIN files : c.row = files[f].base

Filled ==
    /\ pc = "add" => table = {}
    /\ pc = "csv_enh" => call.csvEnh /\ TableOf(table, metric - 1) /\ CellsOnly(table)
    /\ pc = "csv_noisy" => /\ WritesNoisy /\ CellsOnly(table)
                           /\ IF call.noisy THEN TableOf(table, metric - 1) ELSE table = {}
    /\ DOMAIN csv = Kinds
    /\ \A k \in Kinds : csv[k] # {} => TableOf(csv[k], Len(call.metrics))

\* The means over the first n metrics; without files there are none of the noisy ones.
Averages == {k \in Asked : k = "enh" \/ files # <<>>}
MeansAre(ms, n) ==
    \A k \in Averages, i \in 1 .. n : \A col \in Columns(call.metrics[i]) :
        \E m \in ms : m.kind = k /\ m.col = col /\ LastWith(col, m.metric, n) /\ EachOnce(m.files)
Averaged == /\ pc = "means" => MeansAre(means, metric - 1)
            /\ pc = "returned" => MeansAre(means, Len(call.metrics))

PoolInv == EvalType /\ OncePlaced /\ SentOnly /\ Collected /\ Awaited /\ Troubled
ReportInv == InOrder /\ Filled /\ Averaged /\ RaisesForCause
EvalInv == PoolInv /\ ReportInv

-----------------------------------------------------------------------------
(* Sequences. *)

LEMMA TailIs ==
    ASSUME NEW S, NEW s \in Seq(S), s # <<>>
    PROVE  /\ Head(s) \in S /\ Tail(s) \in Seq(S) /\ 1 \in DOMAIN s /\ Head(s) = s[1]
           /\ \A n \in DOMAIN Tail(s) : n + 1 \in DOMAIN s /\ Tail(s)[n] = s[n + 1] /\ n \in Nat
           /\ \A n \in DOMAIN s : n # 1 => n - 1 \in DOMAIN Tail(s) /\ Tail(s)[n - 1] = s[n]
PROOF OBVIOUS

LEMMA AppendIs ==
    ASSUME NEW S, NEW s \in Seq(S), NEW x \in S
    PROVE  /\ Append(s, x) \in Seq(S) /\ Len(s) + 1 \in DOMAIN Append(s, x) /\ Append(s, x)[Len(s) + 1] = x
           /\ \A n \in DOMAIN s : n \in DOMAIN Append(s, x) /\ Append(s, x)[n] = s[n] /\ n # Len(s) + 1
           /\ \A n \in DOMAIN Append(s, x) : n \in DOMAIN s \/ n = Len(s) + 1
PROOF OBVIOUS

LEMMA ConcatIs ==
    ASSUME NEW S, NEW s \in Seq(S), NEW u \in Seq(S)
    PROVE  /\ s \o u \in Seq(S)
           /\ \A n \in DOMAIN s : n \in DOMAIN (s \o u) /\ (s \o u)[n] = s[n]
           /\ \A n \in DOMAIN u : Len(s) + n \in DOMAIN (s \o u) /\ (s \o u)[Len(s) + n] = u[n]
           /\ \A n \in DOMAIN (s \o u) : n \in DOMAIN s \/ \E m \in DOMAIN u : n = Len(s) + m
PROOF
<1>1. s \o u \in Seq(S) /\ Len(s \o u) = Len(s) + Len(u) /\ Len(s) \in Nat /\ Len(u) \in Nat
  OBVIOUS
<1>2. ASSUME NEW n \in DOMAIN (s \o u) PROVE n \in DOMAIN s \/ \E m \in DOMAIN u : n = Len(s) + m
  <2>1. n \in 1 .. Len(s) + Len(u)
    BY <1>1
  <2>2. n \in 1 .. Len(s) \/ n - Len(s) \in 1 .. Len(u)
    BY <1>1, <2>1
  <2>3. n = Len(s) + (n - Len(s))
    BY <1>1, <2>1
  <2> QED BY <2>2, <2>3
<1> QED BY <1>1, <1>2

-----------------------------------------------------------------------------
(* The pool. *)

\* The definitions over the arguments of the call do not change.
LEMMA Fixed ==
    ASSUME UNCHANGED <<call, files>>
    PROVE  /\ Numbers' = Numbers /\ Asked' = Asked /\ Tasks' = Tasks /\ Outcomes' = Outcomes
           /\ AllColumns' = AllColumns
PROOF
<1>1. Numbers' = Numbers
  BY DEF Numbers
<1>2. Asked' = Asked
  BY DEF Asked
<1>3. Tasks' = Tasks
  BY <1>1, <1>2 DEF Tasks
<1> QED BY <1>1, <1>2, <1>3 DEF Outcomes, AllColumns

\* What a step of the pool leaves alone.
LEMMA PoolFrame ==
    ASSUME PoolNext
    PROVE  UNCHANGED <<call, files, pc, file, metric, waiting, joined, table, csv, means>>
PROOF BY DEF PoolNext, WorkerTakes, WorkerComputes, WorkerRaises, WorkerDies, WorkerSends, HandleResult, loopVars, metricVars,
             outVars, AddValues

LEMMA SentSame ==
    ASSUME UNCHANGED <<pc, file, metric>>, NEW t
    PROVE  Sent(t)' = Sent(t)
PROOF BY DEF Sent, SentBefore

\* A task moves from the queue to a worker.
LEMMA TakesStep ==
    ASSUME PoolInv, WorkerTakes
    PROVE  PoolInv'
PROOF
<1> DEFINE t == Head(inqueue)
<1>0. /\ UNCHANGED <<call, files, pc, file, metric, values, waiting, joined, results, settled, errors>>
      /\ inqueue # <<>> /\ running' = running \cup {t} /\ inqueue' = Tail(inqueue)
  BY DEF WorkerTakes, loopVars, metricVars, outVars, faults
<1>1. /\ Numbers' = Numbers /\ Tasks' = Tasks /\ Outcomes' = Outcomes
  BY <1>0, Fixed
<1>2. /\ t \in Tasks /\ Tail(inqueue) \in Seq(Tasks) /\ 1 \in DOMAIN inqueue /\ t = inqueue[1]
      /\ \A n \in DOMAIN Tail(inqueue) : n + 1 \in DOMAIN inqueue /\ Tail(inqueue)[n] = inqueue[n + 1] /\ n \in Nat
  BY <1>0, TailIs DEF PoolInv, EvalType
<1>3. \A n \in DOMAIN inqueue' : n + 1 \in DOMAIN inqueue /\ inqueue'[n] = inqueue[n + 1] /\ n \in Nat /\ n + 1 # 1
  BY <1>0, <1>2
<1> HIDE DEF t
<1>4. EvalType'
  BY <1>0, <1>1, <1>2 DEF PoolInv, EvalType
<1>5. OncePlaced'
  <2>1. \A m, n \in DOMAIN inqueue' : inqueue'[m] = inqueue'[n] => m = n
    <3> SUFFICES ASSUME NEW m \in DOMAIN inqueue', NEW n \in DOMAIN inqueue', inqueue'[m] = inqueue'[n] PROVE m = n
      OBVIOUS
    <3>1. m + 1 = n + 1
      BY <1>3 DEF PoolInv, OncePlaced
    <3> QED BY <1>3, <3>1
  <2>2. \A n \in DOMAIN inqueue' : inqueue'[n] # t
    BY <1>2, <1>3 DEF PoolInv, OncePlaced
  <2>3. \A n \in DOMAIN inqueue' : \E m \in DOMAIN inqueue : inqueue'[n] = inqueue[m]
    BY <1>3
  <2>4. (\A m \in DOMAIN results : results[m].task # t) /\ (\A r \in settled : r.task # t)
    BY <1>2 DEF PoolInv, OncePlaced
  <2> QED BY <1>0, <2>1, <2>2, <2>3, <2>4 DEF PoolInv, OncePlaced
<1>6. SentOnly'
  BY <1>0, <1>2, <1>3, SentSame DEF PoolInv, SentOnly
<1>7. Collected' /\ Awaited' /\ Troubled'
  BY <1>0, <1>1, SentSame DEF PoolInv, Collected, Awaited, Troubled
<1> QED BY <1>4, <1>5, <1>6, <1>7 DEF PoolInv

\* A task ends in a worker, with a result or without.
LEMMA SendsStep ==
    ASSUME PoolInv, NEW t \in running, NEW how \in {"value", "error", "scalar"}, WorkerSends(t, how),
           errors' \in Nat, how = "error" => errors' > 0, errors > 0 => errors' > 0
    PROVE  PoolInv'
PROOF
<1> DEFINE r == [task |-> t, how |-> how]
<1>0. /\ UNCHANGED <<call, files, pc, file, metric, values, waiting, joined, inqueue, settled>>
      /\ running' = running \ {t} /\ results' = Append(results, r)
  BY DEF WorkerSends, loopVars, metricVars
<1>1. /\ Numbers' = Numbers /\ Tasks' = Tasks /\ Outcomes' = Outcomes
  BY <1>0, Fixed
<1>2. r \in Outcomes /\ r.task = t /\ r.how = how /\ t \in Tasks
  BY DEF PoolInv, EvalType, Outcomes
<1> HIDE DEF r
<1>3. /\ results' \in Seq(Outcomes) /\ Len(results) + 1 \in DOMAIN results' /\ results'[Len(results) + 1] = r
      /\ \A n \in DOMAIN results : n \in DOMAIN results' /\ results'[n] = results[n]
      /\ \A n \in DOMAIN results' : n \in DOMAIN results \/ n = Len(results) + 1
  <2>1. results \in Seq(Outcomes)
    BY DEF PoolInv, EvalType
  <2> QED BY <1>0, <1>2, <2>1, AppendIs
<1>4. EvalType'
  BY <1>0, <1>1, <1>3 DEF PoolInv, EvalType
<1>5. \A n \in DOMAIN results' : (n \in DOMAIN results /\ results'[n] = results[n]) \/ (n = Len(results) + 1 /\ results'[n] = r)
  BY <1>3
<1>6. OncePlaced'
  <2>1. /\ \A m \in DOMAIN results : results[m].task # t
        /\ \A n \in DOMAIN inqueue : inqueue[n] # t
        /\ \A s \in settled : s.task # t
    BY DEF PoolInv, OncePlaced
  <2>2. \A m, n \in DOMAIN results' : results'[m].task = results'[n].task => m = n
    BY <1>2, <1>5, <2>1 DEF PoolInv, OncePlaced
  <2>3. \A n \in DOMAIN results' : \A s \in settled : s.task # results'[n].task
    BY <1>2, <1>5, <2>1 DEF PoolInv, OncePlaced
  <2>4. \A n \in DOMAIN inqueue : inqueue[n] \notin running' /\ \A m \in DOMAIN results' : results'[m].task # inqueue[n]
    BY <1>0, <1>2, <1>5, <2>1 DEF PoolInv, OncePlaced
  <2>5. \A u \in running' : \A m \in DOMAIN results' : results'[m].task # u
    BY <1>0, <1>2, <1>5 DEF PoolInv, OncePlaced
  <2> QED BY <1>0, <2>2, <2>3, <2>4, <2>5 DEF PoolInv, OncePlaced
<1>7. SentOnly'
  <2>1. pc = "add" => Sent(t)
    BY DEF PoolInv, SentOnly
  <2> QED BY <1>0, <1>2, <1>5, <2>1, SentSame DEF PoolInv, SentOnly
<1>8. Troubled'
  BY <1>0, <1>2, <1>5 DEF PoolInv, Troubled
<1>9. Collected' /\ Awaited'
  BY <1>0, <1>1, SentSame DEF PoolInv, Collected, Awaited
<1> QED BY <1>4, <1>6, <1>7, <1>8, <1>9 DEF PoolInv

LEMMA DiesStep ==
    ASSUME PoolInv, NEW t \in running, WorkerDies(t)
    PROVE  PoolInv'
PROOF
<1>0. /\ UNCHANGED <<call, files, pc, file, metric, values, waiting, joined, inqueue, results, settled, errors>>
      /\ running' \subseteq running
  BY DEF WorkerDies, loopVars, metricVars
<1>1. /\ Numbers' = Numbers /\ Tasks' = Tasks /\ Outcomes' = Outcomes
  BY <1>0, Fixed
<1>2. EvalType' /\ OncePlaced'
  BY <1>0, <1>1 DEF PoolInv, EvalType, OncePlaced
<1>3. SentOnly' /\ Collected' /\ Awaited' /\ Troubled'
  BY <1>0, <1>1, SentSame DEF PoolInv, SentOnly, Collected, Awaited, Troubled
<1> QED BY <1>2, <1>3 DEF PoolInv

\* What the handler takes from the results.
LEMMA FirstResult ==
    ASSUME PoolInv, results # <<>>
    PROVE  /\ Head(results) \in Outcomes /\ Head(results).task \in Tasks /\ Tail(results) \in Seq(Outcomes)
           /\ \A n \in DOMAIN Tail(results) : n + 1 \in DOMAIN results /\ Tail(results)[n] = results[n + 1] /\ n \in Nat
           /\ \A n \in DOMAIN results : results[n].task = Head(results).task => n = 1
           /\ 1 \in DOMAIN results /\ results[1] = Head(results)
           /\ \A s \in settled : s.task # Head(results).task
           /\ \A n \in DOMAIN inqueue : inqueue[n] # Head(results).task
           /\ Head(results).task \notin running
PROOF
<1>1. /\ Head(results) \in Outcomes /\ Tail(results) \in Seq(Outcomes) /\ 1 \in DOMAIN results /\ Head(results) = results[1]
      /\ \A n \in DOMAIN Tail(results) : n + 1 \in DOMAIN results /\ Tail(results)[n] = results[n + 1] /\ n \in Nat
  BY TailIs DEF PoolInv, EvalType
<1>2. Head(results).task \in Tasks
  BY <1>1 DEF Outcomes
<1> QED BY <1>1, <1>2 DEF PoolInv, OncePlaced

\* A value that arrives is appended once.
LEMMA ValueCollected ==
    ASSUME PoolInv, NEW r \in Outcomes, r.how = "value", \A s \in settled : s.task # r.task,
           values' = [values EXCEPT ![r.task.metric][r.task.kind] = Append(@, r.task.file)],
           settled' = settled \cup {r}, UNCHANGED <<call, files>>
    PROVE  values' \in [Numbers -> [Kinds -> Seq(DOMAIN files)]] /\ Collected'
PROOF
<1> DEFINE i0 == r.task.metric
           k0 == r.task.kind
           f0 == r.task.file
<1>1. /\ r = Value(i0, k0, f0) /\ r.task \in Tasks
  BY DEF Outcomes, Tasks, Value, Task
<1>2. i0 \in Numbers /\ k0 \in Kinds /\ f0 \in DOMAIN files
  BY <1>1 DEF Tasks, Asked
<1>3. /\ Numbers' = Numbers /\ (DOMAIN files)' = DOMAIN files
  BY Fixed
<1>4. r \notin settled
  OBVIOUS
<1> HIDE DEF i0, k0, f0
<1>5. values \in [Numbers -> [Kinds -> Seq(DOMAIN files)]]
  BY DEF PoolInv, EvalType
<1>6. values[i0][k0] \in Seq(DOMAIN files)
  BY <1>2, <1>5
<1> DEFINE old == values[i0][k0]
           new == Append(old, f0)
<1>7. /\ new \in Seq(DOMAIN files) /\ Len(old) + 1 \in DOMAIN new /\ new[Len(old) + 1] = f0
      /\ \A n \in DOMAIN old : n \in DOMAIN new /\ new[n] = old[n] /\ n # Len(old) + 1
      /\ \A n \in DOMAIN new : n \in DOMAIN old \/ n = Len(old) + 1
  BY <1>2, <1>6, AppendIs
<1>8. values' = [values EXCEPT ![i0] = [values[i0] EXCEPT ![k0] = new]]
  BY <1>2, <1>5 DEF i0, k0, f0
<1> HIDE DEF new
<1>9. values' \in [Numbers -> [Kinds -> Seq(DOMAIN files)]]
  <2>1. values[i0] \in [Kinds -> Seq(DOMAIN files)] /\ new \in Seq(DOMAIN files)
    BY <1>2, <1>5, <1>7
  <2>2. [values[i0] EXCEPT ![k0] = new] \in [Kinds -> Seq(DOMAIN files)]
    BY <1>2, <2>1
  <2> QED BY <1>2, <1>5, <1>8, <2>2
<1>10. values'[i0][k0] = new /\ \A i \in Numbers, k \in Kinds : i # i0 \/ k # k0 => values'[i][k] = values[i][k]
  BY <1>2, <1>5, <1>8
<1>11. \A n \in DOMAIN old : old[n] # f0
  BY <1>1, <1>2, <1>4 DEF PoolInv, Collected
<1>12. old = values[i0][k0]
  OBVIOUS
<1> HIDE DEF old
<1>13. ASSUME NEW i \in Numbers, NEW k \in Kinds
       PROVE  /\ \A m, n \in DOMAIN values'[i][k] : values'[i][k][m] = values'[i][k][n] => m = n
              /\ \A f \in DOMAIN files :
                    (\E n \in DOMAIN values'[i][k] : values'[i][k][n] = f) <=> Value(i, k, f) \in settled'
  <2>1. CASE i = i0 /\ k = k0
    <3>1. \A m, n \in DOMAIN old : old[m] = old[n] => m = n
      BY <1>2, <1>12 DEF PoolInv, Collected
    <3>2. \A m, n \in DOMAIN new : new[m] = new[n] => m = n
      BY <1>7, <1>11, <3>1
    <3>3. ASSUME NEW f \in DOMAIN files PROVE (\E n \in DOMAIN new : new[n] = f) <=> Value(i0, k0, f) \in settled'
      <4>1. (\E n \in DOMAIN new : new[n] = f) <=> (f = f0 \/ \E n \in DOMAIN old : old[n] = f)
        BY <1>7
      <4>2. (\E n \in DOMAIN old : old[n] = f) <=> Value(i0, k0, f) \in settled
        BY <1>2, <1>12 DEF PoolInv, Collected
      <4>3. Value(i0, k0, f) = r <=> f = f0
        BY <1>1 DEF Value, Task
      <4>4. Value(i0, k0, f) \in settled' <=> (Value(i0, k0, f) \in settled \/ Value(i0, k0, f) = r)
        OBVIOUS
      <4> QED BY <4>1, <4>2, <4>3, <4>4
    <3>4. values'[i][k] = new
      BY <1>10, <2>1
    <3>5. \A f \in DOMAIN files : (\E n \in DOMAIN new : new[n] = f) <=> Value(i, k, f) \in settled'
      BY <2>1, <3>3
    <3>6. \A a, b \in DOMAIN values'[i][k] : values'[i][k][a] = values'[i][k][b] => a = b
      BY <3>2, <3>4
    <3>7. \A f \in DOMAIN files : (\E n \in DOMAIN values'[i][k] : values'[i][k][n] = f) <=> Value(i, k, f) \in settled'
      BY <3>4, <3>5
    <3> QED BY <3>6, <3>7
  <2>2. CASE i # i0 \/ k # k0
    <3>1. values'[i][k] = values[i][k]
      BY <1>10, <2>2
    <3>2. \A f \in DOMAIN files : Value(i, k, f) # r
      BY <1>1, <2>2 DEF Value, Task
    <3>3. \A f \in DOMAIN files : Value(i, k, f) \in settled' <=> Value(i, k, f) \in settled
      BY <3>2
    <3>4. /\ \A m, n \in DOMAIN values[i][k] : values[i][k][m] = values[i][k][n] => m = n
          /\ \A f \in DOMAIN files : (\E n \in DOMAIN values[i][k] : values[i][k][n] = f) <=> Value(i, k, f) \in settled
      BY DEF PoolInv, Collected
    <3> QED BY <3>1, <3>3, <3>4
  <2> QED BY <2>1, <2>2
<1>14. Collected'
  <2>1. Kinds' = Kinds /\ \A i, k, f : Value(i, k, f)' = Value(i, k, f)
    BY DEF Kinds, Value, Task
  <2> QED BY <1>3, <1>13, <2>1 DEF Collected
<1> QED BY <1>9, <1>14

\* The handler calls the callback and sets the outcome.
LEMMA HandleStep ==
    ASSUME PoolInv, HandleResult
    PROVE  PoolInv'
PROOF
<1> DEFINE r == Head(results)
<1>0. /\ UNCHANGED <<call, files, pc, file, metric, waiting, joined, inqueue, running, errors>>
      /\ results # <<>> /\ results' = Tail(results)
  BY DEF HandleResult, loopVars, outVars, faults
<1>1. /\ Numbers' = Numbers /\ Tasks' = Tasks /\ Outcomes' = Outcomes
  BY <1>0, Fixed
<1>2. /\ r \in Outcomes /\ r.task \in Tasks /\ Tail(results) \in Seq(Outcomes)
      /\ \A n \in DOMAIN Tail(results) : n + 1 \in DOMAIN results /\ Tail(results)[n] = results[n + 1] /\ n \in Nat
      /\ \A n \in DOMAIN results : results[n].task = r.task => n = 1
      /\ 1 \in DOMAIN results /\ results[1] = r
      /\ \A s \in settled : s.task # r.task
      /\ \A n \in DOMAIN inqueue : inqueue[n] # r.task
      /\ r.task \notin running
  BY <1>0, FirstResult
<1>3. /\ r.how = "value" => /\ values' = [values EXCEPT ![r.task.metric][r.task.kind] = Append(@, r.task.file)]
                            /\ settled' = settled \cup {r}
      /\ r.how = "error" => values' = values /\ settled' = settled \cup {r}
      /\ r.how = "scalar" => values' = values /\ settled' = settled
      /\ r.how \in {"value", "error", "scalar"}
  <2>1. r.how \in {"value", "error", "scalar"}
    BY <1>2 DEF Outcomes
  <2> QED BY <2>1 DEF HandleResult, AddValues
<1> HIDE DEF r
<1>4. \A n \in DOMAIN results' : n + 1 \in DOMAIN results /\ results'[n] = results[n + 1] /\ n \in Nat /\ n + 1 # 1
  BY <1>0, <1>2
<1>5. settled' \in {settled, settled \cup {r}} /\ settled \subseteq settled'
  BY <1>3
<1>6. Collected' /\ values' \in [Numbers -> [Kinds -> Seq(DOMAIN files)]]
  <2>1. CASE r.how = "value"
    BY <1>0, <1>2, <1>3, <2>1, ValueCollected
  <2>2. CASE r.how # "value"
    <3>1. values' = values /\ values \in [Numbers -> [Kinds -> Seq(DOMAIN files)]]
      BY <1>3, <2>2 DEF PoolInv, EvalType
    <3>2. \A i, k, f : Value(i, k, f) \in settled' <=> Value(i, k, f) \in settled
      BY <1>3, <2>2 DEF Value
    <3> QED BY <1>0, <1>1, <3>1, <3>2 DEF PoolInv, Collected, Value, Task
  <2> QED BY <2>1, <2>2
<1>7. EvalType'
  <2>1. \A s \in settled' : s \in Outcomes /\ s.how # "scalar"
    BY <1>2, <1>3 DEF PoolInv, EvalType
  <2> QED BY <1>0, <1>1, <1>2, <1>6, <2>1 DEF PoolInv, EvalType
<1>8. OncePlaced'
  <2>1. \A m, n \in DOMAIN results' : results'[m].task = results'[n].task => m = n
    <3> SUFFICES ASSUME NEW m \in DOMAIN results', NEW n \in DOMAIN results', results'[m].task = results'[n].task PROVE m = n
      OBVIOUS
    <3>1. m + 1 = n + 1
      BY <1>4 DEF PoolInv, OncePlaced
    <3> QED BY <1>4, <3>1
  <2>2. \A n \in DOMAIN results' : results'[n].task # r.task /\ \E m \in DOMAIN results : results'[n] = results[m]
    BY <1>2, <1>4
  <2>3. \A u, v \in settled' : u.task = v.task => u = v
    BY <1>2, <1>5 DEF PoolInv, OncePlaced
  <2>4. \A n \in DOMAIN results' : \A s \in settled' : s.task # results'[n].task
    BY <1>5, <2>2 DEF PoolInv, OncePlaced
  <2>5. \A n \in DOMAIN inqueue : /\ inqueue[n] \notin running
                                  /\ \A m \in DOMAIN results' : results'[m].task # inqueue[n]
                                  /\ \A s \in settled' : s.task # inqueue[n]
    BY <1>2, <1>5, <2>2 DEF PoolInv, OncePlaced
  <2>6. \A t \in running : /\ \A m \in DOMAIN results' : results'[m].task # t
                           /\ \A s \in settled' : s.task # t
    BY <1>2, <1>5, <2>2 DEF PoolInv, OncePlaced
  <2>7. \A m, n \in DOMAIN inqueue : inqueue[m] = inqueue[n] => m = n
    BY DEF PoolInv, OncePlaced
  <2> QED BY <1>0, <2>1, <2>3, <2>4, <2>5, <2>6, <2>7 DEF OncePlaced
<1>9. SentOnly'
  <2>1. pc = "add" => Sent(r.task)
    BY <1>2 DEF PoolInv, SentOnly
  <2> QED BY <1>0, <1>2, <1>4, <1>5, <2>1, SentSame DEF PoolInv, SentOnly
<1>10. Awaited'
  BY <1>0, <1>1, <1>5, SentSame DEF PoolInv, Awaited
<1>11. Troubled'
  <2>1. r.how = "error" => errors > 0
    BY <1>2 DEF PoolInv, Troubled
  <2> QED BY <1>0, <1>2, <1>4, <1>5, <2>1 DEF PoolInv, Troubled
<1> QED BY <1>6, <1>7, <1>8, <1>9, <1>10, <1>11 DEF PoolInv

LEMMA PoolKeepsPool ==
    ASSUME PoolInv, PoolNext
    PROVE  PoolInv'
PROOF
<1>1. CASE WorkerTakes
  BY <1>1, TakesStep
<1>2. ASSUME NEW t \in running, WorkerComputes(t) PROVE PoolInv'
  <2>1. errors' = errors /\ errors \in Nat
    BY <1>2 DEF WorkerComputes, PoolInv, EvalType
  <2>2. WorkerSends(t, "scalar") \/ WorkerSends(t, "value")
    BY <1>2 DEF WorkerComputes
  <2> QED BY <2>1, <2>2, SendsStep
<1>3. ASSUME NEW t \in running, WorkerRaises(t) PROVE PoolInv'
  <2>1. errors' = errors + 1 /\ errors \in Nat /\ errors' \in Nat /\ errors' > 0
    BY <1>3 DEF WorkerRaises, PoolInv, EvalType
  <2>2. WorkerSends(t, "error")
    BY <1>3 DEF WorkerRaises
  <2> QED BY <2>1, <2>2, SendsStep
<1>4. ASSUME NEW t \in running, WorkerDies(t) PROVE PoolInv'
  BY <1>4, DiesStep
<1>5. CASE HandleResult
  BY <1>5, HandleStep
<1> QED BY <1>1, <1>2, <1>3, <1>4, <1>5 DEF PoolNext

-----------------------------------------------------------------------------
(* The main thread, on the same part of the invariant. *)

LEMMA CallIs ==
    ASSUME EvalType
    PROVE  /\ call.metrics \in Seq(STRING) /\ call.metrics # <<>> /\ {call.noisy, call.csvEnh, call.csvNoisy} \subseteq BOOLEAN
           /\ files \in Seq([base : STRING, clean : Nat, enh : Nat, noisy : Nat, finite : BOOLEAN])
           /\ Len(call.metrics) \in Nat /\ Len(call.metrics) > 0 /\ Numbers = 1 .. Len(call.metrics)
           /\ Len(files) \in Nat /\ DOMAIN files = 1 .. Len(files)
PROOF
<1>1. call.metrics \in Seq(STRING) \ {<<>>} /\ {call.noisy, call.csvEnh, call.csvNoisy} \subseteq BOOLEAN
  BY CallsAssumption DEF EvalType
<1>2. files \in Seq([base : STRING, clean : Nat, enh : Nat, noisy : Nat, finite : BOOLEAN])
  BY CallsAssumption DEF EvalType
<1> QED BY <1>1, <1>2 DEF Numbers

\* What raises leaves the pool as it is.
LEMMA RaiseKeepsPool ==
    ASSUME PoolInv, Raise
    PROVE  PoolInv'
PROOF
<1>0. /\ UNCHANGED <<call, files, file, metric, values, waiting, joined, inqueue, running, results, settled, errors>>
      /\ pc' = "raised"
  BY DEF Raise, metricVars, outVars, faults
<1>1. /\ Numbers' = Numbers /\ Tasks' = Tasks /\ Outcomes' = Outcomes
  BY <1>0, Fixed
<1>2. EvalType' /\ OncePlaced'
  BY <1>0, <1>1 DEF PoolInv, EvalType, OncePlaced, AfterAdd
<1>3. \A t : Sent(t)' = FALSE
  BY <1>0 DEF Sent, AfterAdd
<1>4. SentOnly' /\ Awaited'
  BY <1>0, <1>3 DEF SentOnly, Awaited
<1>5. Collected' /\ Troubled'
  BY <1>0, <1>1 DEF PoolInv, Collected, Troubled
<1> QED BY <1>2, <1>4, <1>5 DEF PoolInv

\* After the loop, the main thread disturbs none of it.
LEMMA MainKeepsPool ==
    ASSUME PoolInv, UNCHANGED <<call, files, file, values, waiting, inqueue, running, results, settled, errors>>,
           pc \in AfterAdd, pc' \in AfterAdd, metric' \in 1 .. Len(call.metrics) + 1, joined' \subseteq Numbers
    PROVE  PoolInv'
PROOF
<1>1. /\ Numbers' = Numbers /\ Tasks' = Tasks /\ Outcomes' = Outcomes
  BY Fixed
<1>2. pc # "add" /\ pc' # "add"
  BY DEF AfterAdd
<1>3. EvalType' /\ OncePlaced'
  BY <1>1, <1>2 DEF PoolInv, EvalType, OncePlaced
<1>4. \A t : Sent(t)' = Sent(t)
  BY <1>2 DEF Sent
<1>5. SentOnly' /\ Awaited'
  BY <1>1, <1>2, <1>4 DEF SentOnly, PoolInv, Awaited
<1>6. Collected' /\ Troubled'
  BY <1>1 DEF PoolInv, Collected, Troubled
<1> QED BY <1>3, <1>5, <1>6 DEF PoolInv

\* The tasks of one file for one metric.
LEMMA SubmittedIs ==
    ASSUME PoolInv, pc = "add", file \in DOMAIN files
    PROVE  /\ Submitted \in Seq(Tasks)
           /\ \A m, n \in DOMAIN Submitted : Submitted[m] = Submitted[n] => m = n
           /\ \A n \in DOMAIN Submitted : Submitted[n].metric = metric /\ Submitted[n].file = file
           /\ \A t \in Tasks : t.metric = metric /\ t.file = file => \E n \in DOMAIN Submitted : Submitted[n] = t
PROOF
<1> DEFINE e == Task(metric, "enh", file)
           n == Task(metric, "noisy", file)
<1>1. metric \in Numbers /\ call.noisy \in BOOLEAN
  BY CallIs DEF PoolInv, EvalType
<1>2. e \in Tasks /\ (call.noisy => n \in Tasks) /\ e # n
  BY <1>1 DEF Tasks, Task, Asked, Kinds
<1>3. e.metric = metric /\ e.file = file /\ n.metric = metric /\ n.file = file
  BY DEF Task
<1>4. \A t \in Tasks : t.metric = metric /\ t.file = file => t = e \/ (call.noisy /\ t = n)
  BY DEF Tasks, Task, Asked, Kinds
<1> HIDE DEF e, n
<1>5. CASE call.noisy
  <2>1. Submitted = <<e>> \o <<n>>
    BY <1>5 DEF Submitted, e, n
  <2>2. /\ <<e>> \in Seq(Tasks) /\ <<n>> \in Seq(Tasks) /\ Len(<<e>>) = 1 /\ DOMAIN <<e>> = {1} /\ DOMAIN <<n>> = {1}
        /\ <<e>>[1] = e /\ <<n>>[1] = n
    BY <1>2, <1>5
  <2>3. /\ Submitted \in Seq(Tasks) /\ 1 \in DOMAIN Submitted /\ Submitted[1] = e /\ 2 \in DOMAIN Submitted /\ Submitted[2] = n
        /\ \A m \in DOMAIN Submitted : m = 1 \/ m = 2
    BY <2>1, <2>2, ConcatIs
  <2> QED BY <1>2, <1>3, <1>4, <1>5, <2>3
<1>6. CASE ~ call.noisy
  <2>1. Submitted = <<e>>
    BY <1>6 DEF Submitted, e
  <2> QED BY <1>2, <1>3, <1>4, <1>6, <2>1
<1> QED BY <1>5, <1>6

\* The loop goes from a metric to the next, and from the last to the next file.
LEMMA LoopGoesOn ==
    ASSUME PoolInv, pc = "add", file \in DOMAIN files, UNCHANGED <<call, files, pc>>,
           IF metric < Len(call.metrics) THEN metric' = metric + 1 /\ file' = file ELSE metric' = 1 /\ file' = file + 1
    PROVE  /\ metric' \in Numbers /\ file' \in 1 .. Len(files) + 1
           /\ \A t \in Tasks : SentBefore(t, file', metric') <=> Sent(t) \/ (t.metric = metric /\ t.file = file)
           /\ \A t \in Tasks : Sent(t) => ~ (t.metric = metric /\ t.file = file)
PROOF
<1>1. /\ metric \in 1 .. Len(call.metrics) /\ file \in 1 .. Len(files) /\ Len(call.metrics) \in Nat /\ Len(files) \in Nat
      /\ Numbers = 1 .. Len(call.metrics) /\ DOMAIN files = 1 .. Len(files)
  BY CallIs DEF PoolInv, EvalType
<1>2. metric' \in Numbers /\ file' \in 1 .. Len(files) + 1
  BY <1>1
<1>3. ASSUME NEW t \in Tasks
      PROVE  /\ SentBefore(t, file', metric') <=> SentBefore(t, file, metric) \/ (t.metric = metric /\ t.file = file)
             /\ SentBefore(t, file, metric) => ~ (t.metric = metric /\ t.file = file)
  <2>1. t.metric \in 1 .. Len(call.metrics) /\ t.file \in 1 .. Len(files)
    BY <1>1 DEF Tasks
  <2>2. CASE metric < Len(call.metrics)
    BY <1>1, <2>1, <2>2 DEF SentBefore
  <2>3. CASE ~ (metric < Len(call.metrics))
    BY <1>1, <2>1, <2>3 DEF SentBefore
  <2> QED BY <2>2, <2>3
<1>4. \A t \in Tasks : Sent(t) <=> SentBefore(t, file, metric)
  BY DEF Sent, AfterAdd
<1> QED BY <1>2, <1>3, <1>4

LEMMA AddKeepsPool ==
    ASSUME PoolInv, AddFile
    PROVE  PoolInv'
PROOF
<1>1. pc = "add" /\ file \in DOMAIN files
  BY CallIs DEF AddFile, PoolInv, EvalType
<1>2. CASE Raise
  BY <1>2, RaiseKeepsPool
<1>3. SUFFICES ASSUME ~ Raise PROVE PoolInv'
  BY <1>2
<1>4. /\ inqueue' = inqueue \o Submitted
      /\ waiting' = [waiting EXCEPT ![metric] = waiting[metric] \o Submitted]
      /\ IF metric < Len(call.metrics) THEN metric' = metric + 1 /\ file' = file ELSE metric' = 1 /\ file' = file + 1
      /\ UNCHANGED <<call, files, pc, values, joined, running, results, settled, errors>>
  BY <1>3 DEF AddFile, faults
<1>5. /\ Numbers' = Numbers /\ Tasks' = Tasks /\ Outcomes' = Outcomes
  BY <1>4, Fixed
<1>6. /\ metric' \in Numbers /\ file' \in 1 .. Len(files) + 1
      /\ \A t \in Tasks : SentBefore(t, file', metric') <=> Sent(t) \/ (t.metric = metric /\ t.file = file)
      /\ \A t \in Tasks : Sent(t) => ~ (t.metric = metric /\ t.file = file)
  BY <1>1, <1>4, LoopGoesOn
<1>7. /\ Submitted \in Seq(Tasks)
      /\ \A m, n \in DOMAIN Submitted : Submitted[m] = Submitted[n] => m = n
      /\ \A n \in DOMAIN Submitted : Submitted[n].metric = metric /\ Submitted[n].file = file
      /\ \A t \in Tasks : t.metric = metric /\ t.file = file => \E n \in DOMAIN Submitted : Submitted[n] = t
  BY <1>1, SubmittedIs
<1>8. /\ metric \in Numbers /\ waiting \in [Numbers -> Seq(Tasks)] /\ inqueue \in Seq(Tasks)
      /\ metric' \in 1 .. Len(call.metrics) + 1
  <2>1. Numbers = 1 .. Len(call.metrics) /\ Len(call.metrics) \in Nat
    BY CallIs DEF PoolInv
  <2>2. metric \in Numbers /\ waiting \in [Numbers -> Seq(Tasks)] /\ inqueue \in Seq(Tasks)
    BY <1>1 DEF PoolInv, EvalType
  <2> QED BY <1>6, <2>1, <2>2
<1>9. /\ inqueue' \in Seq(Tasks)
      /\ \A n \in DOMAIN inqueue : n \in DOMAIN inqueue' /\ inqueue'[n] = inqueue[n]
      /\ \A n \in DOMAIN Submitted : Len(inqueue) + n \in DOMAIN inqueue' /\ inqueue'[Len(inqueue) + n] = Submitted[n]
      /\ \A n \in DOMAIN inqueue' : n \in DOMAIN inqueue \/ \E m \in DOMAIN Submitted : n = Len(inqueue) + m
  BY <1>4, <1>7, <1>8, ConcatIs
<1>10. /\ waiting'[metric] \in Seq(Tasks)
       /\ \A n \in DOMAIN waiting[metric] : n \in DOMAIN waiting'[metric] /\ waiting'[metric][n] = waiting[metric][n]
       /\ \A n \in DOMAIN Submitted : \E m \in DOMAIN waiting'[metric] : waiting'[metric][m] = Submitted[n]
       /\ waiting' \in [Numbers -> Seq(Tasks)]
       /\ \A i \in Numbers : i # metric => waiting'[i] = waiting[i]
  <2> DEFINE w == waiting[metric]
             u == w \o Submitted
  <2>1. w \in Seq(Tasks)
    BY <1>8
  <2>2. /\ u \in Seq(Tasks)
        /\ \A n \in DOMAIN w : n \in DOMAIN u /\ u[n] = w[n]
        /\ \A n \in DOMAIN Submitted : Len(w) + n \in DOMAIN u /\ u[Len(w) + n] = Submitted[n]
    BY <1>7, <2>1, ConcatIs
  <2>3. waiting' = [waiting EXCEPT ![metric] = u]
    BY <1>4
  <2> HIDE DEF u
  <2>4. waiting'[metric] = u /\ waiting' \in [Numbers -> Seq(Tasks)] /\ \A i \in Numbers : i # metric => waiting'[i] = waiting[i]
    BY <1>8, <2>2, <2>3
  <2> QED BY <2>2, <2>4
<1> HIDE DEF Submitted
\* None of the new tasks was anywhere: what is somewhere was sent.
<1>11. \A n \in DOMAIN Submitted : /\ Submitted[n] \in Tasks /\ ~ Sent(Submitted[n])
  BY <1>6, <1>7
<1>12. \A n \in DOMAIN inqueue' : \/ \E m \in DOMAIN inqueue : n = m /\ inqueue'[n] = inqueue[m]
                                  \/ \E m \in DOMAIN Submitted : n = Len(inqueue) + m /\ inqueue'[n] = Submitted[m]
  BY <1>9
<1>13. /\ \A n \in DOMAIN inqueue : Sent(inqueue[n])
       /\ \A t \in running : Sent(t)
       /\ \A n \in DOMAIN results : Sent(results[n].task)
       /\ \A r \in settled : Sent(r.task)
  BY <1>1 DEF PoolInv, SentOnly
<1>14. EvalType'
  BY <1>4, <1>5, <1>6, <1>8, <1>9, <1>10 DEF PoolInv, EvalType
<1>15. OncePlaced'
  <2>1. \A m, n \in DOMAIN inqueue' : inqueue'[m] = inqueue'[n] => m = n
    BY <1>7, <1>11, <1>12, <1>13 DEF PoolInv, OncePlaced
  <2>2. \A n \in DOMAIN inqueue' : /\ inqueue'[n] \notin running
                                   /\ \A m \in DOMAIN results : results[m].task # inqueue'[n]
                                   /\ \A r \in settled : r.task # inqueue'[n]
    BY <1>11, <1>12, <1>13 DEF PoolInv, OncePlaced
  <2> QED BY <1>4, <2>1, <2>2 DEF PoolInv, OncePlaced
<1>16. SentOnly'
  <2>1. \A t \in Tasks : Sent(t) => SentBefore(t, file', metric')
    BY <1>6
  <2>2. \A n \in DOMAIN inqueue' : SentBefore(inqueue'[n], file', metric')
    <3> SUFFICES ASSUME NEW n \in DOMAIN inqueue' PROVE SentBefore(inqueue'[n], file', metric')
      OBVIOUS
    <3>1. inqueue'[n] \in Tasks
      BY <1>9
    <3>2. Sent(inqueue'[n]) \/ (inqueue'[n].metric = metric /\ inqueue'[n].file = file)
      BY <1>7, <1>12, <1>13
    <3> QED BY <1>6, <3>1, <3>2
  <2>3. \A t \in running : SentBefore(t, file', metric')
    BY <1>13, <2>1 DEF PoolInv, EvalType
  <2>4. \A n \in DOMAIN results : SentBefore(results[n].task, file', metric')
    <3>1. \A n \in DOMAIN results : results[n] \in Outcomes
      BY DEF PoolInv, EvalType
    <3> QED BY <1>13, <2>1, <3>1 DEF Outcomes
  <2>5. \A r \in settled : SentBefore(r.task, file', metric')
    BY <1>13, <2>1 DEF PoolInv, EvalType, Outcomes
  <2>6. pc' = "add"
    BY <1>1, <1>4
  <2> QED BY <1>4, <2>2, <2>3, <2>4, <2>5, <2>6 DEF SentOnly, Sent, SentBefore
<1>17. Awaited'
  <2> SUFFICES ASSUME NEW t \in Tasks, Sent(t)'
               PROVE  (\E n \in DOMAIN waiting'[t.metric] : waiting'[t.metric][n] = t) \/ [task |-> t, how |-> "value"] \in settled
    BY <1>4, <1>5 DEF Awaited
  <2>1. Sent(t) \/ (t.metric = metric /\ t.file = file)
    BY <1>1, <1>4, <1>6 DEF Sent, SentBefore, AfterAdd
  <2>2. CASE Sent(t)
    <3>1. (\E n \in DOMAIN waiting[t.metric] : waiting[t.metric][n] = t) \/ [task |-> t, how |-> "value"] \in settled
      BY <2>2 DEF PoolInv, Awaited
    <3>2. t.metric \in Numbers
      BY DEF Tasks
    <3> QED BY <1>10, <3>1, <3>2
  <2>3. CASE t.metric = metric /\ t.file = file
    BY <1>7, <1>10, <2>3
  <2> QED BY <2>1, <2>2, <2>3
<1>18. Collected' /\ Troubled'
  BY <1>4, <1>5 DEF PoolInv, Collected, Troubled
<1> QED BY <1>14, <1>15, <1>16, <1>17, <1>18 DEF PoolInv

LEMMA EndKeepsPool ==
    ASSUME PoolInv, EndOfFiles
    PROVE  PoolInv' /\ \A t \in Tasks : Sent(t)
PROOF
<1>0. /\ UNCHANGED <<call, files, file, values, waiting, joined, inqueue, running, results, settled, errors>>
      /\ pc = "add" /\ pc' \in AfterAdd /\ metric' = 1 /\ file > Len(files)
  BY DEF EndOfFiles, AfterFiles, AfterAdd, metricVars, poolVars, faults
<1>1. /\ Numbers' = Numbers /\ Tasks' = Tasks /\ Outcomes' = Outcomes
  BY <1>0, Fixed
<1>2. \A t \in Tasks : Sent(t) /\ Sent(t)'
  <2> SUFFICES ASSUME NEW t \in Tasks PROVE Sent(t) /\ Sent(t)'
    OBVIOUS
  <2>1. file \in 1 .. Len(files) + 1 /\ t.file \in 1 .. Len(files) /\ Len(files) \in Nat
    BY CallIs DEF PoolInv, EvalType, Tasks
  <2>2. t.file < file
    BY <1>0, <2>1
  <2> QED BY <1>0, <2>2 DEF Sent, SentBefore
<1>3. pc' # "add" /\ 1 \in 1 .. Len(call.metrics) + 1
  BY <1>0, CallIs DEF AfterAdd, PoolInv
<1>4. EvalType' /\ OncePlaced'
  BY <1>0, <1>1, <1>3 DEF PoolInv, EvalType, OncePlaced
<1>5. SentOnly' /\ Awaited'
  BY <1>0, <1>1, <1>2, <1>3 DEF SentOnly, PoolInv, Awaited
<1>6. Collected' /\ Troubled'
  BY <1>0, <1>1 DEF PoolInv, Collected, Troubled
<1> QED BY <1>2, <1>4, <1>5, <1>6 DEF PoolInv

\* The first of the tasks a metric waits for has its value.
LEMMA JoinGetKeepsPool ==
    ASSUME PoolInv, JoinGet
    PROVE  PoolInv'
PROOF
<1>1. CASE Raise
  BY <1>1, RaiseKeepsPool
<1>2. SUFFICES ASSUME ~ Raise PROVE PoolInv'
  BY <1>1
<1>3. /\ pc \in AfterAdd /\ metric \in Numbers /\ waiting[metric] # <<>>
  BY CallIs DEF JoinGet, Joining, AfterAdd, PoolInv, EvalType
<1>4. PICK r \in settled : r.task = Head(waiting[metric]) /\ r.how # "error"
  BY <1>2 DEF JoinGet, Outcome
<1>5. /\ UNCHANGED <<call, files, pc, file, metric, values, joined, inqueue, running, results, settled, errors>>
      /\ waiting' = [waiting EXCEPT ![metric] = Tail(waiting[metric])]
  BY <1>2 DEF JoinGet, loopVars, poolVars, faults
<1>6. /\ Numbers' = Numbers /\ Tasks' = Tasks /\ Outcomes' = Outcomes
  BY <1>5, Fixed
<1>7. waiting \in [Numbers -> Seq(Tasks)] /\ waiting[metric] \in Seq(Tasks)
  BY <1>3 DEF PoolInv, EvalType
<1>8. /\ Head(waiting[metric]) \in Tasks /\ Tail(waiting[metric]) \in Seq(Tasks)
      /\ Head(waiting[metric]) = waiting[metric][1]
      /\ \A n \in DOMAIN waiting[metric] : n # 1 => n - 1 \in DOMAIN Tail(waiting[metric]) /\ Tail(waiting[metric])[n - 1] = waiting[metric][n]
  BY <1>3, <1>7, TailIs
<1>9. r = [task |-> waiting[metric][1], how |-> "value"]
  BY <1>4, <1>8 DEF PoolInv, EvalType, Outcomes
<1>10. /\ waiting' \in [Numbers -> Seq(Tasks)] /\ waiting'[metric] = Tail(waiting[metric])
       /\ \A i \in Numbers : i # metric => waiting'[i] = waiting[i]
  BY <1>3, <1>5, <1>7, <1>8
<1>11. EvalType' /\ OncePlaced'
  BY <1>5, <1>6, <1>10 DEF PoolInv, EvalType, OncePlaced
<1>12. Awaited'
  <2> SUFFICES ASSUME NEW t \in Tasks, Sent(t)
               PROVE  (\E n \in DOMAIN waiting'[t.metric] : waiting'[t.metric][n] = t) \/ [task |-> t, how |-> "value"] \in settled
    BY <1>5, <1>6, SentSame DEF Awaited
  <2>1. (\E n \in DOMAIN waiting[t.metric] : waiting[t.metric][n] = t) \/ [task |-> t, how |-> "value"] \in settled
    BY DEF PoolInv, Awaited
  <2>2. t.metric \in Numbers
    BY DEF Tasks
  <2>3. ASSUME NEW n \in DOMAIN waiting[metric], waiting[metric][n] = t
        PROVE  (\E m \in DOMAIN waiting'[metric] : waiting'[metric][m] = t) \/ [task |-> t, how |-> "value"] \in settled
    BY <1>4, <1>8, <1>9, <1>10, <2>3
  <2> QED BY <1>10, <2>1, <2>2, <2>3
<1>13. SentOnly' /\ Collected' /\ Troubled'
  BY <1>5, <1>6, SentSame DEF PoolInv, SentOnly, Collected, Troubled
<1> QED BY <1>11, <1>12, <1>13 DEF PoolInv

LEMMA MainKeepsPoolInv ==
    ASSUME PoolInv, Main
    PROVE  PoolInv'
PROOF
<1> DEFINE L == Len(call.metrics)
<1>0. /\ EvalType /\ Numbers = 1 .. L /\ L \in Nat /\ metric \in 1 .. L + 1 /\ joined \subseteq Numbers
  BY CallIs DEF PoolInv, EvalType
<1>1. CASE AddFile
  BY <1>1, AddKeepsPool
<1>2. CASE EndOfFiles
  BY <1>2, EndKeepsPool
<1>3. CASE JoinGet
  BY <1>3, JoinGetKeepsPool
<1>4. CASE JoinClose
  BY <1>0, <1>4, MainKeepsPool DEF JoinClose, Joining, AfterAdd, loopVars, metricVars, outVars, faults
<1>5. CASE JoinPool
  <2>1. metric \in Numbers
    BY <1>0, <1>5 DEF JoinPool, Joining
  <2> QED BY <1>0, <1>5, <2>1, MainKeepsPool DEF JoinPool, Joining, AfterAdd, loopVars, metricVars, outVars, faults
<1>6. ASSUME NEW k, NEW at \in {"csv_enh", "csv_noisy"}, Flatten(k, at) PROVE PoolInv'
  <2>1. metric \in 1 .. L /\ metric' = metric + 1
    BY <1>0, <1>6 DEF Flatten, InTurn
  <2>2. metric' \in 1 .. L + 1
    BY <1>0, <2>1
  <2> QED BY <1>0, <1>6, <2>2, MainKeepsPool DEF Flatten, AfterAdd, metricVars, poolVars, faults
<1>7. ASSUME NEW k, NEW at \in {"csv_enh", "csv_noisy"}, WriteCsv(k, at) PROVE PoolInv'
  <2>1. CASE Raise
    BY <2>1, RaiseKeepsPool
  <2>2. CASE ~ Raise
    <3>1. 1 \in 1 .. L + 1
      BY <1>0
    <3> QED BY <1>0, <1>7, <2>2, <3>1, MainKeepsPool DEF WriteCsv, AfterTable, AfterAdd, metricVars, poolVars, faults
  <2> QED BY <2>1, <2>2
<1>8. CASE Mean
  <2>1. metric \in 1 .. L /\ metric' = metric + 1
    BY <1>0, <1>8 DEF Mean, InTurn
  <2>2. metric' \in 1 .. L + 1
    BY <1>0, <2>1
  <2> QED BY <1>0, <1>8, <2>2, MainKeepsPool DEF Mean, AfterAdd, metricVars, poolVars, faults
<1>9. CASE Return
  BY <1>0, <1>9, MainKeepsPool DEF Return, AfterAdd, metricVars, outVars, faults
<1>10. CASE RefuseLists \/ AssertLength
  BY <1>10, RaiseKeepsPool DEF RefuseLists, AssertLength
<1> QED BY <1>1, <1>2, <1>3, <1>4, <1>5, <1>6, <1>7, <1>8, <1>9, <1>10 DEF Main

LEMMA InitPool ==
    ASSUME Init
    PROVE  PoolInv
PROOF
<1>1. /\ call \in Calls /\ files \in TestSets /\ \A i \in Numbers : call.metrics[i] \in MetricNames(call.loop)
      /\ pc = "add" /\ file = 1 /\ metric = 1 /\ inqueue = <<>> /\ running = {} /\ results = <<>> /\ settled = {} /\ errors = 0
      /\ values = [i \in Numbers |-> [k \in Kinds |-> <<>>]] /\ waiting = [i \in Numbers |-> <<>>] /\ joined = {}
  BY DEF Init, NewMetrics, Numbers
<1>2. /\ call.metrics \in Seq(STRING) \ {<<>>} /\ files \in Seq([base : STRING, clean : Nat, enh : Nat, noisy : Nat, finite : BOOLEAN])
  BY <1>1, CallsAssumption
<1>3. 1 \in Numbers /\ 1 \in 1 .. Len(call.metrics) + 1 /\ 1 \in 1 .. Len(files) + 1
  BY <1>2 DEF Numbers
<1>4. values \in [Numbers -> [Kinds -> Seq(DOMAIN files)]] /\ waiting \in [Numbers -> Seq(Tasks)]
  BY <1>1
<1>5. EvalType
  BY <1>1, <1>3, <1>4 DEF EvalType
<1>6. OncePlaced /\ SentOnly /\ Troubled
  BY <1>1 DEF OncePlaced, SentOnly, Troubled
<1>7. Collected
  BY <1>1 DEF Collected
<1>8. Awaited
  <2>1. ASSUME NEW t \in Tasks PROVE ~ SentBefore(t, 1, 1)
    <3>1. /\ Numbers = 1 .. Len(call.metrics) /\ Len(call.metrics) \in Nat
          /\ DOMAIN files = 1 .. Len(files) /\ Len(files) \in Nat
      BY <1>5, CallIs
    <3>2. t.metric \in 1 .. Len(call.metrics) /\ t.file \in 1 .. Len(files)
      BY <3>1 DEF Tasks
    <3> QED BY <3>1, <3>2 DEF SentBefore
  <2> QED BY <1>1, <2>1 DEF Awaited, Sent, AfterAdd
<1> QED BY <1>5, <1>6, <1>7, <1>8 DEF PoolInv

-----------------------------------------------------------------------------
(* What a metric that joined has collected. *)

LEMMA LeastOf ==
    ASSUME NEW T, T \subseteq Nat, T # {}
    PROVE  \E x \in T : \A y \in T : x <= y
PROOF
<1>1. PICK x \in T : \A y \in T : <<y, x>> \notin OpToRel(<, Nat)
  BY NatLessThanWellFounded, WFMin, ZenonT(60)
<1>2. \A y \in T : ~(y < x)
  BY <1>1 DEF OpToRel
<1> QED BY <1>2

LEMMA GreatestOf ==
    ASSUME NEW n \in Nat, NEW T, T \subseteq 1 .. n, T # {}
    PROVE  \E x \in T : \A y \in T : y <= x
PROOF
<1> DEFINE U == {n - x : x \in T}
<1>1. U \subseteq Nat /\ U # {}
  <2>1. \A x \in T : n - x \in Nat
    OBVIOUS
  <2>2. PICK x \in T : TRUE
    OBVIOUS
  <2> QED BY <2>1, <2>2
<1>2. PICK u \in U : \A y \in U : u <= y
  BY <1>1, LeastOf
<1>3. PICK x \in T : u = n - x
  BY <1>2
<1>4. \A y \in T : n - x <= n - y
  BY <1>2, <1>3
<1> QED BY <1>4

\* A sequence that has every number to n once has length n.
LEMMA OnceEach ==
    ASSUME NEW n \in Nat, NEW s \in Seq(1 .. n), \A a, b \in DOMAIN s : s[a] = s[b] => a = b,
           \A f \in 1 .. n : \E a \in DOMAIN s : s[a] = f
    PROVE  Len(s) = n /\ {s[a] : a \in DOMAIN s} = 1 .. n
PROOF
<1>1. Len(s) \in Nat /\ DOMAIN s = 1 .. Len(s) /\ s \in [1 .. Len(s) -> 1 .. n]
  OBVIOUS
<1>2. s \in Bijection(1 .. Len(s), 1 .. n)
  <2>1. s \in Injection(1 .. Len(s), 1 .. n)
    BY <1>1 DEF Injection, IsInjective
  <2>2. s \in Surjection(1 .. Len(s), 1 .. n)
    BY <1>1 DEF Surjection
  <2> QED BY <2>1, <2>2 DEF Bijection
<1>3. /\ IsFiniteSet(1 .. Len(s)) /\ Cardinality(1 .. Len(s)) = Len(s)
      /\ IsFiniteSet(1 .. n) /\ Cardinality(1 .. n) = n
  <2>1. ASSUME NEW m \in Nat PROVE IsFiniteSet(1 .. m) /\ Cardinality(1 .. m) = m
    <3>1. IsFiniteSet(1 .. m) /\ Cardinality(1 .. m) = IF 1 > m THEN 0 ELSE m - 1 + 1
      BY FS_Interval
    <3> QED BY <3>1
  <2> QED BY <1>1, <2>1
<1>4. Cardinality(1 .. n) = Cardinality(1 .. Len(s))
  BY <1>2, <1>3, FS_Bijection DEF ExistsBijection
<1>5. Len(s) = n
  BY <1>3, <1>4
<1>6. \A a \in DOMAIN s : s[a] \in 1 .. n
  BY <1>1
<1>7. {s[a] : a \in DOMAIN s} = 1 .. n
  BY <1>6
<1> QED BY <1>5, <1>7

\* A metric that joined has the value of every file once, for what was asked.
LEMMA JoinedHasAll ==
    ASSUME PoolInv, InOrder, pc \in AfterAdd, NEW i \in joined, NEW k \in Asked
    PROVE  EachOnce(values[i][k]) /\ values[i][k] \in Seq(DOMAIN files)
PROOF
<1>1. i \in Numbers /\ k \in Kinds /\ waiting[i] = <<>>
  BY DEF PoolInv, EvalType, InOrder, Asked
<1>2. values[i][k] \in Seq(DOMAIN files) /\ DOMAIN files = 1 .. Len(files) /\ Len(files) \in Nat
  BY <1>1, CallIs DEF PoolInv, EvalType
<1>3. ASSUME NEW f \in DOMAIN files PROVE \E n \in DOMAIN values[i][k] : values[i][k][n] = f
  <2>1. Task(i, k, f) \in Tasks /\ Task(i, k, f).metric = i
    BY <1>1 DEF Tasks, Task
  <2>2. [task |-> Task(i, k, f), how |-> "value"] \in settled
    BY <1>1, <2>1 DEF PoolInv, Awaited, Sent
  <2> QED BY <1>1, <2>2 DEF PoolInv, Collected, Value
<1>4. \A a, b \in DOMAIN values[i][k] : values[i][k][a] = values[i][k][b] => a = b
  BY <1>1 DEF PoolInv, Collected
<1> DEFINE s == values[i][k]
<1>5. s \in Seq(1 .. Len(files)) /\ \A f \in 1 .. Len(files) : \E n \in DOMAIN s : s[n] = f
  BY <1>2, <1>3
<1>6. \A a, b \in DOMAIN s : s[a] = s[b] => a = b
  BY <1>4
<1> HIDE DEF s
<1>7. Len(s) = Len(files) /\ {s[a] : a \in DOMAIN s} = 1 .. Len(files)
  BY <1>2, <1>5, <1>6, OnceEach
<1> QED BY <1>2, <1>7 DEF s, EachOnce

\* Nothing is collected for what was not asked.
LEMMA NotAskedIsEmpty ==
    ASSUME PoolInv, NEW i \in Numbers, ~ call.noisy
    PROVE  values[i]["noisy"] = <<>>
PROOF
<1>1. values[i]["noisy"] \in Seq(DOMAIN files) /\ "noisy" \in Kinds
  BY DEF PoolInv, EvalType, Kinds
<1>2. \A f \in DOMAIN files : Value(i, "noisy", f) \notin settled
  BY DEF PoolInv, EvalType, Outcomes, Tasks, Asked, Value, Task
<1>3. \A n \in DOMAIN values[i]["noisy"] : FALSE
  BY <1>1, <1>2 DEF PoolInv, Collected
<1>4. DOMAIN values[i]["noisy"] = 1 .. Len(values[i]["noisy"]) /\ Len(values[i]["noisy"]) \in Nat
  BY <1>1
<1>5. Len(values[i]["noisy"]) = 0
  BY <1>3, <1>4
<1> QED BY <1>1, <1>5

-----------------------------------------------------------------------------
(* Tables and means. *)

\* Of the files of one base name the last value stays in the table.
LEMMA CellOf ==
    ASSUME PoolInv, NEW i \in Numbers, NEW k \in Kinds, EachOnce(values[i][k]), NEW f \in DOMAIN files, NEW col \in Columns(call.metrics[i])
    PROVE  \E c \in Flattened(i, k) : /\ c.row = files[f].base /\ c.col = col /\ c.metric = i
                                      /\ c.file \in DOMAIN files /\ files[c.file].base = files[f].base
PROOF
<1> DEFINE s == values[i][k]
           T == {n \in DOMAIN s : files[s[n]].base = files[f].base}
<1>1. s \in Seq(DOMAIN files) /\ Len(s) \in Nat /\ DOMAIN s = 1 .. Len(s)
  BY DEF PoolInv, EvalType
<1>2. PICK p \in DOMAIN s : s[p] = f
  BY <1>1 DEF EachOnce
<1>3. T \subseteq 1 .. Len(s) /\ T # {}
  BY <1>1, <1>2
<1>4. PICK n \in T : \A m \in T : m <= n
  BY <1>1, <1>3, GreatestOf
<1>5. n \in 1 .. Len(s) /\ files[s[n]].base = files[f].base /\ s[n] \in DOMAIN files
  BY <1>1, <1>4
<1>6. \A m \in n + 1 .. Len(s) : files[s[m]].base # files[s[n]].base
  <2> SUFFICES ASSUME NEW m \in n + 1 .. Len(s), files[s[m]].base = files[s[n]].base PROVE FALSE
    OBVIOUS
  <2>1. m \in 1 .. Len(s) /\ ~ (m <= n)
    BY <1>1, <1>5
  <2> QED BY <1>1, <1>4, <1>5, <2>1
<1> DEFINE c == [row |-> files[s[n]].base, col |-> col, metric |-> i, file |-> s[n]]
<1>7. c \in Flattened(i, k)
  BY <1>1, <1>5, <1>6 DEF Flattened
<1> QED BY <1>5, <1>7

LEMMA FlattenedIs ==
    ASSUME PoolInv, NEW i \in Numbers, NEW k \in Kinds, NEW c \in Flattened(i, k)
    PROVE  c.col \in Columns(call.metrics[i]) /\ \E f \in DOMAIN files : c.row = files[f].base
PROOF
<1>1. values[i][k] \in Seq(DOMAIN files)
  BY DEF PoolInv, EvalType
<1>2. PICK n \in DOMAIN values[i][k], col \in Columns(call.metrics[i]) :
          c = [row |-> files[values[i][k][n]].base, col |-> col, metric |-> i, file |-> values[i][k][n]]
  BY DEF Flattened
<1>3. values[i][k][n] \in DOMAIN files
  BY <1>1
<1> QED BY <1>2, <1>3

\* The columns of the n-th metric replace those of the same name, and keep the others.
LEMMA LastGrows ==
    ASSUME NEW n \in Nat, NEW i \in Nat, NEW col
    PROVE  /\ n > 0 /\ col \in Columns(call.metrics[n]) => LastWith(col, n, n)
           /\ n > 0 /\ col \notin Columns(call.metrics[n]) /\ LastWith(col, i, n - 1) => LastWith(col, i, n)
PROOF
<1>1. ASSUME n > 0, col \in Columns(call.metrics[n]) PROVE LastWith(col, n, n)
  BY <1>1 DEF LastWith
<1>2. ASSUME n > 0, col \notin Columns(call.metrics[n]), LastWith(col, i, n - 1) PROVE LastWith(col, i, n)
  <2>1. i \in 1 .. n
    BY <1>2 DEF LastWith
  <2>2. ASSUME NEW j \in 1 .. n, col \in Columns(call.metrics[j]) PROVE j <= i
    <3>1. j # n
      BY <1>2, <2>2
    <3>2. j \in 1 .. n - 1
      BY <3>1
    <3> QED BY <1>2, <2>2, <3>2 DEF LastWith
  <2> QED BY <1>2, <2>1, <2>2 DEF LastWith
<1> QED BY <1>1, <1>2

LEMMA TableGrows ==
    ASSUME PoolInv, NEW n \in Numbers, NEW k \in Kinds, EachOnce(values[n][k]), NEW cells, TableOf(cells, n - 1)
    PROVE  TableOf(Merged(cells, Flattened(n, k)), n)
PROOF
<1>0. n \in Nat /\ n > 0 /\ Numbers = 1 .. Len(call.metrics) /\ Len(call.metrics) \in Nat
  BY CallIs DEF PoolInv
<1> DEFINE new == Flattened(n, k)
           all == Merged(cells, new)
           Fits2(c, f, col) == /\ c.row = files[f].base /\ c.col = col /\ LastWith(col, c.metric, n)
                               /\ c.file \in DOMAIN files /\ files[c.file].base = files[f].base
<1>1. ASSUME NEW f \in DOMAIN files, NEW i \in 1 .. n, NEW col \in Columns(call.metrics[i])
      PROVE  \E c \in all : Fits2(c, f, col)
  <2>1. CASE col \in Columns(call.metrics[n])
    <3>1. PICK c \in new : /\ c.row = files[f].base /\ c.col = col /\ c.metric = n
                           /\ c.file \in DOMAIN files /\ files[c.file].base = files[f].base
      BY <2>1, CellOf
    <3>2. LastWith(col, n, n)
      BY <1>0, <2>1, LastGrows
    <3>3. c \in all
      BY DEF Merged
    <3> QED BY <3>1, <3>2, <3>3
  <2>2. CASE col \notin Columns(call.metrics[n])
    <3>1. i \in 1 .. n - 1
      <4>1. i # n
        BY <2>2
      <4> QED BY <1>0, <4>1
    <3>2. PICK c \in cells : /\ c.row = files[f].base /\ c.col = col /\ LastWith(col, c.metric, n - 1)
                             /\ c.file \in DOMAIN files /\ files[c.file].base = files[f].base
      BY <3>1 DEF TableOf
    <3>3. \A d \in new : d.col # c.col
      BY <2>2, <3>2, FlattenedIs
    <3>4. c \in all
      BY <3>3 DEF Merged
    <3>5. c.metric \in Nat
      BY <1>0, <3>2 DEF LastWith
    <3>6. LastWith(col, c.metric, n)
      BY <1>0, <2>2, <3>2, <3>5, LastGrows
    <3> QED BY <3>2, <3>4, <3>6
  <2> QED BY <2>1, <2>2
<1> HIDE DEF all
<1>2. TableOf(all, n)
  BY <1>1 DEF TableOf
<1> QED BY <1>2 DEF all

LEMMA CellsGrow ==
    ASSUME PoolInv, NEW n \in Numbers, NEW k \in Kinds, NEW cells, CellsOnly(cells)
    PROVE  CellsOnly(Merged(cells, Flattened(n, k)))
PROOF
<1>1. \A c \in Flattened(n, k) : c.col \in AllColumns /\ \E f \in DOMAIN files : c.row = files[f].base
  BY FlattenedIs DEF AllColumns
<1> QED BY <1>1 DEF CellsOnly, Merged

\* A table of all metrics has all its cells, unless there are no files.
LEMMA NoneMissing ==
    ASSUME PoolInv, NEW cells, TableOf(cells, Len(call.metrics)), CellsOnly(cells)
    PROVE  /\ cells = {} => files = <<>>
           /\ \A c, d \in cells : \E e \in cells : e.row = c.row /\ e.col = d.col
PROOF
<1>0. /\ Numbers = 1 .. Len(call.metrics) /\ Len(call.metrics) \in Nat /\ Len(call.metrics) > 0
      /\ DOMAIN files = 1 .. Len(files) /\ Len(files) \in Nat /\ files \in Seq([base : STRING, clean : Nat, enh : Nat, noisy : Nat, finite : BOOLEAN])
  BY CallIs DEF PoolInv
<1>1. ASSUME cells = {}, files # <<>> PROVE FALSE
  <2>1. 1 \in DOMAIN files /\ 1 \in 1 .. Len(call.metrics) /\ 1 \in Numbers
    BY <1>0, <1>1
  <2>2. call.metrics[1] \in MetricNames(call.loop)
    BY <2>1 DEF PoolInv, EvalType
  <2>3. call.metrics[1] \in {"stoi", "sisdr", "composite", "composite-octave", "pesq", "pesq-nb", "dnsmos5", "v5", "v1"}
    BY <2>2 DEF MetricNames
  <2>4. \E col : col \in Columns(call.metrics[1])
    BY <2>3 DEF Columns, Composite
  <2> QED BY <1>1, <2>1, <2>4 DEF TableOf
<1>2. ASSUME NEW c \in cells, NEW d \in cells PROVE \E e \in cells : e.row = c.row /\ e.col = d.col
  <2>1. PICK f \in DOMAIN files : c.row = files[f].base
    BY DEF CellsOnly
  <2>2. PICK i \in Numbers : d.col \in Columns(call.metrics[i])
    BY DEF CellsOnly, AllColumns
  <2>3. i \in 1 .. Len(call.metrics)
    BY <1>0
  <2>4. \E e \in cells : e.row = files[f].base /\ e.col = d.col
    BY <2>2, <2>3 DEF TableOf
  <2> QED BY <2>1, <2>4
<1> QED BY <1>1, <1>2

\* The means of one more metric.
LEMMA MeansGrow ==
    ASSUME PoolInv, NEW n \in Numbers, \A k \in Asked : EachOnce(values[n][k]), NEW ms, MeansAre(ms, n - 1)
    PROVE  MeansAre({m \in ms : \A d \in MeansOf(n) : <<m.kind, m.col>> # <<d.kind, d.col>>} \cup MeansOf(n), n)
PROOF
<1>0. n \in Nat /\ n > 0 /\ Len(files) \in Nat /\ (files # <<>> => Len(files) > 0)
  <2>1. n \in 1 .. Len(call.metrics) /\ Len(call.metrics) \in Nat /\ files \in Seq([base : STRING, clean : Nat, enh : Nat, noisy : Nat, finite : BOOLEAN])
    BY CallIs DEF PoolInv
  <2> QED BY <2>1
<1> DEFINE new == MeansOf(n)
           all == {m \in ms : \A d \in new : <<m.kind, m.col>> # <<d.kind, d.col>>} \cup new
<1>1. ASSUME NEW k \in Averages, NEW i \in 1 .. n, NEW col \in Columns(call.metrics[i])
      PROVE  \E m \in all : m.kind = k /\ m.col = col /\ LastWith(col, m.metric, n) /\ EachOnce(m.files)
  <2>1. CASE col \in Columns(call.metrics[n])
    <3>1. EachOnce(values[n][k]) /\ k \in Kinds
      BY DEF Averages, Asked
    <3>2. k = "enh" \/ values[n][k] # <<>>
      BY <1>0, <3>1 DEF Averages, EachOnce
    <3> DEFINE m == [kind |-> k, col |-> col, metric |-> n, files |-> values[n][k]]
    <3>3. m \in all
      BY <2>1, <3>1, <3>2 DEF MeansOf
    <3>4. LastWith(col, n, n)
      BY <1>0, <2>1, LastGrows
    <3> QED BY <3>1, <3>3, <3>4
  <2>2. CASE col \notin Columns(call.metrics[n])
    <3>1. i \in 1 .. n - 1
      <4>1. i # n
        BY <2>2
      <4> QED BY <1>0, <4>1
    <3>2. PICK m \in ms : m.kind = k /\ m.col = col /\ LastWith(col, m.metric, n - 1) /\ EachOnce(m.files)
      BY <3>1 DEF MeansAre
    <3>3. \A d \in new : d.col # m.col
      BY <2>2, <3>2 DEF MeansOf
    <3>4. m \in all
      BY <3>3
    <3>5. m.metric \in Nat
      BY <1>0, <3>2 DEF LastWith
    <3>6. LastWith(col, m.metric, n)
      BY <1>0, <2>2, <3>2, <3>5, LastGrows
    <3> QED BY <3>2, <3>4, <3>6
  <2> QED BY <2>1, <2>2
<1> HIDE DEF all
<1>2. MeansAre(all, n)
  BY <1>1 DEF MeansAre
<1> QED BY <1>2 DEF all

-----------------------------------------------------------------------------
(* The rest of the invariant. *)

\* Over the same call and files it is the same to speak of a table now or then.
LEMMA ReportSame ==
    ASSUME UNCHANGED <<call, files>>
    PROVE  /\ \A n : metric' - 1 = n /\ TableOf(table', n) => TableOf(table, metric - 1)'
           /\ \A n : metric' - 1 = n /\ MeansAre(means', n) => MeansAre(means, metric - 1)'
           /\ CellsOnly(table') => CellsOnly(table)'
           /\ MeansAre(means', Len(call.metrics)) => MeansAre(means, Len(call.metrics))'
           /\ \A k : TableOf(csv'[k], Len(call.metrics)) => TableOf(csv[k], Len(call.metrics))'
           /\ WritesNoisy' = WritesNoisy
PROOF
<1>1. \A n : metric' - 1 = n /\ TableOf(table', n) => TableOf(table, metric - 1)'
  BY DEF TableOf, LastWith
<1>2. \A seq : EachOnce(seq)' <=> EachOnce(seq)
  BY DEF EachOnce
<1>3. \A col, i, n : LastWith(col, i, n)' <=> LastWith(col, i, n)
  BY DEF LastWith
<1>4. Averages' = Averages
  BY Fixed DEF Averages
<1>5. \A n : metric' - 1 = n /\ MeansAre(means', n) => MeansAre(means, metric - 1)'
  BY <1>2, <1>3, <1>4 DEF MeansAre
<1>6. MeansAre(means', Len(call.metrics)) => MeansAre(means, Len(call.metrics))'
  BY <1>2, <1>3, <1>4 DEF MeansAre
<1>7. CellsOnly(table') => CellsOnly(table)'
  BY Fixed DEF CellsOnly
<1>8. \A k : TableOf(csv'[k], Len(call.metrics)) => TableOf(csv[k], Len(call.metrics))'
  BY DEF TableOf, LastWith
<1> QED BY <1>1, <1>5, <1>6, <1>7, <1>8 DEF WritesNoisy

\* Once an evaluation may be given up, it may be given up.
Cause ==
    \/ errors > 0
    \/ UnevenLists
    \/ call.loop # "dns" /\ \E f \in DOMAIN files : ~ (Fits(files[f]) /\ files[f].finite)
    \/ call.loop # "dns" /\ \E i \in Numbers : ~ TakesClean(call.metrics[i])
    \/ call.loop # "dns" /\ call.csvNoisy /\ ~ call.noisy
    \/ files = <<>> /\ (call.csvEnh \/ call.csvNoisy)
    \/ \E i \in Numbers : ~ LengthOk(call.metrics[i])

LEMMA CauseSame ==
    ASSUME UNCHANGED <<call, files>>, errors > 0 => errors' > 0, Cause
    PROVE  Cause'
PROOF
<1>1. \A f : Fits(f)' <=> Fits(f)
  BY DEF Fits, WholeHops
<1>2. Numbers' = Numbers /\ UnevenLists' = UnevenLists
  BY DEF Numbers, UnevenLists
<1>3. \A m : LengthOk(m)' <=> LengthOk(m)
  BY DEF LengthOk
<1> QED BY <1>1, <1>2, <1>3 DEF Cause

LEMMA CauseIs == RaisesForCause <=> (pc = "raised" => Cause)
PROOF BY DEF RaisesForCause, Cause

LEMMA RaiseKeepsReport ==
    ASSUME EvalInv, Raise, Cause
    PROVE  ReportInv'
PROOF
<1>0. /\ UNCHANGED <<call, files, metric, waiting, joined, table, csv, means, errors>> /\ pc' = "raised"
  BY DEF Raise, metricVars, outVars, faults
<1>1. InOrder'
  BY <1>0 DEF EvalInv, ReportInv, InOrder, AfterAdd
<1>2. Filled'
  BY <1>0, ReportSame DEF EvalInv, ReportInv, Filled
<1>3. Averaged'
  BY <1>0 DEF Averaged
<1>4. RaisesForCause'
  <2>1. Cause'
    BY <1>0, CauseSame
  <2> QED BY <2>1 DEF RaisesForCause, Cause
<1> QED BY <1>1, <1>2, <1>3, <1>4 DEF ReportInv

\* The pool disturbs none of it.
LEMMA PoolKeepsReport ==
    ASSUME EvalInv, PoolNext
    PROVE  ReportInv'
PROOF
<1>0. UNCHANGED <<call, files, pc, file, metric, waiting, joined, table, csv, means>>
  BY PoolFrame
<1>1. errors > 0 => errors' > 0
  <2>1. errors \in Nat /\ errors' \in {errors, errors + 1}
    BY DEF EvalInv, PoolInv, EvalType, PoolNext, WorkerTakes, WorkerComputes, WorkerRaises, WorkerDies, HandleResult, faults
  <2> QED BY <2>1
<1>2. InOrder'
  BY <1>0 DEF EvalInv, ReportInv, InOrder
<1>3. Filled' /\ Averaged'
  BY <1>0, ReportSame DEF EvalInv, ReportInv, Filled, Averaged
<1>4. RaisesForCause'
  <2>1. pc = "raised" => Cause
    BY CauseIs DEF EvalInv, ReportInv
  <2>2. pc' = "raised" => Cause'
    BY <1>0, <1>1, <2>1, CauseSame
  <2> QED BY <2>2 DEF RaisesForCause, Cause
<1> QED BY <1>2, <1>3, <1>4 DEF ReportInv

\* The steps that change none of the tables and means.
LEMMA QuietKeepsReport ==
    ASSUME EvalInv, UNCHANGED <<call, files, pc, table, csv, means, errors>>, pc # "raised", InOrder',
           pc # "add" => metric' = metric
    PROVE  ReportInv'
PROOF
<1>1. Filled' /\ Averaged'
  BY ReportSame DEF EvalInv, ReportInv, Filled, Averaged
<1> QED BY <1>1 DEF ReportInv, RaisesForCause

\* The assertions before the files and before a mean.
LEMMA AssertsKeepReport ==
    ASSUME EvalInv, RefuseLists \/ AssertLength
    PROVE  ReportInv'
PROOF
<1>1. CASE RefuseLists
  BY <1>1, RaiseKeepsReport DEF RefuseLists, Cause
<1>2. CASE AssertLength
  <2>1. metric \in Numbers /\ Raise /\ ~ LengthOk(call.metrics[metric])
    BY <1>2, CallIs DEF AssertLength, Metric, EvalInv, PoolInv, EvalType
  <2> QED BY <2>1, RaiseKeepsReport DEF Cause
<1> QED BY <1>1, <1>2

LEMMA AddKeepsReport ==
    ASSUME EvalInv, AddFile
    PROVE  ReportInv'
PROOF
<1>1. CASE ~ Accepts(Metric, files[file])
  <2>1. pc = "add" /\ Raise /\ metric \in Numbers /\ file \in DOMAIN files
    BY <1>1, CallIs DEF AddFile, EvalInv, PoolInv, EvalType
  <2>2. call.loop # "dns" /\ ~ (TakesClean(call.metrics[metric]) /\ Fits(files[file]) /\ files[file].finite)
    BY <1>1 DEF Accepts, Metric
  <2>3. Cause
    BY <2>1, <2>2 DEF Cause
  <2> QED BY <2>1, <2>3, RaiseKeepsReport
<1>2. CASE Accepts(Metric, files[file])
  <2>1. /\ pc = "add" /\ UNCHANGED <<call, files, pc, joined, table, csv, means, errors>>
    BY <1>2 DEF AddFile, outVars, faults
  <2>2. joined = {}
    BY <2>1 DEF EvalInv, ReportInv, InOrder
  <2>3. InOrder'
    BY <2>1, <2>2 DEF InOrder, AfterAdd
  <2> QED BY <2>1, <2>3, QuietKeepsReport
<1> QED BY <1>1, <1>2

LEMMA EndKeepsReport ==
    ASSUME EvalInv, EndOfFiles
    PROVE  ReportInv'
PROOF
<1>0. /\ UNCHANGED <<call, files, waiting, joined, table, csv, means, errors>>
      /\ pc = "add" /\ pc' = AfterFiles /\ metric' = 1
  BY DEF EndOfFiles, metricVars, outVars, faults
<1>1. /\ pc' \in {"csv_enh", "csv_noisy", "means"} /\ (pc' = "csv_noisy" => WritesNoisy)
      /\ pc' = "csv_enh" => call.csvEnh
  BY <1>0 DEF AfterFiles
<1>2. joined = {} /\ table = {}
  BY <1>0 DEF EvalInv, ReportInv, InOrder, Filled
<1>3. metric' - 1 = 0 /\ 1 .. 0 = {}
  BY <1>0
<1>4. InOrder'
  BY <1>0, <1>2, <1>3 DEF InOrder
<1>5. TableOf(table', 0) /\ MeansAre(means', 0) /\ CellsOnly(table')
  BY <1>0, <1>2, <1>3 DEF TableOf, MeansAre, CellsOnly
<1>6. Filled'
  <2>1. TableOf(table, metric - 1)' /\ CellsOnly(table)' /\ (pc' = "csv_noisy" => WritesNoisy')
    BY <1>0, <1>1, <1>3, <1>5, ReportSame
  <2>2. /\ DOMAIN csv' = Kinds
        /\ \A k \in Kinds : csv'[k] # {} => TableOf(csv[k], Len(call.metrics))'
    BY <1>0, ReportSame DEF EvalInv, ReportInv, Filled
  <2>3. table' = {} /\ pc' # "add" /\ (pc' = "csv_enh" => call'.csvEnh)
    BY <1>0, <1>1, <1>2
  <2> QED BY <2>1, <2>2, <2>3 DEF Filled
<1>7. MeansAre(means, metric - 1)'
  BY <1>0, <1>3, <1>5, ReportSame
<1>8. Averaged' /\ RaisesForCause'
  BY <1>1, <1>7 DEF Averaged, RaisesForCause
<1> QED BY <1>4, <1>6, <1>8 DEF ReportInv

LEMMA JoinKeepsReport ==
    ASSUME EvalInv, JoinGet \/ JoinClose \/ JoinPool
    PROVE  ReportInv'
PROOF
<1>0. /\ EvalType /\ pc \in {"csv_enh", "csv_noisy", "means"} /\ metric \in Numbers /\ metric \notin joined
  <2>1. EvalType
    BY DEF EvalInv, PoolInv
  <2>2. Joining
    BY DEF JoinGet, JoinClose, JoinPool
  <2>3. metric \in 1 .. Len(call.metrics) + 1 /\ Numbers = 1 .. Len(call.metrics) /\ Len(call.metrics) \in Nat
    BY <2>1, CallIs DEF EvalType
  <2> QED BY <2>1, <2>2, <2>3 DEF Joining
<1>1. CASE JoinGet
  <2>1. PICK r \in settled : IF r.how = "error" THEN Raise
                             ELSE /\ waiting' = [waiting EXCEPT ![metric] = Tail(@)]
                                  /\ UNCHANGED <<loopVars, values, joined, poolVars, outVars, faults>>
    BY <1>1 DEF JoinGet, Outcome
  <2>2. CASE r.how = "error"
    <3>1. errors > 0
      BY <2>2 DEF EvalInv, PoolInv, Troubled
    <3> QED BY <2>1, <2>2, <3>1, RaiseKeepsReport DEF Cause
  <2>3. CASE r.how # "error"
    <3>1. /\ UNCHANGED <<call, files, pc, metric, joined, table, csv, means, errors>>
          /\ \A i \in Numbers : i # metric => waiting'[i] = waiting[i]
      BY <1>0, <2>1, <2>3 DEF EvalType, loopVars, outVars, faults
    <3>2. \A i \in joined : i \in Numbers /\ i # metric
      BY <1>0 DEF EvalType
    <3>3. InOrder'
      BY <3>1, <3>2 DEF EvalInv, ReportInv, InOrder
    <3> QED BY <1>0, <3>1, <3>3, QuietKeepsReport
  <2> QED BY <2>2, <2>3
<1>2. CASE JoinClose
  <2>1. UNCHANGED <<call, files, pc, metric, waiting, joined, table, csv, means, errors>>
    BY <1>2 DEF JoinClose, loopVars, metricVars, outVars, faults
  <2>2. InOrder'
    BY <2>1 DEF EvalInv, ReportInv, InOrder
  <2> QED BY <1>0, <2>1, <2>2, QuietKeepsReport
<1>3. CASE JoinPool
  <2>1. /\ UNCHANGED <<call, files, pc, metric, waiting, table, csv, means, errors>>
        /\ joined' = joined \cup {metric} /\ waiting[metric] = <<>>
    BY <1>3 DEF JoinPool, loopVars, outVars, faults
  <2>2. InOrder'
    BY <1>0, <2>1 DEF EvalInv, ReportInv, InOrder
  <2> QED BY <1>0, <2>1, <2>2, QuietKeepsReport
<1> QED BY <1>1, <1>2, <1>3

\* After a table or the means have one more metric, the metric is behind.
LEMMA InTurnGoesOn ==
    ASSUME EvalInv, InTurn, UNCHANGED <<pc, waiting, joined>>, metric' = metric + 1, pc \in AfterAdd
    PROVE  /\ InOrder' /\ metric \in Numbers /\ metric \in Nat /\ metric' - 1 = metric
           /\ \A k \in Asked : EachOnce(values[metric][k])
PROOF
<1>1. metric \in Numbers /\ Numbers = 1 .. Len(call.metrics) /\ Len(call.metrics) \in Nat
  BY CallIs DEF InTurn, EvalInv, PoolInv, EvalType
<1>2. metric \in Nat /\ metric' - 1 = metric
  BY <1>1
<1>3. \A i \in 1 .. metric : i \in joined
  <2> SUFFICES ASSUME NEW i \in 1 .. metric PROVE i \in joined
    OBVIOUS
  <2>1. i = metric \/ i \in 1 .. metric - 1
    BY <1>2
  <2> QED BY <2>1 DEF EvalInv, ReportInv, InOrder, InTurn
<1>4. InOrder'
  BY <1>2, <1>3 DEF EvalInv, ReportInv, InOrder
<1>5. \A k \in Asked : EachOnce(values[metric][k])
  BY JoinedHasAll DEF EvalInv, ReportInv, InTurn
<1> QED BY <1>1, <1>2, <1>4, <1>5

LEMMA FlattenKeepsReport ==
    ASSUME EvalInv, NEW k \in Kinds, NEW at, Flatten(k, at),
           (k = "enh" /\ at = "csv_enh") \/ (k = "noisy" /\ at = "csv_noisy")
    PROVE  ReportInv'
PROOF
<1>0. /\ UNCHANGED <<call, files, pc, waiting, joined, csv, means, errors>>
      /\ pc = at /\ InTurn /\ metric' = metric + 1 /\ pc \in {"csv_enh", "csv_noisy"}
      /\ table' = Merged(table, Flattened(metric, k))
  BY DEF Flatten, metricVars, poolVars, faults
<1>1. /\ InOrder' /\ metric \in Numbers /\ metric \in Nat /\ metric' - 1 = metric
      /\ \A j \in Asked : EachOnce(values[metric][j])
  BY <1>0, InTurnGoesOn DEF AfterAdd
<1>2. CellsOnly(table')
  <2>1. CellsOnly(table)
    BY <1>0 DEF EvalInv, ReportInv, Filled
  <2> QED BY <1>0, <1>1, <2>1, CellsGrow DEF EvalInv
<1>3. k \in Asked => TableOf(table', metric)
  <2>1. SUFFICES ASSUME k \in Asked PROVE TableOf(table', metric)
    OBVIOUS
  <2>2. TableOf(table, metric - 1)
    BY <1>0, <2>1 DEF EvalInv, ReportInv, Filled, Asked
  <2> QED BY <1>0, <1>1, <2>1, <2>2, TableGrows DEF EvalInv
<1>4. k = "noisy" /\ ~ call.noisy => table' = {}
  <2>1. SUFFICES ASSUME k = "noisy", ~ call.noisy PROVE table' = {}
    OBVIOUS
  <2>2. table = {} /\ values[metric]["noisy"] = <<>>
    BY <1>0, <1>1, <2>1, NotAskedIsEmpty DEF EvalInv, ReportInv, Filled
  <2>3. Flattened(metric, "noisy") = {}
    BY <2>2 DEF Flattened
  <2> QED BY <1>0, <2>1, <2>2, <2>3 DEF Merged
<1>5. Filled'
  BY <1>0, <1>1, <1>2, <1>3, <1>4, ReportSame DEF EvalInv, ReportInv, Filled, Asked
<1>6. Averaged' /\ RaisesForCause'
  BY <1>0 DEF Averaged, RaisesForCause
<1> QED BY <1>1, <1>5, <1>6 DEF ReportInv

LEMMA WriteCsvKeepsReport ==
    ASSUME EvalInv, NEW k \in Kinds, NEW at, WriteCsv(k, at),
           (k = "enh" /\ at = "csv_enh") \/ (k = "noisy" /\ at = "csv_noisy")
    PROVE  ReportInv'
PROOF
<1> DEFINE L == Len(call.metrics)
<1>0. /\ pc = at /\ metric > L /\ EvalType /\ metric \in 1 .. L + 1 /\ L \in Nat
  BY CallIs DEF WriteCsv, EvalInv, PoolInv, EvalType
<1>1. metric - 1 = L
  BY <1>0
<1>2. k \in Asked => TableOf(table, L)
  BY <1>0, <1>1 DEF EvalInv, ReportInv, Filled, Asked
<1>3. k \notin Asked => table = {} /\ Cause
  BY <1>0 DEF EvalInv, ReportInv, Filled, Asked, WritesNoisy, Cause
<1>4. CellsOnly(table) /\ (call.csvEnh \/ call.csvNoisy)
  BY <1>0 DEF EvalInv, ReportInv, Filled, WritesNoisy
<1>5. CASE table = {} \/ \E c \in table, col \in Header(k) : ~ HasCell(c.row, col)
  <2>1. Raise
    BY <1>5 DEF WriteCsv
  <2>2. Cause
    <3>1. CASE k \in Asked
      <4>1. /\ table = {} => files = <<>>
            /\ \A c, d \in table : \E e \in table : e.row = c.row /\ e.col = d.col
        BY <1>2, <1>4, <3>1, NoneMissing DEF EvalInv
      <4>2. \A col \in Header(k) : \E d \in table : d.col = col
        BY DEF Header
      <4>3. ASSUME NEW c \in table, NEW col \in Header(k) PROVE HasCell(c.row, col)
        <5>1. PICK d \in table : d.col = col
          BY <4>2
        <5>2. PICK e \in table : e.row = c.row /\ e.col = d.col
          BY <4>1
        <5> QED BY <5>1, <5>2 DEF HasCell
      <4> QED BY <1>4, <1>5, <4>1, <4>3 DEF Cause
    <3> QED BY <1>3, <3>1
  <2> QED BY <2>1, <2>2, RaiseKeepsReport
<1>6. CASE ~ (table = {} \/ \E c \in table, col \in Header(k) : ~ HasCell(c.row, col))
  <2>1. /\ csv' = [csv EXCEPT ![k] = table] /\ table' = {} /\ pc' = AfterTable(k) /\ metric' = 1
        /\ UNCHANGED <<call, files, waiting, joined, means, errors>>
    BY <1>6 DEF WriteCsv, metricVars, faults
  <2>2. pc' \in {"csv_noisy", "means"} /\ (pc' = "csv_noisy" => WritesNoisy)
    BY <2>1 DEF AfterTable
  <2>3. metric' - 1 = 0 /\ 1 .. 0 = {}
    BY <2>1
  <2>4. pc # "add"
    BY <1>0
  <2>5. InOrder'
    BY <2>1, <2>2, <2>3, <2>4 DEF EvalInv, ReportInv, InOrder
  <2>6. TableOf(table', 0) /\ MeansAre(means', 0) /\ CellsOnly(table')
    BY <2>1, <2>3 DEF TableOf, MeansAre, CellsOnly
  <2>7. DOMAIN csv' = Kinds /\ csv'[k] = table /\ \A j \in Kinds : j # k => csv'[j] = csv[j]
    BY <2>1 DEF EvalInv, ReportInv, Filled
  <2>8. \A j \in Kinds : csv'[j] # {} => TableOf(csv'[j], L)
    BY <1>2, <1>3, <2>7 DEF EvalInv, ReportInv, Filled
  <2>9. Filled'
    BY <2>1, <2>2, <2>3, <2>6, <2>7, <2>8, ReportSame DEF Filled
  <2>10. Averaged' /\ RaisesForCause'
    BY <2>1, <2>2, <2>3, <2>6, ReportSame DEF Averaged, RaisesForCause
  <2> QED BY <2>5, <2>9, <2>10 DEF ReportInv
<1> QED BY <1>5, <1>6

LEMMA MeanKeepsReport ==
    ASSUME EvalInv, Mean
    PROVE  ReportInv'
PROOF
<1>0. /\ UNCHANGED <<call, files, pc, waiting, joined, table, csv, errors>>
      /\ pc = "means" /\ InTurn /\ metric' = metric + 1
      /\ means' = {m \in means : \A n \in MeansOf(metric) : <<m.kind, m.col>> # <<n.kind, n.col>>} \cup MeansOf(metric)
  BY DEF Mean, metricVars, poolVars, faults
<1>1. /\ InOrder' /\ metric \in Numbers /\ metric \in Nat /\ metric' - 1 = metric
      /\ \A j \in Asked : EachOnce(values[metric][j])
  BY <1>0, InTurnGoesOn DEF AfterAdd
<1>2. MeansAre(means', metric)
  <2>1. MeansAre(means, metric - 1)
    BY <1>0 DEF EvalInv, ReportInv, Averaged
  <2> QED BY <1>0, <1>1, <2>1, MeansGrow DEF EvalInv
<1>3. Filled'
  BY <1>0, ReportSame DEF EvalInv, ReportInv, Filled
<1>4. Averaged' /\ RaisesForCause'
  BY <1>0, <1>1, <1>2, ReportSame DEF Averaged, RaisesForCause
<1> QED BY <1>1, <1>3, <1>4 DEF ReportInv

LEMMA ReturnKeepsReport ==
    ASSUME EvalInv, Return
    PROVE  ReportInv'
PROOF
<1>0. /\ UNCHANGED <<call, files, metric, waiting, joined, table, csv, means, errors>>
      /\ pc = "means" /\ pc' = "returned" /\ metric > Len(call.metrics)
      /\ metric \in 1 .. Len(call.metrics) + 1 /\ Len(call.metrics) \in Nat
  BY CallIs DEF Return, metricVars, outVars, faults, EvalInv, PoolInv, EvalType
<1>1. metric - 1 = Len(call.metrics)
  BY <1>0
<1>2. InOrder'
  BY <1>0 DEF EvalInv, ReportInv, InOrder, AfterAdd
<1>3. Filled'
  BY <1>0, ReportSame DEF EvalInv, ReportInv, Filled
<1>4. Averaged' /\ RaisesForCause'
  BY <1>0, <1>1, ReportSame DEF EvalInv, ReportInv, Averaged, RaisesForCause
<1> QED BY <1>2, <1>3, <1>4 DEF ReportInv

LEMMA InitReport ==
    ASSUME Init, PoolInv
    PROVE  ReportInv
PROOF
<1>1. /\ pc = "add" /\ metric = 1 /\ joined = {} /\ table = {} /\ csv = [k \in Kinds |-> {}]
  BY DEF Init, NewMetrics
<1>2. InOrder /\ Averaged /\ RaisesForCause
  BY <1>1 DEF InOrder, Averaged, RaisesForCause, AfterAdd
<1>3. Filled
  BY <1>1 DEF Filled
<1> QED BY <1>2, <1>3 DEF ReportInv

-----------------------------------------------------------------------------
(* The theorems. *)

\* The invariant holds: whatever the order in which the computations of the
\* pool finish, raise or die, and the callbacks run, no task is lost or settled
\* twice, and what is written or averaged is taken from every file.
THEOREM EvalInvariant == Spec => []EvalInv
PROOF
<1>1. Init => EvalInv
  BY InitPool, InitReport DEF EvalInv
<1>2. EvalInv /\ [Next]_vars => EvalInv'
  <2> SUFFICES ASSUME EvalInv, [Next]_vars PROVE EvalInv'
    OBVIOUS
  <2>1. CASE PoolNext
    BY <2>1, PoolKeepsPool, PoolKeepsReport DEF EvalInv
  <2>2. CASE Main
    <3>1. PoolInv'
      BY <2>2, MainKeepsPoolInv DEF EvalInv
    <3>2. "enh" \in Kinds /\ "noisy" \in Kinds
      BY DEF Kinds
    <3>3. ReportInv'
      BY <2>2, <3>2, AssertsKeepReport, AddKeepsReport, EndKeepsReport, JoinKeepsReport, FlattenKeepsReport, WriteCsvKeepsReport,
         MeanKeepsReport, ReturnKeepsReport DEF Main
    <3> QED BY <3>1, <3>3 DEF EvalInv
  <2>3. CASE UNCHANGED vars
    <3>1. /\ UNCHANGED <<call, files, pc, file, metric, values, waiting, joined>>
          /\ UNCHANGED <<inqueue, running, results, settled, table, csv, means, errors>>
      BY <2>3 DEF vars, loopVars, metricVars, poolVars, outVars, faults
    <3>2. Numbers' = Numbers /\ Tasks' = Tasks /\ Outcomes' = Outcomes
      BY <3>1, Fixed
    <3>3. EvalType' /\ OncePlaced' /\ Collected' /\ Troubled'
      BY <3>1, <3>2 DEF EvalInv, PoolInv, EvalType, OncePlaced, Collected, Troubled
    <3>4. SentOnly' /\ Awaited'
      BY <3>1, <3>2, SentSame DEF EvalInv, PoolInv, SentOnly, Awaited
    <3>5. InOrder' /\ RaisesForCause'
      <4>1. pc = "raised" => Cause
        BY CauseIs DEF EvalInv, ReportInv
      <4>2. pc' = "raised" => Cause'
        BY <3>1, <4>1, CauseSame
      <4> QED BY <3>1, <4>2 DEF EvalInv, ReportInv, InOrder, RaisesForCause, Cause
    <3>6. Filled' /\ Averaged'
      BY <3>1, ReportSame DEF EvalInv, ReportInv, Filled, Averaged
    <3> QED BY <3>3, <3>4, <3>5, <3>6 DEF EvalInv, PoolInv, ReportInv
  <2> QED BY <2>1, <2>2, <2>3 DEF Next
<1> QED BY <1>1, <1>2, PTL DEF Spec

\* The last metric with a column is its owner.
LEMMA OwnerIs ==
    ASSUME EvalType, NEW col, NEW i, LastWith(col, i, Len(call.metrics))
    PROVE  i = Owner(col)
PROOF
<1> DEFINE P(j) == col \in Columns(call.metrics[j]) /\ \A l \in Numbers : col \in Columns(call.metrics[l]) => l <= j
<1>1. Numbers = 1 .. Len(call.metrics) /\ Len(call.metrics) \in Nat
  BY CallIs
<1>2. i \in Numbers /\ P(i)
  BY <1>1 DEF LastWith
<1>3. \A j \in Numbers : P(j) => j = i
  <2> SUFFICES ASSUME NEW j \in Numbers, P(j) PROVE j = i
    OBVIOUS
  <2>1. i <= j /\ j <= i
    BY <1>2
  <2>2. i \in Nat /\ j \in Nat
    BY <1>1, <1>2
  <2> QED BY <2>1, <2>2
<1>4. Owner(col) = CHOOSE j \in Numbers : P(j)
  BY DEF Owner
<1> HIDE DEF P
<1>5. Owner(col) \in Numbers /\ P(Owner(col))
  BY <1>2, <1>4
<1> QED BY <1>3, <1>5

\* A table or the means that were asked for lack no file, for any calls, test
\* sets and numbers of workers (write_csv and the means of evaluation_loop).
THEOREM ReportCompleteHolds == Spec => []ReportComplete
PROOF
<1>1. EvalInv => ReportComplete
  <2> SUFFICES ASSUME EvalInv PROVE ReportComplete
    OBVIOUS
  <2>0. EvalType /\ Numbers = 1 .. Len(call.metrics)
    BY CallIs DEF EvalInv, PoolInv
  <2>1. ASSUME NEW k \in Kinds, csv[k] # {}, NEW f \in DOMAIN files, NEW col \in AllColumns
        PROVE  \E c \in csv[k] : /\ c.row = files[f].base /\ c.col = col /\ c.metric = Owner(col)
                                 /\ files[c.file].base = files[f].base /\ (Unique(f) => c.file = f)
    <3>1. TableOf(csv[k], Len(call.metrics))
      BY <2>1 DEF EvalInv, ReportInv, Filled
    <3>2. PICK i \in Numbers : col \in Columns(call.metrics[i])
      BY DEF AllColumns
    <3>3. PICK c \in csv[k] : /\ c.row = files[f].base /\ c.col = col /\ LastWith(col, c.metric, Len(call.metrics))
                              /\ c.file \in DOMAIN files /\ files[c.file].base = files[f].base
      BY <2>0, <3>1, <3>2 DEF TableOf
    <3>4. c.metric = Owner(col)
      BY <2>0, <3>3, OwnerIs
    <3>5. Unique(f) => c.file = f
      BY <3>3 DEF Unique
    <3> QED BY <3>3, <3>4, <3>5
  <2>2. ASSUME pc = "returned", NEW k \in Kinds, NEW col \in AllColumns, k = "noisy" => call.noisy /\ files # <<>>
        PROVE  \E m \in means : m.kind = k /\ m.col = col /\ m.metric = Owner(col) /\ EachOnce(m.files)
    <3>1. MeansAre(means, Len(call.metrics))
      BY <2>2 DEF EvalInv, ReportInv, Averaged
    <3>2. PICK i \in Numbers : col \in Columns(call.metrics[i])
      BY DEF AllColumns
    <3>3. k \in Averages
      BY <2>2 DEF Averages, Asked, Kinds
    <3>4. PICK m \in means : m.kind = k /\ m.col = col /\ LastWith(col, m.metric, Len(call.metrics)) /\ EachOnce(m.files)
      BY <2>0, <3>1, <3>2, <3>3 DEF MeansAre
    <3>5. m.metric = Owner(col)
      BY <2>0, <3>4, OwnerIs
    <3> QED BY <3>4, <3>5
  <2> QED BY <2>1, <2>2 DEF ReportComplete
<1> QED BY <1>1, EvalInvariant, PTL

\* And an evaluation that raises has one of the causes that are named.
THEOREM RaisesForCauseHolds == Spec => []RaisesForCause
PROOF
<1>1. EvalInv => RaisesForCause
  BY DEF EvalInv, ReportInv
<1> QED BY <1>1, EvalInvariant, PTL

=============================================================================
