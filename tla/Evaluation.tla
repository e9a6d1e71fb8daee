----------------------------- MODULE Evaluation -----------------------------
(***************************************************************************)
(* The evaluation of a test set (df/evaluation_utils.py): a loop enhances  *)
(* file after file, or reads what was enhanced (evaluation_loop_dir_only), *)
(* and hands each to some metrics, which compute in a pool of worker       *)
(* processes, or threads (DummyPool).  The pool's result handler calls the *)
(* callbacks that collect the values, in the order the tasks finish.  At   *)
(* the end every metric joins the one pool they share, two tables are      *)
(* written and the means are returned.                                     *)
(*                                                                         *)
(* A value is represented by the number of the file it was computed for.   *)
(***************************************************************************)
EXTENDS Integers, Sequences, FiniteSets

CONSTANTS
    Calls,          \* the calls: records [loop, metrics, workers, noisy, csvEnh, csvNoisy, even,
                    \* outputs, bare]; outputs = 0 is an assert_output_length of None
    TestSets,       \* sequences of files [base, clean, enh, noisy, finite]: the name of its row,
                    \* three lengths, and whether all samples of the enhanced signal are finite
    Hop,            \* hop size of the model's DF state
    MaxErrors,      \* bound on the computations that raise
    MaxDeaths       \* bound on the worker processes that are killed

ASSUME EvaluationAssumption == MaxErrors \in Nat /\ MaxDeaths \in Nat /\ Hop \in Nat \ {0}

VARIABLES
    call, files,    \* the arguments
    pc,             \* add, csv_enh, csv_noisy, means, returned or raised
    file, metric,   \* loop variables
    values,         \* enh_values and noisy_values of each metric, oldest first
    waiting,        \* worker_results of each metric
    joined,         \* the metrics with is_joined
    pool,           \* running, closed, joined or terminated
    inqueue,        \* tasks no worker has taken
    running,        \* tasks in the workers
    results,        \* what the workers have sent back
    settled,        \* tasks whose result object has an outcome
    handling,       \* does the result handler thread live?
    table, csv,     \* the table being filled; the tables written
    means,          \* out_dict
    errors, deaths  \* history: computations that raised, workers killed

loopVars == <<call, files, pc, file, metric>>
metricVars == <<values, waiting, joined>>
poolVars == <<pool, inqueue, running, results, settled, handling>>
outVars == <<table, csv, means>>
faults == <<errors, deaths>>
vars == <<loopVars, metricVars, poolVars, outVars, faults>>

-----------------------------------------------------------------------------
(* The metrics. *)

Composite == {"PESQ", "CSIG", "CBAK", "COVL", "SSNR"}

\* get_metrics, and the versions of evaluation_loop_dns
Columns(m) ==
    CASE m = "stoi" -> {"STOI"}
      [] m = "sisdr" -> {"SISDR"}
      [] m \in {"composite", "composite-octave"} -> Composite
      [] m = "pesq" -> {"PESQ"}
      [] m = "pesq-nb" -> {"PESQ-NB"}
      [] m \in {"dnsmos5", "v5"} -> {"SIG", "BAK", "OVRL", "P808_MOS"}
      [] m = "v1" -> {"SIGMOS", "BAKMOS", "OVLMOS"}

\* The names a loop knows: get_metrics, and those of evaluation_loop_dns
MetricNames(loop) ==
    IF loop = "dns" THEN {"v5", "v1"}
    ELSE {"stoi", "sisdr", "composite", "composite-octave", "pesq", "pesq-nb", "dnsmos5"}

\* A call names at least one metric; a file has a name and lengths.
ASSUME CallsAssumption ==
    /\ \A c \in Calls :
          /\ c.metrics \in Seq(STRING) \ {<<>>}
          /\ {c.noisy, c.csvEnh, c.csvNoisy, c.even} \subseteq BOOLEAN
          /\ c.outputs \in Nat
    /\ TestSets \subseteq Seq([base : STRING, clean : Nat, enh : Nat, noisy : Nat, finite : BOOLEAN])

\* NoisyMetric.add has no parameter for the clean signal
TakesClean(m) == m \notin {"dnsmos5", "v5", "v1"}

Kinds == {"enh", "noisy"}
Task(i, kind, f) == [metric |-> i, kind |-> kind, file |-> f]
Numbers == DOMAIN call.metrics
Metric == call.metrics[metric]

\* A new metric has no values and no tasks, and has not joined the pool.
NewMetrics ==
    /\ values = [i \in Numbers |-> [k \in Kinds |-> <<>>]]
    /\ waiting = [i \in Numbers |-> <<>>]
    /\ joined = {}

\* enhance() does not pad, so analysis and synthesis return whole hops; the
\* loop treats the clean file likewise before they are compared.  Files that
\* are only read are compared as they are.
WholeHops(len) == (len \div Hop) * Hop
Fits(f) ==
    IF call.loop = "dir" THEN f.enh = f.clean /\ (call.noisy => f.noisy = f.clean)
    ELSE WholeHops(f.clean) = WholeHops(f.noisy)

\* The assertions of MPMetric.add.  NoisyMetric.add has none, and refuses a
\* call with a clean signal, which evaluation_loop_dns does not have.
Accepts(m, f) == call.loop # "dns" => TakesClean(m) /\ Fits(f) /\ f.finite

-----------------------------------------------------------------------------
(* The pool: multiprocessing.Pool, or multiprocessing.dummy.Pool. *)

Processes == call.loop # "dns" /\ call.workers >= 1
Size == IF call.workers >= 1 THEN call.workers ELSE 1

WorkerTakes ==
    /\ pool \in {"running", "closed"}
    /\ inqueue # <<>> /\ Cardinality(running) < Size
    /\ running' = running \cup {Head(inqueue)}
    /\ inqueue' = Tail(inqueue)
    /\ UNCHANGED <<loopVars, metricVars, pool, results, settled, handling, outVars, faults>>

WorkerSends(t, how) ==
    /\ t \in running
    /\ running' = running \ {t}
    /\ results' = Append(results, [task |-> t, how |-> how])
    /\ UNCHANGED <<loopVars, metricVars, pool, inqueue, settled, handling, outVars, deaths>>

\* compute_metric returns a float or an array; with NumPy 2 also a float32,
\* which is neither (call.bare: the metrics that do) ...
WorkerComputes(t) ==
    /\ WorkerSends(t, IF call.metrics[t.metric] \in call.bare THEN "scalar" ELSE "value")
    /\ UNCHANGED errors

\* ... or raises ...
WorkerRaises(t) ==
    /\ errors < MaxErrors /\ errors' = errors + 1
    /\ WorkerSends(t, "error")

\* ... or its process is killed, and its task with it.
WorkerDies(t) ==
    /\ Processes /\ t \in running
    /\ deaths < MaxDeaths /\ deaths' = deaths + 1
    /\ running' = running \ {t}
    /\ UNCHANGED <<loopVars, metricVars, pool, inqueue, results, settled, handling, outVars, errors>>

\* _add_values_enh and _add_values_noisy: the value of one file
AddValues(t) == values' = [values EXCEPT ![t.metric][t.kind] = Append(@, t.file)]

\* The handler runs the callback, then sets the outcome.  A callback that
\* raises, as zip() over a scalar does, ends the thread.
HandleResult ==
    LET r == Head(results) IN
    /\ handling /\ results # <<>>
    /\ results' = Tail(results)
    /\ CASE r.how = "value" ->
              AddValues(r.task) /\ settled' = settled \cup {r} /\ UNCHANGED handling
         [] r.how = "error" ->
              settled' = settled \cup {r} /\ UNCHANGED <<values, handling>>
         [] r.how = "scalar" ->
              handling' = FALSE /\ UNCHANGED <<values, settled>>
    /\ UNCHANGED <<loopVars, waiting, joined, pool, inqueue, running, outVars, faults>>

Outcome(t) == {r \in settled : r.task = t}

PoolNext ==
    /\ pool \in {"running", "closed"}
    /\ \/ WorkerTakes
       \/ \E t \in running : WorkerComputes(t)
       \/ \E t \in running : WorkerRaises(t)
       \/ \E t \in running : WorkerDies(t)
       \/ HandleResult

-----------------------------------------------------------------------------
(* The loop over the files. *)

Init ==
    /\ call \in {c \in Calls : \A i \in DOMAIN c.metrics : c.metrics[i] \in MetricNames(c.loop)}
    /\ files \in TestSets
    /\ pc = "add" /\ file = 1 /\ metric = 1
    /\ NewMetrics
    /\ pool = "running" /\ inqueue = <<>> /\ running = {}
    /\ results = <<>> /\ settled = {} /\ handling = TRUE
    /\ table = {} /\ csv = [k \in Kinds |-> {}] /\ means = {}
    /\ errors = 0 /\ deaths = 0

\* An exception leaves the with block, which terminates the pool.
Raise ==
    /\ pc' = "raised" /\ pool' = "terminated"
    /\ UNCHANGED <<call, files, file, metric, metricVars, inqueue, running, results, settled,
                   handling, outVars, faults>>

\* Submitting a file to a metric: one task, and one for the noisy signal.
Submitted ==
    <<Task(metric, "enh", file)>> \o (IF call.noisy THEN <<Task(metric, "noisy", file)>> ELSE <<>>)

\* evaluation_loop_dir_only asserts that its lists are as long as each other.
UnevenLists == call.loop = "dir" /\ ~call.even
RefuseLists == pc = "add" /\ UnevenLists /\ Raise

\* add() of one metric
AddFile ==
    /\ pc = "add" /\ ~UnevenLists /\ file <= Len(files)
    /\ IF ~Accepts(Metric, files[file])
       THEN Raise
       ELSE /\ inqueue' = inqueue \o Submitted
            /\ waiting' = [waiting EXCEPT ![metric] = @ \o Submitted]
            /\ IF metric < Len(call.metrics)
               THEN metric' = metric + 1 /\ UNCHANGED file
               ELSE metric' = 1 /\ file' = file + 1
            /\ UNCHANGED <<call, files, pc, values, joined, pool, running, results, settled,
                           handling, outVars, faults>>

\* What follows the loop: the tables that were asked for, then the means.
\* Only evaluation_loop_dns looks whether there are noisy values.
WritesNoisy == call.csvNoisy /\ (call.loop = "dns" => call.noisy)
AfterFiles == IF call.csvEnh THEN "csv_enh" ELSE IF WritesNoisy THEN "csv_noisy" ELSE "means"
AfterTable(k) == IF k = "enh" /\ WritesNoisy THEN "csv_noisy" ELSE "means"

EndOfFiles ==
    /\ pc = "add" /\ ~UnevenLists /\ file > Len(files)
    /\ pc' = AfterFiles
    /\ metric' = 1
    /\ UNCHANGED <<call, files, file, metricVars, poolVars, outVars, faults>>

-----------------------------------------------------------------------------
(* join_pool, at the begin of flattend and mean. *)

\* Before a mean evaluation_loop_dns compares the length it was given with the
\* number of the metric's columns.
LengthOk(m) == call.loop = "dns" /\ call.outputs # 0 => Cardinality(Columns(m)) = call.outputs

Joining ==
    /\ pc \in {"csv_enh", "csv_noisy", "means"} /\ metric <= Len(call.metrics) /\ metric \notin joined
    /\ pc = "means" => LengthOk(Metric)

\* Mutant: wait() in place of get(), which raises nothing.
JoinWait ==
    /\ Joining /\ waiting[metric] # <<>>
    /\ Outcome(Head(waiting[metric])) # {}
    /\ waiting' = [waiting EXCEPT ![metric] = Tail(@)]
    /\ UNCHANGED <<loopVars, values, joined, poolVars, outVars, faults>>

\* Mutant: the result stays in the queue.
JoinPeek ==
    /\ Joining /\ waiting[metric] # <<>>
    /\ \E r \in Outcome(Head(waiting[metric])) :
          IF r.how = "error" THEN Raise ELSE UNCHANGED vars

\* h.get(): wait for the outcome, raise the error of the computation
JoinGet ==
    /\ Joining /\ waiting[metric] # <<>>
    /\ \E r \in Outcome(Head(waiting[metric])) :
          IF r.how = "error" THEN Raise
          ELSE /\ waiting' = [waiting EXCEPT ![metric] = Tail(@)]
               /\ UNCHANGED <<loopVars, values, joined, poolVars, outVars, faults>>

JoinClose ==
    /\ Joining /\ waiting[metric] = <<>> /\ pool = "running"
    /\ pool' = "closed"
    /\ UNCHANGED <<loopVars, metricVars, inqueue, running, results, settled, handling, outVars, faults>>

\* pool.join(): all tasks of all metrics have an outcome
JoinPool ==
    /\ Joining /\ waiting[metric] = <<>> /\ pool \in {"closed", "joined"}
    /\ \A i \in Numbers, k \in Kinds, f \in DOMAIN files :
          k = "enh" \/ call.noisy => Outcome(Task(i, k, f)) # {}
    /\ pool' = "joined"
    /\ joined' = joined \cup {metric}
    /\ UNCHANGED <<loopVars, values, waiting, inqueue, running, results, settled, handling,
                   outVars, faults>>

-----------------------------------------------------------------------------
(* Tables and means. *)

InTurn == metric \in joined

\* Mutant: the test of `noisy` the wrong way round.
FlattenedSwapped(i, kind) ==
    LET seq == values[i][IF kind = "enh" THEN "noisy" ELSE "enh"]
    IN  {[row |-> files[seq[n]].base, col |-> c, metric |-> i, file |-> seq[n]] :
            n \in DOMAIN seq, c \in Columns(call.metrics[i])}

\* flattend: a cell for each base name and column; a later value of the same
\* name replaces an earlier one
Flattened(i, kind) ==
    LET seq == values[i][kind]
        last == {n \in DOMAIN seq :
                    \A k \in n + 1 .. Len(seq) : files[seq[k]].base # files[seq[n]].base}
    IN  {[row |-> files[seq[n]].base, col |-> c, metric |-> i, file |-> seq[n]] :
            n \in last, c \in Columns(call.metrics[i])}

\* {**enh[fn], **values}
Merged(cells, new) ==
    {c \in cells : \A d \in new : <<c.row, c.col>> # <<d.row, d.col>>} \cup new

Flatten(k, at) ==
    /\ pc = at /\ InTurn
    /\ table' = Merged(table, Flattened(metric, k))
    /\ metric' = metric + 1
    /\ UNCHANGED <<call, files, pc, file, metricVars, poolVars, csv, means, faults>>

\* The header is the row that came first; a table without rows and a row
\* without one of its columns raise.
HasCell(row, col) == \E c \in table : c.row = row /\ c.col = col
Header(k) == {c.col : c \in {d \in table : d.row = files[values[1][k][1]].base}}

WriteCsv(k, at) ==
    /\ pc = at /\ metric > Len(call.metrics)
    /\ IF table = {} \/ \E c \in table, col \in Header(k) : ~ HasCell(c.row, col)
       THEN Raise
       ELSE /\ csv' = [csv EXCEPT ![k] = table]
            /\ table' = {}
            /\ pc' = AfterTable(k) /\ metric' = 1
            /\ UNCHANGED <<call, files, file, metricVars, poolVars, means, faults>>

\* mean: labels Enhanced and Noisy, over the values collected
MeansOf(i) ==
    {[kind |-> k, col |-> c, metric |-> i, files |-> values[i][k]] :
        k \in {k \in Kinds : k = "enh" \/ values[i][k] # <<>>}, c \in Columns(call.metrics[i])}

AssertLength ==
    /\ pc = "means" /\ metric <= Len(call.metrics) /\ ~LengthOk(Metric)
    /\ Raise

Mean ==
    /\ pc = "means" /\ InTurn /\ LengthOk(Metric)
    /\ means' = {m \in means : \A n \in MeansOf(metric) : <<m.kind, m.col>> # <<n.kind, n.col>>}
                \cup MeansOf(metric)
    /\ metric' = metric + 1
    /\ UNCHANGED <<call, files, pc, file, metricVars, poolVars, table, csv, faults>>

Return ==
    /\ pc = "means" /\ metric > Len(call.metrics)
    /\ pc' = "returned" /\ pool' = "terminated"
    /\ UNCHANGED <<call, files, file, metric, metricVars, inqueue, running, results, settled,
                   handling, outVars, faults>>

Main ==
    \/ RefuseLists
    \/ AddFile
    \/ EndOfFiles
    \/ JoinGet
    \/ JoinClose
    \/ JoinPool
    \/ Flatten("enh", "csv_enh")
    \/ WriteCsv("enh", "csv_enh")
    \/ Flatten("noisy", "csv_noisy")
    \/ WriteCsv("noisy", "csv_noisy")
    \/ AssertLength
    \/ Mean
    \/ Return

Next == Main \/ PoolNext

\* The main thread runs; so do the workers and the handler of the pool.
Computes == \E t \in running : WorkerComputes(t)
Spec ==
    /\ Init /\ [][Next]_vars
    /\ WF_vars(Main)
    /\ WF_vars(PoolNext /\ WorkerTakes) /\ WF_vars(PoolNext /\ Computes)
    /\ WF_vars(PoolNext /\ HandleResult)

-----------------------------------------------------------------------------
(* Properties. *)

Unique(f) == \A g \in DOMAIN files : files[g].base = files[f].base => g = f
AllColumns == UNION {Columns(call.metrics[i]) : i \in Numbers}

\* The last metric with that column wins: two metrics may share one.
Owner(col) ==
    CHOOSE i \in Numbers :
        /\ col \in Columns(call.metrics[i])
        /\ \A j \in Numbers : col \in Columns(call.metrics[j]) => j <= i

EachOnce(seq) == Len(seq) = Len(files) /\ {seq[n] : n \in DOMAIN seq} = DOMAIN files

\* A table that was written has, for each file and column, a value of that
\* file; files of the same base name share a row.  The means that are returned
\* are taken over each file once, although values arrive in any order and the
\* first metric to finish closes the pool of all.  A computation that raised
\* is never left out silently.
ReportComplete ==
    /\ \A k \in Kinds : csv[k] # {} =>
          \A f \in DOMAIN files, col \in AllColumns :
             \E c \in csv[k] :
                /\ c.row = files[f].base /\ c.col = col /\ c.metric = Owner(col)
                /\ files[c.file].base = files[f].base
                /\ Unique(f) => c.file = f
    /\ pc = "returned" =>
          \A k \in Kinds, col \in AllColumns : (k = "noisy" => call.noisy /\ files # <<>>) =>
             \E m \in means : m.kind = k /\ m.col = col /\ m.metric = Owner(col) /\ EachOnce(m.files)

\* An evaluation is given up only for a cause: a computation raised; the
\* lists of a directory are uneven; two signals differ in length, an enhanced
\* one is not finite (evaluation_utils.py:375), or a metric without a clean
\* signal was asked to compare; a table was asked for that has no row, as
\* that of the noisy files without their metrics (write_csv takes the first
\* row, evaluation_utils.py:269; evaluation_loop_dns asks for none then); or
\* the length to assert is not the number of a metric's columns, whatever
\* the number of files (evaluation_utils.py:256).
RaisesForCause ==
    pc = "raised" =>
        \/ errors > 0
        \/ UnevenLists
        \/ call.loop # "dns" /\ \E f \in DOMAIN files : ~ (Fits(files[f]) /\ files[f].finite)
        \/ call.loop # "dns" /\ \E i \in Numbers : ~ TakesClean(call.metrics[i])
        \/ call.loop # "dns" /\ call.csvNoisy /\ ~ call.noisy
        \/ files = <<>> /\ (call.csvEnh \/ call.csvNoisy)
        \/ \E i \in Numbers : ~ LengthOk(call.metrics[i])

\* An evaluation ends.  It does not when a worker process is killed, whose
\* task never gets an outcome, or when a callback ends the result handler.
EvaluationEnds ==
    pc = "add" ~> pc \in {"returned", "raised"} \/ deaths > 0 \/ ~ handling
=============================================================================
