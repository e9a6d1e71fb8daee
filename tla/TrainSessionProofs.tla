------------------------- MODULE TrainSessionProofs -------------------------
(***************************************************************************)
(* Proofs that a training run survives being killed at any point, any      *)
(* number of times: there is always a model to go on with, a restarted     *)
(* process goes on after the last epoch that was saved, and the optimizer  *)
(* it reads lags behind by at most one epoch per kill; and that without    *)
(* kills the histories of a run agree with its metrics.                    *)
(*                                                                         *)
(* The loader, the schedules and the batch size have no part in this;      *)
(* about them it is proved that the batches of a step belong to its epoch  *)
(* and that the learning rate of a step exists.                            *)
(***************************************************************************)
EXTENDS TrainSession, FiniteSetTheorems, WellFoundedInduction, TLAPS

-----------------------------------------------------------------------------
(* Types. *)

AnyFile == [name : {"model", "opt"}, epoch : Nat, best : BOOLEAN, trained : Nat, whole : BOOLEAN]
Values == Metrics \cup {NaN}
AnyPatience == [count : Nat, metric : Values, state : {"none", "cut", "whole"}]
AnyOp == [what : {"open", "written", "cleanup", "log", "truncate", "patience"},
          file : AnyFile \cup {NoFile}, line : AnyPatience]

Untrained == {"load_opt", "epoch", "train"}
Running == Untrained \cup {"save_train", "valid", "save_valid", "checked", "break"}
Loaded == Running \cup {"test"}

SessionType ==
    /\ pc \in {"off", "boot", "load_model"} \cup Loaded
    /\ pc # "test" => epoch \in Nat /\ model \in Nat
    /\ opt \in Nat /\ saved \in Nat /\ kills \in Nat
    /\ vals \in Seq(Values) /\ bestLog \in Seq(Values) /\ patience \in AnyPatience
    /\ files \subseteq AnyFile /\ todo \in Seq(AnyOp)

-----------------------------------------------------------------------------
(* The directory, at every moment. *)

\* The files of an epoch, complete.
PlainOf(e) == File("model", e, FALSE, e)
BestOf(e) == File("model", e, TRUE, e)
Cut(f) == [f EXCEPT !.whole = FALSE]

OneFile == \A f, g \in files : f.name = g.name /\ f.epoch = g.epoch /\ f.best = g.best => f = g
Trained == \A f \in files : f.name = "model" => f.trained = f.epoch

\* The newest model file is of the epoch that was saved last, or cut.
Newest ==
    /\ saved > 0 => \E f \in files : f.name = "model" /\ ~f.best /\ f.epoch = saved
    /\ \A f \in files : f.name = "model" =>
          f.epoch <= saved \/ (f.epoch = saved + 1 /\ ~f.best /\ ~f.whole)

\* What is left when the file of the last epoch is cut.
Spare ==
    /\ bestLog # <<>> => \E f \in files : f.name = "model" /\ f.best /\ f.whole
    /\ NKeep > 1 /\ saved > 1 => PlainOf(saved - 1) \in files
    /\ saved = 0 => vals = <<>>

Disk == OneFile /\ Trained /\ Newest /\ Spare /\ SomeModelSurvives

\* The optimizer files; the newest one may lag by one epoch more while a
\* process has written the model and not yet the optimizer.
Opts == {f \in files : f.name = "opt"}
Slack == IF pc = "save_train" /\ Len(todo) \in {3, 4} THEN 1 ELSE 0
OptDisk ==
    /\ \A f \in Opts : ~f.best /\ f.epoch <= saved /\ f.trained <= f.epoch /\ f.epoch <= f.trained + kills
    /\ \/ Opts = {} /\ saved <= kills + Slack
       \/ \E f \in Opts : /\ \A g \in Opts : g.epoch <= f.epoch
                          /\ saved <= f.trained + kills + Slack

-----------------------------------------------------------------------------
(* The process. *)

\* What is left of a plan.
Suffix(q, plan) ==
    Len(q) <= Len(plan) /\ \A i \in DOMAIN q : q[i] = plan[Len(plan) - Len(q) + i]

TrainPlan == WriteCp("model", epoch + 1, model) \o WriteCp("opt", epoch + 1, opt)
\* A validation that is not the best leaves out the first four operations.
ValidPlan ==
    (SaveOps(BestOf(epoch + 1)) \o <<Op("log", BestOf(epoch + 1), Patience(0, Last(vals)))>>)
    \o SaveOps(PlainOf(epoch + 1))

Plans ==
    /\ pc \notin {"save_train", "save_valid", "checked", "break"} => todo = <<>>
    /\ pc = "save_train" => Suffix(todo, TrainPlan)
    /\ pc = "save_valid" => Suffix(todo, ValidPlan)
    /\ pc \in {"checked", "break"} => \A i \in DOMAIN todo : todo[i].what \in {"truncate", "patience"}

Counts ==
    pc \in Running =>
        /\ saved = IF pc \in Untrained \/ (pc = "save_train" /\ Len(todo) >= 5) THEN epoch ELSE epoch + 1
        /\ model = IF pc \in Untrained THEN epoch ELSE epoch + 1
        /\ pc # "load_opt" => opt <= model /\ model <= opt + kills

\* The directory as the process has made it, or found it when it started.
Before == pc \in Untrained \cup {"save_train", "valid"}
Made ==
    pc \in Running =>
        /\ ~(pc = "save_train" /\ Len(todo) = 5) => \A f \in files : f.name = "model" => f.epoch <= saved
        /\ saved > 0 /\ ~(pc = "save_valid" /\ Len(todo) = 2) => PlainOf(saved) \in files
        /\ Before \/ (pc = "save_valid" /\ Len(todo) = 7) =>
              \A f \in files : f.name = "model" /\ f.best => f.epoch <= epoch
        /\ pc = "save_valid" /\ Len(todo) \in {4, 5} => BestOf(epoch + 1) \in files
        /\ pc = "save_train" /\ Len(todo) = 1 => \E f \in Opts : f.epoch = epoch + 1

\* The metrics of the run.
Validated ==
    /\ Before /\ epoch = 0 => vals = <<>>
    /\ pc = "save_valid" =>
          /\ vals # <<>> /\ (epoch = 0 => Len(vals) = 1)
          /\ Len(todo) <= 3 => bestLog # <<>> \/ Last(vals) = NaN

\* Without a running job there is no process.
Jobs == job # "running" => pc = "off"

SessionInv == SessionType /\ Disk /\ OptDisk /\ Plans /\ Counts /\ Made /\ Validated /\ Jobs

-----------------------------------------------------------------------------
(* Sequences of disk operations. *)

LEMMA EmptyOps == \A q \in Seq(AnyOp) : q = <<>> <=> Len(q) = 0
PROOF OBVIOUS

LEMMA TailOps ==
    ASSUME NEW q \in Seq(AnyOp), q # <<>>
    PROVE  /\ Len(q) \in Nat \ {0} /\ Tail(q) \in Seq(AnyOp) /\ Len(Tail(q)) = Len(q) - 1
           /\ Head(q) = q[1] /\ Head(q) \in AnyOp /\ DOMAIN q = 1 .. Len(q)
           /\ DOMAIN Tail(q) = 1 .. Len(q) - 1
           /\ \A i \in DOMAIN Tail(q) : Tail(q)[i] = q[i + 1]
PROOF
<1>1. Len(q) \in Nat /\ Len(q) # 0
  BY EmptyOps
<1>2. Tail(q) \in Seq(AnyOp) /\ Len(Tail(q)) = Len(q) - 1
  BY <1>1
<1> QED BY <1>1, <1>2

LEMMA SuffixOps ==
    ASSUME NEW plan \in Seq(AnyOp), NEW q \in Seq(AnyOp), q # <<>>, Suffix(q, plan)
    PROVE  Suffix(Tail(q), plan) /\ Head(q) = plan[Len(plan) - Len(q) + 1] /\ Len(q) \in 1 .. Len(plan)
PROOF
<1>1. Len(plan) \in Nat
  OBVIOUS
<1>2. 1 \in DOMAIN q
  BY TailOps
<1>3. Head(q) = plan[Len(plan) - Len(q) + 1]
  BY <1>2, TailOps DEF Suffix
<1>4. ASSUME NEW i \in DOMAIN Tail(q) PROVE Tail(q)[i] = plan[Len(plan) - Len(Tail(q)) + i]
  <2>1. i + 1 \in DOMAIN q /\ Tail(q)[i] = q[i + 1] /\ i \in Nat
    BY TailOps
  <2>2. q[i + 1] = plan[Len(plan) - Len(q) + (i + 1)]
    BY <2>1 DEF Suffix
  <2>3. Len(plan) - Len(q) + (i + 1) = Len(plan) - Len(Tail(q)) + i
    BY <1>1, <2>1, TailOps
  <2> QED BY <2>1, <2>2, <2>3
<1> QED BY <1>1, <1>3, <1>4, TailOps DEF Suffix

LEMMA FileTypes ==
    /\ \A e \in Nat : PlainOf(e) \in AnyFile /\ BestOf(e) \in AnyFile
    /\ \A e, t \in Nat : File("opt", e, FALSE, t) \in AnyFile
    /\ \A f \in AnyFile : Cut(f) \in AnyFile
    /\ NoPatience \in AnyPatience /\ CutPatience \in AnyPatience
    /\ \A c \in Nat, m \in Values : Patience(c, m) \in AnyPatience
PROOF
<1>1. /\ \A e \in Nat : PlainOf(e) \in AnyFile /\ BestOf(e) \in AnyFile
      /\ \A e, t \in Nat : File("opt", e, FALSE, t) \in AnyFile
  BY DEF PlainOf, BestOf, File, AnyFile
<1>2. \A f \in AnyFile : Cut(f) \in AnyFile
  BY DEF AnyFile, Cut
<1>3. /\ NoPatience \in AnyPatience /\ CutPatience \in AnyPatience
      /\ \A c \in Nat, m \in Values : Patience(c, m) \in AnyPatience
  BY DEF NoPatience, CutPatience, Patience, AnyPatience, Values
<1> QED BY <1>1, <1>2, <1>3

LEMMA ConcatOps ==
    ASSUME NEW q \in Seq(AnyOp), NEW r \in Seq(AnyOp)
    PROVE  /\ q \o r \in Seq(AnyOp) /\ Len(q \o r) = Len(q) + Len(r)
           /\ \A i \in 1 .. Len(q) : (q \o r)[i] = q[i]
           /\ \A i \in 1 .. Len(r) : (q \o r)[Len(q) + i] = r[i]
PROOF
<1>1. q \o r \in Seq(AnyOp) /\ Len(q \o r) = Len(q) + Len(r) /\ Len(q) \in Nat /\ Len(r) \in Nat
  OBVIOUS
<1>2. \A i \in 1 .. Len(q) : (q \o r)[i] = q[i]
  OBVIOUS
<1>3. \A i \in 1 .. Len(r) : (q \o r)[Len(q) + i] = r[i]
  OBVIOUS
<1> QED BY <1>1, <1>2, <1>3

\* What saving a file is made of.
LEMMA SavePlan ==
    ASSUME NEW f \in AnyFile
    PROVE  /\ SaveOps(f) \in Seq(AnyOp) /\ Len(SaveOps(f)) = 3
           /\ SaveOps(f)[1] = Op("open", f, NoPatience)
           /\ SaveOps(f)[2] = Op("written", f, NoPatience)
           /\ SaveOps(f)[3] = Op("cleanup", f, NoPatience)
PROOF
<1>1. \A w \in {"open", "written", "cleanup"} : Op(w, f, NoPatience) \in AnyOp
  BY FileTypes DEF Op, AnyOp
<1> QED BY <1>1 DEF SaveOps

LEMMA TrainPlanOps ==
    ASSUME NEW f \in AnyFile, NEW g \in AnyFile
    PROVE  LET p == SaveOps(f) \o SaveOps(g) IN
           /\ p \in Seq(AnyOp) /\ Len(p) = 6
           /\ p[1] = Op("open", f, NoPatience) /\ p[2] = Op("written", f, NoPatience)
           /\ p[3] = Op("cleanup", f, NoPatience)
           /\ p[4] = Op("open", g, NoPatience) /\ p[5] = Op("written", g, NoPatience)
           /\ p[6] = Op("cleanup", g, NoPatience)
PROOF
<1> DEFINE s == SaveOps(f)
           t == SaveOps(g)
<1>1. s \in Seq(AnyOp) /\ t \in Seq(AnyOp) /\ Len(s) = 3 /\ Len(t) = 3
  BY SavePlan
<1> HIDE DEF s, t
<1>2. /\ s \o t \in Seq(AnyOp) /\ Len(s \o t) = 6
      /\ (s \o t)[1] = s[1] /\ (s \o t)[2] = s[2] /\ (s \o t)[3] = s[3]
      /\ (s \o t)[4] = t[1] /\ (s \o t)[5] = t[2] /\ (s \o t)[6] = t[3]
  <2>1. /\ s \o t \in Seq(AnyOp) /\ Len(s \o t) = Len(s) + Len(t)
        /\ \A i \in 1 .. Len(s) : (s \o t)[i] = s[i]
        /\ \A i \in 1 .. Len(t) : (s \o t)[Len(s) + i] = t[i]
    BY <1>1, ConcatOps, Zenon
  <2>2. /\ \A i \in 1 .. 3 : (s \o t)[i] = s[i]
        /\ \A i \in 1 .. 3 : (s \o t)[3 + i] = t[i]
    BY <1>1, <2>1
  <2> QED BY <1>1, <2>1, <2>2
<1> QED BY <1>2, SavePlan DEF s, t

LEMMA ValidPlanOps ==
    ASSUME NEW f \in AnyFile, NEW g \in AnyFile, NEW line \in AnyPatience
    PROVE  LET p == (SaveOps(f) \o <<Op("log", f, line)>>) \o SaveOps(g) IN
           /\ p \in Seq(AnyOp) /\ Len(p) = 7
           /\ p[1] = Op("open", f, NoPatience) /\ p[2] = Op("written", f, NoPatience)
           /\ p[3] = Op("cleanup", f, NoPatience) /\ p[4] = Op("log", f, line)
           /\ p[5] = Op("open", g, NoPatience) /\ p[6] = Op("written", g, NoPatience)
           /\ p[7] = Op("cleanup", g, NoPatience)
           /\ Suffix(p, p) /\ Suffix(SaveOps(g), p)
PROOF
<1> DEFINE s == SaveOps(f)
           l == <<Op("log", f, line)>>
           t == SaveOps(g)
           p == (s \o l) \o t
<1>1. s \in Seq(AnyOp) /\ t \in Seq(AnyOp) /\ Len(s) = 3 /\ Len(t) = 3
  BY SavePlan
<1>2. l \in Seq(AnyOp) /\ Len(l) = 1 /\ l[1] = Op("log", f, line)
  BY DEF Op, AnyOp
<1> HIDE DEF s, l, t
<1>3. /\ s \o l \in Seq(AnyOp) /\ Len(s \o l) = 4
      /\ (s \o l)[1] = s[1] /\ (s \o l)[2] = s[2] /\ (s \o l)[3] = s[3] /\ (s \o l)[4] = l[1]
  <2>1. /\ s \o l \in Seq(AnyOp) /\ Len(s \o l) = Len(s) + Len(l)
        /\ \A i \in 1 .. Len(s) : (s \o l)[i] = s[i]
        /\ \A i \in 1 .. Len(l) : (s \o l)[Len(s) + i] = l[i]
    BY <1>1, <1>2, ConcatOps, Zenon
  <2>2. /\ \A i \in 1 .. 3 : (s \o l)[i] = s[i]
        /\ \A i \in 1 .. 1 : (s \o l)[3 + i] = l[i]
    BY <1>1, <1>2, <2>1
  <2> QED BY <1>1, <1>2, <2>1, <2>2
<1>4. /\ p \in Seq(AnyOp) /\ Len(p) = 7
      /\ p[1] = s[1] /\ p[2] = s[2] /\ p[3] = s[3] /\ p[4] = l[1]
      /\ p[5] = t[1] /\ p[6] = t[2] /\ p[7] = t[3]
  <2>1. /\ p \in Seq(AnyOp) /\ Len(p) = Len(s \o l) + Len(t)
        /\ \A i \in 1 .. Len(s \o l) : p[i] = (s \o l)[i]
        /\ \A i \in 1 .. Len(t) : p[Len(s \o l) + i] = t[i]
    BY <1>1, <1>3, ConcatOps, Zenon
  <2>2. /\ \A i \in 1 .. 4 : p[i] = (s \o l)[i]
        /\ \A i \in 1 .. 3 : p[4 + i] = t[i]
    BY <1>1, <1>3, <2>1
  <2> QED BY <1>1, <1>3, <2>1, <2>2
<1> HIDE DEF p
<1>5. Suffix(p, p) /\ Suffix(t, p)
  <2>1. DOMAIN t = {1, 2, 3} /\ DOMAIN p = 1 .. 7
    BY <1>1, <1>4
  <2> QED BY <1>1, <1>4, <2>1 DEF Suffix
<1> QED BY <1>2, <1>4, <1>5, SavePlan DEF s, l, t, p

-----------------------------------------------------------------------------
(* The three operations on a file. *)

Replaced(f, g) == files' = {h \in files : <<h.name, h.epoch, h.best>> # <<f.name, f.epoch, f.best>>} \cup {g}

LEMMA OneDiskStep ==
    ASSUME DiskStep, NEW f, NEW line
    PROVE  /\ todo # <<>> /\ todo' = Tail(todo)
           /\ Head(todo) = Op("open", f, line) => Replaced(f, Cut(f)) /\ UNCHANGED <<bestLog, patience>>
           /\ Head(todo) = Op("written", f, line) => Replaced(f, f) /\ UNCHANGED <<bestLog, patience>>
           /\ Head(todo) = Op("cleanup", f, line) =>
                 files' = (files \ Family(f.name, f.best)) \cup Kept(f) /\ UNCHANGED <<bestLog, patience>>
           /\ Head(todo) = Op("log", f, line) =>
                 bestLog' = Append(bestLog, line.metric) /\ UNCHANGED <<files, patience>>
PROOF BY DEF DiskStep, Op, Replaced, Others, Cut

\* Opening or writing a file touches no other.
LEMMA ReplaceFacts ==
    ASSUME files \subseteq AnyFile, OneFile, NEW f \in AnyFile, NEW g \in {f, Cut(f)}, Replaced(f, g)
    PROVE  /\ files' \subseteq AnyFile /\ OneFile' /\ g \in files'
           /\ g.name = f.name /\ g.epoch = f.epoch /\ g.best = f.best /\ g.trained = f.trained
           /\ \A h \in files' : h = g \/ (h \in files /\ (h.name # f.name \/ h.epoch # f.epoch \/ h.best # f.best))
           /\ \A h \in files : h.name # f.name \/ h.epoch # f.epoch \/ h.best # f.best => h \in files'
PROOF
<1>1. g \in AnyFile /\ g.name = f.name /\ g.epoch = f.epoch /\ g.best = f.best /\ g.trained = f.trained
  <2>1. CASE g = Cut(f)
    BY <2>1, FileTypes DEF Cut, AnyFile
  <2> QED BY <2>1
<1>2. \A h \in files' : h = g \/ (h \in files /\ (h.name # f.name \/ h.epoch # f.epoch \/ h.best # f.best))
  BY DEF Replaced
<1>3. \A h \in files : h.name # f.name \/ h.epoch # f.epoch \/ h.best # f.best => h \in files'
  BY DEF Replaced
<1>4. g \in files'
  BY DEF Replaced
<1>5. OneFile'
  BY <1>1, <1>2 DEF OneFile
<1> QED BY <1>1, <1>2, <1>3, <1>4, <1>5

\* A clean-up keeps the other family, the newest file of this one and, of the
\* plain files, the one before it when the history is longer than one.
LEMMA CleanFacts ==
    ASSUME files \subseteq AnyFile, NEW f \in AnyFile,
           files' = (files \ Family(f.name, f.best)) \cup Kept(f)
    PROVE  /\ files' \subseteq files
           /\ \A g \in files : g.name # f.name \/ g.best # f.best => g \in files'
           /\ \A g \in files : (\A h \in files : h.name = f.name /\ h.best = f.best => h.epoch <= g.epoch)
                  => g \in files'
           /\ \A g, top \in files :
                  NKeep > 1 /\ ~f.best /\ g.epoch < top.epoch
                  /\ top.name = f.name /\ ~top.best
                  /\ (\A h \in files : h.name = f.name /\ ~h.best /\ h.epoch > g.epoch => h = top)
                      => g \in files'
PROOF
<1> DEFINE newer(g) == {h \in Family(f.name, f.best) : h.epoch > g.epoch}
<1>0. NKeep \in Nat \ {0} /\ NKeepBest \in Nat \ {0}
  BY CheckpointAssumption
<1>1. files' \subseteq files /\ \A g \in files : g.name # f.name \/ g.best # f.best => g \in files'
  BY DEF Family, Kept
<1>2. ASSUME NEW g \in files, \A h \in files : h.name = f.name /\ h.best = f.best => h.epoch <= g.epoch
      PROVE  g \in files'
  <2>1. newer(g) = {}
    BY <1>2 DEF Family, AnyFile
  <2>2. Cardinality(newer(g)) = 0
    BY <2>1, FS_EmptySet
  <2> QED BY <1>0, <1>1, <2>2 DEF Kept, Family
<1>3. ASSUME NEW g \in files, NEW top \in files, NKeep > 1, ~f.best, g.epoch < top.epoch,
             top.name = f.name, ~top.best,
             \A h \in files : h.name = f.name /\ ~h.best /\ h.epoch > g.epoch => h = top
      PROVE  g \in files'
  <2>1. newer(g) = {top}
    BY <1>3 DEF Family, AnyFile
  <2>2. Cardinality(newer(g)) = 1
    BY <2>1, FS_Singleton
  <2> QED BY <1>0, <1>1, <1>3, <2>2 DEF Kept, Family
<1> QED BY <1>1, <1>2, <1>3

-----------------------------------------------------------------------------
(* Writing after the training of an epoch. *)

OptOf == File("opt", epoch + 1, FALSE, opt)

LEMMA TrainPlace ==
    ASSUME SessionType, Counts, Plans, pc = "save_train", todo # <<>>
    PROVE  /\ Len(todo) \in 1 .. 6 /\ Suffix(Tail(todo), TrainPlan)
           /\ Tail(todo) \in Seq(AnyOp) /\ Len(Tail(todo)) = Len(todo) - 1
           /\ PlainOf(epoch + 1) \in AnyFile /\ OptOf \in AnyFile
           /\ Len(todo) = 6 => Head(todo) = Op("open", PlainOf(epoch + 1), NoPatience)
           /\ Len(todo) = 5 => Head(todo) = Op("written", PlainOf(epoch + 1), NoPatience)
           /\ Len(todo) = 4 => Head(todo) = Op("cleanup", PlainOf(epoch + 1), NoPatience)
           /\ Len(todo) = 3 => Head(todo) = Op("open", OptOf, NoPatience)
           /\ Len(todo) = 2 => Head(todo) = Op("written", OptOf, NoPatience)
           /\ Len(todo) = 1 => Head(todo) = Op("cleanup", OptOf, NoPatience)
PROOF
<1>1. epoch \in Nat /\ epoch + 1 \in Nat /\ opt \in Nat /\ model = epoch + 1 /\ todo \in Seq(AnyOp)
  BY DEF SessionType, Counts, Running, Untrained
<1>2. PlainOf(epoch + 1) \in AnyFile /\ OptOf \in AnyFile
  BY <1>1, FileTypes DEF OptOf
<1>3. TrainPlan = SaveOps(PlainOf(epoch + 1)) \o SaveOps(OptOf)
  BY <1>1 DEF TrainPlan, WriteCp, PlainOf, OptOf
<1>4. /\ TrainPlan \in Seq(AnyOp) /\ Len(TrainPlan) = 6
      /\ TrainPlan[1] = Op("open", PlainOf(epoch + 1), NoPatience)
      /\ TrainPlan[2] = Op("written", PlainOf(epoch + 1), NoPatience)
      /\ TrainPlan[3] = Op("cleanup", PlainOf(epoch + 1), NoPatience)
      /\ TrainPlan[4] = Op("open", OptOf, NoPatience)
      /\ TrainPlan[5] = Op("written", OptOf, NoPatience)
      /\ TrainPlan[6] = Op("cleanup", OptOf, NoPatience)
  BY <1>2, <1>3, TrainPlanOps
<1>5. Suffix(todo, TrainPlan)
  BY DEF Plans
<1>6. /\ Suffix(Tail(todo), TrainPlan) /\ Len(todo) \in 1 .. 6
      /\ Head(todo) = TrainPlan[6 - Len(todo) + 1]
  BY <1>1, <1>4, <1>5, SuffixOps
<1>7. Tail(todo) \in Seq(AnyOp) /\ Len(Tail(todo)) = Len(todo) - 1
  BY <1>1, TailOps
<1>8. /\ Len(todo) = 6 => Head(todo) = TrainPlan[1]
      /\ Len(todo) = 5 => Head(todo) = TrainPlan[2]
      /\ Len(todo) = 4 => Head(todo) = TrainPlan[3]
      /\ Len(todo) = 3 => Head(todo) = TrainPlan[4]
      /\ Len(todo) = 2 => Head(todo) = TrainPlan[5]
      /\ Len(todo) = 1 => Head(todo) = TrainPlan[6]
  <2>1. \A k \in 1 .. 6 : Len(todo) = k => 6 - Len(todo) + 1 = 7 - k
    OBVIOUS
  <2>2. \A k \in 1 .. 6 : Len(todo) = k => Head(todo) = TrainPlan[7 - k]
    BY <1>6, <2>1
  <2> QED BY <2>2
<1> QED BY <1>2, <1>4, <1>6, <1>7, <1>8

\* What a disk operation leaves alone.
LEMMA WriteFrame ==
    ASSUME Write
    PROVE  DiskStep /\ UNCHANGED <<pc, epoch, model, opt, vals, kills>>
PROOF BY DEF Write, progress

LEMMA SavedBy ==
    ASSUME Write, NEW f, NEW line
    PROVE  /\ Head(todo) = Op("written", f, line) =>
                 saved' = IF f.name = "model" /\ f.epoch > saved THEN f.epoch ELSE saved
           /\ \A what : what # "written" /\ Head(todo) = Op(what, f, line) => saved' = saved
PROOF BY DEF Write, Op

\* The model file: the epoch is saved once it is written.
LEMMA TrainWritesModel ==
    ASSUME SessionInv, Write, pc = "save_train", Len(todo) \in {4, 5, 6}
    PROVE  Disk' /\ OptDisk' /\ Counts' /\ Made'
PROOF
<1> DEFINE e == epoch + 1
           f == PlainOf(e)
<1>0. /\ SessionType /\ OneFile /\ Trained /\ Newest /\ Spare /\ SomeModelSurvives /\ OptDisk
      /\ Counts /\ Plans /\ Made /\ Validated
  BY DEF SessionInv, Disk
<1>1. /\ epoch \in Nat /\ opt \in Nat /\ saved \in Nat /\ kills \in Nat /\ files \subseteq AnyFile
      /\ UNCHANGED <<pc, epoch, model, opt, vals, kills>> /\ e \in Nat
  BY <1>0, WriteFrame DEF SessionType
<1>2. /\ f \in AnyFile /\ f.name = "model" /\ f.epoch = e /\ f.best = FALSE /\ f.trained = e /\ f.whole = TRUE
  BY <1>1, FileTypes DEF PlainOf, File
<1>3. /\ DiskStep /\ todo # <<>> /\ todo' = Tail(todo) /\ Len(todo') = Len(todo) - 1
      /\ Len(todo) \in 1 .. 6
  BY <1>0, WriteFrame, TrainPlace DEF DiskStep
<1>4. pc \in Running /\ pc \notin Untrained /\ Before /\ model = epoch + 1 /\ opt <= model /\ model <= opt + kills
  BY <1>0 DEF Running, Untrained, Before, Counts
<1>5. CASE Len(todo) = 6
  <2>1. Head(todo) = Op("open", f, NoPatience)
    BY <1>0, <1>3, <1>5, TrainPlace
  <2>2. Replaced(f, Cut(f)) /\ bestLog' = bestLog /\ saved' = saved
    BY <1>3, <2>1, OneDiskStep, SavedBy
  <2>3. saved = epoch /\ Len(todo') = 5
    BY <1>0, <1>3, <1>4, <1>5 DEF Counts
  <2> DEFINE g == Cut(f)
  <2>4. /\ files' \subseteq AnyFile /\ OneFile' /\ g \in files'
        /\ g.name = "model" /\ g.epoch = e /\ g.best = FALSE /\ g.trained = e /\ g.whole = FALSE
        /\ \A h \in files' : h = g \/ (h \in files /\ (h.name # f.name \/ h.epoch # f.epoch \/ h.best # f.best))
        /\ \A h \in files : h.name # f.name \/ h.epoch # f.epoch \/ h.best # f.best => h \in files'
    BY <1>0, <1>1, <1>2, <2>2, ReplaceFacts DEF Cut
  <2> HIDE DEF g, f
  <2>5. \A h \in files : h.name = "model" => h.epoch <= epoch
    BY <1>0, <1>4, <1>5, <2>3 DEF Made
  <2>6. \A h \in files : h \in files'
    BY <1>1, <1>2, <2>4, <2>5 DEF AnyFile
  <2>7. Trained' /\ Newest'
    BY <1>0, <1>1, <2>2, <2>3, <2>4, <2>5, <2>6 DEF Trained, Newest, AnyFile
  <2>8. Spare' /\ SomeModelSurvives'
    BY <1>0, <1>1, <2>2, <2>6 DEF Spare, SomeModelSurvives
  <2>9. Opts' = Opts
    BY <2>4, <2>6 DEF Opts
  <2>10. OptDisk'
    BY <1>0, <1>1, <1>5, <2>2, <2>3, <2>9 DEF OptDisk, Slack
  <2>11. Counts'
    BY <1>0, <1>1, <1>4, <1>5, <2>2, <2>3 DEF Counts
  <2>12. Made'
    <3>1. saved > 0 => PlainOf(saved) \in files'
      BY <1>0, <1>4, <1>5, <2>6 DEF Made
    <3>2. \A h \in files' : h.name = "model" /\ h.best => h.epoch <= epoch
      BY <2>4, <2>5
    <3> QED BY <1>1, <2>2, <2>3, <3>1, <3>2 DEF Made
  <2> QED BY <2>4, <2>7, <2>8, <2>10, <2>11, <2>12 DEF Disk
<1>6. CASE Len(todo) = 5
  <2>1. Head(todo) = Op("written", f, NoPatience)
    BY <1>0, <1>3, <1>6, TrainPlace
  <2>2. saved = epoch /\ Len(todo') = 4
    BY <1>0, <1>3, <1>4, <1>6 DEF Counts
  <2>3. Replaced(f, f) /\ bestLog' = bestLog /\ saved' = e
    BY <1>1, <1>2, <1>3, <2>1, <2>2, OneDiskStep, SavedBy
  <2>4. /\ files' \subseteq AnyFile /\ OneFile' /\ f \in files'
        /\ \A h \in files' : h = f \/ (h \in files /\ (h.name # f.name \/ h.epoch # f.epoch \/ h.best # f.best))
        /\ \A h \in files : h.name # f.name \/ h.epoch # f.epoch \/ h.best # f.best => h \in files'
    BY <1>0, <1>1, <1>2, <2>3, ReplaceFacts
  <2> HIDE DEF f
  <2>5. \A h \in files' : h.name = "model" => h.epoch <= e
    BY <1>0, <1>1, <1>2, <2>2, <2>4 DEF Newest, AnyFile
  <2>6. Trained' /\ Newest'
    BY <1>0, <1>1, <1>2, <2>3, <2>4, <2>5 DEF Trained, Newest
  <2>7. saved > 0 => PlainOf(saved) \in files'
    <3>1. saved > 0 => PlainOf(saved) \in files
      BY <1>0, <1>4, <1>6 DEF Made
    <3>2. PlainOf(saved).epoch = saved
      BY DEF PlainOf, File
    <3> QED BY <1>1, <1>2, <2>2, <2>4, <3>1, <3>2
  <2>8. SomeModelSurvives'
    BY <1>2, <2>4 DEF SomeModelSurvives
  <2>9. Spare'
    <3>1. \A h \in files : h.best => h \in files'
      BY <1>2, <2>4
    <3>2. saved' - 1 = saved /\ saved' # 0
      BY <1>1, <2>2, <2>3
    <3> QED BY <1>0, <1>1, <2>3, <2>7, <3>1, <3>2 DEF Spare
  <2>10. Opts' = Opts
    BY <1>2, <2>4 DEF Opts
  <2>11. OptDisk'
    <3>1. Slack = 0 /\ Slack' = 1
      BY <1>1, <1>6, <2>2 DEF Slack
    <3>2. \A h \in Opts : h.epoch \in Nat /\ h.trained \in Nat
      BY <1>1 DEF Opts, AnyFile
    <3> QED BY <1>0, <1>1, <2>2, <2>3, <2>10, <3>1, <3>2 DEF OptDisk
  <2>12. Counts'
    BY <1>1, <1>4, <2>2, <2>3 DEF Counts
  <2>13. Made'
    <3>1. \A h \in files' : h.name = "model" /\ h.best => h.epoch <= epoch
      <4>1. \A h \in files : h.name = "model" /\ h.best => h.epoch <= epoch
        BY <1>0, <1>4 DEF Made
      <4> QED BY <1>2, <2>4, <4>1
    <3> QED BY <1>1, <2>2, <2>3, <2>4, <2>5, <3>1 DEF Made, f
  <2> QED BY <2>4, <2>6, <2>8, <2>9, <2>11, <2>12, <2>13 DEF Disk
<1>7. CASE Len(todo) = 4
  <2>1. Head(todo) = Op("cleanup", f, NoPatience)
    BY <1>0, <1>3, <1>7, TrainPlace
  <2>2. saved = e /\ Len(todo') = 3
    BY <1>0, <1>3, <1>4, <1>7 DEF Counts
  <2>3. files' = (files \ Family(f.name, f.best)) \cup Kept(f) /\ bestLog' = bestLog /\ saved' = saved
    BY <1>3, <2>1, OneDiskStep, SavedBy
  <2>4. f \in files /\ \A h \in files : h.name = "model" => h.epoch <= e
    BY <1>0, <1>1, <1>4, <1>7, <2>2 DEF Made
  <2>5. /\ files' \subseteq files /\ f \in files'
        /\ \A g \in files : g.name # "model" \/ g.best => g \in files'
    BY <1>1, <1>2, <2>3, <2>4, CleanFacts DEF AnyFile
  <2>6. NKeep > 1 /\ saved > 1 => PlainOf(saved - 1) \in files'
    <3> DEFINE g == PlainOf(saved - 1)
    <3> SUFFICES ASSUME NKeep > 1, saved > 1 PROVE g \in files'
      OBVIOUS
    <3>1. g \in files /\ g.epoch = saved - 1 /\ g.epoch < f.epoch /\ saved - 1 \in Nat
      BY <1>0, <1>1, <1>2, <2>2 DEF Spare, PlainOf, File
    <3>2. ASSUME NEW h \in files, h.name = f.name, ~h.best, h.epoch > g.epoch PROVE h = f
      <4>1. h.epoch <= e /\ h.epoch \in Nat
        BY <1>1, <1>2, <2>4, <3>2 DEF AnyFile
      <4>2. h.epoch = e /\ h.best = FALSE
        BY <1>1, <2>2, <3>1, <3>2, <4>1 DEF AnyFile
      <4> QED BY <1>0, <1>2, <2>4, <3>2, <4>2 DEF OneFile
    <3> HIDE DEF g
    <3> QED BY <1>1, <1>2, <2>3, <2>4, <3>1, <3>2, CleanFacts
  <2> HIDE DEF f
  <2>7. OneFile' /\ Trained' /\ Newest' /\ SomeModelSurvives'
    BY <1>0, <1>1, <1>2, <2>2, <2>3, <2>4, <2>5 DEF OneFile, Trained, Newest, SomeModelSurvives
  <2>8. Spare'
    BY <1>0, <1>1, <2>3, <2>5, <2>6 DEF Spare
  <2>9. Opts' = Opts
    BY <2>5 DEF Opts
  <2>10. OptDisk'
    BY <1>0, <1>1, <1>7, <2>2, <2>3, <2>9 DEF OptDisk, Slack
  <2>11. Counts' /\ Made'
    BY <1>0, <1>1, <1>4, <1>7, <2>2, <2>3, <2>4, <2>5 DEF Counts, Made, f
  <2> QED BY <2>7, <2>8, <2>10, <2>11 DEF Disk
<1> QED BY <1>5, <1>6, <1>7

\* The optimizer file.
LEMMA TrainWritesOpt ==
    ASSUME SessionInv, Write, pc = "save_train", Len(todo) \in {1, 2, 3}
    PROVE  Disk' /\ OptDisk' /\ Counts' /\ Made'
PROOF
<1> DEFINE e == epoch + 1
           f == OptOf
<1>0. /\ SessionType /\ OneFile /\ Trained /\ Newest /\ Spare /\ SomeModelSurvives /\ OptDisk
      /\ Counts /\ Plans /\ Made /\ Validated
  BY DEF SessionInv, Disk
<1>1. /\ epoch \in Nat /\ opt \in Nat /\ saved \in Nat /\ kills \in Nat /\ files \subseteq AnyFile
      /\ UNCHANGED <<pc, epoch, model, opt, vals, kills>> /\ e \in Nat
  BY <1>0, WriteFrame DEF SessionType
<1>2. /\ f \in AnyFile /\ f.name = "opt" /\ f.epoch = e /\ f.best = FALSE /\ f.trained = opt
  BY <1>1, FileTypes DEF OptOf, File
<1>3. /\ DiskStep /\ todo # <<>> /\ todo' = Tail(todo) /\ Len(todo') = Len(todo) - 1
      /\ Len(todo) \in 1 .. 6
  BY <1>0, WriteFrame, TrainPlace DEF DiskStep
<1>4. /\ pc \in Running /\ pc \notin Untrained /\ Before /\ model = epoch + 1
      /\ opt <= e /\ e <= opt + kills /\ saved = e
  <2>1. pc \in Running /\ pc \notin Untrained /\ Before /\ pc # "load_opt"
    BY DEF Running, Untrained, Before
  <2>2. ~(Len(todo) >= 5)
    BY <1>3
  <2> QED BY <1>0, <2>1, <2>2 DEF Counts
<1>5. PlainOf(saved) \in files /\ \A h \in files : h.name = "model" => h.epoch <= saved
  BY <1>0, <1>1, <1>4 DEF Made
<1>6. ASSUME saved' = saved, bestLog' = bestLog, files' \subseteq AnyFile, OneFile',
             \A h : h.name = "model" => (h \in files' <=> h \in files)
      PROVE  Disk' /\ Counts' /\ (Len(todo') # 1 => Made')
  <2>1. \A k : PlainOf(k).name = "model" /\ BestOf(k).name = "model"
    BY DEF PlainOf, BestOf, File
  <2>2. Trained' /\ Newest' /\ Spare' /\ SomeModelSurvives'
    BY <1>0, <1>1, <1>6, <2>1 DEF Trained, Newest, Spare, SomeModelSurvives
  <2>3. Counts'
    BY <1>1, <1>3, <1>4, <1>6 DEF Counts
  <2>4. Len(todo') # 1 => Made'
    BY <1>0, <1>1, <1>3, <1>4, <1>5, <1>6, <2>1 DEF Made, Before
  <2> QED BY <1>6, <2>2, <2>3, <2>4 DEF Disk
<1>7. ASSUME NEW g \in {f, Cut(f)}, Replaced(f, g), bestLog' = bestLog, saved' = saved, Len(todo) \in {2, 3}
      PROVE  Disk' /\ OptDisk' /\ Counts' /\ Made'
  <2>1. /\ files' \subseteq AnyFile /\ OneFile' /\ g \in files'
        /\ g.name = "opt" /\ g.epoch = e /\ g.best = FALSE /\ g.trained = opt
        /\ \A h \in files' : h = g \/ (h \in files /\ (h.name # f.name \/ h.epoch # f.epoch \/ h.best # f.best))
        /\ \A h \in files : h.name # f.name \/ h.epoch # f.epoch \/ h.best # f.best => h \in files'
    BY <1>0, <1>1, <1>2, <1>7, ReplaceFacts
  <2> HIDE DEF f
  <2>2. \A h : h.name = "model" => (h \in files' <=> h \in files)
    BY <1>2, <2>1
  <2>3. g \in Opts' /\ \A h \in Opts' : h = g \/ h \in Opts
    BY <2>1 DEF Opts
  <2>4. \A h \in Opts : h.epoch <= saved
    BY <1>0 DEF OptDisk
  <2>5. OptDisk'
    <3>1. \A h \in Opts' : ~h.best /\ h.epoch <= saved' /\ h.trained <= h.epoch /\ h.epoch <= h.trained + kills'
      <4>1. /\ ~g.best /\ g.epoch <= saved' /\ g.trained <= g.epoch /\ g.epoch <= g.trained + kills'
        BY <1>1, <1>4, <1>7, <2>1
      <4>2. \A h \in Opts : ~h.best /\ h.epoch <= saved /\ h.trained <= h.epoch /\ h.epoch <= h.trained + kills
        BY <1>0 DEF OptDisk
      <4>3. saved' = saved /\ kills' = kills
        BY <1>1, <1>7
      <4> QED BY <2>3, <4>1, <4>2, <4>3, Zenon
    <3>2. Slack' = 0
      <4>1. \A m, n \in Nat : m \in {2, 3} /\ n = m - 1 => n \notin {3, 4}
        OBVIOUS
      <4>2. Len(todo) \in Nat /\ Len(todo') = Len(todo) - 1 /\ Len(todo') \in Nat
        BY <1>3
      <4>3. Len(todo') \notin {3, 4}
        BY <1>7, <4>1, <4>2
      <4> QED BY <4>3 DEF Slack
    <3>3. \A h \in Opts' : h.epoch <= g.epoch
      BY <1>1, <1>4, <2>1, <2>3, <2>4
    <3>4. saved' <= g.trained + kills' + Slack'
      BY <1>1, <1>4, <1>7, <2>1, <3>2
    <3> QED BY <2>3, <3>1, <3>3, <3>4 DEF OptDisk
  <2>6. Disk' /\ Counts' /\ (Len(todo') # 1 => Made')
    BY <1>6, <1>7, <2>1, <2>2
  <2>7. Len(todo') = 1 => Made'
    <3>1. \A k : PlainOf(k).name = "model" /\ BestOf(k).name = "model"
      BY DEF PlainOf, BestOf, File
    <3>2. \E h \in Opts' : h.epoch = epoch' + 1
      BY <1>1, <2>1, <2>3
    <3> QED BY <1>0, <1>1, <1>3, <1>4, <1>5, <1>7, <2>1, <2>2, <3>1, <3>2 DEF Made, Before
  <2> QED BY <2>5, <2>6, <2>7
<1>8. CASE Len(todo) = 3
  <2>1. Head(todo) = Op("open", f, NoPatience)
    BY <1>0, <1>3, <1>8, TrainPlace
  <2> QED BY <1>3, <1>7, <1>8, <2>1, OneDiskStep, SavedBy
<1>9. CASE Len(todo) = 2
  <2>1. Head(todo) = Op("written", f, NoPatience)
    BY <1>0, <1>3, <1>9, TrainPlace
  <2>2. saved' = saved
    BY <1>2, <2>1, SavedBy
  <2> QED BY <1>3, <1>7, <1>9, <2>1, <2>2, OneDiskStep
<1>10. CASE Len(todo) = 1
  <2>1. Head(todo) = Op("cleanup", f, NoPatience)
    BY <1>0, <1>3, <1>10, TrainPlace
  <2>2. files' = (files \ Family(f.name, f.best)) \cup Kept(f) /\ bestLog' = bestLog /\ saved' = saved
    BY <1>3, <2>1, OneDiskStep, SavedBy
  <2>3. PICK g \in Opts : g.epoch = e
    BY <1>0, <1>4, <1>10 DEF Made
  <2>4. /\ files' \subseteq files
        /\ \A h \in files : h.name # f.name \/ h.best # f.best => h \in files'
        /\ \A h \in files : (\A k \in files : k.name = f.name /\ k.best = f.best => k.epoch <= h.epoch) => h \in files'
    BY <1>1, <1>2, <2>2, CleanFacts
  <2>5. \A h \in Opts : h.epoch <= e
    BY <1>0, <1>4 DEF OptDisk
  <2>6. g \in Opts'
    BY <1>2, <2>3, <2>4, <2>5 DEF Opts
  <2> HIDE DEF f
  <2>7. files' \subseteq AnyFile /\ OneFile' /\ \A h : h.name = "model" => (h \in files' <=> h \in files)
    BY <1>0, <1>1, <1>2, <2>4 DEF OneFile
  <2>8. Disk' /\ Counts' /\ Made'
    BY <1>3, <1>6, <1>10, <2>2, <2>7
  <2>9. OptDisk'
    <3>1. Opts' \subseteq Opts /\ Slack' = 0
      BY <1>1, <1>3, <1>10, <2>4 DEF Opts, Slack
    <3>2. saved <= g.trained + kills
      BY <1>0, <1>4, <2>3 DEF OptDisk
    <3> QED BY <1>0, <1>1, <2>2, <2>3, <2>5, <2>6, <3>1, <3>2 DEF OptDisk, Opts, AnyFile
  <2> QED BY <2>8, <2>9
<1> QED BY <1>8, <1>9, <1>10

-----------------------------------------------------------------------------
(* Writing after the validation. *)

LEMMA ValidPlace ==
    ASSUME SessionType, Validated, Plans, pc = "save_valid", todo # <<>>
    PROVE  /\ Len(todo) \in 1 .. 7 /\ Suffix(Tail(todo), ValidPlan)
           /\ Tail(todo) \in Seq(AnyOp) /\ Len(Tail(todo)) = Len(todo) - 1
           /\ PlainOf(epoch + 1) \in AnyFile /\ BestOf(epoch + 1) \in AnyFile
           /\ Last(vals) \in Values
           /\ Len(todo) = 7 => Head(todo) = Op("open", BestOf(epoch + 1), NoPatience)
           /\ Len(todo) = 6 => Head(todo) = Op("written", BestOf(epoch + 1), NoPatience)
           /\ Len(todo) = 5 => Head(todo) = Op("cleanup", BestOf(epoch + 1), NoPatience)
           /\ Len(todo) = 4 => Head(todo) = Op("log", BestOf(epoch + 1), Patience(0, Last(vals)))
           /\ Len(todo) = 3 => Head(todo) = Op("open", PlainOf(epoch + 1), NoPatience)
           /\ Len(todo) = 2 => Head(todo) = Op("written", PlainOf(epoch + 1), NoPatience)
           /\ Len(todo) = 1 => Head(todo) = Op("cleanup", PlainOf(epoch + 1), NoPatience)
PROOF
<1>1. epoch \in Nat /\ epoch + 1 \in Nat /\ todo \in Seq(AnyOp)
  BY DEF SessionType
<1>2. PlainOf(epoch + 1) \in AnyFile /\ BestOf(epoch + 1) \in AnyFile
  BY <1>1, FileTypes
<1>3. Last(vals) \in Values
  <2>1. vals \in Seq(Values) /\ vals # <<>>
    BY DEF SessionType, Validated
  <2>2. Len(vals) \in DOMAIN vals
    BY <2>1
  <2> QED BY <2>1, <2>2 DEF Last
<1>4. Patience(0, Last(vals)) \in AnyPatience
  BY <1>3, FileTypes
<1>5. /\ ValidPlan \in Seq(AnyOp) /\ Len(ValidPlan) = 7
      /\ ValidPlan[1] = Op("open", BestOf(epoch + 1), NoPatience)
      /\ ValidPlan[2] = Op("written", BestOf(epoch + 1), NoPatience)
      /\ ValidPlan[3] = Op("cleanup", BestOf(epoch + 1), NoPatience)
      /\ ValidPlan[4] = Op("log", BestOf(epoch + 1), Patience(0, Last(vals)))
      /\ ValidPlan[5] = Op("open", PlainOf(epoch + 1), NoPatience)
      /\ ValidPlan[6] = Op("written", PlainOf(epoch + 1), NoPatience)
      /\ ValidPlan[7] = Op("cleanup", PlainOf(epoch + 1), NoPatience)
  BY <1>2, <1>4, ValidPlanOps DEF ValidPlan
<1>6. Suffix(todo, ValidPlan)
  BY DEF Plans
<1>7. /\ Suffix(Tail(todo), ValidPlan) /\ Len(todo) \in 1 .. 7
      /\ Head(todo) = ValidPlan[7 - Len(todo) + 1]
  BY <1>1, <1>5, <1>6, SuffixOps
<1>8. Tail(todo) \in Seq(AnyOp) /\ Len(Tail(todo)) = Len(todo) - 1
  BY <1>1, TailOps
<1>9. /\ Len(todo) = 7 => Head(todo) = ValidPlan[1]
      /\ Len(todo) = 6 => Head(todo) = ValidPlan[2]
      /\ Len(todo) = 5 => Head(todo) = ValidPlan[3]
      /\ Len(todo) = 4 => Head(todo) = ValidPlan[4]
      /\ Len(todo) = 3 => Head(todo) = ValidPlan[5]
      /\ Len(todo) = 2 => Head(todo) = ValidPlan[6]
      /\ Len(todo) = 1 => Head(todo) = ValidPlan[7]
  <2>1. \A k \in 1 .. 7 : Len(todo) = k => 7 - Len(todo) + 1 = 8 - k
    OBVIOUS
  <2>2. \A k \in 1 .. 7 : Len(todo) = k => Head(todo) = ValidPlan[8 - k]
    BY <1>7, <2>1
  <2> QED BY <2>2
<1> QED BY <1>2, <1>3, <1>5, <1>7, <1>8, <1>9

\* The best file and its line, then the plain file once more.
LEMMA ValidWrites ==
    ASSUME SessionInv, Write, pc = "save_valid"
    PROVE  Disk' /\ OptDisk' /\ Counts' /\ Made' /\ Validated'
PROOF
<1> DEFINE e == epoch + 1
           b == BestOf(e)
           p == PlainOf(e)
<1>0. /\ SessionType /\ OneFile /\ Trained /\ Newest /\ Spare /\ SomeModelSurvives /\ OptDisk
      /\ Counts /\ Plans /\ Made /\ Validated
  BY DEF SessionInv, Disk
<1>1. /\ epoch \in Nat /\ saved \in Nat /\ kills \in Nat /\ files \subseteq AnyFile
      /\ vals \in Seq(Values) /\ bestLog \in Seq(Values)
      /\ UNCHANGED <<pc, epoch, model, opt, vals, kills>> /\ e \in Nat
  BY <1>0, WriteFrame DEF SessionType
<1>2. /\ b \in AnyFile /\ b.name = "model" /\ b.epoch = e /\ b.best = TRUE /\ b.trained = e /\ b.whole = TRUE
      /\ p \in AnyFile /\ p.name = "model" /\ p.epoch = e /\ p.best = FALSE /\ p.trained = e /\ p.whole = TRUE
  BY <1>1, FileTypes DEF BestOf, PlainOf, File
<1>3. /\ DiskStep /\ todo # <<>> /\ todo' = Tail(todo) /\ Len(todo') = Len(todo) - 1
      /\ Len(todo) \in 1 .. 7
  BY <1>0, WriteFrame, ValidPlace DEF DiskStep
<1>4. saved = e /\ \A h \in files : h.name = "model" => h.epoch <= e
  <2>1. pc \in Running /\ pc \notin Untrained
    BY DEF Running, Untrained
  <2> QED BY <1>0, <2>1 DEF Counts, Made
<1>5. Len(todo) # 2 => p \in files
  <2>1. pc \in Running /\ saved > 0
    BY <1>1, <1>4 DEF Running
  <2> QED BY <1>0, <1>4, <2>1 DEF Made
<1> DEFINE best(h) == h.name = "model" /\ h.best /\ h.whole
\* What is left to show of a step.
<1>6. ASSUME saved' = saved, files' \subseteq AnyFile, OneFile', Opts' = Opts,
             \A h \in files' : h.name = "model" => h.epoch <= e /\ h.trained = h.epoch,
             \E h \in files' : h.name = "model" /\ ~h.best /\ h.epoch = e,
             Len(todo') # 2 => p \in files',
             Len(todo') = 2 => SomeModelSurvives',
             bestLog' # <<>> => \E h \in files' : best(h),
             NKeep > 1 /\ saved > 1 => PlainOf(saved - 1) \in files',
             Len(todo') \in {4, 5} => b \in files',
             Len(todo') \in 0 .. 3 => bestLog' # <<>> \/ Last(vals) = NaN
      PROVE  Disk' /\ OptDisk' /\ Counts' /\ Made' /\ Validated'
  <2>0. pc' \in Running /\ pc' \notin Untrained /\ pc' = "save_valid" /\ ~Before'
    BY <1>1 DEF Running, Untrained, Before
  <2>a. Len(todo') \in {0, 1, 2, 3, 4, 5, 6}
    BY <1>3
  <2>b. saved' = e
    BY <1>4, <1>6
  <2> HIDE DEF b, p
  <2>1. Trained' /\ Newest'
    BY <1>1, <1>4, <1>6 DEF Trained, Newest
  <2>2. Spare'
    BY <1>1, <1>4, <1>6 DEF Spare
  <2>3. SomeModelSurvives'
    BY <1>2, <1>6 DEF SomeModelSurvives
  <2>4. OptDisk'
    BY <1>0, <1>1, <1>6 DEF OptDisk, Slack
  <2>5. Counts'
    BY <1>0, <1>1, <1>4, <1>6, <2>0, <2>b DEF Counts
  <2>6. Made'
    <3>1. \A f \in files' : f.name = "model" => f.epoch <= saved'
      BY <1>6, <2>b
    <3>2. Len(todo') # 2 => PlainOf(saved') \in files'
      BY <1>6, <2>b DEF p
    <3>0. \A n \in {0, 1, 2, 3, 4, 5, 6} : n # 7
      OBVIOUS
    <3>3. Len(todo') # 7
      BY <2>a, <3>0
    <3>4. Len(todo') \in {4, 5} => BestOf(epoch' + 1) \in files'
      BY <1>1, <1>6 DEF b
    <3>5. epoch' = epoch
      BY <1>1
    <3> QED BY <2>0, <3>1, <3>2, <3>3, <3>4 DEF Made
  <2>7. Validated'
    <3>1. vals' # <<>> /\ (epoch' = 0 => Len(vals') = 1)
      BY <1>0, <1>1 DEF Validated
    <3>0. \A n \in {0, 1, 2, 3, 4, 5, 6} : n <= 3 => n \in 0 .. 3
      OBVIOUS
    <3>2. Len(todo') <= 3 => Len(todo') \in 0 .. 3
      BY <2>a, <3>0
    <3>3. Len(todo') <= 3 => bestLog' # <<>> \/ Last(vals') = NaN
      BY <1>1, <1>6, <3>2
    <3> QED BY <2>0, <3>1, <3>3 DEF Validated
  <2> QED BY <1>6, <2>1, <2>2, <2>3, <2>4, <2>5, <2>6, <2>7 DEF Disk
<1>7. /\ bestLog # <<>> => \E h \in files : best(h)
      /\ NKeep > 1 /\ saved > 1 => PlainOf(saved - 1) \in files
  BY <1>0 DEF Spare
<1>8. PlainOf(saved - 1).epoch = epoch /\ PlainOf(saved - 1).best = FALSE /\ PlainOf(saved - 1).name = "model"
      /\ PlainOf(saved - 1).whole
  BY <1>1, <1>4 DEF PlainOf, File
<1>9. ASSUME NEW g \in {b, Cut(b)}, Replaced(b, g), bestLog' = bestLog, saved' = saved, Len(todo) \in {6, 7},
             Len(todo) = 6 => g = b
      PROVE  Disk' /\ OptDisk' /\ Counts' /\ Made' /\ Validated'
  <2>1. /\ files' \subseteq AnyFile /\ OneFile' /\ g \in files'
        /\ g.name = "model" /\ g.epoch = e /\ g.best = TRUE /\ g.trained = e
        /\ \A h \in files' : h = g \/ (h \in files /\ (h.name # b.name \/ h.epoch # b.epoch \/ h.best # b.best))
        /\ \A h \in files : h.name # b.name \/ h.epoch # b.epoch \/ h.best # b.best => h \in files'
    BY <1>0, <1>1, <1>2, <1>9, ReplaceFacts
  <2> HIDE DEF b, p
  <2>2. Opts' = Opts
    BY <1>2, <2>1 DEF Opts
  <2>a. p \in files'
    <3>1. p \in files
      BY <1>5, <1>9
    <3> QED BY <1>2, <2>1, <3>1
  <2>b. ASSUME NKeep > 1, saved > 1 PROVE PlainOf(saved - 1) \in files'
    <3>1. PlainOf(saved - 1) \in files
      BY <1>7, <2>b
    <3> QED BY <1>2, <1>8, <2>1, <3>1
  <2>4. bestLog' # <<>> => \E h \in files' : best(h)
    <3>1. CASE Len(todo) = 7
      <4>1. pc \in Running
        BY DEF Running
      <4>2. \A h \in files : h.name = "model" /\ h.best => h.epoch <= epoch
        BY <1>0, <3>1, <4>1 DEF Made
      <4>3. \A h \in files : best(h) => h \in files'
        BY <1>1, <1>2, <2>1, <4>2 DEF AnyFile
      <4> QED BY <1>7, <1>9, <4>3
    <3>2. CASE Len(todo) = 6
      BY <1>2, <1>9, <2>1, <3>2
    <3> QED BY <1>9, <3>1, <3>2
  <2>5. \A h \in files' : h.name = "model" => h.epoch <= e /\ h.trained = h.epoch
    BY <1>0, <1>1, <1>4, <2>1 DEF Trained
  <2>6. Len(todo') \in {5, 6} /\ (Len(todo') = 5 => b \in files')
    BY <1>3, <1>9, <2>1
  <2>7. /\ Len(todo') # 2 /\ Len(todo') \notin 0 .. 3
        /\ Len(todo') \in {4, 5} => b \in files'
    BY <2>6
  <2>8. \E h \in files' : h.name = "model" /\ ~h.best /\ h.epoch = e
    BY <1>2, <2>a
  <2> QED BY <1>6, <1>9, <2>1, <2>2, <2>a, <2>b, <2>4, <2>5, <2>7, <2>8
<1>10. CASE Len(todo) = 7
  <2>1. Head(todo) = Op("open", b, NoPatience)
    BY <1>0, <1>3, <1>10, ValidPlace
  <2> QED BY <1>3, <1>9, <1>10, <2>1, OneDiskStep, SavedBy
<1>11. CASE Len(todo) = 6
  <2>1. Head(todo) = Op("written", b, NoPatience)
    BY <1>0, <1>3, <1>11, ValidPlace
  <2>2. saved' = saved
    BY <1>1, <1>2, <1>4, <2>1, SavedBy
  <2> QED BY <1>3, <1>9, <1>11, <2>1, <2>2, OneDiskStep
<1>12. CASE Len(todo) = 5
  <2>1. Head(todo) = Op("cleanup", b, NoPatience)
    BY <1>0, <1>3, <1>12, ValidPlace
  <2>2. files' = (files \ Family(b.name, b.best)) \cup Kept(b) /\ bestLog' = bestLog /\ saved' = saved
    BY <1>3, <2>1, OneDiskStep, SavedBy
  <2>3. b \in files
    BY <1>0, <1>12 DEF Made, Running
  <2>4. /\ files' \subseteq files /\ b \in files'
        /\ \A h \in files : h.name # "model" \/ ~h.best => h \in files'
    BY <1>1, <1>2, <1>4, <2>2, <2>3, CleanFacts DEF AnyFile
  <2> HIDE DEF b, p
  <2>5. Opts' = Opts /\ OneFile' /\ files' \subseteq AnyFile
    BY <1>0, <1>1, <2>4 DEF Opts, OneFile
  <2>6. p \in files' /\ (NKeep > 1 /\ saved > 1 => PlainOf(saved - 1) \in files')
    BY <1>2, <1>5, <1>7, <1>8, <1>12, <2>4
  <2>7. \A h \in files' : h.name = "model" => h.epoch <= e /\ h.trained = h.epoch
    BY <1>0, <1>4, <2>4 DEF Trained
  <2>8. Len(todo') = 4
    BY <1>3, <1>12
  <2> QED BY <1>2, <1>6, <2>2, <2>4, <2>5, <2>6, <2>7, <2>8
<1>13. CASE Len(todo) = 4
  <2>1. Head(todo) = Op("log", b, Patience(0, Last(vals)))
    BY <1>0, <1>3, <1>13, ValidPlace
  <2>2. bestLog' = Append(bestLog, Last(vals)) /\ files' = files /\ saved' = saved
    BY <1>3, <2>1, OneDiskStep, SavedBy DEF Patience
  <2>3. bestLog' # <<>>
    <3>1. Last(vals) \in Values
      BY <1>0, <1>3, ValidPlace
    <3>2. Len(bestLog') = Len(bestLog) + 1 /\ Len(bestLog) \in Nat
      BY <1>1, <2>2, <3>1
    <3> QED BY <3>2
  <2>4. b \in files
    BY <1>0, <1>13 DEF Made, Running
  <2>5. Len(todo') = 3
    BY <1>3, <1>13
  <2> HIDE DEF b, p
  <2>6. p \in files /\ OneFile' /\ Opts' = Opts
    BY <1>0, <1>5, <1>13, <2>2 DEF OneFile, Opts
  <2>7. \A h \in files' : h.name = "model" => h.epoch <= e /\ h.trained = h.epoch
    BY <1>0, <1>4, <2>2 DEF Trained
  <2> QED BY <1>1, <1>2, <1>6, <1>7, <2>2, <2>3, <2>4, <2>5, <2>6, <2>7
<1>14. ASSUME NEW g \in {p, Cut(p)}, Replaced(p, g), bestLog' = bestLog, saved' = saved, Len(todo) \in {2, 3},
              Len(todo) = 2 => g = p
       PROVE  Disk' /\ OptDisk' /\ Counts' /\ Made' /\ Validated'
  <2>1. /\ files' \subseteq AnyFile /\ OneFile' /\ g \in files'
        /\ g.name = "model" /\ g.epoch = e /\ g.best = FALSE /\ g.trained = e
        /\ \A h \in files' : h = g \/ (h \in files /\ (h.name # p.name \/ h.epoch # p.epoch \/ h.best # p.best))
        /\ \A h \in files : h.name # p.name \/ h.epoch # p.epoch \/ h.best # p.best => h \in files'
    BY <1>0, <1>1, <1>2, <1>14, ReplaceFacts
  <2> HIDE DEF b, p
  <2>2. Opts' = Opts
    BY <1>2, <2>1 DEF Opts
  <2>3. NKeep > 1 /\ saved > 1 => PlainOf(saved - 1) \in files'
    BY <1>1, <1>2, <1>7, <1>8, <2>1
  <2>4. bestLog' # <<>> => \E h \in files' : best(h)
    <3>1. \A h \in files : best(h) => h \in files'
      BY <1>1, <1>2, <2>1
    <3> QED BY <1>7, <1>14, <3>1
  <2>5. \A h \in files' : h.name = "model" => h.epoch <= e /\ h.trained = h.epoch
    BY <1>0, <1>1, <1>4, <2>1 DEF Trained
  <2>6. Len(todo') \in {1, 2} /\ (Len(todo') # 2 => p \in files')
    BY <1>3, <1>14, <2>1
  <2>7. bestLog' # <<>> \/ Last(vals) = NaN
    <3>1. \A n \in {2, 3} : n <= 3
      OBVIOUS
    <3>2. Len(todo) <= 3
      BY <1>14, <3>1
    <3> QED BY <1>0, <1>14, <3>2 DEF Validated
  <2>8. SomeModelSurvives'
    <3>1. CASE bestLog # <<>>
      BY <1>14, <2>4, <3>1 DEF SomeModelSurvives
    <3>2. CASE NKeep > 1 /\ saved > 1
      BY <1>8, <2>3, <3>2 DEF SomeModelSurvives
    <3>3. CASE bestLog = <<>> /\ NKeep = 1
      BY <1>14, <3>3 DEF SomeModelSurvives
    <3>4. CASE bestLog = <<>> /\ saved = 1
      <4>1. epoch = 0 /\ Len(vals) = 1 /\ Last(vals) = NaN
        BY <1>0, <1>1, <1>4, <1>14, <2>7, <3>4 DEF Validated
      <4>2. vals = <<NaN>>
        BY <1>1, <4>1 DEF Last
      <4> QED BY <1>1, <1>14, <3>4, <4>2 DEF SomeModelSurvives
    <3>5. (NKeep > 1 /\ saved > 1) \/ NKeep = 1 \/ saved = 1
      BY <1>1, <1>4, CheckpointAssumption
    <3> QED BY <3>1, <3>2, <3>3, <3>4, <3>5
  <2>9. Len(todo') \notin {4, 5} /\ \E h \in files' : h.name = "model" /\ ~h.best /\ h.epoch = e
    BY <1>2, <2>1, <2>6
  <2> QED BY <1>6, <1>14, <2>1, <2>2, <2>3, <2>4, <2>5, <2>6, <2>7, <2>8, <2>9
<1>15. CASE Len(todo) = 3
  <2>1. Head(todo) = Op("open", p, NoPatience)
    BY <1>0, <1>3, <1>15, ValidPlace
  <2> QED BY <1>3, <1>14, <1>15, <2>1, OneDiskStep, SavedBy
<1>16. CASE Len(todo) = 2
  <2>1. Head(todo) = Op("written", p, NoPatience)
    BY <1>0, <1>3, <1>16, ValidPlace
  <2>2. saved' = saved
    BY <1>1, <1>2, <1>4, <2>1, SavedBy
  <2> QED BY <1>3, <1>14, <1>16, <2>1, <2>2, OneDiskStep
<1>17. CASE Len(todo) = 1
  <2>1. Head(todo) = Op("cleanup", p, NoPatience)
    BY <1>0, <1>3, <1>17, ValidPlace
  <2>2. files' = (files \ Family(p.name, p.best)) \cup Kept(p) /\ bestLog' = bestLog /\ saved' = saved
    BY <1>3, <2>1, OneDiskStep, SavedBy
  <2>3. p \in files
    BY <1>5, <1>17
  <2>4. /\ files' \subseteq files /\ p \in files'
        /\ \A h \in files : h.name # "model" \/ h.best => h \in files'
    BY <1>1, <1>2, <1>4, <2>2, <2>3, CleanFacts DEF AnyFile
  <2>5. NKeep > 1 /\ saved > 1 => PlainOf(saved - 1) \in files'
    <3> DEFINE g == PlainOf(saved - 1)
    <3> SUFFICES ASSUME NKeep > 1, saved > 1 PROVE g \in files'
      OBVIOUS
    <3>1. g \in files /\ g.epoch = epoch /\ g.epoch < p.epoch
      BY <1>1, <1>2, <1>7, <1>8
    <3>2. ASSUME NEW h \in files, h.name = p.name, ~h.best, h.epoch > g.epoch PROVE h = p
      <4>1. h.epoch <= e /\ h.epoch \in Nat
        BY <1>1, <1>2, <1>4, <3>2 DEF AnyFile
      <4>2. h.epoch = e /\ h.best = FALSE
        BY <1>1, <3>1, <3>2, <4>1 DEF AnyFile
      <4> QED BY <1>0, <1>2, <2>3, <3>2, <4>2 DEF OneFile
    <3> HIDE DEF g
    <3> QED BY <1>1, <1>2, <2>2, <2>3, <3>1, <3>2, CleanFacts
  <2> HIDE DEF b, p
  <2>6. Opts' = Opts /\ OneFile' /\ files' \subseteq AnyFile
    BY <1>0, <1>1, <2>4 DEF Opts, OneFile
  <2>7. \A h \in files' : h.name = "model" => h.epoch <= e /\ h.trained = h.epoch
    BY <1>0, <1>4, <2>4 DEF Trained
  <2>8. Len(todo') = 0
    BY <1>3, <1>17
  <2>9. bestLog' # <<>> \/ Last(vals) = NaN
    <3>1. Len(todo) <= 3
      BY <1>17
    <3> QED BY <1>0, <2>2, <3>1 DEF Validated
  <2>10. bestLog' # <<>> => \E h \in files' : best(h)
    BY <1>7, <2>2, <2>4
  <2> QED BY <1>2, <1>6, <2>2, <2>4, <2>5, <2>6, <2>7, <2>8, <2>9, <2>10
<1> QED BY <1>3, <1>10, <1>11, <1>12, <1>13, <1>15, <1>16, <1>17

-----------------------------------------------------------------------------
(* Every write of the process. *)

LEMMA WriteTypes ==
    ASSUME SessionType, Write,
           Head(todo).what \in {"truncate", "patience"} \/ Head(todo).file \in AnyFile
    PROVE  SessionType'
PROOF
<1> DEFINE op == Head(todo)
<1>1. /\ DiskStep /\ UNCHANGED <<pc, epoch, model, opt, vals, kills>>
      /\ todo # <<>> /\ todo \in Seq(AnyOp) /\ todo' = Tail(todo)
  BY WriteFrame DEF SessionType, DiskStep
<1>2. op \in AnyOp /\ todo' \in Seq(AnyOp)
  BY <1>1, TailOps
<1>3. op.line \in AnyPatience /\ op.line.metric \in Values
  BY <1>2 DEF AnyOp, AnyPatience
<1>4. saved' \in Nat
  <2>1. saved' = saved \/ (saved' = op.file.epoch /\ op.file.name = "model" /\ op.what = "written")
    BY DEF Write
  <2>2. op.file \in AnyFile => op.file.epoch \in Nat
    BY DEF AnyFile
  <2> HIDE DEF op
  <2> QED BY <2>1, <2>2 DEF SessionType, op
<1>5. bestLog' \in Seq(Values) /\ patience' \in AnyPatience
  <2>1. bestLog' = bestLog \/ bestLog' = Append(bestLog, op.line.metric)
    BY <1>1 DEF DiskStep
  <2>2. patience' = patience \/ patience' = CutPatience \/ patience' = op.line
    BY <1>1 DEF DiskStep
  <2>3. \A s \in Seq(Values), m \in Values : Append(s, m) \in Seq(Values)
    OBVIOUS
  <2>4. bestLog \in Seq(Values) /\ patience \in AnyPatience
    BY DEF SessionType
  <2> HIDE DEF op
  <2>5. bestLog' \in Seq(Values)
    BY <1>3, <2>1, <2>3, <2>4
  <2>6. patience' \in AnyPatience
    BY <1>3, <2>2, <2>4, FileTypes
  <2> QED BY <2>5, <2>6
<1>6. files' \subseteq AnyFile
  <2>1. CASE op.what \in {"truncate", "patience"}
    BY <1>1, <2>1 DEF DiskStep, SessionType
  <2>2. CASE op.file \in AnyFile
    <3>1. Cut(op.file) \in AnyFile
      BY <2>2, FileTypes
    <3>2. \A g \in files' : g \in files \/ g = Cut(op.file) \/ g = op.file
      BY <1>1 DEF DiskStep, Cut, Others, Kept, Family
    <3> HIDE DEF op
    <3> QED BY <2>2, <3>1, <3>2 DEF SessionType
  <2> QED BY <2>1, <2>2
<1> HIDE DEF op
<1> QED BY <1>1, <1>2, <1>4, <1>5, <1>6 DEF SessionType

\* Writing .patience touches no checkpoint.
LEMMA PatienceWrites ==
    ASSUME SessionInv, Write, pc \in {"checked", "break"}
    PROVE  /\ Head(todo).what \in {"truncate", "patience"}
           /\ Disk' /\ OptDisk' /\ Plans' /\ Counts' /\ Made' /\ Validated'
PROOF
<1>0. /\ SessionType /\ OneFile /\ Trained /\ Newest /\ Spare /\ SomeModelSurvives /\ OptDisk
      /\ Counts /\ Plans /\ Made /\ Validated
  BY DEF SessionInv, Disk
<1>1. /\ DiskStep /\ UNCHANGED <<pc, epoch, model, opt, vals, kills>>
      /\ todo # <<>> /\ todo \in Seq(AnyOp) /\ todo' = Tail(todo)
  BY <1>0, WriteFrame DEF SessionType, DiskStep
<1>2. /\ Head(todo) = todo[1] /\ 1 \in DOMAIN todo
      /\ DOMAIN todo' = 1 .. Len(todo) - 1 /\ DOMAIN todo = 1 .. Len(todo) /\ Len(todo) \in Nat
      /\ \A i \in DOMAIN todo' : todo'[i] = todo[i + 1]
  BY <1>1, TailOps
<1>3. \A i \in DOMAIN todo : todo[i].what \in {"truncate", "patience"}
  BY <1>0 DEF Plans
<1>4. Head(todo).what \in {"truncate", "patience"}
  BY <1>2, <1>3
<1>5. files' = files /\ bestLog' = bestLog /\ saved' = saved
  <2>1. files' = files /\ bestLog' = bestLog
    BY <1>1, <1>4 DEF DiskStep
  <2>2. saved' = saved
    BY <1>4 DEF Write
  <2> QED BY <2>1, <2>2
<1>6. Plans'
  <2>1. \A i \in DOMAIN todo' : i + 1 \in DOMAIN todo
    BY <1>2
  <2>2. \A i \in DOMAIN todo' : todo'[i].what \in {"truncate", "patience"}
    BY <1>2, <1>3, <2>1
  <2> QED BY <1>1, <2>2 DEF Plans
<1>7. Disk'
  BY <1>0, <1>1, <1>5 DEF Disk, OneFile, Trained, Newest, Spare, SomeModelSurvives
<1>8. OptDisk'
  BY <1>0, <1>1, <1>5 DEF OptDisk, Opts, Slack
<1>9. Counts' /\ Validated'
  BY <1>0, <1>1, <1>5 DEF Counts, Validated, Before, Untrained
<1>10. Made'
  BY <1>0, <1>1, <1>5 DEF Made, Before, Untrained
<1> QED BY <1>4, <1>6, <1>7, <1>8, <1>9, <1>10

LEMMA WriteStep ==
    ASSUME SessionInv, Write
    PROVE  SessionInv'
PROOF
<1>0. SessionType /\ Counts /\ Plans /\ Validated
  BY DEF SessionInv
<1>1. /\ DiskStep /\ UNCHANGED <<pc, epoch, model, opt, vals, kills>>
      /\ todo # <<>> /\ todo' = Tail(todo)
  BY WriteFrame DEF DiskStep
<1>2. pc \in {"save_train", "save_valid", "checked", "break"}
  BY <1>0, <1>1 DEF Plans
<1>6. Jobs'
  BY DEF Write, Jobs, scheduler, SessionInv
<1>3. CASE pc = "save_train"
  <2>1. Len(todo) \in 1 .. 6 /\ Suffix(todo', TrainPlan) /\ PlainOf(epoch + 1) \in AnyFile /\ OptOf \in AnyFile
    BY <1>0, <1>1, <1>3, TrainPlace
  <2>2. Len(todo) \in {1, 2, 3} \/ Len(todo) \in {4, 5, 6}
    BY <2>1
  <2>3. Disk' /\ OptDisk' /\ Counts' /\ Made'
    BY <1>3, <2>2, TrainWritesModel, TrainWritesOpt
  <2>4. Head(todo).file \in AnyFile
    <3>1. \E w : Head(todo) = Op(w, PlainOf(epoch + 1), NoPatience) \/ Head(todo) = Op(w, OptOf, NoPatience)
      BY <1>0, <1>1, <1>3, <2>2, TrainPlace
    <3> QED BY <2>1, <3>1 DEF Op
  <2>5. SessionType'
    BY <1>0, <2>4, WriteTypes
  <2>6. TrainPlan' = TrainPlan
    BY <1>1 DEF TrainPlan, WriteCp
  <2>7. Plans'
    BY <1>1, <1>3, <2>1, <2>6 DEF Plans
  <2>8. Validated'
    BY <1>0, <1>1, <1>3 DEF Validated, Before
  <2> QED BY <1>6, <2>3, <2>5, <2>7, <2>8 DEF SessionInv
<1>4. CASE pc = "save_valid"
  <2>1. /\ Len(todo) \in 1 .. 7 /\ Suffix(todo', ValidPlan)
        /\ PlainOf(epoch + 1) \in AnyFile /\ BestOf(epoch + 1) \in AnyFile
    BY <1>0, <1>1, <1>4, ValidPlace
  <2>3. Disk' /\ OptDisk' /\ Counts' /\ Made' /\ Validated'
    BY <1>4, ValidWrites
  <2>4. Head(todo).file \in AnyFile
    <3>1. \E w, l : Head(todo) = Op(w, PlainOf(epoch + 1), l) \/ Head(todo) = Op(w, BestOf(epoch + 1), l)
      <4>1. Len(todo) \in {1, 2, 3, 4, 5, 6, 7}
        BY <2>1
      <4> QED BY <1>0, <1>1, <1>4, <4>1, ValidPlace
    <3> QED BY <2>1, <3>1 DEF Op
  <2>5. SessionType'
    BY <1>0, <2>4, WriteTypes
  <2>6. ValidPlan' = ValidPlan
    BY <1>1 DEF ValidPlan, Last, PlainOf, BestOf
  <2>7. Plans'
    BY <1>1, <1>4, <2>1, <2>6 DEF Plans
  <2> QED BY <1>6, <2>3, <2>5, <2>7 DEF SessionInv
<1>5. CASE pc \in {"checked", "break"}
  BY <1>0, <1>5, <1>6, PatienceWrites, WriteTypes DEF SessionInv
<1> QED BY <1>2, <1>3, <1>4, <1>5

-----------------------------------------------------------------------------
(* Reading the directory. *)

LEMMA LatestFile ==
    ASSUME NEW pool \in SUBSET AnyFile, NEW t \in pool, \A g \in pool : g.epoch <= t.epoch
    PROVE  /\ Latest(pool) \in pool /\ Latest(pool).epoch = t.epoch
           /\ (\E f \in pool : f.epoch = t.epoch /\ ~f.best) => ~Latest(pool).best
PROOF
<1> DEFINE top == {f \in pool : \A g \in pool : g.epoch <= f.epoch}
<1>1. t \in top /\ pool # {}
  OBVIOUS
<1>2. \A f \in top : f.epoch = t.epoch
  BY DEF AnyFile
<1>3. \A f \in pool : f.epoch = t.epoch => f \in top
  OBVIOUS
<1>4. Latest(pool) = IF \E f \in top : ~f.best THEN CHOOSE f \in top : ~f.best ELSE CHOOSE f \in top : TRUE
  BY <1>1 DEF Latest
<1>5. Latest(pool) \in top /\ ((\E f \in top : ~f.best) => ~Latest(pool).best)
  <2> HIDE DEF top
  <2>1. CASE \E f \in top : ~f.best
    <3>1. (CHOOSE f \in top : ~f.best) \in top /\ ~(CHOOSE f \in top : ~f.best).best
      BY <2>1
    <3> QED BY <1>4, <2>1, <3>1
  <2>2. CASE ~ \E f \in top : ~f.best
    <3>1. (CHOOSE f \in top : TRUE) \in top
      BY <1>1
    <3> QED BY <1>4, <2>2, <3>1
  <2> QED BY <2>1, <2>2
<1> QED BY <1>2, <1>3, <1>5

\* load_model either fails or finds the epoch that was saved last.
LEMMA ModelRead ==
    ASSUME SessionType, Disk, ReadLatest("model").whole
    PROVE  LET r == ReadLatest("model") IN
           /\ r.epoch = saved /\ r.trained = saved
           /\ \A f \in files : f.name = "model" => f.epoch <= saved
           /\ saved > 0 => PlainOf(saved) \in files
PROOF
<1> DEFINE pool == AllFiles("model")
           r == ReadLatest("model")
<1>1. /\ files \subseteq AnyFile /\ saved \in Nat /\ OneFile /\ Trained /\ Newest
      /\ r = Latest(pool)
  BY DEF SessionType, Disk, ReadLatest
<1>2. \A f : f \in pool <=> f \in files /\ f.name = "model"
  BY <1>1 DEF AllFiles, Family, AnyFile
<1>3. pool \in SUBSET AnyFile
  BY <1>1, <1>2
<1> HIDE DEF pool
<1>4. ASSUME NEW c \in pool, c.epoch > saved PROVE FALSE
  <2>1. c.epoch = saved + 1 /\ ~c.best /\ ~c.whole
    BY <1>1, <1>2, <1>3, <1>4 DEF Newest, AnyFile
  <2>2. \A g \in pool : g.epoch <= c.epoch
    BY <1>1, <1>2, <1>3, <2>1 DEF Newest, AnyFile
  <2>3. r \in pool /\ r.epoch = c.epoch /\ ~r.best
    BY <1>1, <1>3, <1>4, <2>1, <2>2, LatestFile
  <2>4. r = c
    BY <1>1, <1>2, <1>3, <1>4, <2>1, <2>3 DEF OneFile, AnyFile
  <2> QED BY <2>1, <2>4
<1>5. \A f \in files : f.name = "model" => f.epoch <= saved
  BY <1>1, <1>2, <1>3, <1>4 DEF AnyFile
<1>6. CASE saved > 0
  <2>1. PICK t \in files : t.name = "model" /\ ~t.best /\ t.epoch = saved
    BY <1>1, <1>6 DEF Newest
  <2>2. r \in pool /\ r.epoch = saved /\ ~r.best
    BY <1>1, <1>2, <1>3, <1>5, <2>1, LatestFile
  <2>3. r \in AnyFile /\ r.name = "model" /\ r.trained = saved /\ r.whole = TRUE /\ r.best = FALSE
    BY <1>1, <1>2, <2>2 DEF Trained, AnyFile
  <2>4. r = PlainOf(saved)
    BY <2>2, <2>3 DEF PlainOf, File, AnyFile
  <2> QED BY <1>2, <1>5, <2>2, <2>3, <2>4
<1>7. CASE saved = 0 /\ pool # {}
  <2>1. PICK t \in pool : TRUE
    BY <1>7
  <2>2. \A g \in pool : g.epoch = 0
    BY <1>2, <1>3, <1>5, <1>7 DEF AnyFile
  <2>3. r \in pool /\ r.epoch = 0
    BY <1>1, <1>3, <2>1, <2>2, LatestFile
  <2> QED BY <1>1, <1>2, <1>5, <1>7, <2>3 DEF Trained
<1>8. CASE saved = 0 /\ pool = {}
  <2>1. r = NoFile
    BY <1>1, <1>8 DEF Latest
  <2> QED BY <1>5, <1>8, <2>1 DEF NoFile, File
<1> QED BY <1>1, <1>6, <1>7, <1>8

\* load_opt finds an optimizer that lags by the kills, or none.
LEMMA OptRead ==
    ASSUME SessionType, Disk, OptDisk, Slack = 0
    PROVE  LET r == ReadLatest("opt") IN
           r.trained \in Nat /\ r.trained <= saved /\ saved <= r.trained + kills
PROOF
<1> DEFINE r == ReadLatest("opt")
<1>1. /\ files \subseteq AnyFile /\ saved \in Nat /\ kills \in Nat /\ OneFile /\ r = Latest(AllFiles("opt"))
  BY DEF SessionType, Disk, ReadLatest
<1>2. AllFiles("opt") = Opts /\ Opts \in SUBSET AnyFile
  BY <1>1 DEF AllFiles, Family, Opts, AnyFile
<1>3. CASE Opts = {} /\ saved <= kills + Slack
  <2>1. r = NoFile
    BY <1>1, <1>2, <1>3 DEF Latest
  <2> QED BY <1>1, <1>3, <2>1 DEF NoFile, File
<1>4. ASSUME NEW t \in Opts, \A g \in Opts : g.epoch <= t.epoch, saved <= t.trained + kills + Slack
      PROVE  r.trained \in Nat /\ r.trained <= saved /\ saved <= r.trained + kills
  <2>1. r \in Opts /\ r.epoch = t.epoch
    BY <1>1, <1>2, <1>4, LatestFile
  <2>2. \A f \in Opts : ~f.best /\ f.epoch <= saved /\ f.trained <= f.epoch /\ f.name = "opt" /\ f \in files
    BY DEF OptDisk, Opts
  <2>3. r = t
    BY <1>1, <1>2, <1>4, <2>1, <2>2 DEF OneFile, AnyFile
  <2>4. t.trained \in Nat /\ t.epoch \in Nat
    BY <1>2, <1>4 DEF AnyFile
  <2> QED BY <1>1, <1>4, <2>1, <2>2, <2>3, <2>4
<1> QED BY <1>3, <1>4 DEF OptDisk

-----------------------------------------------------------------------------
(* The other steps. *)

proved == <<pc, epoch, model, opt, vals, saved, kills, disk, todo>>

\* The steps of the loader and of the batch script.
LEMMA Unwatched ==
    ASSUME SessionInv, UNCHANGED proved, Jobs'
    PROVE  SessionInv'
PROOF
<1>1. UNCHANGED <<pc, epoch, model, opt, vals, saved, kills, files, bestLog, patience, todo>>
  BY DEF proved, disk
<1>2. SessionType'
  BY <1>1 DEF SessionInv, SessionType
<1>3. Disk' /\ OptDisk'
  BY <1>1 DEF SessionInv, Disk, OneFile, Trained, Newest, Spare, SomeModelSurvives, OptDisk, Opts, Slack
<1>4. TrainPlan' = TrainPlan /\ ValidPlan' = ValidPlan
  BY <1>1 DEF TrainPlan, WriteCp, ValidPlan, Last
<1>5. Plans' /\ Counts' /\ Made' /\ Validated'
  BY <1>1, <1>4 DEF SessionInv, Plans, Counts, Made, Validated, Before, Opts, Last
<1> QED BY <1>2, <1>3, <1>5 DEF SessionInv

\* A step that leaves the directory alone keeps what holds of it.
LEMMA DiskKept ==
    ASSUME SessionType, Disk, OptDisk, UNCHANGED <<disk, vals, saved>>,
           Slack' = 0, kills' = kills + 1 \/ (kills' = kills /\ Slack = 0)
    PROVE  Disk' /\ OptDisk'
PROOF
<1>1. UNCHANGED <<vals, saved, files, bestLog, patience>>
  BY DEF disk
<1>2. Disk'
  BY <1>1 DEF Disk, OneFile, Trained, Newest, Spare, SomeModelSurvives
<1>3. OptDisk'
  <2>1. Opts' = Opts
    BY <1>1 DEF Opts
  <2>2. kills \in Nat /\ kills' \in Nat /\ kills <= kills' /\ saved \in Nat /\ (Slack = 0 \/ Slack = 1)
    BY DEF SessionType, Slack
  <2>3. \A f \in Opts : f.epoch \in Nat /\ f.trained \in Nat
    BY DEF SessionType, Opts, AnyFile
  <2>4. \A f \in Opts' : ~f.best /\ f.epoch <= saved' /\ f.trained <= f.epoch /\ f.epoch <= f.trained + kills'
    BY <1>1, <2>1, <2>2, <2>3 DEF OptDisk
  <2>5. \A n \in Nat : saved <= n + kills + Slack => saved' <= n + kills' + Slack'
    <3>1. CASE kills' = kills /\ Slack = 0
      BY <1>1, <2>2, <3>1
    <3>2. CASE kills' = kills + 1 /\ Slack = 0
      BY <1>1, <2>2, <3>2
    <3>3. CASE kills' = kills + 1 /\ Slack = 1
      BY <1>1, <2>2, <3>3
    <3> QED BY <2>2, <3>1, <3>2, <3>3
  <2>6. CASE Opts = {} /\ saved <= kills + Slack
    <3>1. saved' <= kills' + Slack'
      <4>1. CASE kills' = kills /\ Slack = 0
        BY <1>1, <2>2, <2>6, <4>1
      <4>2. CASE kills' = kills + 1 /\ Slack = 0
        BY <1>1, <2>2, <2>6, <4>2
      <4>3. CASE kills' = kills + 1 /\ Slack = 1
        BY <1>1, <2>2, <2>6, <4>3
      <4> QED BY <2>2, <4>1, <4>2, <4>3
    <3> QED BY <2>1, <2>4, <2>6, <3>1 DEF OptDisk
  <2>7. ASSUME NEW f \in Opts, \A g \in Opts : g.epoch <= f.epoch, saved <= f.trained + kills + Slack
        PROVE  OptDisk'
    <3>1. saved' <= f.trained + kills' + Slack'
      BY <2>3, <2>5, <2>7
    <3> QED BY <2>1, <2>4, <2>7, <3>1 DEF OptDisk
  <2> QED BY <2>6, <2>7 DEF OptDisk
<1> QED BY <1>2, <1>3

\* However a process ends, what it leaves is a directory to go on with.
LEMMA Gone ==
    ASSUME SessionInv, NEW how, Exit(how), UNCHANGED <<vals, saved, disk>>,
           kills' = kills + 1 \/ (kills' = kills /\ Slack = 0)
    PROVE  SessionInv'
PROOF
<1>1. /\ pc' = "off" /\ todo' = <<>> /\ epoch' = 0 /\ model' = 0 /\ opt' = 0
      /\ UNCHANGED <<vals, saved, files, bestLog, patience>>
  BY DEF Exit, disk
<1>2. SessionType /\ Disk /\ OptDisk
  BY DEF SessionInv
<1>3. Slack' = 0
  BY <1>1 DEF Slack
<1>4. kills' \in Nat
  BY <1>2 DEF SessionType
<1>5. Disk' /\ OptDisk'
  BY <1>2, <1>3, DiskKept
<1>6. SessionType'
  BY <1>1, <1>2, <1>4 DEF SessionType, Loaded
<1>7. Plans' /\ Counts' /\ Made' /\ Validated' /\ Jobs'
  BY <1>1 DEF Plans, Counts, Made, Validated, Before, Running, Untrained, Jobs
<1> QED BY <1>5, <1>6, <1>7 DEF SessionInv

LEMMA Raised ==
    ASSUME SessionInv, Raise, Slack = 0
    PROVE  SessionInv'
PROOF BY Gone DEF Raise

\* The start of a process up to the first epoch.
LEMMA StartStep ==
    ASSUME SessionInv, Boot \/ InstallHandler \/ LoadModel \/ LoadOpt
    PROVE  SessionInv'
PROOF
<1>0. /\ SessionType /\ Disk /\ OptDisk /\ Counts /\ Plans /\ Made /\ Validated /\ Jobs
  BY DEF SessionInv
<1>1. CASE Boot
  <2>1. pc = "off" /\ pc' = "boot" /\ job' = "running" /\ UNCHANGED <<epoch, model, opt, vals, saved, kills, disk, todo>>
    BY <1>0, <1>1 DEF Boot, Jobs, progress, diskVars
  <2>2. todo = <<>> /\ Slack = 0 /\ Slack' = 0
    BY <1>0, <2>1 DEF Plans, Slack
  <2>3. Disk' /\ OptDisk'
    BY <1>0, <2>1, <2>2, DiskKept DEF SessionType
  <2>4. SessionType'
    BY <1>0, <2>1 DEF SessionType, disk, Loaded
  <2>5. Plans' /\ Counts' /\ Made' /\ Validated' /\ Jobs'
    BY <2>1, <2>2 DEF Plans, Counts, Made, Validated, Before, Running, Untrained, Jobs
  <2> QED BY <2>3, <2>4, <2>5 DEF SessionInv
<1>2. CASE InstallHandler
  <2>1. pc = "boot" /\ pc' = "load_model" /\ job' = job /\ UNCHANGED <<epoch, model, opt, vals, saved, kills, disk, todo>>
    BY <1>2 DEF InstallHandler, progress, diskVars, scheduler
  <2>2. todo = <<>> /\ Slack = 0 /\ Slack' = 0
    BY <1>0, <2>1 DEF Plans, Slack
  <2>3. Disk' /\ OptDisk'
    BY <1>0, <2>1, <2>2, DiskKept DEF SessionType
  <2>4. SessionType'
    BY <1>0, <2>1 DEF SessionType, disk, Loaded
  <2>5. Plans' /\ Counts' /\ Made' /\ Validated' /\ Jobs'
    BY <1>0, <2>1, <2>2 DEF Plans, Counts, Made, Validated, Before, Running, Untrained, Jobs
  <2> QED BY <2>3, <2>4, <2>5 DEF SessionInv
<1>3. CASE LoadModel
  <2>1. pc = "load_model" /\ todo = <<>> /\ Slack = 0 /\ job = "running"
    BY <1>0, <1>3 DEF LoadModel, Plans, Slack, Jobs
  <2> DEFINE r == ReadLatest("model")
  <2>2. CASE ~r.whole
    BY <1>3, <2>1, <2>2, Raised DEF LoadModel, LoadModelCp
  <2>3. CASE r.whole
    <3>1. /\ r.epoch = saved /\ r.trained = saved
          /\ \A f \in files : f.name = "model" => f.epoch <= saved
          /\ saved > 0 => PlainOf(saved) \in files
      BY <1>0, <2>3, ModelRead
    <3>2. /\ pc' = "load_opt" /\ job' = job /\ epoch' = saved /\ model' = saved
          /\ UNCHANGED <<opt, vals, saved, kills, disk, todo>>
      BY <1>3, <2>3, <3>1 DEF LoadModel, LoadModelCp, diskVars, scheduler
    <3> HIDE DEF r
    <3>3. UNCHANGED <<files, bestLog, patience>> /\ pc' \in Running /\ pc' \in Untrained /\ Slack' = 0
      BY <3>2 DEF disk, Running, Untrained, Slack
    <3>4. Disk' /\ OptDisk'
      BY <1>0, <2>1, <3>2, <3>3, DiskKept DEF SessionType
    <3>5. SessionType'
      BY <1>0, <3>2, <3>3 DEF SessionType, Loaded
    <3>6. Plans' /\ Counts' /\ Made' /\ Jobs'
      BY <2>1, <3>1, <3>2, <3>3 DEF Plans, Counts, Made, Before, Jobs
    <3>7. Validated'
      BY <1>0, <3>2, <3>3 DEF Validated, Disk, Spare
    <3> QED BY <3>4, <3>5, <3>6, <3>7 DEF SessionInv
  <2> QED BY <2>2, <2>3
<1>4. CASE LoadOpt
  <2>1. pc = "load_opt" /\ todo = <<>> /\ Slack = 0 /\ job = "running" /\ pc \in Running /\ pc \in Untrained
    BY <1>0, <1>4 DEF LoadOpt, Plans, Slack, Jobs, Running, Untrained
  <2> DEFINE r == ReadLatest("opt")
  <2>2. CASE ~r.whole
    BY <1>4, <2>1, <2>2, Raised DEF LoadOpt, LoadOptCp
  <2>3. CASE r.whole
    <3>1. r.trained \in Nat /\ r.trained <= saved /\ saved <= r.trained + kills
      BY <1>0, <2>1, OptRead
    <3>2. /\ pc' = "epoch" /\ job' = job /\ opt' = r.trained
          /\ UNCHANGED <<epoch, model, vals, saved, kills, disk, todo>>
      BY <1>4, <2>3 DEF LoadOpt, LoadOptCp, diskVars, scheduler
    <3> HIDE DEF r
    <3>3. UNCHANGED <<files, bestLog, patience>> /\ pc' \in Running /\ pc' \in Untrained /\ Slack' = 0
      BY <3>2 DEF disk, Running, Untrained, Slack
    <3>4. Disk' /\ OptDisk'
      BY <1>0, <2>1, <3>2, <3>3, DiskKept DEF SessionType
    <3>5. SessionType'
      BY <1>0, <2>1, <3>1, <3>2, <3>3 DEF SessionType, Loaded
    <3>6. Counts'
      BY <1>0, <2>1, <3>1, <3>2, <3>3 DEF Counts
    <3>7. Plans' /\ Made' /\ Jobs'
      BY <1>0, <2>1, <3>2, <3>3 DEF Plans, Made, Before, Jobs
    <3>8. Validated'
      BY <1>0, <2>1, <3>2, <3>3 DEF Validated, Before
    <3> QED BY <3>4, <3>5, <3>6, <3>7, <3>8 DEF SessionInv
  <2> QED BY <2>2, <2>3
<1> QED BY <1>1, <1>2, <1>3, <1>4

\* The epochs, up to the writes they plan.
LEMMA EpochStep ==
    ASSUME SessionInv, BeginEpoch \/ BeginValid \/ NextEpoch
    PROVE  SessionInv'
PROOF
<1>0. /\ SessionType /\ Disk /\ OptDisk /\ Counts /\ Plans /\ Made /\ Validated /\ Jobs
  BY DEF SessionInv
<1>1. CASE BeginEpoch
  <2>1. /\ pc = "epoch" /\ pc' = "train" /\ job' = job /\ UNCHANGED <<epoch, model, opt, vals, saved, kills, disk, todo>>
        /\ UNCHANGED <<files, bestLog, patience>>
    BY <1>1 DEF BeginEpoch, diskVars, disk, scheduler
  <2>2. todo = <<>> /\ Slack = 0 /\ Slack' = 0
    BY <1>0, <2>1 DEF Plans, Slack
  <2>3. /\ pc \in Running /\ pc \in Untrained /\ pc' \in Running /\ pc' \in Untrained /\ Before /\ Before'
        /\ pc' \in Loaded
    BY <2>1 DEF Running, Untrained, Before, Loaded
  <2>4. Disk' /\ OptDisk'
    BY <1>0, <2>1, <2>2, DiskKept
  <2>5. SessionType'
    BY <1>0, <2>1, <2>3 DEF SessionType
  <2>6. Plans' /\ Jobs'
    BY <1>0, <2>1, <2>2 DEF Plans, Jobs
  <2>7. Counts'
    BY <1>0, <2>1, <2>3 DEF Counts
  <2>8. Made'
    BY <1>0, <2>1, <2>3 DEF Made
  <2>9. Validated'
    BY <1>0, <2>1, <2>3 DEF Validated
  <2> QED BY <2>4, <2>5, <2>6, <2>7, <2>8, <2>9 DEF SessionInv
<1>2. CASE BeginValid
  <2>1. /\ pc = "save_train" /\ pc' = "valid" /\ job' = job /\ UNCHANGED <<epoch, model, opt, vals, saved, kills, disk, todo>>
        /\ UNCHANGED <<files, bestLog, patience>> /\ todo = <<>>
    BY <1>2 DEF BeginValid, diskVars, disk, scheduler
  <2>2. Slack = 0 /\ Slack' = 0 /\ Len(todo) = 0
    BY <2>1 DEF Slack
  <2>3. /\ pc \in Running /\ pc \notin Untrained /\ pc' \in Running /\ pc' \notin Untrained /\ Before /\ Before'
        /\ pc' \in Loaded
    BY <2>1 DEF Running, Untrained, Before, Loaded
  <2>4. Disk' /\ OptDisk'
    BY <1>0, <2>1, <2>2, DiskKept
  <2>5. SessionType'
    BY <1>0, <2>1, <2>3 DEF SessionType
  <2>6. Plans' /\ Jobs'
    BY <1>0, <2>1 DEF Plans, Jobs
  <2>7. Counts'
    BY <1>0, <2>1, <2>2, <2>3 DEF Counts
  <2>8. Made'
    BY <1>0, <2>1, <2>2, <2>3 DEF Made
  <2>9. Validated'
    BY <1>0, <2>1, <2>3 DEF Validated
  <2> QED BY <2>4, <2>5, <2>6, <2>7, <2>8, <2>9 DEF SessionInv
<1>3. CASE NextEpoch
  <2>1. /\ pc = "checked" /\ pc' = "epoch" /\ job' = job /\ UNCHANGED <<model, opt, vals, saved, kills, disk, todo>>
        /\ UNCHANGED <<files, bestLog, patience>> /\ todo = <<>> /\ epoch' = epoch + 1 /\ epoch \in Nat
    BY <1>0, <1>3 DEF NextEpoch, diskVars, disk, scheduler, SessionType
  <2>2. Slack = 0 /\ Slack' = 0
    BY <2>1 DEF Slack
  <2>3. /\ pc \in Running /\ pc \notin Untrained /\ pc' \in Running /\ pc' \in Untrained /\ Before'
        /\ pc' \in Loaded
    BY <2>1 DEF Running, Untrained, Before, Loaded
  <2>4. Disk' /\ OptDisk'
    BY <1>0, <2>1, <2>2, DiskKept
  <2>5. SessionType'
    BY <1>0, <2>1, <2>3 DEF SessionType
  <2>6. Plans' /\ Jobs'
    BY <1>0, <2>1 DEF Plans, Jobs
  <2>7. Counts' /\ saved = epoch'
    BY <1>0, <2>1, <2>3 DEF Counts
  <2>8. Made'
    BY <1>0, <2>1, <2>3, <2>7 DEF Made
  <2>9. Validated'
    BY <2>1 DEF Validated
  <2> QED BY <2>4, <2>5, <2>6, <2>7, <2>8, <2>9 DEF SessionInv
<1> QED BY <1>1, <1>2, <1>3

LEMMA EndTrainStep ==
    ASSUME SessionInv, EndTrain
    PROVE  SessionInv'
PROOF
<1>0. /\ SessionType /\ Disk /\ OptDisk /\ Counts /\ Plans /\ Made /\ Validated /\ Jobs
  BY DEF SessionInv
<1>1. /\ pc = "train" /\ pc' = "save_train" /\ job' = job /\ UNCHANGED <<epoch, vals, saved, kills, disk>>
      /\ UNCHANGED <<files, bestLog, patience>> /\ model' = model + 1 /\ opt' = opt + 1
      /\ todo' = WriteCp("model", epoch + 1, model + 1) \o WriteCp("opt", epoch + 1, opt + 1)
      /\ epoch \in Nat /\ model \in Nat /\ opt \in Nat
  BY <1>0 DEF EndTrain, disk, scheduler, SessionType
<1>2. /\ pc \in Running /\ pc \in Untrained /\ pc' \in Running /\ pc' \notin Untrained /\ Before /\ Before'
      /\ pc' \in Loaded /\ pc # "load_opt"
  BY <1>1 DEF Running, Untrained, Before, Loaded
<1>3. todo' \in Seq(AnyOp) /\ Len(todo') = 6
  <2>1. /\ File("model", epoch + 1, FALSE, model + 1) \in AnyFile
        /\ File("opt", epoch + 1, FALSE, opt + 1) \in AnyFile
    BY <1>1 DEF File, AnyFile
  <2> QED BY <1>1, <2>1, TrainPlanOps DEF WriteCp
<1>4. todo' = TrainPlan'
  BY <1>1 DEF TrainPlan, WriteCp
<1>5. Suffix(todo', todo')
  BY <1>3 DEF Suffix
<1>6. Disk' /\ OptDisk'
  <2>1. Slack = 0 /\ Slack' = 0
    BY <1>1, <1>3 DEF Slack
  <2> QED BY <1>0, <1>1, <2>1, DiskKept
<1>7. SessionType'
  BY <1>0, <1>1, <1>2, <1>3 DEF SessionType
<1>8. Plans' /\ Jobs'
  BY <1>0, <1>1, <1>4, <1>5 DEF Plans, Jobs
<1>9. Counts'
  BY <1>0, <1>1, <1>2, <1>3 DEF Counts, SessionType
<1>10. Made'
  BY <1>0, <1>1, <1>2, <1>3 DEF Made
<1>11. Validated'
  BY <1>0, <1>1, <1>2 DEF Validated
<1> QED BY <1>6, <1>7, <1>8, <1>9, <1>10, <1>11 DEF SessionInv

LEMMA EndValidStep ==
    ASSUME SessionInv, EndValid
    PROVE  SessionInv'
PROOF
<1> DEFINE b == BestOf(epoch + 1)
           p == PlainOf(epoch + 1)
<1>0. /\ SessionType /\ Disk /\ OptDisk /\ Counts /\ Plans /\ Made /\ Validated /\ Jobs
  BY DEF SessionInv
<1>1. PICK m \in Values : vals' = Append(vals, m) /\ todo' = WriteCpMetric("model", epoch + 1, model, m)
  BY DEF EndValid, Values
<1>2. /\ pc = "valid" /\ pc' = "save_valid" /\ job' = job /\ UNCHANGED <<epoch, model, opt, saved, kills, disk>>
      /\ UNCHANGED <<files, bestLog, patience>> /\ todo = <<>>
      /\ epoch \in Nat /\ epoch + 1 \in Nat /\ vals \in Seq(Values)
  BY <1>0 DEF EndValid, disk, progress, scheduler, SessionType, Plans
<1>3. /\ pc \in Running /\ pc \notin Untrained /\ pc' \in Running /\ pc' \notin Untrained /\ Before /\ ~Before'
      /\ pc' \in Loaded
  BY <1>2 DEF Running, Untrained, Before, Loaded
<1>4. model = epoch + 1 /\ saved = epoch + 1
  BY <1>0, <1>2, <1>3 DEF Counts
<1>5. vals' \in Seq(Values) /\ Len(vals') = Len(vals) + 1 /\ Last(vals') = m /\ vals' # <<>>
  <2>1. \A s \in Seq(Values), x \in Values :
            Append(s, x) \in Seq(Values) /\ Len(Append(s, x)) = Len(s) + 1 /\ Append(s, x)[Len(s) + 1] = x
    OBVIOUS
  <2>2. vals' \in Seq(Values) /\ Len(vals') = Len(vals) + 1 /\ vals'[Len(vals) + 1] = m /\ Len(vals) \in Nat
    BY <1>1, <1>2, <2>1
  <2> QED BY <2>2 DEF Last
<1>6. b \in AnyFile /\ p \in AnyFile /\ Patience(0, m) \in AnyPatience
  BY <1>2, FileTypes
<1>7. /\ ValidPlan' \in Seq(AnyOp) /\ Len(ValidPlan') = 7
      /\ Suffix(ValidPlan', ValidPlan') /\ Suffix(SaveOps(p), ValidPlan')
      /\ ValidPlan' = (SaveOps(b) \o <<Op("log", b, Patience(0, m))>>) \o SaveOps(p)
  <2>1. ValidPlan' = (SaveOps(b) \o <<Op("log", b, Patience(0, m))>>) \o SaveOps(p)
    BY <1>2, <1>5 DEF ValidPlan
  <2> QED BY <1>6, <2>1, ValidPlanOps
<1>8. /\ todo' \in Seq(AnyOp) /\ Suffix(todo', ValidPlan') /\ Len(todo') \in {3, 7}
      /\ Len(todo') = 3 => bestLog # <<>> \/ m = NaN
  <2>1. CASE IsBest(m)
    <3>1. todo' = ValidPlan'
      BY <1>1, <1>4, <1>7, <2>1 DEF WriteCpMetric, BestOf, PlainOf
    <3> QED BY <1>7, <3>1
  <2>2. CASE ~IsBest(m)
    <3>1. todo' = <<>> \o SaveOps(p)
      BY <1>1, <1>4, <2>2 DEF WriteCpMetric, PlainOf
    <3>2. SaveOps(p) \in Seq(AnyOp) /\ Len(SaveOps(p)) = 3
      BY <1>6, SavePlan
    <3>3. \A s \in Seq(AnyOp) : <<>> \o s = s
      OBVIOUS
    <3>4. todo' = SaveOps(p)
      BY <3>1, <3>2, <3>3
    <3>5. bestLog # <<>> \/ m = NaN
      BY <2>2 DEF IsBest
    <3> QED BY <1>7, <3>2, <3>4, <3>5
  <2> QED BY <2>1, <2>2
<1>9. PlainOf(saved) \in files /\ PlainOf(saved).name = "model" /\ PlainOf(saved).whole
  BY <1>0, <1>2, <1>3, <1>4 DEF Made, PlainOf, File
<1>10. Disk'
  <2>1. OneFile' /\ Trained' /\ Newest'
    BY <1>0, <1>2 DEF Disk, OneFile, Trained, Newest
  <2>2. Spare'
    BY <1>0, <1>2, <1>4 DEF Disk, Spare
  <2>3. SomeModelSurvives'
    BY <1>2, <1>9 DEF SomeModelSurvives
  <2> QED BY <2>1, <2>2, <2>3 DEF Disk
<1>11. OptDisk'
  BY <1>0, <1>2 DEF OptDisk, Opts, Slack
<1>12. SessionType'
  BY <1>0, <1>2, <1>3, <1>5, <1>8 DEF SessionType
<1>13. Plans' /\ Jobs'
  BY <1>0, <1>2, <1>8 DEF Plans, Jobs
<1>14. Counts'
  BY <1>0, <1>2, <1>3 DEF Counts
<1>15. Made'
  <2>1. /\ \A f \in files : f.name = "model" => f.epoch <= saved
        /\ \A f \in files : f.name = "model" /\ f.best => f.epoch <= epoch
    BY <1>0, <1>2, <1>3 DEF Made
  <2>2. Len(todo') # 2 /\ Len(todo') \notin {4, 5}
    <3>1. \A n \in {3, 7} : n # 2 /\ n \notin {4, 5}
      OBVIOUS
    <3> QED BY <1>8, <3>1
  <2> QED BY <1>2, <1>9, <2>1, <2>2 DEF Made
<1>16. Validated'
  <2>1. epoch' = 0 => Len(vals') = 1
    BY <1>0, <1>2, <1>3, <1>5 DEF Validated
  <2>2. Len(todo') <= 3 => Len(todo') = 3
    <3>1. \A n \in {3, 7} : n <= 3 => n = 3
      OBVIOUS
    <3> QED BY <1>8, <3>1
  <2> QED BY <1>2, <1>3, <1>5, <1>8, <2>1, <2>2 DEF Validated
<1> QED BY <1>10, <1>11, <1>12, <1>13, <1>14, <1>15, <1>16 DEF SessionInv

LEMMA CheckPatienceStep ==
    ASSUME SessionInv, CheckPatience
    PROVE  SessionInv'
PROOF
<1> DEFINE m == Last(vals)
<1>0. /\ SessionType /\ Disk /\ OptDisk /\ Counts /\ Plans /\ Made /\ Validated /\ Jobs
  BY DEF SessionInv
<1>1. pc = "save_valid" /\ todo = <<>> /\ Slack = 0
  BY DEF CheckPatience, Slack
<1>2. CASE patience.state = "cut"
  BY <1>1, <1>2, Raised DEF CheckPatience
<1>3. CASE patience.state # "cut"
  <2>1. /\ pc' \in {"checked", "break"} /\ job' = job /\ todo' = WritePatience(NewPatience(m))
        /\ UNCHANGED <<epoch, model, opt, vals, saved, kills, disk>>
        /\ UNCHANGED <<files, bestLog, patience>>
    BY <1>3 DEF CheckPatience, disk, progress, scheduler
  <2>2. m \in Values
    <3>1. vals \in Seq(Values) /\ vals # <<>>
      BY <1>0, <1>1 DEF SessionType, Validated
    <3>2. Len(vals) \in DOMAIN vals
      BY <3>1
    <3> QED BY <3>1, <3>2 DEF Last
  <2> HIDE DEF m
  <2>3. NewPatience(m) \in AnyPatience
    <3>1. patience.count + 1 \in Nat /\ patience.metric \in Values
      BY <1>0 DEF SessionType, AnyPatience
    <3> QED BY <2>2, <3>1, FileTypes DEF NewPatience
  <2>4. todo' \in Seq(AnyOp) /\ \A i \in DOMAIN todo' : todo'[i].what \in {"truncate", "patience"}
    <3> DEFINE x == Op("truncate", NoFile, NewPatience(m))
               y == Op("patience", NoFile, NewPatience(m))
    <3>1. x \in AnyOp /\ y \in AnyOp /\ x.what = "truncate" /\ y.what = "patience"
      BY <2>3 DEF Op, AnyOp
    <3>2. todo' = <<x, y>>
      BY <2>1 DEF WritePatience
    <3> HIDE DEF x, y
    <3> QED BY <3>1, <3>2
  <2>5. /\ pc \in Running /\ pc \notin Untrained /\ pc' \in Running /\ pc' \notin Untrained /\ ~Before'
        /\ pc' \in Loaded /\ pc # "load_opt" /\ pc' \notin {"load_opt", "save_train", "save_valid", "test"}
    BY <1>1, <2>1 DEF Running, Untrained, Before, Loaded
  <2>6. Disk' /\ OptDisk'
    <3>1. Slack' = 0
      BY <2>5 DEF Slack
    <3> QED BY <1>0, <1>1, <2>1, <3>1, DiskKept
  <2>7. SessionType'
    BY <1>0, <1>1, <2>1, <2>4, <2>5 DEF SessionType
  <2>8. Plans' /\ Jobs'
    BY <1>0, <1>1, <2>1, <2>4, <2>5 DEF Plans, Jobs
  <2>9. Counts'
    BY <1>0, <1>1, <2>1, <2>5 DEF Counts
  <2>10. Made'
    <3>1. Len(todo) = 0
      BY <1>1
    <3> QED BY <1>0, <1>1, <2>1, <2>5, <3>1 DEF Made
  <2>11. Validated'
    BY <2>5 DEF Validated
  <2> QED BY <2>6, <2>7, <2>8, <2>9, <2>10, <2>11 DEF SessionInv
<1> QED BY <1>2, <1>3

\* After the loop the epoch is the one of the best model.
LEMMA LoadBestStep ==
    ASSUME SessionInv, LoadBest
    PROVE  SessionInv'
PROOF
<1>0. /\ SessionType /\ Disk /\ OptDisk /\ Counts /\ Plans /\ Made /\ Validated /\ Jobs
  BY DEF SessionInv
<1>1. pc \in {"epoch", "break"} /\ todo = <<>> /\ Slack = 0
  BY <1>0 DEF LoadBest, Slack, Plans
<1>2. CASE LoadModelCp("best").fails
  BY <1>1, <1>2, Raised DEF LoadBest
<1>3. CASE ~LoadModelCp("best").fails
  <2>1. /\ pc' = "test" /\ job' = job /\ UNCHANGED <<opt, vals, saved, kills, disk, todo>>
        /\ UNCHANGED <<files, bestLog, patience>>
    BY <1>3 DEF LoadBest, diskVars, disk, scheduler
  <2>2. pc' \notin Running /\ pc' \in Loaded /\ ~Before' /\ Slack' = 0
    BY <2>1 DEF Running, Untrained, Loaded, Before, Slack
  <2>3. Disk' /\ OptDisk'
    BY <1>0, <1>1, <2>1, <2>2, DiskKept
  <2>4. SessionType'
    BY <1>0, <2>1, <2>2 DEF SessionType
  <2>5. Plans' /\ Counts' /\ Made' /\ Validated' /\ Jobs'
    BY <1>0, <1>1, <2>1, <2>2 DEF Plans, Counts, Made, Validated, Jobs
  <2> QED BY <2>3, <2>4, <2>5 DEF SessionInv
<1> QED BY <1>2, <1>3

LEMMA ProcessStep ==
    ASSUME SessionInv, Process
    PROVE  SessionInv'
PROOF
<1>1. ASSUME InRunEpoch, Raise PROVE SessionInv'
  <2>1. Slack = 0
    BY <1>1 DEF InRunEpoch, Slack
  <2> QED BY <1>1, <2>1, Raised
<1>2. ASSUME UNCHANGED proved, UNCHANGED job PROVE SessionInv'
  <2>1. Jobs'
    BY <1>2 DEF SessionInv, Jobs, proved
  <2> QED BY <1>2, <2>1, Unwatched
<1>3. CASE InstallHandler \/ LoadModel \/ LoadOpt
  BY <1>3, StartStep
<1>4. CASE BeginEpoch \/ BeginValid \/ NextEpoch
  BY <1>4, EpochStep
<1>5. CASE Step
  BY <1>2, <1>5 DEF Step, proved, diskVars, disk, scheduler
<1>6. CASE StepNaN
  <2>1. CASE nans + 1 > MaxNans
    BY <1>1, <1>6, <2>1 DEF StepNaN
  <2>2. CASE ~(nans + 1 > MaxNans)
    BY <1>2, <1>6, <2>2 DEF StepNaN, proved, diskVars, disk, scheduler
  <2> QED BY <2>1, <2>2
<1>7. CASE LoaderRaises
  BY <1>1, <1>7 DEF LoaderRaises
<1>8. CASE NoLoss
  BY <1>1, <1>8 DEF NoLoss
<1>9. CASE EndTrain
  BY <1>9, EndTrainStep
<1>10. CASE Write
  BY <1>10, WriteStep
<1>11. CASE EndValid
  BY <1>11, EndValidStep
<1>12. CASE CheckPatience
  BY <1>12, CheckPatienceStep
<1>13. CASE StopForTimeout
  <2>1. Slack = 0
    BY <1>13 DEF StopForTimeout, Slack
  <2> QED BY <1>13, <2>1, Gone DEF StopForTimeout
<1>14. CASE LoadBest
  BY <1>14, LoadBestStep
<1>15. CASE Finish
  <2>1. Slack = 0
    BY <1>15 DEF Finish, Slack
  <2> QED BY <1>15, <2>1, Gone DEF Finish
<1> QED BY <1>3, <1>4, <1>5, <1>6, <1>7, <1>8, <1>9, <1>10, <1>11, <1>12, <1>13, <1>14, <1>15 DEF Process

LEMMA SessionStep == SessionInv /\ [Next]_vars => SessionInv'
PROOF
<1> SUFFICES ASSUME SessionInv, [Next]_vars PROVE SessionInv'
  OBVIOUS
<1>1. ASSUME UNCHANGED proved, UNCHANGED job PROVE SessionInv'
  <2>1. Jobs'
    BY <1>1 DEF SessionInv, Jobs, proved
  <2> QED BY <1>1, <2>1, Unwatched
<1>2. CASE Process
  BY <1>2, ProcessStep
<1>3. CASE LoaderStep
  BY <1>1, <1>3 DEF LoaderStep, sessionVars, progress, scheduler, diskVars, disk, proved
<1>4. CASE Boot
  BY <1>4, StartStep
<1>5. CASE AtExit
  <2>1. UNCHANGED proved /\ pc = "off"
    BY <1>5 DEF AtExit, progress, diskVars, disk, proved
  <2>2. Jobs'
    BY <2>1 DEF Jobs, proved
  <2> QED BY <2>1, <2>2, Unwatched
<1>6. CASE Submit
  <2>1. UNCHANGED proved /\ pc = "off"
    BY <1>6 DEF Submit, progress, diskVars, disk, proved, SessionInv, Jobs
  <2>2. Jobs'
    BY <2>1 DEF Jobs, proved
  <2> QED BY <2>1, <2>2, Unwatched
<1>7. CASE Sigusr1
  <2>1. CASE pc = "boot" /\ Exit("killed") /\ UNCHANGED <<job, continueFile, vals, saved, kills, disk>>
    <3>1. Slack = 0
      BY <2>1 DEF Slack
    <3> QED BY <2>1, <3>1, Gone
  <2>2. CASE UNCHANGED <<pc, progress, job, exit, vals, saved, kills, diskVars, loaderVars, configVars>>
    BY <1>1, <2>2 DEF progress, diskVars, disk, proved
  <2> QED BY <1>7, <2>1, <2>2 DEF Sigusr1
<1>8. CASE Kill
  <2>1. Exit("killed") /\ UNCHANGED <<vals, saved, disk>> /\ kills' = kills + 1
    BY <1>8 DEF Kill
  <2> QED BY <2>1, Gone
<1>9. CASE UNCHANGED vars
  BY <1>1, <1>9 DEF vars, sessionVars, progress, scheduler, diskVars, disk, proved
<1> QED BY <1>2, <1>3, <1>4, <1>5, <1>6, <1>7, <1>8, <1>9 DEF Next

LEMMA SessionInit == Init => SessionInv
PROOF
<1> SUFFICES ASSUME Init PROVE SessionInv
  OBVIOUS
<1>1. /\ pc = "off" /\ epoch = 0 /\ model = 0 /\ opt = 0 /\ vals = <<>> /\ saved = 0 /\ kills = 0
      /\ job = "queued" /\ files = {} /\ bestLog = <<>> /\ patience = NoPatience /\ todo = <<>>
  BY DEF Init, DiskInit
<1>2. SessionType
  BY <1>1, FileTypes DEF SessionType
<1>3. Disk
  BY <1>1 DEF Disk, OneFile, Trained, Newest, Spare, SomeModelSurvives
<1>4. OptDisk
  BY <1>1 DEF OptDisk, Opts, Slack
<1>5. Plans /\ Counts /\ Made /\ Validated /\ Jobs
  BY <1>1 DEF Plans, Counts, Made, Validated, Before, Running, Untrained, Jobs
<1> QED BY <1>2, <1>3, <1>4, <1>5 DEF SessionInv

-----------------------------------------------------------------------------
(* The schedules are as long as the training.  What Cycles computes is shown *)
(* by least counterexamples: the natural numbers are well-founded.           *)

LEMMA LeastOf ==
    ASSUME NEW T, T \subseteq Nat, T # {}
    PROVE  \E x \in T : \A y \in T : x <= y
PROOF
<1>1. \E x \in T : \A y \in T : <<y, x>> \notin OpToRel(<, Nat)
  BY NatLessThanWellFounded, WFMin
<1>2. PICK x \in T : \A y \in T : <<y, x>> \notin OpToRel(<, Nat)
  BY <1>1
<1>3. \A y \in T : ~(y < x)
  BY <1>2 DEF OpToRel
<1> QED BY <1>3

\* The recursion of Cycles has a solution.
LEMMA CyclesRecursion ==
    ASSUME NEW after \in Int, NEW c, NEW m
    PROVE  LET g == Cycles(after, c, m)
           IN  g = [k \in 0 .. AtLeastZero(after) |->
                       IF k = 0 THEN [sum |-> 0, length |-> c]
                       ELSE [sum |-> g[k - 1].sum + g[k - 1].length, length |-> g[k - 1].length * m]]
PROOF
<1> DEFINE next(r) == [sum |-> r.sum + r.length, length |-> r.length * m]
           first == [sum |-> 0, length |-> c]
           solves(g, n) == g = [k \in 0 .. n |-> IF k = 0 THEN first ELSE next(g[k - 1])]
           T == {n \in Nat : ~ \E g : solves(g, n)}
           N == AtLeastZero(after)
<1>0. N \in Nat
  BY DEF AtLeastZero
<1> HIDE DEF N
<1> SUFFICES \E g : solves(g, N)
  <2>1. Cycles(after, c, m) = CHOOSE g : solves(g, N)
    BY DEF Cycles, N
  <2>2. (\E g : solves(g, N)) => solves(CHOOSE g : solves(g, N), N)
    <3> HIDE DEF solves
    <3> QED OBVIOUS
  <2> QED BY <2>1, <2>2 DEF N
<1> HIDE DEF next, first
<1> SUFFICES ASSUME N \in T PROVE FALSE
  BY <1>0
<1>1. PICK n \in T : \A y \in T : n <= y
  BY LeastOf
<1>2. CASE n = 0
  <2>1. solves([k \in 0 .. 0 |-> first], 0)
    OBVIOUS
  <2> QED BY <1>1, <1>2, <2>1
<1>3. CASE n # 0
  <2>1. n \in Nat /\ n - 1 \in Nat /\ n - 1 \notin T
    BY <1>1, <1>3
  <2>2. PICK g : solves(g, n - 1)
    BY <2>1
  <2> DEFINE h == [k \in 0 .. n |-> IF k = n THEN next(g[n - 1]) ELSE g[k]]
  <2>3. ASSUME NEW k \in 0 .. n PROVE h[k] = IF k = 0 THEN first ELSE next(h[k - 1])
    <3>1. CASE k = 0
      BY <1>3, <2>1, <2>2, <3>1
    <3>2. CASE k = n
      BY <1>3, <2>1, <3>2
    <3>3. CASE k # 0 /\ k # n
      <4>1. k \in 0 .. n - 1 /\ k - 1 \in 0 .. n /\ k - 1 # n /\ k \in 0 .. n
        BY <2>1, <3>3
      <4>2. g[k] = next(g[k - 1])
        BY <2>2, <3>3, <4>1
      <4>3. h[k] = g[k] /\ h[k - 1] = g[k - 1]
        BY <3>3, <4>1
      <4> QED BY <3>3, <4>2, <4>3
    <3> QED BY <3>1, <3>2, <3>3
  <2>4. h = [k \in 0 .. n |-> IF k = 0 THEN first ELSE next(h[k - 1])]
    <3>1. h = [k \in 0 .. n |-> h[k]]
      OBVIOUS
    <3> HIDE DEF h
    <3> QED BY <2>3, <3>1
  <2>5. solves(h, n)
    BY <2>4
  <2> QED BY <1>1, <2>5
<1> QED BY <1>2, <1>3

\* Every cycle has an iteration, so that n of them have n.
LEMMA CyclesGrow ==
    ASSUME NEW after \in Int, NEW c \in Nat \ {0}, NEW m \in Nat \ {0}
    PROVE  \A k \in 0 .. AtLeastZero(after) :
              Cycles(after, c, m)[k] \in [sum : Nat, length : Nat \ {0}] /\ Cycles(after, c, m)[k].sum >= k
PROOF
<1> DEFINE N == AtLeastZero(after)
           g == Cycles(after, c, m)
           good(k) == g[k] \in [sum : Nat, length : Nat \ {0}] /\ g[k].sum >= k
           T == {k \in 0 .. N : ~good(k)}
<1>0. N \in Nat
  BY DEF AtLeastZero
<1>1. g = [k \in 0 .. N |-> IF k = 0 THEN [sum |-> 0, length |-> c]
                            ELSE [sum |-> g[k - 1].sum + g[k - 1].length, length |-> g[k - 1].length * m]]
  BY CyclesRecursion
<1> HIDE DEF N, g
<1> SUFFICES ASSUME T # {} PROVE FALSE
  BY DEF N, g
<1>2. PICK k \in T : \A y \in T : k <= y
  <2>1. T \subseteq Nat
    BY <1>0
  <2> QED BY <2>1, LeastOf
<1>3. CASE k = 0
  BY <1>0, <1>1, <1>2, <1>3
<1>4. CASE k # 0
  <2>1. k - 1 \in 0 .. N /\ k \in 0 .. N /\ ~(k <= k - 1)
    BY <1>0, <1>2, <1>4
  <2>2. good(k - 1)
    BY <1>2, <2>1
  <2>3. g[k] = [sum |-> g[k - 1].sum + g[k - 1].length, length |-> g[k - 1].length * m]
    BY <1>1, <1>4, <2>1
  <2> DEFINE s == g[k - 1].sum
             l == g[k - 1].length
  <2>4. s \in Nat /\ l \in Nat \ {0} /\ s >= k - 1
    BY <2>2
  <2> HIDE DEF s, l
  <2>5. s + l \in Nat /\ s + l >= k /\ l * m \in Nat \ {0}
    BY <2>1, <2>4
  <2>6. good(k)
    BY <2>3, <2>5 DEF s, l
  <2> QED BY <1>2, <2>6
<1> QED BY <1>3, <1>4

\* The cycles cover what is left after the warmup.
LEMMA CyclesCover ==
    ASSUME NEW after \in Int, NEW c \in (Nat \ {0}) \cup {-1}, NEW m \in Nat \ {0}
    PROVE  CycleIters(after, c, m) \in Nat /\ CycleIters(after, c, m) >= after
PROOF
<1>1. CASE c = -1
  BY <1>1 DEF CycleIters, AtLeastZero
<1>2. CASE c # -1 /\ m = 1
  <2> DEFINE q == CeilDiv(after, c)
             p == q * c
  <2>1. q \in Int /\ c * q <= after + c - 1 /\ after + c - 1 < c * q + c
    BY <1>2 DEF CeilDiv
  <2>2. p \in Int /\ p >= after
    <3> HIDE DEF q
    <3>1. p = c * q /\ p \in Int
      BY <1>2, <2>1
    <3>2. after + c - 1 < p + c
      BY <2>1, <3>1
    <3> HIDE DEF p
    <3> QED BY <1>2, <3>1, <3>2
  <2>3. CycleIters(after, c, m) = AtLeastZero(p)
    BY <1>2 DEF CycleIters
  <2> HIDE DEF p
  <2> QED BY <2>2, <2>3 DEF AtLeastZero
<1>3. CASE c # -1 /\ m # 1
  <2> DEFINE N == AtLeastZero(after)
             g == Cycles(after, c, m)
             covering == {k \in 0 .. N : g[k].sum >= after}
             least == CHOOSE k \in covering : \A j \in covering : k <= j
  <2>1. CycleIters(after, c, m) = g[least].sum
    BY <1>3 DEF CycleIters
  <2>2. N \in Nat /\ N >= after
    BY DEF AtLeastZero
  <2>3. \A k \in 0 .. N : g[k].sum \in Nat /\ g[k].sum >= k
    BY <1>3, CyclesGrow
  <2> HIDE DEF N, g
  <2>4. N \in covering
    <3>1. N \in 0 .. N /\ g[N].sum \in Nat /\ g[N].sum >= N
      BY <2>2, <2>3
    <3> QED BY <2>2, <3>1
  <2>5. least \in covering
    <3>1. covering \subseteq Nat /\ covering # {}
      BY <2>2, <2>4
    <3>2. \E k \in covering : \A j \in covering : k <= j
      BY <3>1, LeastOf
    <3> QED BY <3>2
  <2> HIDE DEF least
  <2> QED BY <2>1, <2>3, <2>5
<1> QED BY <1>1, <1>2, <1>3

\* The last assertion of cosine_scheduler never fails.
LEMMA ScheduleFull ==
    ASSUME NEW n \in Nat \ {0}
    PROVE  Schedule(n) = [niter |-> n, lr |-> MaxEpochs * n, wd |-> MaxEpochs * n]
PROOF
<1>1. ASSUME NEW w \in Nat, NEW cyc \in (Nat \ {0}) \cup {-1}, NEW m \in Nat \ {0}
      PROVE  ScheduleLength(MaxEpochs, n, w, cyc, m) = MaxEpochs * n
  <2> DEFINE total == MaxEpochs * n
             warm == w * n
             cycle == IF cyc = -1 THEN -1 ELSE cyc * n
             rest == CycleIters(total - warm, cycle, m)
  <2>1. total \in Int /\ warm \in Int
    BY LrAssumption
  <2>2. cycle \in (Nat \ {0}) \cup {-1}
    <3>1. \A x \in Nat \ {0} : x * n \in Nat \ {0}
      OBVIOUS
    <3> QED BY <3>1
  <2>3. ScheduleLength(MaxEpochs, n, w, cyc, m) = IF warm + rest >= total THEN total ELSE -1
    BY DEF ScheduleLength
  <2> HIDE DEF total, warm, cycle
  <2>4. rest \in Nat /\ rest >= total - warm
    BY <2>1, <2>2, CyclesCover
  <2> HIDE DEF rest
  <2>5. warm + rest >= total
    BY <2>1, <2>4
  <2> QED BY <2>3, <2>5 DEF total
<1> QED BY <1>1, LrAssumption DEF Schedule

-----------------------------------------------------------------------------
(* The loader of the process, whose invariant PinMemoryLoaderProofs proves.  *)
(* What is left to show is that the session keeps to what that proof assumes *)
(* of the calls of iter_epoch, and which epoch the loader is in.             *)

Proven == INSTANCE PinMemoryLoaderProofs
    WITH Epochs <- 1 .. 2 * MaxEpochs + 1, MaxBatches <- TrainSamples

\* Where the process stands, and the epoch the native loader was started for.
LoaderOK == Proven!Inv /\ Proven!Numbered
LoaderState ==
    /\ LoaderOK
    /\ mpc # "idle" => InRunEpoch
    /\ pc \in {"off", "boot", "load_model", "load_opt"} => native.epoch = 0
    /\ pc = "epoch" => native.epoch = 0
                       \/ (epoch \in 1 .. MaxEpochs /\ native.epoch = ValidEpoch(epoch - 1))
    /\ pc \in {"train", "save_train"} => epoch < MaxEpochs /\ native.epoch = TrainEpoch(epoch)
    /\ pc \in {"valid", "save_valid", "checked", "break"} =>
          epoch < MaxEpochs /\ native.epoch = ValidEpoch(epoch)
    /\ pc = "test" => native.epoch = TestEpoch

\* The batch size is positive once it was read.
ConfigState ==
    /\ ini \in Nat /\ hostBs \in [Hosts -> Nat]
    /\ pc \in Loaded => base \in Nat \ {0}

\* The schedules are those of the batch size, which the loader has.
LrState ==
    /\ pc \in Loaded \ {"load_opt"} => bs \in Nat \ {0} /\ lrs = Schedule(TrainLen(bs))
    /\ pc = "train" => native.n = TrainLen(bs)

RunInv == SessionInv /\ LoaderState /\ ConfigState /\ LrState

\* The proofs are about the loader of the session: the same steps, the same losses.
LEMMA SameConsumer == Loader!ConsumerNext => Proven!ConsumerNext
PROOF
<1> USE DEF Loader!consumer, Proven!consumer, Loader!thread, Proven!thread, Loader!None, Proven!None,
        Loader!NoEpoch, Proven!NoEpoch
<1>1. Loader!ThreadAlive <=> Proven!ThreadAlive
  BY DEF Loader!ThreadAlive, Proven!ThreadAlive
<1>2. Loader!NewThread <=> Proven!NewThread
  BY Zenon DEF Loader!NewThread, Proven!NewThread
<1>3. Loader!SetupQueue => Proven!SetupQueue
  BY <1>1, <1>2, Zenon DEF Loader!SetupQueue, Proven!SetupQueue
<1>4. Loader!StopOldThread => Proven!StopOldThread
  BY <1>1, Zenon DEF Loader!StopOldThread, Proven!StopOldThread
<1>5. Loader!DrainOne => Proven!DrainOne
  BY Zenon DEF Loader!DrainOne, Proven!DrainOne
<1>6. Loader!Drained => Proven!Drained
  BY Zenon DEF Loader!Drained, Proven!Drained
<1>7. Loader!JoinOldThread => Proven!JoinOldThread
  BY <1>1, <1>2, Zenon DEF Loader!JoinOldThread, Proven!JoinOldThread
<1>8. Loader!CheckThread => Proven!CheckThread
  BY Zenon DEF Loader!CheckThread, Proven!CheckThread, Loader!ThreadAlive, Proven!ThreadAlive
<1>9. Loader!GetPinned => Proven!GetPinned
  BY Zenon DEF Loader!GetPinned, Proven!GetPinned, Loader!Ended, Proven!Ended
<1>10. Loader!GetDirect => Proven!GetDirect
  BY Zenon DEF Loader!GetDirect, Proven!GetDirect, Loader!Ended, Proven!Ended,
     Loader!NextItem, Proven!NextItem, Loader!Advance, Proven!Advance
<1>11. Loader!GetDirectFails => Proven!GetDirectFails
  BY Zenon DEF Loader!GetDirectFails, Proven!GetDirectFails
<1> QED BY <1>3, <1>4, <1>5, <1>6, <1>7, <1>8, <1>9, <1>10, <1>11, Zenon
        DEF Loader!ConsumerNext, Proven!ConsumerNext

LEMMA SameThread == Loader!ThreadNext => Proven!ThreadNext
PROOF
<1> USE DEF Loader!consumer, Proven!consumer, Loader!None, Proven!None, Loader!NoEpoch, Proven!NoEpoch
<1>1. Loader!ThreadCheck => Proven!ThreadCheck
  BY Zenon DEF Loader!ThreadCheck, Proven!ThreadCheck
<1>2. Loader!ThreadGet => Proven!ThreadGet
  BY Zenon DEF Loader!ThreadGet, Proven!ThreadGet, Loader!NextItem, Proven!NextItem,
     Loader!Advance, Proven!Advance
<1>3. Loader!ThreadGetFails => Proven!ThreadGetFails
  BY Zenon DEF Loader!ThreadGetFails, Proven!ThreadGetFails
<1>4. Loader!ThreadPut => Proven!ThreadPut
  BY Zenon DEF Loader!ThreadPut, Proven!ThreadPut, Loader!Ended, Proven!Ended
<1>5. Loader!ThreadEnqueue => Proven!ThreadEnqueue
  BY Zenon DEF Loader!ThreadEnqueue, Proven!ThreadEnqueue
<1>6. Loader!ThreadFull => Proven!ThreadFull
  BY Zenon DEF Loader!ThreadFull, Proven!ThreadFull
<1> QED BY <1>1, <1>2, <1>3, <1>4, <1>5, <1>6, Zenon DEF Loader!ThreadNext, Proven!ThreadNext

LEMMA SameLost == Proven!Inv => Loader!AtMostOneLost
PROOF
<1> SUFFICES ASSUME Proven!Inv PROVE Loader!AtMostOneLost
  OBVIOUS
<1>1. lost = {} \/ \E k : lost = {k}
  BY DEF Proven!Inv, Proven!Accounted, Proven!OneLost
<1>2. Cardinality(lost) <= 1
  <2>1. CASE lost = {}
    BY <2>1, FS_EmptySet
  <2>2. ASSUME NEW k, lost = {k} PROVE Cardinality(lost) <= 1
    BY <2>2, FS_Singleton
  <2> QED BY <1>1, <2>1, <2>2
<1>4. Loader!Cardinality(lost) = Cardinality(lost)
  BY Zenon DEF Loader!Cardinality, Cardinality
<1>3. mpc = "idle" /\ native.epoch # 0 => 1 .. native.n \subseteq got \cup lost
  BY DEF Proven!Inv, Proven!Accounted, Proven!Complete, Proven!NoEpoch
<1> QED BY <1>2, <1>3, <1>4 DEF Loader!AtMostOneLost, Loader!NoEpoch

\* What the loader does by itself keeps its invariant and does not change the epoch.
LEMMA LoaderMoves ==
    ASSUME LoaderOK, Loader!ConsumerNext \/ Loader!ThreadNext \/ Loader!Resume
    PROVE  LoaderOK' /\ native'.epoch = native.epoch /\ native'.n = native.n /\ (mpc = "idle" => mpc' = "idle")
PROOF
<1>1. Proven!LoaderNext
  <2>1. Loader!Resume => Proven!Resume
    BY Zenon DEF Loader!Resume, Proven!Resume, Loader!thread, Proven!thread
  <2> QED BY <2>1, SameConsumer, SameThread DEF Proven!LoaderNext
<1>2. LoaderOK'
  BY <1>1, Proven!StepInv, Proven!NumberedStep DEF LoaderOK
<1>3. Loader!Advance => native'.epoch = native.epoch /\ native'.n = native.n
  BY DEF Loader!Advance, LoaderOK, Proven!Inv, Proven!LoaderTypeOK, Proven!NativeState
<1>4. native'.epoch = native.epoch /\ native'.n = native.n
  BY <1>3 DEF Loader!ConsumerNext, Loader!ThreadNext, Loader!Resume, Loader!SetupQueue, Loader!StopOldThread,
     Loader!DrainOne, Loader!Drained, Loader!JoinOldThread, Loader!CheckThread, Loader!GetPinned,
     Loader!GetDirect, Loader!GetDirectFails, Loader!ThreadCheck, Loader!ThreadGet, Loader!ThreadGetFails,
     Loader!ThreadPut, Loader!ThreadEnqueue, Loader!ThreadFull
<1>5. mpc = "idle" => mpc' = "idle"
  BY DEF Loader!ConsumerNext, Loader!ThreadNext, Loader!Resume, Loader!SetupQueue, Loader!StopOldThread,
     Loader!DrainOne, Loader!Drained, Loader!JoinOldThread, Loader!CheckThread, Loader!GetPinned,
     Loader!GetDirect, Loader!GetDirectFails, Loader!ThreadCheck, Loader!ThreadGet, Loader!ThreadGetFails,
     Loader!ThreadPut, Loader!ThreadEnqueue, Loader!ThreadFull, Loader!consumer
<1> QED BY <1>2, <1>4, <1>5

\* An epoch has at least one batch and at most one for each sample.
LEMMA CeilDivRange == ASSUME NEW a \in Nat \ {0}, NEW b \in Nat \ {0} PROVE CeilDiv(a, b) \in 1 .. a
PROOF
<1> DEFINE q == (a + b - 1) \div b
           p == b * q
<1>1. q \in Int /\ b * q <= a + b - 1 /\ a + b - 1 < b * q + b
  OBVIOUS
<1> HIDE DEF q
<1>3. q <= a
  <2> SUFFICES ASSUME q >= a + 1 PROVE FALSE
    BY <1>1
  <2>1. b * q >= b * (a + 1)
    BY <1>1
  <2>2. b * (a + 1) = b * a + b
    OBVIOUS
  <2>3. b * a >= a
    OBVIOUS
  <2> QED BY <1>1, <2>1, <2>2, <2>3
<1>4. q >= 1
  <2> SUFFICES ASSUME q <= 0 PROVE FALSE
    BY <1>1
  <2>1. p <= 0
    BY <1>1
  <2>2. p \in Int /\ a + b - 1 < p + b
    BY <1>1
  <2> HIDE DEF p
  <2> QED BY <2>1, <2>2
<1> QED BY <1>1, <1>3, <1>4 DEF q, CeilDiv

\* A set of indices has a last one, the one with the least distance to the end.
LEMMA LastOf ==
    ASSUME NEW n \in Nat, NEW T \in SUBSET (1 .. n), T # {}
    PROVE  \E i \in T : \A j \in T : j <= i
PROOF
<1> DEFINE R == {n - i : i \in T}
<1>1. R \subseteq Nat /\ R # {}
  OBVIOUS
<1>2. PICK x \in R : \A y \in R : x <= y
  BY <1>1, LeastOf
<1>3. PICK i \in T : x = n - i
  BY <1>2
<1>4. ASSUME NEW j \in T PROVE j <= i
  <2>1. n - i <= n - j /\ i \in 1 .. n /\ j \in 1 .. n
    BY <1>2, <1>3
  <2> QED BY <2>1
<1> QED BY <1>4

LEMMA ScheduledSize ==
    ASSUME base \in Nat \ {0}, NEW e
    PROVE  ScheduledBs(e) \in Nat \ {0}
PROOF
<1> DEFINE begun == {i \in 1 .. Len(BatchSchedule) : BatchSchedule[i][1] <= e}
           last == CHOOSE i \in begun : \A j \in begun : j <= i
           size == BatchSchedule[last][2]
<1>1. BatchSchedule \in Seq(Nat \X (Nat \ {0}))
  BY SessionAssumption
<1>2. ScheduledBs(e) = IF begun = {} THEN base ELSE IF size < base THEN size ELSE base
  BY DEF ScheduledBs
<1>3. CASE begun = {}
  BY <1>2, <1>3
<1>4. CASE begun # {}
  <2>1. last \in begun
    <3>1. Len(BatchSchedule) \in Nat
      BY <1>1
    <3>2. \E i \in begun : \A j \in begun : j <= i
      BY <1>4, <3>1, LastOf
    <3> QED BY <3>2
  <2>2. last \in 1 .. Len(BatchSchedule)
    BY <2>1
  <2> HIDE DEF last
  <2>3. BatchSchedule[last] \in Nat \X (Nat \ {0})
    BY <1>1, <2>2
  <2>4. size \in Nat \ {0}
    BY <2>3
  <2> HIDE DEF size
  <2> QED BY <1>2, <1>4, <2>4
<1> QED BY <1>3, <1>4

LEMMA FreshState ==
    ASSUME LoaderOK, FreshLoader
    PROVE  LoaderOK' /\ native' = [epoch |-> 0, next |-> 1, n |-> 0] /\ mpc' = "idle"
PROOF
<1>1. /\ native' = [epoch |-> 0, next |-> 1, n |-> 0]
      /\ mpc' = "idle" /\ batch' = <<0, 0>> /\ queue' = <<>> /\ done' = FALSE
      /\ tpc' = "dead" /\ item' = <<0, 0>> /\ got' = {} /\ lost' = {}
      /\ pin' = pin /\ errors' = errors
  BY DEF FreshLoader
<1>2. Proven!LoaderConstants'
  BY DEF LoaderOK, Proven!Inv
<1>3. Proven!LoaderTypeOK'
  <2>1. /\ native' \in Proven!NativeState /\ <<0, 0>> \in Proven!Batch /\ queue' \in Seq(Proven!Batch)
        /\ pin' \in BOOLEAN /\ errors' \in 0 .. MaxErrors
    BY <1>1 DEF Proven!NativeState, Proven!Batch, Proven!NoEpoch, LoaderOK, Proven!Inv, Proven!LoaderTypeOK,
       Proven!LoaderConstants
  <2> QED BY <1>1, <2>1 DEF Proven!LoaderTypeOK
<1>4. /\ Proven!NoThread' /\ Proven!Belongs' /\ Proven!Stopped' /\ Proven!EndLast' /\ Proven!Accounted'
  BY <1>1 DEF Proven!NoThread, Proven!Belongs, Proven!Stopped, Proven!EndLast, Proven!Accounted, Proven!OneLost,
     Proven!TakenEarly, Proven!Served, Proven!Complete, Proven!SelfStopped, Proven!Active, Proven!Starting,
     Proven!Holding, Proven!ThreadAlive, Proven!NoEpoch
<1>5. Proven!Numbered'
  BY <1>1 DEF Proven!Numbered, Proven!Holding
<1> QED BY <1>1, <1>2, <1>3, <1>4, <1>5 DEF LoaderOK, Proven!Inv

LEMMA StartsEpoch ==
    ASSUME LoaderOK, NEW e \in 1 .. 2 * MaxEpochs + 1, NEW n \in 0 .. TrainSamples,
           e # native.epoch, Loader!StartEpoch(e, n)
    PROVE  LoaderOK' /\ native'.epoch = e /\ native'.n = n
PROOF
<1>1. Proven!StartEpoch(e, n)
  BY Zenon DEF Loader!StartEpoch, Proven!StartEpoch, Loader!thread, Proven!thread
<1>2. LoaderOK'
  <2>1. Proven!LoaderNext
    BY <1>1 DEF Proven!LoaderNext
  <2> QED BY <2>1, Proven!StepInv, Proven!NumberedStep DEF LoaderOK
<1>3. native'.epoch = e /\ native'.n = n
  BY DEF Loader!StartEpoch
<1> QED BY <1>2, <1>3

LEMMA KeptLoader ==
    ASSUME LoaderOK, UNCHANGED loaderVars
    PROVE  LoaderOK' /\ native' = native /\ mpc' = mpc
PROOF
<1>1. UNCHANGED Proven!loaderVars
  BY DEF loaderVars, Proven!loaderVars
<1>2. LoaderOK'
  BY <1>1, Proven!StepInv, Proven!NumberedStep DEF LoaderOK
<1> QED BY <1>2 DEF loaderVars

\* A process that ends, and steps that have no part in the loader.
LEMMA LoaderGone ==
    ASSUME LoaderState, NEW how, Exit(how)
    PROVE  LoaderState'
PROOF
<1>1. pc' = "off" /\ FreshLoader
  BY DEF Exit
<1>2. LoaderOK' /\ native' = [epoch |-> 0, next |-> 1, n |-> 0] /\ mpc' = "idle"
  BY <1>1, FreshState DEF LoaderState
<1> QED BY <1>1, <1>2 DEF LoaderState

LEMMA LoaderUntouched ==
    ASSUME LoaderState, UNCHANGED <<pc, epoch, loaderVars>>
    PROVE  LoaderState'
PROOF
<1>1. LoaderOK' /\ native' = native /\ mpc' = mpc
  BY KeptLoader DEF LoaderState
<1> QED BY <1>1 DEF LoaderState, InRunEpoch

LEMMA LoaderStartStep ==
    ASSUME SessionInv, LoaderState, Boot \/ InstallHandler \/ LoadModel \/ LoadOpt
    PROVE  LoaderState'
PROOF
<1>1. CASE (LoadModel /\ LoadModelCp("latest").fails) \/ (LoadOpt /\ LoadOptCp.fails)
  <2>1. Raise
    BY <1>1 DEF LoadModel, LoadOpt
  <2> QED BY <2>1, LoaderGone DEF Raise
<1>2. CASE ~((LoadModel /\ LoadModelCp("latest").fails) \/ (LoadOpt /\ LoadOptCp.fails))
  <2>1. /\ pc' \in {"boot", "load_model", "load_opt", "epoch"}
        /\ pc \in {"off", "boot", "load_model", "load_opt"}
        /\ UNCHANGED loaderVars
    BY <1>2 DEF Boot, InstallHandler, LoadModel, LoadOpt, SessionInv, Jobs
  <2>2. LoaderOK' /\ native' = native /\ mpc' = mpc
    BY <2>1, KeptLoader DEF LoaderState
  <2> QED BY <2>1, <2>2 DEF LoaderState, InRunEpoch
<1> QED BY <1>1, <1>2

\* The session starts no epoch twice in a row, whatever was loaded, and none longer
\* than the split: iter_epoch finds what its own proof asks of it.
LEMMA LoaderEpochStep ==
    ASSUME SessionInv, SessionInv', LoaderState, ConfigState, BeginEpoch \/ BeginValid \/ NextEpoch \/ LoadBest
    PROVE  LoaderState'
PROOF
<1>0. /\ MaxEpochs \in Nat \ {0} /\ TrainSamples \in Nat \ {0}
  BY LrAssumption, SessionAssumption
<1>1. CASE BeginEpoch
  <2> DEFINE b == ScheduledBs(epoch)
             n == TrainLen(b)
             e == TrainEpoch(epoch)
  <2>1. /\ pc = "epoch" /\ epoch < MaxEpochs /\ pc' = "train" /\ epoch' = epoch
        /\ Loader!StartEpoch(e, n) /\ epoch \in Nat
    BY <1>1 DEF BeginEpoch, SessionInv, SessionType
  <2>2. n \in 0 .. TrainSamples
    <3>1. b \in Nat \ {0}
      BY <2>1, ScheduledSize DEF ConfigState, Loaded, Running, Untrained
    <3>2. n \in 1 .. TrainSamples
      BY <1>0, <3>1, CeilDivRange DEF TrainLen
    <3> QED BY <1>0, <3>2
  <2>3. e \in 1 .. 2 * MaxEpochs + 1 /\ e # native.epoch
    <3>1. native.epoch = 0 \/ (epoch \in 1 .. MaxEpochs /\ native.epoch = MaxEpochs + epoch)
      BY <1>0, <2>1 DEF LoaderState, ValidEpoch
    <3> QED BY <1>0, <2>1, <3>1 DEF TrainEpoch
  <2> HIDE DEF n, e
  <2>4. LoaderOK' /\ native'.epoch = e
    BY <2>1, <2>2, <2>3, StartsEpoch DEF LoaderState
  <2> QED BY <2>1, <2>4 DEF LoaderState, InRunEpoch, e, TrainEpoch
<1>2. CASE BeginValid
  <2> DEFINE e == ValidEpoch(epoch)
  <2>1. /\ pc = "save_train" /\ pc' = "valid" /\ epoch' = epoch
        /\ Loader!StartEpoch(e, EvalLen) /\ epoch \in Nat /\ epoch < MaxEpochs
        /\ native.epoch = epoch + 1
    BY <1>2 DEF BeginValid, SessionInv, SessionType, LoaderState, TrainEpoch
  <2>2. e \in 1 .. 2 * MaxEpochs + 1 /\ e # native.epoch
    BY <1>0, <2>1 DEF ValidEpoch
  <2>3. EvalLen \in 0 .. TrainSamples
    BY <1>0 DEF EvalLen
  <2> HIDE DEF e
  <2>4. LoaderOK' /\ native'.epoch = e
    BY <2>1, <2>2, <2>3, StartsEpoch DEF LoaderState
  <2> QED BY <2>1, <2>4 DEF LoaderState, InRunEpoch, e, ValidEpoch
<1>3. CASE NextEpoch
  <2>1. /\ pc = "checked" /\ pc' = "epoch" /\ epoch' = epoch + 1 /\ UNCHANGED loaderVars
        /\ epoch \in Nat /\ epoch < MaxEpochs /\ native.epoch = ValidEpoch(epoch) /\ mpc = "idle"
    BY <1>3 DEF NextEpoch, SessionInv, SessionType, LoaderState, InRunEpoch
  <2>2. LoaderOK' /\ native' = native /\ mpc' = mpc
    BY <2>1, KeptLoader DEF LoaderState
  <2>3. epoch + 1 \in 1 .. MaxEpochs /\ (epoch + 1) - 1 = epoch
    BY <1>0, <2>1
  <2> QED BY <2>1, <2>2, <2>3 DEF LoaderState, ValidEpoch
<1>4. CASE LoadBest
  <2>1. CASE LoadModelCp("best").fails
    <3>1. Raise
      BY <1>4, <2>1 DEF LoadBest
    <3> QED BY <3>1, LoaderGone DEF Raise
  <2>2. CASE ~LoadModelCp("best").fails
    <3>1. /\ pc \in {"epoch", "break"} /\ pc' = "test" /\ Loader!StartEpoch(TestEpoch, EvalLen)
          /\ epoch \in Nat
      BY <1>4, <2>2 DEF LoadBest, SessionInv, SessionType
    <3>2. TestEpoch \in 1 .. 2 * MaxEpochs + 1 /\ EvalLen \in 0 .. TrainSamples
      BY <1>0 DEF TestEpoch, EvalLen
    <3>3. TestEpoch # native.epoch
      <4>1. CASE pc = "epoch"
        BY <1>0, <3>1, <4>1 DEF LoaderState, TestEpoch, ValidEpoch
      <4>2. CASE pc = "break"
        BY <1>0, <3>1, <4>2 DEF LoaderState, TestEpoch, ValidEpoch
      <4> QED BY <3>1, <4>1, <4>2
    <3>4. LoaderOK' /\ native'.epoch = TestEpoch
      BY <3>1, <3>2, <3>3, StartsEpoch DEF LoaderState
    <3> QED BY <3>1, <3>4 DEF LoaderState, InRunEpoch
  <2> QED BY <2>1, <2>2
<1> QED BY <1>1, <1>2, <1>3, <1>4

LEMMA LoaderStateStep ==
    ASSUME SessionInv, SessionInv', LoaderState, ConfigState, [Next]_vars
    PROVE  LoaderState'
PROOF
<1>1. ASSUME Raise PROVE LoaderState'
  BY <1>1, LoaderGone DEF Raise
<1>2. ASSUME UNCHANGED <<pc, epoch>>, Loader!ConsumerNext \/ Loader!ThreadNext \/ (Loader!Resume /\ InRunEpoch)
      PROVE  LoaderState'
  <2>1. LoaderOK' /\ native'.epoch = native.epoch /\ (mpc = "idle" => mpc' = "idle")
    BY <1>2, LoaderMoves DEF LoaderState
  <2> QED BY <1>2, <2>1 DEF LoaderState, InRunEpoch
<1>3. CASE Boot \/ InstallHandler \/ LoadModel \/ LoadOpt
  BY <1>3, LoaderStartStep
<1>4. CASE BeginEpoch \/ BeginValid \/ NextEpoch \/ LoadBest
  BY <1>4, LoaderEpochStep
<1>5. CASE Step
  BY <1>2, <1>5 DEF Step
<1>6. CASE StepNaN
  BY <1>1, <1>2, <1>6 DEF StepNaN
<1>7. CASE LoaderRaises \/ NoLoss
  BY <1>1, <1>7 DEF LoaderRaises, NoLoss
<1>8. CASE EndTrain \/ EndValid \/ CheckPatience
  <2>1. CASE Raise
    BY <1>1, <2>1
  <2>2. CASE ~Raise
    <3>1. /\ UNCHANGED <<epoch, loaderVars>>
          /\ \/ pc = "train" /\ mpc = "idle" /\ pc' = "save_train"
             \/ pc = "valid" /\ mpc = "idle" /\ pc' = "save_valid"
             \/ pc = "save_valid" /\ pc' \in {"break", "checked"}
      BY <1>8, <2>2 DEF EndTrain, EndValid, CheckPatience, progress
    <3>2. LoaderOK' /\ native' = native /\ mpc' = mpc
      BY <3>1, KeptLoader DEF LoaderState
    <3> QED BY <3>1, <3>2 DEF LoaderState, InRunEpoch
  <2> QED BY <2>1, <2>2
<1>9. CASE StopForTimeout \/ Finish \/ Kill
  BY <1>9, LoaderGone DEF StopForTimeout, Finish, Kill
<1>10. CASE LoaderStep
  BY <1>2, <1>10 DEF LoaderStep, sessionVars, progress
<1>11. CASE Write \/ AtExit \/ Submit \/ UNCHANGED vars
  BY <1>11, LoaderUntouched DEF Write, AtExit, Submit, vars, sessionVars, progress
<1>12. CASE Sigusr1
  BY <1>12, LoaderGone, LoaderUntouched DEF Sigusr1, progress
<1> QED BY <1>3, <1>4, <1>5, <1>6, <1>7, <1>8, <1>9, <1>10, <1>11, <1>12 DEF Next, Process

LEMMA ConfigStateStep ==
    ASSUME SessionInv, ConfigState, [Next]_vars
    PROVE  ConfigState'
PROOF
<1>1. ASSUME NEW how, Exit(how) PROVE ConfigState'
  BY <1>1 DEF Exit, ConfigState, Loaded, Running, Untrained
<1>2. ASSUME UNCHANGED configVars, pc' \notin Loaded \/ pc \in Loaded PROVE ConfigState'
  BY <1>2 DEF configVars, ConfigState
<1>3. ASSUME Raise PROVE ConfigState'
  BY <1>1, <1>3 DEF Raise
<1>4. CASE InstallHandler
  <2>1. PICK h \in Hosts : SetBatchSize(h)
    BY <1>4 DEF InstallHandler
  <2>2. hostBs[h] \in Nat
    BY DEF ConfigState
  <2>3. ini' \in Nat /\ hostBs' \in [Hosts -> Nat]
    BY <2>1, <2>2 DEF SetBatchSize, UpdateBatchSize, ConfigState
  <2>4. pc' = "load_model"
    BY <1>4 DEF InstallHandler
  <2> QED BY <2>3, <2>4 DEF ConfigState, Loaded, Running, Untrained
<1>5. CASE LoadModel
  <2>1. CASE ~Raise
    BY <1>5, <2>1 DEF LoadModel, ConfigCall, None, ConfigState
  <2> QED BY <1>3, <2>1
<1>6. CASE LoadOpt
  <2>1. CASE ~Raise
    <3>1. UNCHANGED <<hostBs, base>> /\ ini' = ConfigCall(ini, base) /\ pc = "load_opt"
      BY <1>6, <2>1 DEF LoadOpt, ConfigSave
    <3>2. base \in Nat \ {0}
      BY <3>1 DEF ConfigState, Loaded, Running, Untrained
    <3> QED BY <3>1, <3>2 DEF ConfigCall, ConfigState
  <2> QED BY <1>3, <2>1
<1>7. CASE BeginEpoch \/ Step \/ StepNaN \/ LoaderRaises \/ NoLoss \/ EndTrain \/ Write \/ BeginValid
           \/ EndValid \/ CheckPatience \/ NextEpoch \/ LoadBest
  <2>1. CASE ~Raise
    <3>1. UNCHANGED configVars
      BY <1>7, <2>1 DEF BeginEpoch, Step, StepNaN, LoaderRaises, NoLoss, EndTrain, Write, BeginValid, EndValid,
         CheckPatience, NextEpoch, LoadBest
    <3>2. pc \in Loaded \/ pc' = pc
      BY <1>7, <2>1 DEF BeginEpoch, Step, StepNaN, LoaderRaises, NoLoss, EndTrain, Write, BeginValid, EndValid,
         CheckPatience, NextEpoch, LoadBest, InRunEpoch, Loaded, Running, Untrained
    <3> QED BY <1>2, <3>1, <3>2
  <2> QED BY <1>3, <2>1
<1>8. CASE StopForTimeout \/ Finish \/ Kill
  BY <1>1, <1>8 DEF StopForTimeout, Finish, Kill
<1>9. CASE LoaderStep \/ AtExit \/ Submit \/ UNCHANGED vars
  BY <1>2, <1>9 DEF LoaderStep, AtExit, Submit, vars, sessionVars
<1>10. CASE Boot
  BY <1>2, <1>10 DEF Boot, Loaded, Running, Untrained
<1>11. CASE Sigusr1
  BY <1>1, <1>2, <1>11 DEF Sigusr1
<1> QED BY <1>4, <1>5, <1>6, <1>7, <1>8, <1>9, <1>10, <1>11 DEF Next, Process

LEMMA LrStateStep ==
    ASSUME SessionInv, LoaderState, ConfigState, LrState, [Next]_vars
    PROVE  LrState'
PROOF
<1> USE DEF Loaded, Running, Untrained
<1>1. ASSUME NEW how, Exit(how) PROVE LrState'
  BY <1>1 DEF Exit, LrState
<1>2. ASSUME Raise PROVE LrState'
  BY <1>1, <1>2 DEF Raise
<1>3. ASSUME UNCHANGED <<bs, lrs>>, native'.n = native.n,
             pc' \notin Loaded \/ (pc \in Loaded \ {"load_opt"} /\ pc' # "load_opt"),
             pc' = "train" => pc = "train"
      PROVE  LrState'
  BY <1>3 DEF LrState, TrainLen, Schedule
<1>4. ASSUME UNCHANGED <<bs, lrs, native>>, pc' = pc PROVE LrState'
  BY <1>4 DEF LrState, TrainLen, Schedule
<1>5. CASE Boot \/ InstallHandler \/ LoadModel
  <2>1. CASE ~Raise
    <3>1. pc' \in {"boot", "load_model", "load_opt"}
      BY <1>5, <2>1 DEF Boot, InstallHandler, LoadModel
    <3> QED BY <3>1 DEF LrState
  <2> QED BY <1>2, <2>1
<1>6. CASE LoadOpt
  <2>1. CASE ~Raise
    <3>1. pc = "load_opt" /\ pc' = "epoch" /\ bs' = base /\ lrs' = Schedule(TrainLen(base))
      BY <1>6, <2>1 DEF LoadOpt
    <3>2. base \in Nat \ {0}
      BY <3>1 DEF ConfigState
    <3> QED BY <3>1, <3>2 DEF LrState, TrainLen, Schedule
  <2> QED BY <1>2, <2>1
<1>7. CASE BeginEpoch
  <2> DEFINE b == ScheduledBs(epoch)
  <2>1. /\ pc = "epoch" /\ pc' = "train" /\ bs' = b
        /\ lrs' = IF b # bs THEN Schedule(TrainLen(b)) ELSE lrs
        /\ native' = [epoch |-> TrainEpoch(epoch), next |-> 1, n |-> TrainLen(b)]
    BY <1>7 DEF BeginEpoch, Loader!StartEpoch
  <2>2. b \in Nat \ {0}
    BY <2>1, ScheduledSize DEF ConfigState
  <2> HIDE DEF b
  <2>3. lrs' = Schedule(TrainLen(b))
    BY <2>1 DEF LrState
  <2> QED BY <2>1, <2>2, <2>3 DEF LrState, TrainLen, Schedule
<1>8. CASE Step \/ StepNaN \/ LoaderStep
  <2>1. CASE ~Raise
    <3>1. UNCHANGED <<pc, bs, lrs>> /\ (Loader!ConsumerNext \/ Loader!ThreadNext \/ Loader!Resume)
      BY <1>8, <2>1 DEF Step, StepNaN, LoaderStep, sessionVars, progress
    <3>2. native'.n = native.n
      BY <3>1, LoaderMoves DEF LoaderState
    <3> QED BY <3>1, <3>2 DEF LrState, TrainLen, Schedule
  <2> QED BY <1>2, <2>1
<1>9. CASE LoaderRaises \/ NoLoss
  BY <1>2, <1>9 DEF LoaderRaises, NoLoss
<1>10. CASE EndTrain \/ BeginValid \/ EndValid \/ CheckPatience \/ NextEpoch \/ LoadBest
  <2>1. CASE ~Raise
    <3>1. /\ UNCHANGED <<bs, lrs>> /\ pc' # "train"
          /\ pc \in Loaded \ {"load_opt"} /\ pc' \in Loaded \ {"load_opt"}
      BY <1>10, <2>1 DEF EndTrain, BeginValid, EndValid, CheckPatience, NextEpoch, LoadBest, progress
    <3> QED BY <3>1 DEF LrState, TrainLen, Schedule
  <2> QED BY <1>2, <2>1
<1>11. CASE Write \/ AtExit \/ Submit \/ UNCHANGED vars
  BY <1>4, <1>11 DEF Write, AtExit, Submit, vars, sessionVars, progress, loaderVars
<1>12. CASE StopForTimeout \/ Finish \/ Kill
  BY <1>1, <1>12 DEF StopForTimeout, Finish, Kill
<1>13. CASE Sigusr1
  BY <1>1, <1>4, <1>13 DEF Sigusr1, progress, loaderVars
<1> QED BY <1>5, <1>6, <1>7, <1>8, <1>9, <1>10, <1>11, <1>12, <1>13 DEF Next, Process

\* In the last step of the last epoch the arrays are used up, and not before.
LEMMA LrCovers ==
    ASSUME SessionInv, LoaderState, LrState
    PROVE  LrCoversStep
PROOF
<1> DEFINE n == TrainLen(bs)
<1> SUFFICES ASSUME pc = "train", mpc = "busy"
             PROVE  /\ lrs.niter = Loader!EpochLen
                    /\ epoch * lrs.niter + Cardinality(got) <= lrs.lr
                    /\ epoch * lrs.niter + Cardinality(got) <= lrs.wd
  BY DEF LrCoversStep
<1>1. epoch \in Nat /\ epoch < MaxEpochs /\ MaxEpochs \in Nat
  BY LrAssumption DEF SessionInv, SessionType, LoaderState
<1>2. bs \in Nat \ {0} /\ lrs = Schedule(n) /\ native.n = n
  BY DEF LrState, Loaded, Running, Untrained
<1>3. n \in Nat \ {0}
  <2>1. n \in 1 .. TrainSamples /\ TrainSamples \in Nat
    BY <1>2, CeilDivRange, SessionAssumption DEF TrainLen
  <2> QED BY <2>1
<1> HIDE DEF n
<1>4. lrs = [niter |-> n, lr |-> MaxEpochs * n, wd |-> MaxEpochs * n]
  BY <1>2, <1>3, ScheduleFull
<1>5. Cardinality(got) \in Nat /\ Cardinality(got) <= n
  <2>1. got \subseteq 1 .. n
    BY <1>2 DEF LoaderState, LoaderOK, Proven!Numbered
  <2>2. IsFiniteSet(1 .. n) /\ Cardinality(1 .. n) = n
    BY <1>3, FS_Interval
  <2> QED BY <2>1, <2>2, FS_Subset, FS_CardinalityType
<1>6. epoch * n + Cardinality(got) <= MaxEpochs * n
  <2>1. (epoch + 1) * n <= MaxEpochs * n
    BY <1>1, <1>3
  <2>2. (epoch + 1) * n = epoch * n + n
    BY <1>1, <1>3
  <2>3. epoch * n \in Int /\ MaxEpochs * n \in Int
    BY <1>1, <1>3
  <2> QED BY <1>3, <1>5, <2>1, <2>2, <2>3
<1>7. Loader!EpochLen = n
  BY <1>2 DEF Loader!EpochLen
<1> QED BY <1>4, <1>6, <1>7

LEMMA LoaderStateInit == Init => LoaderState /\ ConfigState /\ LrState
PROOF
<1> SUFFICES ASSUME Init PROVE LoaderState /\ ConfigState /\ LrState
  OBVIOUS
<1>1. Loader!LoaderInit => Proven!LoaderInit
  BY Zenon DEF Loader!LoaderInit, Proven!LoaderInit, Loader!None, Proven!None, Loader!NoEpoch, Proven!NoEpoch
<1>2. Loader!LoaderConstants => Proven!LoaderConstants
  BY Zenon DEF Loader!LoaderConstants, Proven!LoaderConstants
<1>3. Proven!Inv
  BY <1>1, <1>2, SessionAssumption, Proven!InitInv DEF Init
<1>4. Proven!Numbered
  BY DEF Init, Loader!LoaderInit, Proven!Numbered, Proven!Holding
<1>5. LoaderOK
  BY <1>3, <1>4 DEF LoaderOK
<1>6. pc = "off" /\ mpc = "idle" /\ native.epoch = 0
  BY DEF Init, Loader!LoaderInit, Loader!NoEpoch
<1>7. ini \in Nat /\ hostBs \in [Hosts -> Nat]
  BY ConfigAssumption DEF Init, ConfigInit
<1> QED BY <1>5, <1>6, <1>7 DEF LoaderState, ConfigState, LrState, Loaded, Running, Untrained

-----------------------------------------------------------------------------
(* The histories that survive a restart, .patience and .best, as long as no *)
(* process was killed.                                                       *)

\* The first of the best among the first n metrics.
BestAt(s, n, i) ==
    /\ i \in 1 .. n /\ s[i] # NaN
    /\ \A j \in 1 .. n : ~Better(s[j], s[i])
    /\ \A j \in 1 .. i - 1 : s[j] # s[i]

\* The first metric is the best so far, and the next one replaces the best or
\* leaves it.  There is one best.
LEMMA FirstBest ==
    ASSUME NEW s \in Seq(Values), Len(s) >= 1, s[1] # NaN
    PROVE  BestAt(s, 1, 1)
PROOF
<1>1. 1 \in 1 .. Len(s)
  OBVIOUS
<1>2. s[1] \in Nat
  <2>1. \A j \in 1 .. Len(s) : s[j] \in Values
    OBVIOUS
  <2> QED BY <1>1, <2>1, CheckpointAssumption DEF Values, NaN
<1> QED BY <1>2 DEF BestAt, Better

LEMMA NextBest ==
    ASSUME NEW s \in Seq(Values), NEW n \in Nat, n + 1 <= Len(s), NEW i, BestAt(s, n, i)
    PROVE  IF Better(s[n + 1], s[i]) THEN BestAt(s, n + 1, n + 1) ELSE BestAt(s, n + 1, i)
PROOF
<1>1. \A j \in 1 .. n + 1 : s[j] \in Nat
  <2>1. \A j \in 1 .. Len(s) : s[j] \in Values
    OBVIOUS
  <2>2. Values \subseteq Nat
    BY CheckpointAssumption DEF Values, NaN
  <2>3. \A j \in 1 .. n + 1 : j \in 1 .. Len(s)
    OBVIOUS
  <2> QED BY <2>1, <2>2, <2>3
<1>2. \A j \in 1 .. n + 1 : j \in 1 .. n \/ j = n + 1
  OBVIOUS
<1>3. i \in 1 .. n /\ i \in 1 .. n + 1
  BY DEF BestAt
<1>4. CASE Better(s[n + 1], s[i])
  <2>1. s[n + 1] # NaN /\ s[n + 1] < s[i]
    BY <1>4 DEF Better
  <2>2. ASSUME NEW j \in 1 .. n PROVE ~Better(s[j], s[n + 1]) /\ s[j] # s[n + 1]
    BY <1>1, <1>3, <2>1 DEF BestAt, Better
  <2>3. ~Better(s[n + 1], s[n + 1])
    BY <1>1 DEF Better
  <2> QED BY <1>2, <1>4, <2>1, <2>2, <2>3 DEF BestAt
<1>5. CASE ~Better(s[n + 1], s[i])
  BY <1>2, <1>3, <1>5 DEF BestAt
<1> QED BY <1>4, <1>5

LEMMA OneBest ==
    ASSUME NEW s \in Seq(Values), NEW n \in Nat, n <= Len(s), NEW i, NEW k, BestAt(s, n, i), BestAt(s, n, k)
    PROVE  i = k
PROOF
<1>1. i \in 1 .. n /\ k \in 1 .. n /\ s[i] \in Nat /\ s[k] \in Nat
  <2>1. \A j \in 1 .. Len(s) : s[j] \in Values
    OBVIOUS
  <2>2. Values \subseteq Nat
    BY CheckpointAssumption DEF Values, NaN
  <2>3. i \in 1 .. n /\ k \in 1 .. n /\ i \in 1 .. Len(s) /\ k \in 1 .. Len(s)
    BY DEF BestAt
  <2> QED BY <2>1, <2>2, <2>3
<1>2. ~(s[i] < s[k]) /\ ~(s[k] < s[i])
  BY <1>1 DEF BestAt, Better
<1>3. s[i] = s[k]
  BY <1>1, <1>2
<1>4. ~(i < k) /\ ~(k < i)
  BY <1>1, <1>3 DEF BestAt
<1> QED BY <1>1, <1>4

\* What .best and .patience tell of the first n metrics.
LogOf(s, n, log) ==
    IF n = 0 THEN log = <<>>
    ELSE log # <<>> /\ \E i : BestAt(s, n, i) /\ Last(log) = s[i]

PatienceOf(s, n, p) ==
    IF n = 0 THEN p = NoPatience
    ELSE \E i : BestAt(s, n, i) /\ p = Patience(n - i, s[i])

\* What is left to do on .patience, and the line it will have.
Lines(q, p, line) ==
    \/ Len(q) = 2 /\ q[1].what = "truncate" /\ q[2] = Op("patience", NoFile, line)
    \/ Len(q) = 1 /\ q[1] = Op("patience", NoFile, line)
    \/ Len(q) = 0 /\ p = line

\* The two files tell the history as long as no process was killed and the
\* first metric is a number.
Telling == kills = 0 /\ (vals # <<>> => vals[1] # NaN)

\* How far .best and .patience are behind vals, by the place of the process:
\* .best is written with the best file after a validation, .patience when the
\* patience is checked.  A best file is incomplete only while it is written.
Histories ==
    Telling =>
        LET n == Len(vals) IN
        /\ pc \notin {"save_valid", "checked", "break"} => PatienceOf(vals, n, patience) /\ LogOf(vals, n, bestLog)
        /\ pc = "save_valid" =>
              /\ n > 0 /\ PatienceOf(vals, n - 1, patience)
              /\ IF Len(todo) \in 4 .. 7 THEN LogOf(vals, n - 1, bestLog) /\ IsBest(Last(vals)) ELSE LogOf(vals, n, bestLog)
        /\ pc \in {"checked", "break"} =>
              LogOf(vals, n, bestLog) /\ \E i : BestAt(vals, n, i) /\ Lines(todo, patience, Patience(n - i, vals[i]))
        /\ \A f \in files : f.name = "model" /\ f.best /\ ~f.whole =>
              pc = "save_valid" /\ Len(todo) = 6 /\ f.epoch = epoch + 1

\* Steps that leave the files and the metrics alone, outside the writes of a
\* validation and within them.
LEMMA HistoriesFrame ==
    ASSUME Histories, UNCHANGED <<vals, disk, kills>>,
           pc \notin {"save_valid", "checked", "break"}, pc' \notin {"save_valid", "checked", "break"}
    PROVE  Histories'
PROOF BY DEF Histories, Telling, PatienceOf, LogOf, disk, BestAt, Last

LEMMA HistoriesSame ==
    ASSUME Histories, UNCHANGED <<vals, disk, todo, kills, pc, epoch>>
    PROVE  Histories'
PROOF BY DEF Histories, Telling, PatienceOf, LogOf, disk, BestAt, Last, Lines, IsBest, PrevBest, Op

\* A validation adds a metric, which neither file tells yet.
LEMMA HistoriesEndValid ==
    ASSUME SessionInv, Histories, EndValid
    PROVE  Histories'
PROOF
<1> SUFFICES ASSUME Telling' PROVE Histories'
  BY DEF Histories
<1> DEFINE n == Len(vals)
<1>0. /\ vals \in Seq(Values) /\ files \subseteq AnyFile /\ pc = "valid" /\ pc' = "save_valid"
      /\ UNCHANGED <<files, bestLog, patience, kills>> /\ n \in Nat /\ epoch + 1 \in Nat
      /\ bestLog \in Seq(Values)
  BY DEF SessionInv, SessionType, EndValid, disk
<1>1. PICK m \in Values : vals' = Append(vals, m) /\ todo' = WriteCpMetric("model", epoch + 1, model, m)
  BY DEF EndValid, Values
<1>2. /\ vals' \in Seq(Values) /\ Len(vals') = n + 1 /\ vals'[n + 1] = m /\ vals' # <<>>
      /\ \A j \in 1 .. n : vals'[j] = vals[j]
      /\ vals # <<>> => n # 0 /\ 1 \in 1 .. n
      /\ vals = <<>> => n = 0
  <2>1. \A s \in Seq(Values), x \in Values :
            /\ Append(s, x) \in Seq(Values) /\ Len(Append(s, x)) = Len(s) + 1 /\ Append(s, x)[Len(s) + 1] = x
            /\ \A j \in 1 .. Len(s) : Append(s, x)[j] = s[j]
            /\ Append(s, x) # <<>>
    OBVIOUS
  <2>2. /\ vals # <<>> => n # 0 /\ 1 \in 1 .. n
        /\ vals = <<>> => n = 0
    BY <1>0
  <2> QED BY <1>0, <1>1, <2>1, <2>2
<1>3. Telling
  BY <1>0, <1>2 DEF Telling
<1>4. PatienceOf(vals, n, patience) /\ LogOf(vals, n, bestLog) /\ \A f \in files : f.name = "model" /\ f.best => f.whole
  BY <1>0, <1>3 DEF Histories, AnyFile
<1>5. \A k : k <= n /\ k \in Nat =>
          (\A p : PatienceOf(vals, k, p) => PatienceOf(vals', k, p)) /\ (\A l : LogOf(vals, k, l) => LogOf(vals', k, l))
  <2> SUFFICES ASSUME NEW k \in 0 .. n, NEW i, BestAt(vals, k, i) PROVE BestAt(vals', k, i) /\ vals'[i] = vals[i]
    BY DEF PatienceOf, LogOf
  <2>1. i \in 1 .. n /\ (\A j \in 1 .. i - 1 : j \in 1 .. n) /\ (\A j \in 1 .. k : j \in 1 .. n)
    BY <1>0 DEF BestAt
  <2> QED BY <1>2, <2>1 DEF BestAt
<1>6. PatienceOf(vals', n, patience') /\ LogOf(vals', n, bestLog')
  BY <1>0, <1>4, <1>5
<1>7. Last(vals') = m /\ IsBest(m)' = IsBest(m)
  BY <1>0, <1>2 DEF Last, IsBest, PrevBest
<1>8. IsBest(m) => /\ todo' = (SaveOps(BestOf(epoch + 1)) \o <<Op("log", BestOf(epoch + 1), Patience(0, m))>>)
                                \o SaveOps(PlainOf(epoch + 1))
                   /\ Len(todo') = 7
  <2>1. BestOf(epoch + 1) \in AnyFile /\ PlainOf(epoch + 1) \in AnyFile /\ Patience(0, m) \in AnyPatience
    BY <1>0, FileTypes
  <2>2. model = epoch + 1
    BY <1>0 DEF SessionInv, Counts, Running, Untrained
  <2> QED BY <1>1, <2>1, <2>2, ValidPlanOps DEF WriteCpMetric, BestOf, PlainOf
<1>9. ~IsBest(m) => Len(todo') = 3
  <2>1. PlainOf(epoch + 1) \in AnyFile /\ model = epoch + 1
    BY <1>0, FileTypes DEF SessionInv, Counts, Running, Untrained
  <2>2. ~IsBest(m) => todo' = <<>> \o SaveOps(PlainOf(epoch + 1))
    BY <1>1, <2>1 DEF WriteCpMetric, PlainOf
  <2>3. SaveOps(PlainOf(epoch + 1)) \in Seq(AnyOp) /\ Len(SaveOps(PlainOf(epoch + 1))) = 3
    BY <2>1, SavePlan
  <2>4. \A q \in Seq(AnyOp) : <<>> \o q = q
    OBVIOUS
  <2> QED BY <2>2, <2>3, <2>4
<1>10. ~IsBest(m) => LogOf(vals', n + 1, bestLog')
  <2> SUFFICES ASSUME ~IsBest(m) PROVE LogOf(vals', n + 1, bestLog')
    OBVIOUS
  <2>1. n # 0
    <3>1. CASE n = 0
      <4>1. m # NaN /\ bestLog = <<>>
        BY <1>2, <1>4, <3>1 DEF Telling, LogOf
      <4> QED BY <4>1 DEF IsBest
    <3> QED BY <3>1
  <2>2. PICK i : BestAt(vals', n, i) /\ Last(bestLog') = vals'[i] /\ bestLog' # <<>>
    BY <1>6, <2>1 DEF LogOf
  <2>3. ~Better(m, vals'[i])
    BY <1>0, <2>2 DEF IsBest, PrevBest, Last
  <2>4. BestAt(vals', n + 1, i)
    BY <1>0, <1>2, <2>2, <2>3, NextBest
  <2> QED BY <1>0, <2>2, <2>4 DEF LogOf
<1>11. /\ Len(vals') > 0 /\ Len(vals') - 1 = n /\ Len(vals') = n + 1
  BY <1>0, <1>2
<1>12. \A f \in files' : f.name = "model" /\ f.best => f.whole
  BY <1>0, <1>4
<1>13. CASE IsBest(m)
  <2>1. Len(todo') \in 4 .. 7
    <3>1. Len(todo') = 7
      BY <1>8, <1>13, Zenon
    <3>2. 7 \in 4 .. 7
      OBVIOUS
    <3> QED BY <3>1, <3>2, Zenon
  <2> QED BY <1>0, <1>6, <1>7, <1>11, <1>12, <1>13, <2>1 DEF Histories
<1>14. CASE ~IsBest(m)
  <2>1. ~(Len(todo') \in 4 .. 7)
    BY <1>9, <1>14
  <2> QED BY <1>0, <1>6, <1>10, <1>11, <1>12, <1>14, <2>1 DEF Histories
<1> QED BY <1>13, <1>14

\* What check_patience decides to write is the line of the new metric.
LEMMA HistoriesPatience ==
    ASSUME SessionInv, Histories, CheckPatience
    PROVE  Histories'
PROOF
<1> SUFFICES ASSUME Telling' PROVE Histories'
  BY DEF Histories
<1> DEFINE n == Len(vals)
           m == Last(vals)
<1>0. /\ pc = "save_valid" /\ todo = <<>> /\ vals' = vals /\ kills' = kills
      /\ vals \in Seq(Values) /\ files \subseteq AnyFile /\ n \in Nat
  BY DEF CheckPatience, Raise, Exit, SessionInv, SessionType
<1>1. Telling
  BY <1>0 DEF Telling
<1>2. Len(todo) = 0 /\ ~(Len(todo) \in 4 .. 7)
  BY <1>0
<1>3. /\ n > 0 /\ PatienceOf(vals, n - 1, patience) /\ LogOf(vals, n, bestLog)
      /\ \A f \in files : f.name = "model" /\ f.best => f.whole
  BY <1>0, <1>1, <1>2 DEF Histories, AnyFile
<1>4. patience.state # "cut"
  BY <1>3 DEF PatienceOf, NoPatience, Patience
<1>5. /\ pc' \in {"break", "checked"} /\ todo' = WritePatience(NewPatience(m))
      /\ UNCHANGED <<files, bestLog, patience>>
  BY <1>4 DEF CheckPatience, disk
<1>6. \E i : BestAt(vals, n, i) /\ NewPatience(m) = Patience(n - i, vals[i])
  <2>1. CASE n = 1
    <3>1. vals # <<>> /\ vals[1] # NaN /\ n - 1 = 0 /\ m = vals[1]
      BY <1>0, <1>1, <2>1 DEF Telling, Last
    <3>2. patience = NoPatience
      BY <1>3, <3>1 DEF PatienceOf
    <3>3. NewPatience(m) = Patience(0, m)
      BY <3>2 DEF NewPatience, Improved, NoPatience
    <3>4. BestAt(vals, n, 1)
      BY <1>0, <2>1, <3>1, FirstBest
    <3> QED BY <2>1, <3>1, <3>3, <3>4
  <2>2. CASE n # 1
    <3>1. n - 1 # 0 /\ n - 1 \in Nat /\ (n - 1) + 1 = n /\ n <= Len(vals)
      BY <1>0, <1>3, <2>2
    <3>2. PICK i : BestAt(vals, n - 1, i) /\ patience = Patience((n - 1) - i, vals[i])
      BY <1>3, <3>1 DEF PatienceOf
    <3>3. IF Better(vals[n], vals[i]) THEN BestAt(vals, n, n) ELSE BestAt(vals, n, i)
      BY <1>0, <3>1, <3>2, NextBest
    <3>4. patience.state = "whole" /\ patience.count = (n - 1) - i /\ patience.metric = vals[i]
      BY <3>2 DEF Patience
    <3>5. m = vals[n] /\ i \in Nat
      BY <3>1, <3>2 DEF Last, BestAt
    <3>6. CASE Better(vals[n], vals[i])
      <4>1. NewPatience(m) = Patience(0, vals[n])
        BY <3>4, <3>5, <3>6 DEF NewPatience, Improved
      <4>2. n - n = 0
        BY <1>0
      <4> QED BY <3>3, <3>6, <4>1, <4>2
    <3>7. CASE ~Better(vals[n], vals[i])
      <4>1. NewPatience(m) = Patience(((n - 1) - i) + 1, vals[i])
        BY <3>4, <3>5, <3>7 DEF NewPatience, Improved
      <4>2. ((n - 1) - i) + 1 = n - i
        BY <1>0, <3>5
      <4> QED BY <3>3, <3>7, <4>1, <4>2
    <3> QED BY <3>6, <3>7
  <2> QED BY <2>1, <2>2
<1>7. Lines(todo', patience', NewPatience(m))
  BY <1>5 DEF Lines, WritePatience, Op
<1>8. \A i : BestAt(vals, n, i) => BestAt(vals', n, i) /\ vals'[i] = vals[i]
  BY <1>0 DEF BestAt
<1> HIDE DEF m
<1>9. LogOf(vals', n, bestLog') /\ \E i : BestAt(vals', n, i) /\ Lines(todo', patience', Patience(n - i, vals'[i]))
  BY <1>0, <1>3, <1>5, <1>6, <1>7, Zenon
<1>10. Len(vals') = n /\ \A f \in files' : f.name = "model" /\ f.best => f.whole
  BY <1>0, <1>3, <1>5
<1> QED BY <1>5, <1>9, <1>10 DEF Histories

\* No operation on a plain file touches the best files.
LEMMA PlainOps ==
    ASSUME files \subseteq AnyFile, DiskStep, NEW f \in AnyFile, NEW w \in {"open", "written", "cleanup"},
           ~f.best, Head(todo) = Op(w, f, NoPatience)
    PROVE  UNCHANGED <<bestLog, patience>> /\ \A g \in files' : g.best => g \in files
PROOF
<1>1. CASE w = "open"
  <2>1. Replaced(f, Cut(f)) /\ UNCHANGED <<bestLog, patience>>
    BY <1>1, OneDiskStep
  <2>2. ~Cut(f).best
    BY DEF Cut, AnyFile
  <2> QED BY <2>1, <2>2 DEF Replaced
<1>2. CASE w = "written"
  <2>1. Replaced(f, f) /\ UNCHANGED <<bestLog, patience>>
    BY <1>2, OneDiskStep
  <2> QED BY <2>1 DEF Replaced
<1>3. CASE w = "cleanup"
  <2>1. files' = (files \ Family(f.name, f.best)) \cup Kept(f) /\ UNCHANGED <<bestLog, patience>>
    BY <1>3, OneDiskStep
  <2> QED BY <2>1, CleanFacts
<1> QED BY <1>1, <1>2, <1>3

\* What a disk operation does to the history, and which best files it touches.
LEMMA HistoriesWrite ==
    ASSUME SessionInv, Histories, Write
    PROVE  Histories'
PROOF
<1> SUFFICES ASSUME Telling' PROVE Histories'
  BY DEF Histories
<1> DEFINE n == Len(vals)
<1>0. /\ SessionType /\ Counts /\ Plans /\ Validated /\ OneFile
      /\ DiskStep /\ UNCHANGED <<pc, epoch, vals, kills>> /\ todo # <<>> /\ todo' = Tail(todo)
      /\ vals \in Seq(Values) /\ files \subseteq AnyFile /\ n \in Nat
  BY WriteFrame DEF SessionInv, SessionType, Disk, DiskStep
<1>1. Telling
  BY <1>0 DEF Telling
<1>2. pc \in {"save_train", "save_valid", "checked", "break"}
  BY <1>0 DEF Plans
<1>3. CASE pc = "save_train"
  <2>1. \E f \in AnyFile, w \in {"open", "written", "cleanup"} : ~f.best /\ Head(todo) = Op(w, f, NoPatience)
    <3>1. Len(todo) \in {1, 2, 3, 4, 5, 6} /\ PlainOf(epoch + 1) \in AnyFile /\ OptOf \in AnyFile
      BY <1>0, <1>3, TrainPlace
    <3>2. ~PlainOf(epoch + 1).best /\ ~OptOf.best
      BY DEF PlainOf, OptOf, File
    <3> QED BY <1>0, <1>3, <3>1, <3>2, TrainPlace
  <2>2. UNCHANGED <<bestLog, patience>> /\ \A g \in files' : g.best => g \in files
    BY <1>0, <2>1, PlainOps
  <2> QED BY <1>0, <1>1, <1>3, <2>2 DEF Histories
<1>4. CASE pc = "save_valid"
  <2> DEFINE b == BestOf(epoch + 1)
             p == PlainOf(epoch + 1)
             m == Last(vals)
  <2>0. /\ Len(todo) \in {1, 2, 3, 4, 5, 6, 7} /\ Len(todo') = Len(todo) - 1
        /\ p \in AnyFile /\ b \in AnyFile /\ m \in Values
        /\ ~p.best /\ b.best /\ b.name = "model" /\ b.epoch = epoch + 1 /\ b.whole
    <3>1. Len(todo) \in 1 .. 7 /\ Len(todo') = Len(todo) - 1 /\ p \in AnyFile /\ b \in AnyFile /\ m \in Values
      BY <1>0, <1>4, ValidPlace
    <3>2. \A k \in 1 .. 7 : k \in {1, 2, 3, 4, 5, 6, 7}
      OBVIOUS
    <3>3. ~p.best /\ b.best /\ b.name = "model" /\ b.epoch = epoch + 1 /\ b.whole
      BY DEF PlainOf, BestOf, File
    <3> QED BY <3>1, <3>2, <3>3
  <2>1. /\ n > 0 /\ PatienceOf(vals, n - 1, patience)
        /\ Len(todo) \in 4 .. 7 => LogOf(vals, n - 1, bestLog) /\ IsBest(m)
        /\ Len(todo) \notin 4 .. 7 => LogOf(vals, n, bestLog)
        /\ \A f \in files : f.name = "model" /\ f.best /\ ~f.whole => Len(todo) = 6 /\ f.epoch = epoch + 1
    BY <1>1, <1>4 DEF Histories
  <2>2. CASE Len(todo) = 7
    <3>1. Replaced(b, Cut(b)) /\ UNCHANGED <<bestLog, patience>>
      BY <1>0, <1>4, <2>2, ValidPlace, OneDiskStep
    <3>2. Len(todo') = 6 /\ Len(todo') \in 4 .. 7 /\ Len(todo) \in 4 .. 7
      BY <2>0, <2>2
    <3>3. IsBest(m)' = IsBest(m)
      BY <1>0, <3>1 DEF IsBest, PrevBest, Last
    <3>4. \A f \in files' : f.name = "model" /\ f.best /\ ~f.whole => f.epoch = epoch + 1
      <4>1. Cut(b).epoch = epoch + 1
        BY <2>0 DEF Cut, AnyFile
      <4>2. \A f \in files : f.name = "model" /\ f.best => f.whole
        BY <1>0, <2>1, <2>2 DEF AnyFile
      <4> QED BY <3>1, <4>1, <4>2 DEF Replaced
    <3> QED BY <1>0, <1>4, <2>1, <3>1, <3>2, <3>3, <3>4 DEF Histories
  <2>3. CASE Len(todo) = 6
    <3>1. Replaced(b, b) /\ UNCHANGED <<bestLog, patience>>
      BY <1>0, <1>4, <2>3, ValidPlace, OneDiskStep
    <3>2. Len(todo') = 5 /\ Len(todo') \in 4 .. 7 /\ Len(todo) \in 4 .. 7
      BY <2>0, <2>3
    <3>3. IsBest(m)' = IsBest(m)
      BY <1>0, <3>1 DEF IsBest, PrevBest, Last
    <3>4. ASSUME NEW f \in files', f.name = "model", f.best PROVE f.whole
      <4>1. CASE f = b
        BY <2>0, <4>1
      <4>2. CASE f # b
        <5>1. f \in files /\ <<f.name, f.epoch, f.best>> # <<b.name, b.epoch, b.best>>
          BY <3>1, <4>2 DEF Replaced
        <5> QED BY <1>0, <2>0, <2>1, <3>4, <5>1 DEF AnyFile
      <4> QED BY <4>1, <4>2
    <3> QED BY <1>0, <1>4, <2>1, <3>1, <3>2, <3>3, <3>4 DEF Histories
  <2>4. CASE Len(todo) = 5
    <3>1. files' = (files \ Family(b.name, b.best)) \cup Kept(b) /\ UNCHANGED <<bestLog, patience>>
      BY <1>0, <1>4, <2>4, ValidPlace, OneDiskStep
    <3>2. Len(todo') = 4 /\ Len(todo') \in 4 .. 7 /\ Len(todo) \in 4 .. 7
      BY <2>0, <2>4
    <3>3. IsBest(m)' = IsBest(m)
      BY <1>0, <3>1 DEF IsBest, PrevBest, Last
    <3>4. files' \subseteq files
      BY <1>0, <2>0, <3>1, CleanFacts
    <3> QED BY <1>0, <1>4, <2>1, <2>4, <3>1, <3>2, <3>3, <3>4 DEF Histories
  <2>5. CASE Len(todo) = 4
    <3>1. bestLog' = Append(bestLog, m) /\ UNCHANGED <<files, patience>>
      BY <1>0, <1>4, <2>5, ValidPlace, OneDiskStep DEF Patience
    <3>2. Len(todo') = 3 /\ Len(todo') \notin 4 .. 7 /\ Len(todo) \in 4 .. 7
      BY <2>0, <2>5
    <3>3. LogOf(vals, n, bestLog')
      <4>1. bestLog' # <<>> /\ Last(bestLog') = m
        <5>1. \A l \in Seq(Values), x \in Values :
                  Append(l, x) # <<>> /\ Append(l, x)[Len(Append(l, x))] = x
          OBVIOUS
        <5> QED BY <1>0, <2>0, <3>1, <5>1 DEF Last, SessionType
      <4>2. m = vals[n] /\ n \in Nat \ {0} /\ (vals # <<>> => vals[1] # NaN) /\ vals # <<>>
        BY <1>0, <1>1, <2>1 DEF Last, Telling
      <4>3. CASE n = 1
        BY <1>0, <4>1, <4>2, <4>3, FirstBest DEF LogOf
      <4>4. CASE n # 1
        <5>1. n - 1 \in Nat /\ n - 1 # 0 /\ (n - 1) + 1 = n /\ n <= Len(vals)
          BY <1>0, <4>2, <4>4
        <5>2. PICK i : BestAt(vals, n - 1, i) /\ Last(bestLog) = vals[i] /\ bestLog # <<>>
          BY <2>1, <3>2, <5>1 DEF LogOf
        <5>3. Better(m, vals[i])
          BY <2>1, <3>2, <5>2 DEF IsBest, PrevBest, Last
        <5>4. BestAt(vals, n, n)
          BY <1>0, <4>2, <5>1, <5>2, <5>3, NextBest
        <5> QED BY <4>1, <4>2, <5>4 DEF LogOf
      <4> QED BY <4>3, <4>4
    <3> QED BY <1>0, <1>4, <2>1, <2>5, <3>1, <3>2, <3>3 DEF Histories
  <2>6. CASE Len(todo) \in {1, 2, 3}
    <3>1. \E w \in {"open", "written", "cleanup"} : Head(todo) = Op(w, p, NoPatience)
      BY <1>0, <1>4, <2>6, ValidPlace
    <3>2. UNCHANGED <<bestLog, patience>> /\ \A g \in files' : g.best => g \in files
      BY <1>0, <2>0, <3>1, PlainOps
    <3>3. Len(todo) \notin 4 .. 7 /\ Len(todo') \notin 4 .. 7 /\ Len(todo) # 6
      <4>1. \A k \in {1, 2, 3} : k \notin 4 .. 7 /\ k - 1 \notin 4 .. 7 /\ k # 6
        OBVIOUS
      <4> QED BY <2>0, <2>6, <4>1
    <3> QED BY <1>0, <1>4, <2>1, <3>2, <3>3 DEF Histories
  <2> QED BY <2>0, <2>2, <2>3, <2>4, <2>5, <2>6
<1>5. CASE pc \in {"checked", "break"}
  <2>1. /\ LogOf(vals, n, bestLog)
        /\ \A f \in files : f.name = "model" /\ f.best => f.whole
    BY <1>0, <1>1, <1>5 DEF Histories, AnyFile
  <2>2. PICK i : BestAt(vals, n, i) /\ Lines(todo, patience, Patience(n - i, vals[i]))
    BY <1>1, <1>5 DEF Histories
  <2> DEFINE line == Patience(n - i, vals[i])
  <2>4. Lines(todo, patience, line)
    BY <2>2
  <2> HIDE DEF line
  <2>3. Lines(todo', patience', line) /\ UNCHANGED <<files, bestLog>>
    <3>1. /\ Len(todo) \in {1, 2} /\ Len(todo') = Len(todo) - 1 /\ Head(todo) = todo[1]
          /\ Len(todo) = 2 => todo'[1] = todo[2]
      <4>1. Len(todo) # 0
        BY <1>0, EmptyOps DEF SessionType
      <4>2. Len(todo) \in {1, 2}
        BY <2>4, <4>1 DEF Lines
      <4>3. 2 - 1 = 1 /\ 1 \in 1 .. 1
        OBVIOUS
      <4> QED BY <1>0, <4>2, <4>3, TailOps DEF SessionType
    <3>2. CASE Len(todo) = 2
      <4>1. Head(todo).what = "truncate" /\ todo'[1] = Op("patience", NoFile, line) /\ Len(todo') = 1
        BY <2>4, <3>1, <3>2 DEF Lines
      <4> QED BY <1>0, <4>1 DEF DiskStep, Lines
    <3>3. CASE Len(todo) = 1
      <4>1. Head(todo) = Op("patience", NoFile, line) /\ Len(todo') = 0
        BY <2>4, <3>1, <3>3 DEF Lines
      <4> QED BY <1>0, <4>1 DEF DiskStep, Lines, Op
    <3> QED BY <3>1, <3>2, <3>3
  <2> QED BY <1>0, <1>5, <2>1, <2>2, <2>3 DEF Histories, line
<1> QED BY <1>2, <1>3, <1>4, <1>5

\* Every step of a run keeps the histories.
LEMMA HistoriesStep ==
    ASSUME SessionInv, Histories, [Next]_vars
    PROVE  Histories'
PROOF
<1> DEFINE Told == {"save_valid", "checked", "break"}
<1>0. Plans /\ SessionType
  BY DEF SessionInv
<1>1. ASSUME NEW how, Exit(how), UNCHANGED <<vals, disk, kills>>, pc \notin Told PROVE Histories'
  BY <1>1, HistoriesFrame DEF Exit
<1>2. ASSUME Raise, pc \notin Told PROVE Histories'
  BY <1>1, <1>2 DEF Raise
<1>3. CASE InstallHandler \/ LoadModel \/ LoadOpt \/ BeginEpoch \/ Boot
  <2>1. CASE Raise
    BY <1>2, <1>3, <2>1 DEF InstallHandler, LoadModel, LoadOpt, BeginEpoch, Boot, Raise, Exit
  <2>2. CASE ~Raise
    <3>1. pc \notin Told /\ pc' \notin Told /\ UNCHANGED <<vals, disk, kills>>
      BY <1>3, <2>2 DEF InstallHandler, LoadModel, LoadOpt, BeginEpoch, Boot, diskVars, SessionInv, Jobs
    <3> QED BY <3>1, HistoriesFrame
  <2> QED BY <2>1, <2>2
<1>4. CASE Step \/ StepNaN \/ LoaderRaises \/ NoLoss \/ EndTrain \/ BeginValid
  <2>1. pc \notin Told
    BY <1>4 DEF Step, StepNaN, LoaderRaises, NoLoss, EndTrain, BeginValid, InRunEpoch
  <2>2. CASE Raise
    BY <1>2, <2>1, <2>2
  <2>3. CASE ~Raise
    <3>1. pc' \notin Told /\ UNCHANGED <<vals, disk, kills>>
      BY <1>4, <2>1, <2>3 DEF Step, StepNaN, LoaderRaises, NoLoss, EndTrain, BeginValid, diskVars
    <3> QED BY <2>1, <3>1, HistoriesFrame
  <2> QED BY <2>2, <2>3
<1>5. CASE Write
  BY <1>5, HistoriesWrite
<1>6. CASE EndValid
  BY <1>6, HistoriesEndValid
<1>7. CASE CheckPatience
  BY <1>7, HistoriesPatience
\* The file has been written when the process leaves the loop.
<1>8. ASSUME pc \in {"checked", "break"}, todo = <<>>, pc' \notin Told, UNCHANGED <<vals, disk, kills>>
      PROVE  Histories'
  <2> SUFFICES ASSUME Telling' PROVE Histories'
    BY DEF Histories
  <2>1. Telling
    BY <1>8 DEF Telling
  <2>2. /\ LogOf(vals, Len(vals), bestLog)
        /\ \A f \in files : f.name = "model" /\ f.best => f.whole
    BY <1>0, <1>8, <2>1 DEF Histories, SessionType, AnyFile
  <2>3. PICK i : BestAt(vals, Len(vals), i) /\ Lines(todo, patience, Patience(Len(vals) - i, vals[i]))
    BY <1>8, <2>1 DEF Histories
  <2>4. patience = Patience(Len(vals) - i, vals[i]) /\ Len(vals) # 0
    <3>1. Len(todo) = 0
      BY <1>8
    <3>2. Len(vals) \in Nat
      BY <1>0 DEF SessionType
    <3> QED BY <2>3, <3>1, <3>2 DEF Lines, BestAt
  <2>5. PatienceOf(vals, Len(vals), patience)
    BY <2>3, <2>4 DEF PatienceOf
  <2> QED BY <1>8, <2>2, <2>5 DEF Histories, disk
<1>9. CASE StopForTimeout
  BY <1>8, <1>9 DEF StopForTimeout, Exit
<1>10. CASE NextEpoch
  BY <1>8, <1>10 DEF NextEpoch, diskVars
<1>11. CASE LoadBest
  <2>1. pc' \notin Told /\ UNCHANGED <<vals, disk, kills>>
    BY <1>11 DEF LoadBest, Raise, Exit, diskVars
  <2>2. CASE pc = "epoch"
    BY <2>1, <2>2, HistoriesFrame
  <2>3. CASE pc = "break" /\ todo = <<>>
    BY <1>8, <2>1, <2>3
  <2> QED BY <1>11, <2>2, <2>3 DEF LoadBest
<1>12. CASE Finish
  BY <1>1, <1>12 DEF Finish
<1>13. CASE Kill
  <2>1. kills' # 0
    BY <1>0, <1>13 DEF Kill, SessionType
  <2> QED BY <2>1 DEF Histories, Telling
<1>14. CASE LoaderStep \/ AtExit \/ Submit \/ UNCHANGED vars
  BY <1>14, HistoriesSame DEF LoaderStep, AtExit, Submit, vars, sessionVars, progress, diskVars
<1>15. CASE Sigusr1
  <2>1. CASE pc = "boot" /\ Exit("killed") /\ UNCHANGED <<job, continueFile, vals, saved, kills, disk>>
    BY <1>1, <2>1
  <2>2. CASE UNCHANGED <<pc, progress, job, exit, vals, saved, kills, diskVars, loaderVars, configVars>>
    BY <2>2, HistoriesSame DEF progress, diskVars
  <2> QED BY <1>15, <2>1, <2>2 DEF Sigusr1
<1> QED BY <1>3, <1>4, <1>5, <1>6, <1>7, <1>9, <1>10, <1>11, <1>12, <1>13, <1>14, <1>15 DEF Next, Process

LEMMA HistoriesInit == Init => Histories
PROOF
<1> SUFFICES ASSUME Init PROVE Histories
  OBVIOUS
<1>1. pc = "off" /\ vals = <<>> /\ files = {} /\ bestLog = <<>> /\ patience = NoPatience /\ Len(vals) = 0
  BY DEF Init, DiskInit
<1> QED BY <1>1 DEF Histories, PatienceOf, LogOf

\* A bounded set of files has one of the highest epoch.
LEMMA HighestFile ==
    ASSUME NEW pool, pool # {}, NEW m \in Nat,
           \A f \in pool : f.epoch \in Nat /\ f.epoch <= m
    PROVE  \E t \in pool : \A g \in pool : g.epoch <= t.epoch
PROOF
<1> DEFINE R == {m - f.epoch : f \in pool}
<1>1. R \subseteq Nat /\ R # {}
  <2>1. \A u \in Nat : u <= m => m - u \in Nat
    OBVIOUS
  <2> QED BY <2>1
<1>2. PICK x \in R : \A y \in R : x <= y
  BY <1>1, LeastOf
<1>3. PICK t \in pool : x = m - t.epoch
  BY <1>2
<1>4. ASSUME NEW g \in pool PROVE g.epoch <= t.epoch
  <2>1. m - t.epoch <= m - g.epoch
    BY <1>2, <1>3
  <2>2. \A u, w \in Nat : m - w <= m - u => u <= w
    OBVIOUS
  <2>3. g.epoch \in Nat /\ t.epoch \in Nat
    OBVIOUS
  <2> QED BY <2>1, <2>2, <2>3
<1> QED BY <1>4

\* The best file that is read is complete, as every one of them is.
LEMMA BestRead ==
    ASSUME SessionType, Disk, bestLog # <<>>,
           \A f \in files : f.name = "model" /\ f.best => f.whole
    PROVE  ReadBest("model").whole
PROOF
<1> DEFINE pool == Family("model", TRUE)
<1>1. pool \in SUBSET AnyFile /\ pool # {} /\ \A f \in pool : f.whole /\ f.epoch \in Nat /\ f.epoch <= saved + 1
  <2>1. \A f \in pool : f \in files /\ f.name = "model" /\ f.best
    BY DEF Family, SessionType, AnyFile
  <2>2. \E f \in files : f.name = "model" /\ f.best
    BY DEF Disk, Spare
  <2>3. pool # {}
    BY <2>2 DEF Family, SessionType, AnyFile
  <2>4. saved \in Nat
    BY DEF SessionType
  <2>5. ASSUME NEW f \in pool PROVE f.whole /\ f.epoch \in Nat /\ f.epoch <= saved + 1
    <3>1. f \in files /\ f.name = "model" /\ f.best
      BY <2>1
    <3>2. f.whole /\ f.epoch \in Nat
      BY <3>1 DEF SessionType, AnyFile
    <3>3. f.epoch <= saved \/ f.epoch = saved + 1
      BY <3>1 DEF Disk, Newest
    <3>4. CASE f.epoch <= saved
      BY <3>2, <3>4, <2>4
    <3>5. CASE f.epoch = saved + 1
      BY <3>2, <3>5, <2>4
    <3> QED BY <3>2, <3>3, <3>4, <3>5
  <2>6. pool \in SUBSET AnyFile
    BY <2>1 DEF SessionType
  <2> QED BY <2>3, <2>5, <2>6
<1>2. saved + 1 \in Nat
  BY DEF SessionType
<1> HIDE DEF pool
<1>3. PICK t \in pool : \A g \in pool : g.epoch <= t.epoch
  BY <1>1, <1>2, HighestFile
<1>4. Latest(pool) \in pool
  BY <1>1, <1>3, LatestFile
<1>5. ReadBest("model") = Latest(pool)
  BY <1>1 DEF ReadBest, pool
<1> QED BY <1>1, <1>4, <1>5

\* Where HistoriesAgree looks at the files they tell all metrics.
LEMMA HistoriesSay ==
    ASSUME SessionInv, Histories
    PROVE  HistoriesAgree
PROOF
<1> DEFINE n == Len(vals)
<1> SUFFICES ASSUME kills = 0, vals # <<>>, vals[1] # NaN, pc \notin {"save_valid", "checked", "break"}
             PROVE  /\ patience = Patience(Len(vals) - BestIndex, vals[BestIndex])
                    /\ Last(bestLog) = vals[BestIndex]
                    /\ ReadBest("model").whole
  BY DEF HistoriesAgree
<1>0. /\ SessionType /\ Disk /\ vals \in Seq(Values) /\ n \in Nat \ {0} /\ DOMAIN vals = 1 .. n
  BY DEF SessionInv, SessionType
<1>1. /\ PatienceOf(vals, n, patience) /\ LogOf(vals, n, bestLog)
      /\ \A f \in files : f.name = "model" /\ f.best => f.whole
  BY <1>0 DEF Histories, Telling, SessionType, AnyFile
<1>2. PICK i : BestAt(vals, n, i) /\ patience = Patience(n - i, vals[i])
  BY <1>0, <1>1 DEF PatienceOf
<1>3. PICK k : BestAt(vals, n, k) /\ Last(bestLog) = vals[k] /\ bestLog # <<>>
  BY <1>0, <1>1 DEF LogOf
<1>4. i = k
  BY <1>0, <1>2, <1>3, OneBest
<1>5. BestAt(vals, n, BestIndex)
  <2>1. i \in DOMAIN vals /\ BestAt(vals, n, i)
    BY <1>0, <1>2 DEF BestAt
  <2> QED BY <1>0, <2>1 DEF BestAt, BestIndex
<1>6. BestIndex = i
  BY <1>0, <1>2, <1>5, OneBest
<1>7. ReadBest("model").whole
  BY <1>0, <1>1, <1>3, BestRead
<1> QED BY <1>2, <1>3, <1>4, <1>6, <1>7

-----------------------------------------------------------------------------
(* What holds of every training run.                                       *)

\* The directory and the process are as described above at every moment of a
\* run, between any two disk operations and after any kill.
THEOREM SessionInvariant == Spec => []SessionInv
PROOF
<1>1. Spec => Init /\ [][Next]_vars
  BY PTL DEF Spec
<1> QED BY <1>1, SessionInit, SessionStep, PTL

\* Once an epoch has been saved there is a complete model file on disk at every
\* moment, but for the exceptions SomeModelSurvives names.
THEOREM SomeModelSurvivesHolds == Spec => []SomeModelSurvives
PROOF
<1>1. SessionInv => SomeModelSurvives
  BY DEF SessionInv, Disk
<1> QED BY <1>1, SessionInvariant, PTL

\* The optimizer file of an epoch lacks at most one epoch of training for each
\* time the process was killed.
THEOREM OptimizerLagHolds == Spec => []OptimizerLag
PROOF
<1>1. SessionInv => OptimizerLag
  <2> SUFFICES ASSUME SessionInv, NEW f \in files, f.name = "opt"
               PROVE  f.epoch - f.trained \in 0 .. kills
    BY DEF OptimizerLag
  <2>1. f \in Opts /\ f.epoch \in Nat /\ f.trained \in Nat /\ kills \in Nat
    BY DEF SessionInv, SessionType, Opts, AnyFile
  <2>2. f.trained <= f.epoch /\ f.epoch <= f.trained + kills
    BY <2>1 DEF SessionInv, OptDisk
  <2> QED BY <2>1, <2>2
<1> QED BY <1>1, SessionInvariant, PTL

\* Whatever the disk looked like when the process before was killed, a
\* restarted one either fails or goes on with the epoch after the last one saved.
THEOREM ResumesHolds == Spec => ResumesWhereItStopped
PROOF
<1> DEFINE A == pc = "load_model" /\ pc' = "load_opt" => epoch' = saved /\ model' = epoch'
<1>1. SessionInv /\ [Next]_vars => [A]_vars
  <2> SUFFICES ASSUME SessionInv, Next, pc = "load_model", pc' = "load_opt"
               PROVE  epoch' = saved /\ model' = epoch'
    OBVIOUS
  <2>1. LoadModel
    <3>1. \A how : ~Exit(how)
      BY DEF Exit
    <3>2. ~Raise /\ ~InRunEpoch
      BY <3>1 DEF Raise, InRunEpoch
    <3>3. CASE Process
      BY <3>2, <3>3 DEF Process, InstallHandler, LoadOpt, BeginEpoch, Step, StepNaN, LoaderRaises, NoLoss,
         EndTrain, Write, BeginValid, EndValid, CheckPatience, StopForTimeout, NextEpoch, LoadBest, Finish
    <3>4. CASE LoaderStep \/ Boot \/ AtExit \/ Submit
      BY <3>4 DEF LoaderStep, sessionVars, Boot, AtExit, Submit
    <3>5. CASE Sigusr1 \/ Kill
      BY <3>1, <3>5 DEF Sigusr1, Kill
    <3> QED BY <3>3, <3>4, <3>5 DEF Next
  <2>2. ReadLatest("model").whole
    <3>1. ~Raise
      BY DEF Raise, Exit
    <3> QED BY <2>1, <3>1 DEF LoadModel, LoadModelCp
  <2>3. epoch' = ReadLatest("model").epoch /\ model' = ReadLatest("model").trained
    BY <2>1, <2>2 DEF LoadModel, LoadModelCp
  <2> QED BY <2>2, <2>3, ModelRead DEF SessionInv
<1>2. Spec => [][Next]_vars
  BY PTL DEF Spec
<1>3. Spec => [][A]_vars
  BY <1>1, <1>2, SessionInvariant, PTL
<1> QED BY <1>3 DEF ResumesWhereItStopped

\* At every moment of a run that was not killed .best and .patience tell the
\* metrics up to the place the process has reached.
THEOREM HistoriesInvariant == Spec => [](SessionInv /\ Histories)
PROOF
<1>1. Init => SessionInv /\ Histories
  BY SessionInit, HistoriesInit
<1>2. SessionInv /\ Histories /\ [Next]_vars => (SessionInv /\ Histories)'
  BY SessionStep, HistoriesStep
<1>3. Spec => Init /\ [][Next]_vars
  BY PTL DEF Spec
<1> QED BY <1>1, <1>2, <1>3, PTL

\* Without kills .patience counts the validations since the best one, .best ends
\* with its metric, and the file load_model(epoch="best") reads is complete.
THEOREM HistoriesAgreeHolds == Spec => []HistoriesAgree
PROOF
<1> QED BY HistoriesInvariant, HistoriesSay, PTL

\* The loader is in the epoch the process is in, after any resume, and keeps the
\* invariant that was proved of it alone.
THEOREM RunInvariant == Spec => []RunInv
PROOF
<1>1. Init => RunInv
  BY SessionInit, LoaderStateInit DEF RunInv
<1>2. RunInv /\ [Next]_vars => RunInv'
  <2> SUFFICES ASSUME RunInv, [Next]_vars PROVE RunInv'
    OBVIOUS
  <2>1. SessionInv'
    BY SessionStep DEF RunInv
  <2>2. LoaderState' /\ ConfigState' /\ LrState'
    BY <2>1, LoaderStateStep, ConfigStateStep, LrStateStep DEF RunInv
  <2> QED BY <2>1, <2>2 DEF RunInv
<1>3. Spec => Init /\ [][Next]_vars
  BY PTL DEF Spec
<1> QED BY <1>1, <1>2, <1>3, PTL

\* No step sees a batch of another epoch or split, and an epoch that ends has
\* missed at most one batch.
THEOREM BatchesOfTheEpochHolds == Spec => []BatchesOfTheEpoch
PROOF
<1>1. RunInv => BatchesOfTheEpoch
  <2> SUFFICES ASSUME RunInv PROVE BatchesOfTheEpoch
    OBVIOUS
  <2>1. Proven!Inv /\ LoaderState
    BY DEF RunInv, LoaderState, LoaderOK
  <2>2. ASSUME mpc = "busy"
        PROVE  batch[1] = CASE pc = "train" -> TrainEpoch(epoch)
                            [] pc = "valid" -> ValidEpoch(epoch)
                            [] pc = "test" -> TestEpoch
    <3>1. batch[1] = native.epoch
      BY <2>1, <2>2 DEF Proven!Inv, Proven!Belongs
    <3>2. InRunEpoch
      BY <2>1, <2>2 DEF LoaderState
    <3>3. CASE pc = "train"
      BY <2>1, <3>1, <3>3 DEF LoaderState
    <3>4. CASE pc = "valid"
      BY <2>1, <3>1, <3>4 DEF LoaderState
    <3>5. CASE pc = "test"
      BY <2>1, <3>1, <3>5 DEF LoaderState
    <3> QED BY <3>2, <3>3, <3>4, <3>5 DEF InRunEpoch
  <2> QED BY <2>1, <2>2, SameLost DEF BatchesOfTheEpoch
<1> QED BY <1>1, RunInvariant, PTL

\* A training step never runs out of its schedule, whatever batch sizes, warmup
\* and cycles are configured and wherever the run was resumed.
THEOREM LrCoversStepHolds == Spec => []LrCoversStep
PROOF
<1>1. RunInv => LrCoversStep
  BY LrCovers DEF RunInv
<1> QED BY <1>1, RunInvariant, PTL

=============================================================================
