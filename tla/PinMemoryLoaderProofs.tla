----------------------- MODULE PinMemoryLoaderProofs -----------------------
(***************************************************************************)
(* Proofs about PinMemoryLoader, for any epochs, batches, queue sizes and  *)
(* errors.                                                                 *)
(*                                                                         *)
(* The thread outlives its epoch, so the invariant distinguishes where the *)
(* consumer stands: iterating (Active), between two epochs (idle), or      *)
(* replacing the thread (Starting), when the native loader already serves  *)
(* the new epoch and the queue still belongs to the old one.               *)
(***************************************************************************)
EXTENDS PinMemoryLoader, FiniteSetTheorems, TLAPS

Active == {"iter", "get", "busy", "raised"}
Starting == {"setup", "drain", "join"}
Holding == tpc \in {"put", "putting"}

\* Without pinning there is no thread.
NoThread ==
    ~ pin => /\ tpc = "dead" /\ mpc \in {"idle", "iter", "busy", "raised"}
             /\ queue = <<>> /\ lost = {}
             /\ mpc \in Active => \A k \in 1 .. native.next - 1 : k \in got

\* What the queue and the thread hold belongs to the running epoch, or, while
\* the thread is replaced, to an earlier one.
Belongs ==
    /\ mpc \in Active \cup {"idle"} =>
          /\ \A i \in 1 .. Len(queue) : queue[i][1] = native.epoch
          /\ Holding => item[1] = native.epoch
    /\ mpc \in Starting =>
          /\ \A i \in 1 .. Len(queue) : queue[i][1] # native.epoch
          /\ tpc = "putting" => item[1] # native.epoch
    /\ mpc = "busy" => batch[1] = native.epoch

\* The thread of an epoch that is over has been told to stop; the one of the
\* running epoch is told to stop only by its own failure.
Stopped ==
    /\ mpc \in Starting \cup {"idle"} /\ ThreadAlive => done
    /\ mpc \in Active /\ done => ~ThreadAlive \/ ~pin
    /\ mpc \in Active /\ pin /\ ~ThreadAlive => errors > 0

\* The end of the epoch comes last.
EndLast ==
    /\ mpc \in Active =>
          /\ \A i \in 1 .. Len(queue) : Ended(queue[i]) =>
                /\ native.next > native.n
                /\ \A j \in i .. Len(queue) : Ended(queue[j])
                /\ Holding => Ended(item)
          /\ Holding /\ Ended(item) => native.next > native.n
    /\ mpc = "idle" /\ ThreadAlive => native.next > native.n /\ (Holding => Ended(item))

\* At most one batch of the epoch was dropped by the thread of the one before.
OneLost ==
    lost = {} \/ \E k \in 1 .. MaxBatches : lost = {k}

\* While the thread is replaced, what the native loader served is lost or about
\* to be; after that the old thread takes nothing more.
TakenEarly ==
    mpc \in Starting =>
        /\ pin
        /\ lost # {} => tpc \in {"check", "dead"}
        /\ \A k \in 1 .. native.next - 1 :
              k \in lost \/ (tpc = "put" /\ item = <<native.epoch, k>>)

\* While the epoch runs, what was served is yielded, lost, queued or held.
Served ==
    mpc \in Active /\ pin /\ ~done =>
        \A k \in 1 .. native.next - 1 :
           \/ k \in got \cup lost
           \/ \E i \in 1 .. Len(queue) : queue[i][2] = k
           \/ Holding /\ item[2] = k

\* An epoch that is over was complete but for what was lost.
Complete ==
    mpc = "idle" /\ native.epoch # NoEpoch => 1 .. native.n \subseteq got \cup lost

\* A thread that stopped itself has emptied its queue.
SelfStopped ==
    mpc \in Active /\ done /\ pin => queue = <<>>

\* Every batch taken from the native loader is accounted for.
Accounted == OneLost /\ TakenEarly /\ Served /\ Complete /\ SelfStopped

Inv ==
    LoaderConstants /\ LoaderTypeOK /\ NoThread /\ Belongs /\ Stopped /\ EndLast /\ Accounted

\* What is yielded, queued and held of the running epoch are batches of it.
Numbered ==
    /\ got \subseteq 1 .. native.n
    /\ mpc \in Active \cup {"idle"} =>
          /\ \A i \in 1 .. Len(queue) : queue[i][2] <= native.n
          /\ Holding => item[2] <= native.n

-----------------------------------------------------------------------------
\* A new loader: no thread, nothing queued, nothing lost.
LEMMA InitInv == LoaderConstants /\ LoaderInit => Inv
PROOF
<1> SUFFICES ASSUME LoaderConstants, LoaderInit PROVE Inv
  OBVIOUS
<1> USE DEF LoaderInit
<1>1. LoaderTypeOK
  <2>1. native \in NativeState
    BY DEF LoaderConstants, NativeState
  <2>2. None \in Batch
    BY DEF LoaderConstants, None, Batch
  <2>3. queue \in Seq(Batch)
    OBVIOUS
  <2>4. errors \in 0 .. MaxErrors
    BY DEF LoaderConstants
  <2> QED
    BY <2>1, <2>2, <2>3, <2>4 DEF LoaderTypeOK
<1>2. NoThread /\ Belongs /\ Stopped /\ EndLast /\ Accounted
   BY DEF NoThread, Belongs, Stopped, EndLast, Accounted, OneLost, TakenEarly, Served,
       Complete, SelfStopped, Active, Starting, Holding, ThreadAlive
<1> QED
  BY <1>1, <1>2 DEF Inv

\* What the native loader serves next is a batch; None is one, too.
LEMMA BatchFacts == Inv => None \in Batch /\ NextItem \in Batch
PROOF
<1> SUFFICES ASSUME Inv PROVE None \in Batch /\ NextItem \in Batch
  OBVIOUS
<1>1. LoaderConstants /\ native.epoch \in {NoEpoch} \cup Epochs
      /\ native.next \in 1 .. MaxBatches + 1 /\ native.n \in 0 .. MaxBatches
  BY DEF Inv, LoaderTypeOK, NativeState
<1>2. None \in Batch
  BY <1>1 DEF LoaderConstants, None, Batch
<1>3. NextItem \in Batch
  BY <1>1 DEF LoaderConstants, NextItem, Batch
<1> QED
  BY <1>2, <1>3

\* The native loader moves on within its epoch and its bounds.
LEMMA AdvanceFacts ==
    ASSUME Inv, Advance
    PROVE  /\ native' \in NativeState
           /\ native'.epoch = native.epoch /\ native'.n = native.n
           /\ native'.next = IF native.next <= native.n THEN native.next + 1 ELSE native.next
PROOF
<1>1. LoaderConstants /\ native \in NativeState
  BY DEF Inv, LoaderTypeOK
<1> QED
  BY <1>1 DEF LoaderConstants, NativeState, Advance

\* The native loader starts the new epoch while the old thread, told to stop,
\* may still hold a batch of the old one.
LEMMA StartEpochInv ==
    ASSUME Inv, NEW e \in Epochs, NEW n \in 0 .. MaxBatches, e # native.epoch, StartEpoch(e, n)
    PROVE  Inv'
PROOF
<1> USE DEF StartEpoch, thread
<1>0. LoaderConstants'
  BY DEF Inv
<1>a. native'.epoch = e /\ native'.next = 1 /\ native'.n = n
  OBVIOUS
<1>1. LoaderTypeOK'
  <2>1. native' \in NativeState
    BY DEF Inv, LoaderConstants, NativeState
  <2> QED
    BY <2>1 DEF Inv, LoaderTypeOK
<1>2. NoThread'
  BY <1>a DEF Inv, NoThread
<1>3. Belongs'
  BY <1>a DEF Inv, NoThread, Belongs, Active, Holding
<1>4. Stopped'
  BY DEF Inv, Stopped, Active, ThreadAlive
<1>5. EndLast'
  BY <1>a DEF Inv, NoThread, EndLast, Active, Holding
<1>6. Accounted'
  BY <1>a DEF Accounted, OneLost, TakenEarly, Served, Complete, SelfStopped, Active, Starting
<1> QED
  BY <1>0, <1>1, <1>2, <1>3, <1>4, <1>5, <1>6 DEF Inv

\* The consumer asks for the next batch.
LEMMA ResumeInv == Inv /\ Resume => Inv'
PROOF
<1> SUFFICES ASSUME Inv, Resume PROVE Inv'
  OBVIOUS
<1> USE DEF Resume, consumer, thread
<1>0. LoaderConstants'
  BY DEF Inv
<1>1. LoaderTypeOK'
  BY BatchFacts DEF Inv, LoaderTypeOK
<1>2. NoThread'
  BY DEF Inv, NoThread, Active
<1>3. Belongs'
  BY DEF Inv, Belongs, Active, Starting, Holding
<1>4. Stopped'
  BY DEF Inv, Stopped, Active, Starting, ThreadAlive
<1>5. EndLast'
  BY DEF Inv, EndLast, Active, Holding
<1>6. Accounted'
   BY DEF Inv, Accounted, OneLost, TakenEarly, Served, Complete, SelfStopped, Active,
       Starting, Holding
<1> QED
  BY <1>0, <1>1, <1>2, <1>3, <1>4, <1>5, <1>6 DEF Inv

\* The first thread starts on an empty queue.
LEMMA SetupQueueInv == Inv /\ SetupQueue => Inv'
PROOF
<1> SUFFICES ASSUME Inv, SetupQueue PROVE Inv'
  OBVIOUS
<1> USE DEF SetupQueue, NewThread, consumer, thread
<1>0. LoaderConstants'
  BY DEF Inv
<1>1. LoaderTypeOK'
  <2>1. queue' \in Seq(Batch)
    OBVIOUS
  <2> QED
    BY <2>1, BatchFacts DEF Inv, LoaderTypeOK
<1>2. NoThread'
  BY DEF Inv, NoThread
<1>3. Belongs'
  BY DEF Belongs, Holding
<1>4. Stopped'
  BY DEF Stopped, Starting, ThreadAlive
<1>5. EndLast'
  BY DEF EndLast, Holding
<1>6. Accounted'
   BY DEF Inv, Accounted, OneLost, TakenEarly, Served, Complete, SelfStopped, Starting,
       ThreadAlive
<1> QED
  BY <1>0, <1>1, <1>2, <1>3, <1>4, <1>5, <1>6 DEF Inv

\* Telling the old thread to stop moves nothing.
LEMMA StopOldThreadInv == Inv /\ StopOldThread => Inv'
PROOF
<1> SUFFICES ASSUME Inv, StopOldThread PROVE Inv'
  OBVIOUS
<1> USE DEF StopOldThread, consumer, thread
<1>0. LoaderConstants'
  BY DEF Inv
<1>1. LoaderTypeOK'
  BY BatchFacts DEF Inv, LoaderTypeOK
<1>2. NoThread'
  BY DEF Inv, NoThread
<1>3. Belongs'
  BY DEF Inv, Belongs, Active, Starting
<1>4. Stopped'
  BY DEF Stopped, Active
<1>5. EndLast'
  BY DEF EndLast, Active
<1>6. Accounted'
  BY DEF Inv, Accounted, OneLost, TakenEarly, Served, Complete, SelfStopped, Active, Starting
<1> QED
  BY <1>0, <1>1, <1>2, <1>3, <1>4, <1>5, <1>6 DEF Inv

\* Emptying the old queue drops batches of the old epoch only.
LEMMA DrainOneInv == Inv /\ DrainOne => Inv'
PROOF
<1> SUFFICES ASSUME Inv, DrainOne PROVE Inv'
  OBVIOUS
<1> USE DEF DrainOne, consumer, thread
<1>0. LoaderConstants'
  BY DEF Inv
<1>1. LoaderTypeOK'
  BY BatchFacts DEF Inv, LoaderTypeOK
<1>2. NoThread'
  BY DEF Inv, NoThread
<1>3. Belongs'
  BY DEF Inv, Belongs, Holding
<1>4. Stopped'
  BY DEF Inv, Stopped, ThreadAlive
<1>5. EndLast'
  BY DEF EndLast, Active
<1>6. Accounted'
  BY DEF Inv, Accounted, OneLost, TakenEarly, Served, Complete, SelfStopped, Starting, Holding
<1> QED
  BY <1>0, <1>1, <1>2, <1>3, <1>4, <1>5, <1>6 DEF Inv

\* Once the queue stays empty the old thread holds nothing it could still put.
LEMMA DrainedInv == Inv /\ Drained => Inv'
PROOF
<1> SUFFICES ASSUME Inv, Drained PROVE Inv'
  OBVIOUS
<1> USE DEF Drained, consumer, thread
<1>0. LoaderConstants'
  BY DEF Inv
<1>1. LoaderTypeOK'
  BY BatchFacts DEF Inv, LoaderTypeOK
<1>2. NoThread'
  BY DEF Inv, NoThread
<1>3. Belongs'
  BY DEF Belongs, Active
<1>4. Stopped'
  BY DEF Inv, Stopped, Active, Starting, ThreadAlive
<1>5. EndLast'
  BY DEF EndLast, Active
<1>6. Accounted'
  BY DEF Inv, Accounted, OneLost, TakenEarly, Served, Complete, SelfStopped, Starting, Holding
<1> QED
  BY <1>0, <1>1, <1>2, <1>3, <1>4, <1>5, <1>6 DEF Inv

\* A joined thread leaves nothing behind; the next one starts on an empty queue.
LEMMA JoinOldThreadInv == Inv /\ JoinOldThread => Inv'
PROOF
<1> SUFFICES ASSUME Inv, JoinOldThread PROVE Inv'
  OBVIOUS
<1> USE DEF JoinOldThread, NewThread, consumer, thread
<1>0. LoaderConstants'
  BY DEF Inv
<1>1. LoaderTypeOK'
  <2>1. queue' \in Seq(Batch)
    OBVIOUS
  <2> QED
    BY <2>1, BatchFacts DEF Inv, LoaderTypeOK
<1>2. NoThread'
  BY DEF Inv, NoThread
<1>3. Belongs'
  BY DEF Belongs, Holding
<1>4. Stopped'
  BY DEF Stopped, Starting, ThreadAlive
<1>5. EndLast'
  BY DEF EndLast, Holding
<1>6. Accounted'
   BY DEF Inv, Accounted, OneLost, TakenEarly, Served, Complete, SelfStopped, Starting,
       ThreadAlive
<1> QED
  BY <1>0, <1>1, <1>2, <1>3, <1>4, <1>5, <1>6 DEF Inv

\* Looking at the thread changes only where the consumer stands.
LEMMA CheckThreadInv == Inv /\ CheckThread => Inv'
PROOF
<1> SUFFICES ASSUME Inv, CheckThread PROVE Inv'
  OBVIOUS
<1> USE DEF CheckThread, consumer, thread
<1>0. LoaderConstants'
  BY DEF Inv
<1>1. LoaderTypeOK'
  BY BatchFacts DEF Inv, LoaderTypeOK
<1>2. NoThread'
  BY DEF NoThread
<1>3. Belongs'
  BY DEF Inv, Belongs, Active, Starting, Holding
<1>4. Stopped'
  BY DEF Inv, Stopped, Active, Starting, ThreadAlive
<1>5. EndLast'
  BY DEF Inv, EndLast, Active, Holding
<1>6. Accounted'
   BY DEF Inv, Accounted, OneLost, TakenEarly, Served, Complete, SelfStopped, Active,
       Starting, Holding
<1> QED
  BY <1>0, <1>1, <1>2, <1>3, <1>4, <1>5, <1>6 DEF Inv

\* The consumer takes the head of the queue: a batch of this epoch, or its end.
LEMMA GetPinnedInv == Inv /\ GetPinned => Inv'
PROOF
<1> SUFFICES ASSUME Inv, GetPinned PROVE Inv'
  OBVIOUS
<1> USE DEF GetPinned, consumer, thread
<1>0. LoaderConstants'
  BY DEF Inv
<1>1. LoaderTypeOK'
  <2>1. Head(queue) \in Batch /\ queue' \in Seq(Batch)
    BY DEF Inv, LoaderTypeOK
  <2>2. ~ Ended(Head(queue)) => Head(queue)[2] \in 1 .. MaxBatches
    BY <2>1 DEF Batch, Ended
  <2> QED
    BY <2>1, <2>2 DEF Inv, LoaderTypeOK
<1>2. NoThread'
  BY DEF Inv, NoThread
<1>3. Belongs'
  BY DEF Inv, Belongs, Active, Starting, Holding
<1>4. Stopped'
  BY DEF Inv, Stopped, Active, Starting, ThreadAlive
<1>5. EndLast'
  BY DEF Inv, EndLast, Active, Holding
<1>6. Accounted'
  <2>1. OneLost'
    BY DEF Inv, Accounted, OneLost
  <2>2. TakenEarly'
    BY DEF Starting, TakenEarly
  <2>3. Served'
    <3>1. CASE Ended(Head(queue))
      BY <3>1 DEF Served
    <3>2. CASE ~ Ended(Head(queue))
      <4> SUFFICES ASSUME pin, ~ done, NEW k \in 1 .. native.next - 1
                   PROVE  \/ k \in got' \cup lost
                          \/ \E i \in 1 .. Len(queue') : queue'[i][2] = k
                          \/ Holding /\ item[2] = k
        BY <3>2 DEF Served, Holding
      <4>1. /\ Len(queue) \in Nat \ {0} /\ Len(queue') = Len(queue) - 1
            /\ Head(queue) = queue[1]
            /\ \A i \in 2 .. Len(queue) : queue[i] = queue'[i - 1]
        OBVIOUS
      <4>2. CASE k \in got \cup lost \/ (Holding /\ item[2] = k)
        BY <3>2, <4>2
      <4>3. ASSUME NEW i \in 1 .. Len(queue), queue[i][2] = k
            PROVE  \/ k \in got'
                   \/ \E j \in 1 .. Len(queue') : queue'[j][2] = k
        <5>1. CASE i = 1
          BY <3>2, <4>1, <4>3, <5>1
        <5>2. CASE i # 1
          <6>1. i \in 2 .. Len(queue) /\ i - 1 \in 1 .. Len(queue')
            BY <4>1, <5>2
          <6> QED
            BY <4>1, <4>3, <6>1
        <5> QED
          BY <5>1, <5>2
      <4> QED
        BY <4>2, <4>3 DEF Inv, Accounted, Served, Active
    <3> QED
      BY <3>1, <3>2
  <2>4. Complete'
    <3>1. CASE ~ Ended(Head(queue))
      BY <3>1 DEF Complete
    <3>2. CASE Ended(Head(queue))
      <4>1. pin /\ ~ done
        BY DEF Inv, NoThread, Accounted, SelfStopped, Active
      <4>2. Len(queue) \in Nat \ {0} /\ Head(queue) = queue[1]
        OBVIOUS
      <4>3. /\ native.next > native.n
            /\ \A i \in 1 .. Len(queue) : queue[i][2] = 0
            /\ Holding => item[2] = 0
        BY <3>2, <4>2 DEF Inv, EndLast, Active, Ended
      <4>4. native.n \in Nat /\ native.next \in Nat
        BY DEF Inv, LoaderTypeOK, NativeState
      <4>5. ASSUME NEW k \in 1 .. native.n PROVE k \in got \cup lost
        <5>1. k \in 1 .. native.next - 1 /\ k # 0
          BY <4>3, <4>4
        <5> QED
          BY <4>1, <4>3, <5>1 DEF Inv, Accounted, Served, Active
      <4> QED
        BY <3>2, <4>5 DEF Complete
    <3> QED
      BY <3>1, <3>2
  <2>5. SelfStopped'
    BY DEF Inv, Accounted, Active, SelfStopped
  <2> QED
    BY <2>1, <2>2, <2>3, <2>4, <2>5 DEF Accounted
<1> QED
  BY <1>0, <1>1, <1>2, <1>3, <1>4, <1>5, <1>6 DEF Inv

\* Without pinning the batch comes straight from the native loader.
LEMMA GetDirectInv == Inv /\ GetDirect => Inv'
PROOF
<1> SUFFICES ASSUME Inv, GetDirect PROVE Inv'
  OBVIOUS
<1> USE DEF GetDirect, NextItem, consumer, thread
<1>0. LoaderConstants'
  BY DEF Inv
<1>a. /\ native' \in NativeState /\ native'.epoch = native.epoch /\ native'.n = native.n
      /\ native'.next = IF native.next <= native.n THEN native.next + 1 ELSE native.next
  BY AdvanceFacts
<1>1. LoaderTypeOK'
  <2>1. ~ Ended(NextItem) => NextItem[2] \in 1 .. MaxBatches
    BY BatchFacts DEF Batch, Ended
  <2> QED
    BY <1>a, <2>1, BatchFacts DEF Inv, LoaderTypeOK
<1>2. NoThread'
  BY <1>a DEF Inv, LoaderTypeOK, NativeState, NoThread, Active
<1>3. Belongs'
  BY <1>a DEF Inv, Belongs, Active, Starting, Holding
<1>4. Stopped'
  BY <1>a DEF Inv, NoThread, Stopped, ThreadAlive
<1>5. EndLast'
  BY <1>a DEF Inv, NoThread, EndLast, Holding, ThreadAlive
<1>6. Accounted'
   BY <1>a DEF Inv, LoaderTypeOK, NativeState, NoThread, Accounted, OneLost, TakenEarly,
       Served, Complete, SelfStopped, Active, Starting, Ended
<1> QED
  BY <1>0, <1>1, <1>2, <1>3, <1>4, <1>5, <1>6 DEF Inv

\* Without pinning an error ends the iteration.
LEMMA GetDirectFailsInv == Inv /\ GetDirectFails => Inv'
PROOF
<1> SUFFICES ASSUME Inv, GetDirectFails PROVE Inv'
  OBVIOUS
<1> USE DEF GetDirectFails, consumer, thread
<1>0. LoaderConstants'
  BY DEF Inv
<1>1. LoaderTypeOK'
  <2>1. errors' \in 0 .. MaxErrors
    BY DEF Inv, LoaderConstants, LoaderTypeOK
  <2> QED
    BY <2>1, BatchFacts DEF Inv, LoaderTypeOK
<1>2. NoThread'
  BY DEF Inv, NoThread, Active
<1>3. Belongs'
  BY DEF Inv, Belongs, Active, Starting, Holding
<1>4. Stopped'
  BY DEF Stopped, Starting
<1>5. EndLast'
  BY DEF Inv, EndLast, Active, Holding
<1>6. Accounted'
  BY DEF Inv, Accounted, OneLost, TakenEarly, Served, Complete, SelfStopped, Starting
<1> QED
  BY <1>0, <1>1, <1>2, <1>3, <1>4, <1>5, <1>6 DEF Inv

\* The thread looks at the event and ends, or goes on.
LEMMA ThreadCheckInv == Inv /\ ThreadCheck => Inv'
PROOF
<1> SUFFICES ASSUME Inv, ThreadCheck PROVE Inv'
  OBVIOUS
<1> USE DEF ThreadCheck, consumer, thread
<1>0. LoaderConstants'
  BY DEF Inv
<1>1. LoaderTypeOK'
  BY BatchFacts DEF Inv, LoaderTypeOK
<1>2. NoThread'
  BY DEF Inv, NoThread
<1>3. Belongs'
  BY DEF Inv, Belongs, Holding
<1>4. Stopped'
  BY DEF Inv, Stopped, ThreadAlive
<1>5. EndLast'
  BY DEF Inv, EndLast, Holding, ThreadAlive
<1>6. Accounted'
   BY DEF Inv, Stopped, Accounted, OneLost, TakenEarly, Served, Complete, SelfStopped,
       Holding, ThreadAlive
<1> QED
  BY <1>0, <1>1, <1>2, <1>3, <1>4, <1>5, <1>6 DEF Inv

\* What the thread takes is counted as held until it is put or dropped.
LEMMA ThreadGetInv == Inv /\ ThreadGet => Inv'
PROOF
<1> SUFFICES ASSUME Inv, ThreadGet PROVE Inv'
  OBVIOUS
<1> USE DEF ThreadGet, NextItem, consumer, thread
<1>0. LoaderConstants'
  BY DEF Inv
<1>a. /\ native' \in NativeState /\ native'.epoch = native.epoch /\ native'.n = native.n
      /\ native'.next = IF native.next <= native.n THEN native.next + 1 ELSE native.next
  BY AdvanceFacts
<1>1. LoaderTypeOK'
  BY <1>a, BatchFacts DEF Inv, LoaderTypeOK
<1>2. NoThread'
  BY <1>a DEF Inv, NoThread
<1>3. Belongs'
  BY <1>a DEF Inv, Belongs
<1>4. Stopped'
  BY <1>a DEF Inv, Stopped, ThreadAlive
<1>5. EndLast'
  BY <1>a DEF Inv, LoaderTypeOK, NativeState, EndLast, ThreadAlive, Ended
<1>6. Accounted'
  <2>1. OneLost'
    BY <1>a DEF Inv, Accounted, OneLost
  <2>2. TakenEarly'
    <3> SUFFICES ASSUME mpc \in Starting
                 PROVE  /\ pin /\ lost = {}
                        /\ \A k \in 1 .. native'.next - 1 : item' = <<native'.epoch, k>>
      BY DEF TakenEarly
    <3>1. pin /\ lost = {} /\ \A k \in 1 .. native.next - 1 : FALSE
      BY DEF Inv, Accounted, TakenEarly
    <3>2. native.n \in Nat /\ native.next \in Nat \ {0}
      BY DEF Inv, LoaderTypeOK, NativeState
    <3>3. native.next = 1
      <4>1. native.next # 1 => 1 \in 1 .. native.next - 1
        BY <3>2
      <4> QED
        BY <3>1, <4>1
    <3>4. ASSUME NEW k \in 1 .. native'.next - 1 PROVE item' = <<native'.epoch, k>>
      BY <1>a, <3>2, <3>3, <3>4
    <3> QED
      BY <3>1, <3>4
  <2>3. Served'
    <3> SUFFICES ASSUME mpc \in Active, pin, ~ done, NEW k \in 1 .. native'.next - 1
                 PROVE  \/ k \in got \cup lost
                        \/ \E i \in 1 .. Len(queue) : queue[i][2] = k
                        \/ item'[2] = k
      BY DEF Served, Holding
    <3>1. native.n \in Nat /\ native.next \in Nat \ {0}
      BY DEF Inv, LoaderTypeOK, NativeState
    <3>2. k \in 1 .. native.next - 1 \/ item'[2] = k
      BY <1>a, <3>1
    <3>3. ~ Holding
      BY DEF Holding
    <3> QED
      BY <3>2, <3>3 DEF Inv, Accounted, Served
  <2>4. Complete'
    BY <1>a DEF Inv, Accounted, Complete
  <2>5. SelfStopped'
    BY <1>a DEF Inv, Stopped, ThreadAlive, SelfStopped
  <2> QED
    BY <2>1, <2>2, <2>3, <2>4, <2>5 DEF Accounted
<1> QED
  BY <1>0, <1>1, <1>2, <1>3, <1>4, <1>5, <1>6 DEF Inv

\* A thread that fails counts an error; if it drains the queue it has told itself to stop.
LEMMA ThreadGetFailsInv == Inv /\ ThreadGetFails => Inv'
PROOF
<1> SUFFICES ASSUME Inv, ThreadGetFails PROVE Inv'
  OBVIOUS
<1> USE DEF ThreadGetFails, consumer, thread
<1>0. LoaderConstants'
  BY DEF Inv
<1>1. LoaderTypeOK'
  <2>1. errors' \in 0 .. MaxErrors
    BY DEF Inv, LoaderConstants, LoaderTypeOK
  <2>2. queue \in Seq(Batch) /\ <<>> \in Seq(Batch)
    BY DEF Inv, LoaderTypeOK
  <2>3. queue' \in Seq(Batch)
    BY <2>2
  <2> QED
    BY <2>1, <2>3, BatchFacts DEF Inv, LoaderTypeOK
<1>2. NoThread'
  BY DEF Inv, NoThread
<1>3. Belongs'
  BY DEF Inv, Belongs, Holding
<1>4. Stopped'
  BY DEF Inv, LoaderTypeOK, Stopped, ThreadAlive
<1>5. EndLast'
  BY DEF Inv, EndLast, Holding, ThreadAlive
<1>6. Accounted'
  <2>1. OneLost'
    BY DEF Inv, Accounted, OneLost
  <2>2. TakenEarly'
    BY DEF Inv, Accounted, TakenEarly
  <2>3. Served'
    BY DEF Inv, Accounted, Holding, Served
  <2>4. Complete'
    BY DEF Inv, Accounted, Complete
  <2>5. SelfStopped'
    BY DEF Inv, Stopped, ThreadAlive, SelfStopped
  <2> QED
    BY <2>1, <2>2, <2>3, <2>4, <2>5 DEF Accounted
<1> QED
  BY <1>0, <1>1, <1>2, <1>3, <1>4, <1>5, <1>6 DEF Inv

\* Only a thread that was told to stop drops what it holds.
LEMMA ThreadPutInv == Inv /\ ThreadPut => Inv'
PROOF
<1> SUFFICES ASSUME Inv, ThreadPut PROVE Inv'
  OBVIOUS
<1> USE DEF ThreadPut, consumer, thread
<1>0. LoaderConstants'
  BY DEF Inv
<1>1. LoaderTypeOK'
  <2>1. ~ Ended(item) => item[2] \in 1 .. MaxBatches
    BY DEF Inv, LoaderTypeOK, Batch, Ended
  <2> QED
    BY <2>1, BatchFacts DEF Inv, LoaderTypeOK
<1>2. NoThread'
  BY DEF Inv, NoThread
<1>3. Belongs'
  <2>1. CASE done
    BY <2>1 DEF Inv, Belongs, Holding
  <2>2. CASE ~ done
    BY <2>2 DEF Inv, Belongs, Stopped, ThreadAlive, Holding
  <2> QED
    BY <2>1, <2>2
<1>4. Stopped'
  BY DEF Inv, Stopped, ThreadAlive
<1>5. EndLast'
  BY DEF Inv, EndLast, Holding, ThreadAlive
<1>6. Accounted'
  <2>1. OneLost'
    <3>1. CASE ~ (done /\ item[1] = native.epoch /\ ~ Ended(item))
      BY <3>1 DEF Inv, Accounted, OneLost
    <3>2. CASE done /\ item[1] = native.epoch /\ ~ Ended(item)
      <4>1. mpc \in Starting
         BY <3>2 DEF Inv, LoaderTypeOK, NoThread, Stopped, EndLast, ThreadAlive, Holding,
             Active, Starting
      <4>2. lost = {}
        BY <4>1 DEF Inv, Accounted, TakenEarly
      <4>3. item[2] \in 1 .. MaxBatches
        BY <3>2 DEF Inv, LoaderTypeOK, Batch, Ended
      <4>4. lost' = {item[2]}
        BY <3>2, <4>2
      <4> QED
        BY <4>3, <4>4 DEF OneLost
    <3> QED
      BY <3>1, <3>2
  <2>2. TakenEarly'
    BY DEF Inv, Accounted, Stopped, ThreadAlive, Ended, TakenEarly
  <2>3. Served'
    BY DEF Inv, Accounted, Holding, Served
  <2>4. Complete'
    BY DEF Inv, Accounted, Complete
  <2>5. SelfStopped'
    BY DEF Inv, Stopped, ThreadAlive, SelfStopped
  <2> QED
    BY <2>1, <2>2, <2>3, <2>4, <2>5 DEF Accounted
<1> QED
  BY <1>0, <1>1, <1>2, <1>3, <1>4, <1>5, <1>6 DEF Inv

\* What was held is now in the queue.
LEMMA ThreadEnqueueInv == Inv /\ ThreadEnqueue => Inv'
PROOF
<1> SUFFICES ASSUME Inv, ThreadEnqueue PROVE Inv'
  OBVIOUS
<1> USE DEF ThreadEnqueue, consumer, thread
<1>0. LoaderConstants'
  BY DEF Inv
<1>1. LoaderTypeOK'
  BY BatchFacts DEF Inv, LoaderTypeOK
<1>2. NoThread'
  BY DEF Inv, NoThread
<1>3. Belongs'
  BY DEF Inv, Belongs, Holding
<1>4. Stopped'
  BY DEF Inv, Stopped, ThreadAlive
<1>5. EndLast'
  BY DEF Inv, EndLast, Holding, ThreadAlive
<1>6. Accounted'
  <2>1. OneLost'
    BY DEF Inv, Accounted, OneLost
  <2>2. TakenEarly'
    BY DEF Inv, Accounted, TakenEarly
  <2>3. Served'
    BY DEF Inv, Accounted, Served
  <2>4. Complete'
    BY DEF Inv, Accounted, Complete
  <2>5. SelfStopped'
    BY DEF Inv, Stopped, ThreadAlive, SelfStopped
  <2> QED
    BY <2>1, <2>2, <2>3, <2>4, <2>5 DEF Accounted
<1> QED
  BY <1>0, <1>1, <1>2, <1>3, <1>4, <1>5, <1>6 DEF Inv

\* A full queue sends the thread back to the event.
LEMMA ThreadFullInv == Inv /\ ThreadFull => Inv'
PROOF
<1> SUFFICES ASSUME Inv, ThreadFull PROVE Inv'
  OBVIOUS
<1> USE DEF ThreadFull, consumer, thread
<1>0. LoaderConstants'
  BY DEF Inv
<1>1. LoaderTypeOK'
  BY BatchFacts DEF Inv, LoaderTypeOK
<1>2. NoThread'
  BY DEF Inv, NoThread
<1>3. Belongs'
  BY DEF Inv, Belongs, Holding
<1>4. Stopped'
  BY DEF Inv, Stopped, ThreadAlive
<1>5. EndLast'
  BY DEF Inv, EndLast, Holding, ThreadAlive
<1>6. Accounted'
  BY DEF Inv, Accounted, OneLost, TakenEarly, Served, Complete, SelfStopped, Holding
<1> QED
  BY <1>0, <1>1, <1>2, <1>3, <1>4, <1>5, <1>6 DEF Inv

-----------------------------------------------------------------------------
\* One step per action of the loader, and the steps that change nothing.
LEMMA StepInv == Inv /\ [LoaderNext]_loaderVars => Inv'
PROOF
<1> SUFFICES ASSUME Inv, [LoaderNext]_loaderVars PROVE Inv'
  OBVIOUS
<1>1. ASSUME NEW e \in Epochs, NEW n \in 0 .. MaxBatches, e # native.epoch, StartEpoch(e, n)
      PROVE  Inv'
  BY <1>1, StartEpochInv
<1>2. CASE Resume
  BY <1>2, ResumeInv
<1>3. CASE ConsumerNext
   BY <1>3, SetupQueueInv, StopOldThreadInv, DrainOneInv, DrainedInv, JoinOldThreadInv,
       CheckThreadInv, GetPinnedInv, GetDirectInv, GetDirectFailsInv DEF ConsumerNext
<1>4. CASE ThreadNext
   BY <1>4, ThreadCheckInv, ThreadGetInv, ThreadGetFailsInv, ThreadPutInv, ThreadEnqueueInv,
       ThreadFullInv DEF ThreadNext
<1>5. CASE UNCHANGED loaderVars
   BY <1>5 DEF loaderVars, Inv, LoaderTypeOK, NoThread, Belongs, Stopped, EndLast,
       Accounted, OneLost, TakenEarly, Served, Complete, SelfStopped, Holding, ThreadAlive
<1> QED
  BY <1>1, <1>2, <1>3, <1>4, <1>5 DEF LoaderNext

\* The numbers stay within the epoch: only what the native loader serves for it
\* gets into the queue of its thread.
LEMMA NumberedStep == Inv /\ Numbered /\ [LoaderNext]_loaderVars => Numbered'
PROOF
<1> SUFFICES ASSUME Inv, Numbered, [LoaderNext]_loaderVars PROVE Numbered'
  OBVIOUS
<1> USE DEF consumer, thread
<1>0. /\ LoaderTypeOK /\ NoThread /\ queue \in Seq(Batch) /\ Len(queue) \in Nat
      /\ native.n \in Nat /\ native.next \in Nat \ {0}
      /\ \A i \in 1 .. Len(queue) : queue[i] \in Batch
  <2>1. LoaderTypeOK /\ NoThread /\ queue \in Seq(Batch)
    BY DEF Inv, LoaderTypeOK
  <2>2. native.n \in Nat /\ native.next \in Nat \ {0}
    BY DEF Inv, LoaderTypeOK, NativeState, LoaderConstants
  <2> QED BY <2>1, <2>2
<1>1. ASSUME NEW e \in Epochs, NEW n \in 0 .. MaxBatches, StartEpoch(e, n)
      PROVE  Numbered'
  <2>1. ~pin => queue = <<>> /\ ~Holding
    BY <1>0 DEF NoThread, Holding
  <2> QED BY <1>1, <2>1 DEF StartEpoch, Numbered, Active, Holding
<1>2. CASE Resume \/ StopOldThread \/ Drained \/ CheckThread \/ GetDirectFails
  BY <1>2 DEF Resume, StopOldThread, Drained, CheckThread, GetDirectFails, Numbered, Active, Holding
<1>3. CASE SetupQueue \/ JoinOldThread
  BY <1>3 DEF SetupQueue, JoinOldThread, NewThread, Numbered, Active, Holding
<1>4. ASSUME queue # <<>>, queue' = Tail(queue), Numbered, mpc \in Active
      PROVE  /\ \A i \in 1 .. Len(queue') : queue'[i][2] <= native.n
             /\ Head(queue)[2] <= native.n /\ Head(queue)[2] \in Nat
  <2>1. /\ Len(queue) # 0 /\ Len(queue') = Len(queue) - 1 /\ Head(queue) = queue[1]
        /\ \A i \in 1 .. Len(queue') : queue'[i] = queue[i + 1]
    BY <1>0, <1>4
  <2>2. \A i \in 1 .. Len(queue') : i + 1 \in 1 .. Len(queue)
    BY <1>0, <2>1
  <2>3. 1 \in 1 .. Len(queue)
    BY <1>0, <2>1
  <2>4. Head(queue) \in Batch
    BY <1>0, <2>1, <2>3
  <2> QED BY <1>4, <2>1, <2>2, <2>3, <2>4 DEF Numbered, Batch, LoaderConstants
<1>5. CASE DrainOne
  BY <1>5 DEF DrainOne, Numbered, Active
<1>6. CASE GetPinned
  <2>1. mpc = "get" /\ queue # <<>> /\ queue' = Tail(queue) /\ UNCHANGED <<native, tpc, item>>
    BY <1>6 DEF GetPinned
  <2>2. /\ \A i \in 1 .. Len(queue') : queue'[i][2] <= native.n
        /\ Head(queue)[2] <= native.n /\ Head(queue)[2] \in Nat
    BY <1>4, <2>1 DEF Active
  <2>3. got' = got \/ (got' = got \cup {Head(queue)[2]} /\ Head(queue)[2] # 0)
    BY <1>6 DEF GetPinned, Ended
  <2>4. got' \subseteq 1 .. native.n
    <3>1. \A h \in Nat : h <= native.n /\ h # 0 => h \in 1 .. native.n
      BY <1>0
    <3>2. Head(queue)[2] # 0 => Head(queue)[2] \in 1 .. native.n
      BY <2>2, <3>1
    <3>3. got \subseteq 1 .. native.n
      BY DEF Numbered
    <3>4. CASE got' = got
      BY <3>3, <3>4
    <3>5. CASE got' = got \cup {Head(queue)[2]} /\ Head(queue)[2] # 0
      BY <3>2, <3>3, <3>5
    <3> QED BY <2>3, <3>4, <3>5
  <2> QED BY <2>1, <2>2, <2>4 DEF Numbered, Active, Holding
<1>7. CASE GetDirect
  <2>1. /\ UNCHANGED <<queue, tpc, item>> /\ native'.n = native.n /\ mpc = "iter"
        /\ got' = got \/ (got' = got \cup {native.next} /\ native.next <= native.n)
    BY <1>7, AdvanceFacts DEF GetDirect, NextItem, Ended
  <2>2. native.next <= native.n => native.next \in 1 .. native.n
    BY <1>0
  <2>3. got' \subseteq 1 .. native'.n
    BY <2>1, <2>2 DEF Numbered
  <2> QED BY <2>1, <2>3 DEF Numbered, Active, Holding
<1>8. CASE ThreadCheck \/ ThreadFull
  BY <1>8 DEF ThreadCheck, ThreadFull, Numbered, Active, Holding
<1>9. CASE ThreadGet
  <2>1. /\ UNCHANGED <<queue, mpc, got>> /\ native'.n = native.n
        /\ item'[2] = IF native.next <= native.n THEN native.next ELSE 0
    BY <1>9, AdvanceFacts DEF ThreadGet, NextItem
  <2> QED BY <1>0, <2>1 DEF Numbered, Active, Holding
<1>10. CASE ThreadGetFails
  BY <1>10 DEF ThreadGetFails, Numbered, Active, Holding
<1>11. CASE ThreadPut
  BY <1>11 DEF ThreadPut, Numbered, Active, Holding
<1>12. CASE ThreadEnqueue
  <2>1. /\ UNCHANGED <<native, mpc, got>> /\ queue' = Append(queue, item) /\ tpc' = "check" /\ Holding
    BY <1>12 DEF ThreadEnqueue, Holding
  <2>2. item \in Batch
    BY <1>0 DEF LoaderTypeOK
  <2>3. Len(queue') = Len(queue) + 1 /\ \A i \in 1 .. Len(queue') : queue'[i] = item \/ (i \in 1 .. Len(queue) /\ queue'[i] = queue[i])
    BY <1>0, <2>1, <2>2
  <2> QED BY <2>1, <2>3 DEF Numbered, Active, Holding
<1>13. CASE UNCHANGED loaderVars
  BY <1>13 DEF loaderVars, Numbered, Active, Holding
<1> QED
  BY <1>1, <1>2, <1>3, <1>5, <1>6, <1>7, <1>8, <1>9, <1>10, <1>11, <1>12, <1>13
  DEF LoaderNext, ConsumerNext, ThreadNext

\* The strengthened invariant holds whatever the consumer and the thread do.
THEOREM LoaderInvariant == LoaderConstants /\ LoaderSpec => []Inv
PROOF
<1> QED
  BY InitInv, StepInv, PTL DEF LoaderSpec

-----------------------------------------------------------------------------
\* What the loader, its queue and its thread hold stays of its type, and the
\* queue, the epochs and the batches in their ranges.
THEOREM LoaderTypeCorrect == LoaderConstants /\ LoaderSpec => []LoaderTypeOK
PROOF
<1>1. Inv => LoaderTypeOK
  BY DEF Inv
<1> QED
  BY <1>1, LoaderInvariant, PTL

\* No training step sees a batch of an earlier epoch, although the thread of
\* that epoch may still run when the next one starts.
THEOREM OnlyThisEpochHolds == LoaderConstants /\ LoaderSpec => []OnlyThisEpoch
PROOF
<1>1. Inv => OnlyThisEpoch
  BY DEF Inv, Belongs, OnlyThisEpoch
<1> QED
  BY <1>1, LoaderInvariant, PTL

\* An epoch that ends has yielded all its batches but at most one, which the
\* thread of the epoch before took and dropped.
THEOREM AtMostOneLostHolds == LoaderConstants /\ LoaderSpec => []AtMostOneLost
PROOF
<1>1. ASSUME Inv PROVE Cardinality(lost) <= 1
  <2>1. CASE lost = {}
    BY <2>1, FS_EmptySet
  <2>2. ASSUME NEW k \in 1 .. MaxBatches, lost = {k} PROVE Cardinality(lost) <= 1
    BY <2>2, FS_Singleton
  <2> QED
    BY <1>1, <2>1, <2>2 DEF Inv, Accounted, OneLost
<1>2. Inv => AtMostOneLost
  BY <1>1 DEF Inv, Accounted, Complete, AtMostOneLost
<1> QED
  BY <1>2, LoaderInvariant, PTL

\* The consumer waits for a dead thread only after the native loader failed.
THEOREM BlockedOnlyByErrorHolds == LoaderConstants /\ LoaderSpec => []BlockedOnlyByError
PROOF
<1>1. Inv => BlockedOnlyByError
  BY DEF Inv, NoThread, Stopped, Active, BlockedOnlyByError
<1> QED
  BY <1>1, LoaderInvariant, PTL
=============================================================================
