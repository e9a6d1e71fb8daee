--------------------------- MODULE ControlProofs ---------------------------
(***************************************************************************)
(* Proofs about the control plane of the web pipeline that hold whatever    *)
(* the application calls and whatever fails: types, the requests and who    *)
(* awaits them, the handles destroy() releases, the transport it            *)
(* implements; then what needs the application's care.                      *)
(***************************************************************************)
EXTENDS ControlProperties, SequenceTheorems, TLAPS

-----------------------------------------------------------------------------
(* The transport alone, for any number of requests: its map and its promises *)
(* agree, and no promise settles twice.  The track processor implements      *)
(* TransportSpec, so it inherits both.                                       *)

\* At the start no request has been sent and the map is empty.
LEMMA TransportInvInit == TransportInit => TransportInv
PROOF BY RequestsAssumption
      DEF TransportInit, TransportInv, TransportTypeOK, PendingAreWaiting, IdsAreFresh,
          RequestIds, Outcomes, Settled

\* Settling a pending command takes it out of the map and ends its promise.
LEMMA SettleStep ==
    ASSUME TransportInv, NEW id \in pending, NEW how \in Settled, Settle(id, how)
    PROVE  TransportInv'
PROOF
<1> USE RequestsAssumption
<1>1. id \in RequestIds /\ outcome[id] = "waiting" /\ how # "waiting" /\ how # "unsent"
  BY DEF TransportInv, TransportTypeOK, PendingAreWaiting, Settled
<1>2. TransportTypeOK'
  BY <1>1 DEF Settle, TransportInv, TransportTypeOK, Outcomes
<1>3. PendingAreWaiting'
  BY <1>1 DEF Settle, TransportInv, TransportTypeOK, PendingAreWaiting
<1>4. IdsAreFresh'
  BY <1>1 DEF Settle, TransportInv, TransportTypeOK, IdsAreFresh
<1> QED BY <1>2, <1>3, <1>4 DEF TransportInv

\* A new request takes the next id, which no earlier request has had.
LEMMA SendStep ==
    ASSUME TransportInv, Send \/ SendFails
    PROVE  TransportInv'
PROOF
<1> USE RequestsAssumption DEF TransportInv, TransportTypeOK, RequestIds
<1>1. outcome[nextRequestId] = "unsent" /\ nextRequestId \notin pending
  BY DEF Send, SendFails, PendingAreWaiting, IdsAreFresh
<1>2. TransportTypeOK'
  <2>1. nextRequestId \in 1 .. MaxRequests /\ nextRequestId' = nextRequestId + 1
    BY DEF Send, SendFails
  <2>2. nextRequestId' \in 1 .. MaxRequests + 1
    BY <2>1
  <2>3. pending' \in SUBSET RequestIds
    BY DEF Send, SendFails
  <2>4. outcome' \in [RequestIds -> Outcomes]
    BY DEF Send, SendFails, Outcomes, Settled
  <2> QED BY <2>2, <2>3, <2>4
<1>3. PendingAreWaiting'
  BY <1>1 DEF Send, SendFails, PendingAreWaiting
<1>4. IdsAreFresh'
  BY DEF Send, SendFails, IdsAreFresh
<1> QED BY <1>2, <1>3, <1>4

LEMMA TransportInvStep == TransportInv /\ [TransportNext]_transportVars => TransportInv'
PROOF
<1> SUFFICES ASSUME TransportInv, [TransportNext]_transportVars PROVE TransportInv'
  OBVIOUS
<1>0. ASSUME UNCHANGED transportVars PROVE TransportInv'
  BY <1>0 DEF transportVars, TransportInv, TransportTypeOK, PendingAreWaiting, IdsAreFresh
<1>1. CASE Send \/ SendFails
  BY <1>1, SendStep
<1>2. ASSUME NEW id \in RequestIds, Resolve(id) \/ Reject(id) \/ Timeout(id) PROVE TransportInv'
  BY <1>0, <1>2, SettleStep DEF Resolve, Reject, Timeout, Settled
<1>3. CASE Close
  BY <1>3, RequestsAssumption
     DEF Close, TransportInv, TransportTypeOK, PendingAreWaiting, IdsAreFresh, RequestIds, Outcomes, Settled
<1> QED BY <1>0, <1>1, <1>2, <1>3 DEF TransportNext

\* The map holds exactly the requests whose promise has not settled, and ids
\* are handed out in order: no promise is forgotten by a reply, timer or close.
THEOREM TransportInvariant == TransportSpec => []TransportInv
PROOF BY TransportInvInit, TransportInvStep, PTL DEF TransportSpec

\* A promise that has settled stays as it is.
LEMMA SettledStep ==
    TransportInv /\ [TransportNext]_transportVars
        => [\A id \in RequestIds : outcome[id] \in Settled => outcome'[id] = outcome[id]]_transportVars
PROOF
<1> SUFFICES ASSUME TransportInv, TransportNext, NEW id \in RequestIds, outcome[id] \in Settled
             PROVE  outcome'[id] = outcome[id]
  OBVIOUS
<1>1. id \notin pending /\ outcome[id] # "unsent"
  BY DEF TransportInv, PendingAreWaiting, Settled
<1>2. id # nextRequestId
  BY <1>1, RequestsAssumption DEF TransportInv, TransportTypeOK, IdsAreFresh, RequestIds
<1>3. CASE Send \/ SendFails
  BY <1>2, <1>3 DEF Send, SendFails, TransportInv, TransportTypeOK
<1>4. ASSUME NEW other \in RequestIds, Resolve(other) \/ Reject(other) \/ Timeout(other)
      PROVE  outcome'[id] = outcome[id]
  BY <1>1, <1>4 DEF Resolve, Reject, Timeout, Settle, transportVars, TransportInv, TransportTypeOK
<1>5. CASE Close
  BY <1>1, <1>5 DEF Close
<1> QED BY <1>3, <1>4, <1>5 DEF TransportNext

\* A command's promise settles at most once, whatever replies, timers and
\* closes follow.
THEOREM SettlesOnce == TransportSpec => SettledForGood
PROOF BY TransportInvInit, TransportInvStep, SettledStep, PTL DEF TransportSpec, SettledForGood

-----------------------------------------------------------------------------
(* The state of the three runtimes.                                          *)

Options == [denoise : Modules, configs : AllConfigs]
Ops ==
    [kind : {"setEnabled"}, arg : BOOLEAN] \cup [kind : {"setStageModule"}, arg : Modules]
    \cup [kind : {"setRnnoise"}, arg : Patches("rnnoise")]
    \cup [kind : {"setDeepFilter"}, arg : Patches("deepfilternet")]
TaskStates == {"idle", "loading", "fetching", "workerInit", "pipelineInit", "done", "failed"}
Tasks == [pc : TaskStates, module : Modules, configs : AllConfigs, req : {NoRequest} \cup RequestIds]

MainType ==
    /\ enabled \in BOOLEAN /\ options \in Options
    /\ {node, workerRef, published} \subseteq {None} \cup Ids
    /\ listening \in [Ids -> BOOLEAN]
    /\ task \in [Ids -> Tasks]
    /\ setters \in Seq(Ops) /\ running \in {NoRequest} \cup RequestIds
    /\ running # NoRequest => setters # <<>>

\* What carries a config says of which module it is.
ConfigArgs ==
    [module : {"rnnoise"}, config : Config("rnnoise")]
    \cup [module : {"deepfilternet"}, config : Config("deepfilternet")]
InitArgs ==
    [enable : BOOLEAN, workerPort : Ids, frameModule : Modules, module : Modules, rnnoise : Config("rnnoise")]
Commands ==
    [type : {"INIT_PIPELINE"}, arg : InitArgs, id : RequestIds]
    \cup [type : {"SET_ENABLED"}, arg : BOOLEAN, id : RequestIds]
    \cup [type : {"SET_STAGE_MODULE"}, arg : Modules, id : RequestIds]
    \cup [type : {"SET_MODULE_CONFIG"}, arg : ConfigArgs, id : RequestIds]
    \cup [type : {"DESTROY"}, arg : {None}, id : {NoRequest}]
Replies == [id : {NoRequest} \cup RequestIds, ok : BOOLEAN]
Worklets ==
    [life : {"none", "running", "destroyed"}, workerPort : {None} \cup Ids, workerReady : BOOLEAN,
     currentModuleId : Modules, frameModule : Modules, vad : Config("rnnoise")]

WorkletType ==
    /\ worklet \in [Ids -> Worklets]
    /\ toNode \in [Ids -> Seq(Commands)]
    /\ toMain \in [Ids -> Seq(Replies)]

WorkerMessages ==
    [type : {"INIT"}, arg : [module : Modules, configs : AllConfigs]]
    \cup [type : {"SET_MODULE"}, arg : Modules] \cup [type : {"SET_MODULE_CONFIG"}, arg : ConfigArgs]
    \cup [type : {"SET_ENABLED"}, arg : BOOLEAN] \cup [type : {"DESTROY"}, arg : {None}]
WorkerReplies ==
    [type : {"INIT_OK", "MODULE_CHANGED"}, arg : Modules]
    \cup [type : {"ERROR"}, arg : {"init", "not available"}]
Workers ==
    [currentModuleId : Modules, processingEnabled : BOOLEAN, configs : AllConfigs,
     loaded : SUBSET Modules, dfState : Config("deepfilternet")]
PortHolders == [at : {"main", "transit", "closed", "worklet"}, node : {None} \cup Ids]

WorkerType ==
    /\ workerLife \in [Ids -> {"none", "alive", "terminated"}]
    /\ worker \in [Ids -> Workers]
    /\ toWorker \in [Ids -> Seq(WorkerMessages)]
    /\ fromWorker \in [Ids -> Seq(WorkerReplies)]
    /\ portHolder \in [Ids -> PortHolders]

ControlType == MainType /\ WorkletType /\ WorkerType

-----------------------------------------------------------------------------
(* The inductive invariant, whatever the application calls and what fails. *)

\* Each command that waits has one caller, the running setter or the init call
\* whose pipeline it starts.
Requests ==
    /\ \A t \in Ids : task[t].pc = "pipelineInit" <=> task[t].req \in pending
    /\ \A t \in Ids : task[t].req < nextRequestId /\ task[t].req \notin {running} \ {NoRequest}
    /\ \A s, t \in Ids : s # t /\ task[s].req = task[t].req => task[s].req = NoRequest
    /\ running # NoRequest => running \in pending
    /\ \A id \in pending : id = running \/ \E t \in Ids : id = task[t].req
    /\ pending # {} => node # None

Closing(n) == \E i \in DOMAIN toNode[n] : toNode[n][i].type = "DESTROY"

\* The node in use is not told to close, and the node and worker of an init call
\* that has not loaded the worklet yet do not exist.
Handles ==
    /\ DestroyIsLast /\ HandlesAreLive
    /\ node # None => ~Closing(node)
    /\ \A t \in Ids : task[t].pc \in {"idle", "loading"} =>
          node # t /\ toNode[t] = <<>> /\ worklet[t].life = "none"

ControlInv == TransportInv /\ ControlType /\ Requests /\ Handles

-----------------------------------------------------------------------------
(* Values. *)

LEMMA Constants ==
    /\ Ids \subseteq Nat /\ None \notin Ids /\ RequestIds \subseteq Nat /\ NoRequest \notin RequestIds
    /\ StartModules \subseteq Modules
    /\ DefaultConfigs \in AllConfigs
PROOF
<1>1. Ids \subseteq Nat /\ None \notin Ids /\ RequestIds \subseteq Nat /\ NoRequest \notin RequestIds
  BY InitsAssumption, RequestsAssumption DEF Ids, None, RequestIds, NoRequest
<1>2. DefaultConfigs \in AllConfigs
  <2>1. DefaultConfig("rnnoise") \in Config("rnnoise")
    BY InitsAssumption DEF DefaultConfig, Config
  <2>2. DefaultConfig("deepfilternet") \in Config("deepfilternet")
    BY InitsAssumption DEF DefaultConfig, Config
  <2> QED BY <2>1, <2>2 DEF DefaultConfigs, AllConfigs
<1> QED BY <1>1, <1>2, CallsAssumption

\* Taking the first element of a queue and adding one at its end.
LEMMA TailFacts ==
    ASSUME NEW S, NEW q \in Seq(S), q # <<>>
    PROVE  /\ Len(q) \in Nat /\ Len(q) > 0 /\ Len(Tail(q)) = Len(q) - 1
           /\ 1 \in DOMAIN q /\ Head(q) = q[1] /\ Head(q) \in S
           /\ \A i \in DOMAIN Tail(q) : i \in Nat /\ i + 1 \in DOMAIN q /\ Tail(q)[i] = q[i + 1]
           /\ \A i \in DOMAIN q : i # 1 => i - 1 \in DOMAIN Tail(q) /\ Tail(q)[i - 1] = q[i]
           /\ Len(q) = 1 => Tail(q) = <<>>
PROOF
<1>1. Len(q) \in Nat /\ Len(q) > 0 /\ DOMAIN q = 1 .. Len(q)
  OBVIOUS
<1>2. Tail(q) \in Seq(S) /\ Len(Tail(q)) = Len(q) - 1
  OBVIOUS
<1>3. \A i \in DOMAIN Tail(q) : i \in Nat /\ i + 1 \in DOMAIN q /\ Tail(q)[i] = q[i + 1]
  OBVIOUS
<1>4. 1 \in DOMAIN q /\ Head(q) = q[1] /\ Head(q) \in S
  OBVIOUS
<1>5. Len(q) = 1 => Tail(q) = <<>>
  <2>1. Tail(q) # <<>> => Len(Tail(q)) \in Nat \ {0}
    BY <1>2, EmptySeq, Zenon
  <2> QED BY <1>2, <2>1
<1>6. \A i \in DOMAIN q : i # 1 => i - 1 \in DOMAIN Tail(q) /\ Tail(q)[i - 1] = q[i]
  OBVIOUS
<1> QED BY <1>1, <1>2, <1>3, <1>4, <1>5, <1>6

LEMMA AppendFacts ==
    ASSUME NEW S, NEW q \in Seq(S), NEW e \in S
    PROVE  /\ Len(q) \in Nat /\ Len(Append(q, e)) = Len(q) + 1
           /\ \A i \in DOMAIN q : i \in Nat /\ i # Len(q) + 1 /\ i <= Len(q)
           /\ DOMAIN Append(q, e) = DOMAIN q \cup {Len(q) + 1}
           /\ \A i \in DOMAIN q : Append(q, e)[i] = q[i]
           /\ Append(q, e)[Len(q) + 1] = e
           /\ q # <<>> => Head(Append(q, e)) = Head(q)
           /\ q = <<>> => Append(q, e) = <<e>> /\ Head(Append(q, e)) = e
           /\ Append(q, e) # <<>>
PROOF
<1>1. /\ Len(q) \in Nat /\ Len(Append(q, e)) = Len(q) + 1
      /\ \A i \in DOMAIN q : i \in Nat /\ i # Len(q) + 1 /\ i <= Len(q)
      /\ DOMAIN Append(q, e) = DOMAIN q \cup {Len(q) + 1}
  OBVIOUS
<1>2. /\ \A i \in DOMAIN q : Append(q, e)[i] = q[i]
      /\ Append(q, e)[Len(q) + 1] = e
  OBVIOUS
<1>3. q # <<>> => Head(Append(q, e)) = Head(q)
  OBVIOUS
<1>4. q = <<>> => Append(q, e) = <<e>> /\ Head(Append(q, e)) = e
  OBVIOUS
<1>5. Append(q, e) # <<>>
  <2>1. Len(<<>>) = 0 /\ Len(Append(q, e)) # 0
    BY <1>1
  <2> QED BY <2>1
<1> QED BY <1>1, <1>2, <1>3, <1>4, <1>5

\* A patch of a config of a module gives a config of the module.
LEMMA MergeType ==
    ASSUME NEW m \in Modules, NEW base \in Config(m), NEW patch \in Config(m) \cup Patches(m)
    PROVE  Merge(base, patch) \in Config(m)
PROOF
<1>1. DOMAIN patch \subseteq Fields(m) /\ DOMAIN base = Fields(m)
  BY DEF Config, Patches
<1>2. \A f \in DOMAIN patch : patch[f] \in 0 .. MaxValue
  <2>1. CASE patch \in Config(m)
    BY <2>1 DEF Config
  <2>2. CASE patch \in Patches(m)
    <3>1. PICK f0 \in Fields(m) : patch \in [{f0} -> 0 .. MaxValue]
      BY <2>2 DEF Patches
    <3> QED BY <3>1
  <2> QED BY <2>1, <2>2
<1>3. Merge(base, patch) = [f \in Fields(m) |-> IF f \in DOMAIN patch THEN patch[f] ELSE base[f]]
  BY <1>1 DEF Merge
<1> QED BY <1>1, <1>2, <1>3 DEF Config

\* What a setter makes of the options.
LEMMA NextOptionsType ==
    ASSUME options \in Options, NEW op \in Ops
    PROVE  /\ NextOptions(op) \in Options
           /\ op.kind = "setEnabled" => NextOptions(op) = options
           /\ op.kind = "setStageModule" => NextOptions(op) = [options EXCEPT !.denoise = op.arg]
           /\ op.kind = "setRnnoise" =>
                NextOptions(op) = [options EXCEPT !.configs["rnnoise"] = Merge(@, op.arg)]
           /\ op.kind = "setDeepFilter" =>
                NextOptions(op) = [options EXCEPT !.configs["deepfilternet"] = Merge(@, op.arg)]
PROOF
<1>1. CASE op.kind = "setEnabled"
  BY <1>1 DEF NextOptions
<1>2. CASE op.kind = "setStageModule"
  <2>1. op.arg \in Modules
    BY <1>2 DEF Ops
  <2> QED BY <1>2, <2>1 DEF NextOptions, Options
<1>3. CASE op.kind = "setRnnoise"
  <2>1. op.arg \in Patches("rnnoise") /\ Target(op) = "rnnoise"
    BY <1>3 DEF Ops, Target
  <2>2. Merge(options.configs["rnnoise"], op.arg) \in Config("rnnoise")
    BY <2>1, MergeType DEF Options, AllConfigs, Modules
  <2> QED BY <1>3, <2>1, <2>2 DEF NextOptions, Options, AllConfigs
<1>4. CASE op.kind = "setDeepFilter"
  <2>1. op.arg \in Patches("deepfilternet") /\ Target(op) = "deepfilternet"
    BY <1>4 DEF Ops, Target
  <2>2. Merge(options.configs["deepfilternet"], op.arg) \in Config("deepfilternet")
    BY <2>1, MergeType DEF Options, AllConfigs, Modules
  <2> QED BY <1>4, <2>1, <2>2 DEF NextOptions, Options, AllConfigs
<1>5. op.kind \in {"setEnabled", "setStageModule", "setRnnoise", "setDeepFilter"}
  BY DEF Ops
<1> QED BY <1>1, <1>2, <1>3, <1>4, <1>5

-----------------------------------------------------------------------------
(* Types.  What a step does to the values of each runtime. *)

LEMMA InitType == Init => ControlType /\ TransportInv
PROOF
<1> SUFFICES ASSUME Init PROVE ControlType /\ TransportInv
  OBVIOUS
<1> USE Constants
<1>1. MainType
  <2>1. IdleTask \in Tasks
    BY DEF IdleTask, Tasks, TaskStates, Modules
  <2> QED BY <2>1 DEF Init, MainType, Options
<1>2. WorkletType
  <2>1. InitialWorklet \in Worklets
    BY InitsAssumption DEF InitialWorklet, Worklets, DefaultConfig, Config, Modules
  <2> QED BY <2>1 DEF Init, WorkletInit, WorkletType
<1>3. WorkerType
  <2>1. InitialWorker \in Workers
    BY InitsAssumption DEF InitialWorker, Workers, DefaultConfig, Config, Modules
  <2> QED BY <2>1 DEF Init, WorkerInit, WorkerType, PortHolders
<1> QED BY <1>1, <1>2, <1>3, TransportInvInit DEF ControlType, Init

\* A setter that settles leaves the queue, and the options keep their type.
LEMMA FinishSetterType ==
    ASSUME ControlType, setters # <<>>, NEW ok \in BOOLEAN, FinishSetter(ok)
    PROVE  setters' \in Seq(Ops) /\ running' = NoRequest /\ options' \in Options
PROOF
<1>1. Head(setters) \in Ops
  BY DEF ControlType, MainType
<1> QED BY <1>1, NextOptionsType DEF FinishSetter, ControlType, MainType

LEMMA SetterCommandType ==
    ASSUME options \in Options, NEW op \in Ops, NEW id \in RequestIds
    PROVE  /\ SetterCommand(op, id) \in Commands
           /\ SetterCommand(op, id).id = id
           /\ SetterCommand(op, id).type \in {"SET_ENABLED", "SET_STAGE_MODULE", "SET_MODULE_CONFIG"}
PROOF
<1>1. NextOptions(op) \in Options
  BY NextOptionsType
<1>2. CASE op.kind = "setEnabled"
  BY <1>2 DEF SetterCommand, Command, Commands, Ops
<1>3. CASE op.kind = "setStageModule"
  BY <1>3 DEF SetterCommand, Command, Commands, Ops
<1>4. CASE op.kind \in {"setRnnoise", "setDeepFilter"}
  BY <1>1, <1>4 DEF SetterCommand, Command, Commands, Target, Options, AllConfigs, ConfigArgs
<1> QED BY <1>2, <1>3, <1>4 DEF Ops

LEMMA CloseType ==
    ASSUME ControlType, TransportInv, NEW started \in SUBSET Ids, CloseInternal(started)
    PROVE  ControlType'
PROOF
<1> USE Constants DEF ControlType, CloseInternal
<1>1. MainType'
  <2>1. setters' \in Seq(Ops) /\ running' \in {NoRequest} \cup RequestIds /\ options' \in Options
        /\ (running' # NoRequest => setters' # <<>>)
    <3>1. CASE running \in pending
      <4>1. setters # <<>>
        BY <3>1 DEF MainType, TransportInv, TransportTypeOK
      <4> QED BY <3>1, <4>1, FinishSetterType DEF RejectAwaiting
    <3>2. CASE running \notin pending
      BY <3>2 DEF RejectAwaiting, MainType
    <3> QED BY <3>1, <3>2
  <2>2. task' \in [Ids -> Tasks]
    BY DEF MainType, Tasks, TaskStates
  <2>3. listening' \in [Ids -> BOOLEAN]
    BY DEF DestroyNode, MainType
  <2> QED BY <2>1, <2>2, <2>3 DEF MainType, DropHandles
<1>2. WorkletType'
  <2>1. Command("DESTROY", None, NoRequest) \in Commands
    BY DEF Command, Commands
  <2>2. toNode' \in [Ids -> Seq(Commands)]
    BY <2>1 DEF DestroyNode, MainType, WorkletType
  <2> QED BY <2>2 DEF WorkletType
<1>3. WorkerType'
  <2>1. workerLife' \in [Ids -> {"none", "alive", "terminated"}] /\ toWorker' \in [Ids -> Seq(WorkerMessages)]
    BY DEF TerminateWorker, WorkerType, MainType
  <2> QED BY <2>1 DEF WorkerType
<1> QED BY <1>1, <1>2, <1>3

PipelineCommand(t) ==
    Command("INIT_PIPELINE",
            [enable |-> enabled, workerPort |-> t, frameModule |-> Head(fromWorker[t]).arg,
             module |-> task[t].module, rnnoise |-> task[t].configs["rnnoise"]], nextRequestId)

LEMMA PipelineCommandType ==
    ASSUME ControlType, NEW t \in Ids, fromWorker[t] # <<>>, Head(fromWorker[t]).type = "INIT_OK",
           nextRequestId \in RequestIds
    PROVE  PipelineCommand(t) \in Commands
PROOF
<1> DEFINE arg == [enable |-> enabled, workerPort |-> t, frameModule |-> Head(fromWorker[t]).arg,
                   module |-> task[t].module, rnnoise |-> task[t].configs["rnnoise"]]
<1>1. Head(fromWorker[t]).arg \in Modules
  <2>1. Head(fromWorker[t]) \in WorkerReplies
    BY TailFacts DEF ControlType, WorkerType
  <2> QED BY <2>1 DEF WorkerReplies
<1>2. task[t] \in Tasks /\ enabled \in BOOLEAN
  BY DEF ControlType, MainType
<1>3. arg \in InitArgs
  BY <1>1, <1>2 DEF InitArgs, Tasks, AllConfigs
<1> QED BY <1>3 DEF PipelineCommand, Command, Commands

\* What goes on when a command settles.
LEMMA ContinueType ==
    ASSUME ControlType, TransportInv, NEW id \in pending, NEW ok \in BOOLEAN, Continue(id, ok),
           UNCHANGED <<enabled, node, listening, workerRef>>
    PROVE  MainType'
PROOF
<1> USE Constants DEF ControlType, MainType
<1>1. CASE id = running /\ FinishSetter(ok) /\ UNCHANGED <<task, published>>
  <2>1. setters # <<>>
    BY <1>1 DEF TransportInv, TransportTypeOK
  <2> QED BY <1>1, <2>1, FinishSetterType
<1>2. ASSUME NEW t \in Ids,
             task' = [task EXCEPT ![t].pc = IF ok THEN "done" ELSE "failed"],
             published' = IF ok THEN node ELSE published,
             UNCHANGED <<setters, running, options>>
      PROVE  MainType'
  <2>1. task' \in [Ids -> Tasks]
    BY <1>2 DEF Tasks, TaskStates
  <2> QED BY <1>2, <2>1
<1> QED BY <1>1, <1>2 DEF Continue

\* Every step is one of the transport, or leaves it alone.
LEMMA TransportStep ==
    TransportInv /\ [Next]_vars => [TransportNext]_transportVars
PROOF
<1> SUFFICES ASSUME TransportInv, [Next]_vars PROVE [TransportNext]_transportVars
  OBVIOUS
<1>1. CASE UNCHANGED vars
  BY <1>1 DEF vars
<1>2. ASSUME NEW t \in Ids, CallInit(t) \/ WorkletLoaded(t) \/ LoadFails(t) \/ WasmFetched(t) \/ FetchFails(t)
                            \/ WorkerInitFails(t)
      PROVE  UNCHANGED transportVars
  BY <1>2 DEF CallInit, WorkletLoaded, LoadFails, WasmFetched, FetchFails, WorkerInitFails
<1>3. ASSUME NEW t \in Ids, CallRestart(t) \/ CallDestroy PROVE Close
  BY <1>3 DEF CallRestart, CallDestroy, CloseInternal, RejectAwaiting
<1>4. CASE CallDestroy
  BY <1>4 DEF CallDestroy, CloseInternal, RejectAwaiting, TransportNext
<1>5. ASSUME NEW op, CallSetter(op) PROVE UNCHANGED transportVars
  BY <1>5 DEF CallSetter
<1>6. ASSUME NEW t \in Ids, WorkerInitOk(t) PROVE [TransportNext]_transportVars
  BY <1>6 DEF WorkerInitOk, Post, TransportNext
<1>7. CASE StartSetter
  BY <1>7 DEF StartSetter, Post, TransportNext
<1>8. ASSUME NEW n \in Ids, ReceiveReply(n) PROVE [TransportNext]_transportVars
  <2>1. CASE UNCHANGED transportVars
    BY <2>1
  <2>2. ASSUME NEW id \in pending, Resolve(id) \/ Reject(id) PROVE TransportNext
    BY <2>2 DEF TransportNext, TransportInv, TransportTypeOK
  <2> QED BY <1>8, <2>1, <2>2 DEF ReceiveReply
<1>9. ASSUME NEW n \in Ids, NodeStep(n) \/ PortStep(n) \/ WorkerStep(n) PROVE UNCHANGED transportVars
  BY <1>9 DEF NodeStep, PortStep, WorkerStep
<1>10. ASSUME NEW id \in RequestIds, CommandTimeout(id) PROVE TransportNext
  BY <1>10 DEF CommandTimeout, TransportNext
<1> QED BY <1>1, <1>2, <1>3, <1>4, <1>5, <1>6, <1>7, <1>8, <1>9, <1>10 DEF Next, TransportNext

\* A command a worklet takes, and the types of all it changes.
LEMMA NodeType ==
    ASSUME ControlType, NEW n \in Ids, Dispatch(n)
    PROVE  WorkletType' /\ WorkerType'
PROOF
<1> USE Constants
<1> DEFINE cmd == Head(toNode[n])
<1>1. cmd \in Commands /\ worklet[n] \in Worklets
  BY DEF Dispatch, ControlType, WorkletType
<1>2. toNode' \in [Ids -> Seq(Commands)]
  BY DEF Dispatch, ControlType, WorkletType
<1>3. ASSUME NEW ok \in BOOLEAN, Reply(n, cmd, ok) PROVE toMain' \in [Ids -> Seq(Replies)]
  <2>1. [id |-> cmd.id, ok |-> ok] \in Replies
    BY <1>1 DEF Commands, Replies
  <2> QED BY <1>3, <2>1 DEF Reply, ControlType, WorkletType
<1>4. ASSUME NEW m \in WorkerMessages, ToWorker(n, m) PROVE toWorker' \in [Ids -> Seq(WorkerMessages)]
  <2>1. worklet[n].workerPort \in {None} \cup Ids
    BY <1>1 DEF Worklets
  <2> QED BY <1>4, <2>1 DEF ToWorker, Posted, ControlType, WorkerType
<1>5. workerLife' = workerLife /\ worker' = worker
  BY DEF Dispatch
<1>6. CASE cmd.type = "INIT_PIPELINE" /\ InitPipeline(n, cmd)
  <2>1. cmd.arg \in InitArgs
    BY <1>1, <1>6 DEF Commands
  <2>2. portHolder' \in [Ids -> PortHolders]
    <3>1. cmd.arg.workerPort \in Ids
      BY <2>1 DEF InitArgs
    <3>2. [at |-> "worklet", node |-> n] \in PortHolders
      BY DEF PortHolders
    <3> QED BY <1>6, <3>1, <3>2 DEF InitPipeline, ControlType, WorkerType
  <2>3. worklet' \in [Ids -> Worklets]
    <3> DEFINE connected == [worklet[n] EXCEPT
            !.currentModuleId = cmd.arg.module, !.vad = cmd.arg.rnnoise,
            !.workerPort = cmd.arg.workerPort, !.frameModule = cmd.arg.frameModule]
    <3>1. connected \in Worklets /\ [connected EXCEPT !.workerReady = TRUE] \in Worklets
      BY <1>1, <2>1 DEF Worklets, InitArgs
    <3>2. \/ worklet' = [worklet EXCEPT ![n] = connected]
          \/ worklet' = [worklet EXCEPT ![n] = [connected EXCEPT !.workerReady = TRUE]]
      BY <1>6 DEF InitPipeline
    <3> QED BY <3>1, <3>2 DEF ControlType, WorkletType
  <2>4. toMain' \in [Ids -> Seq(Replies)]
    BY <1>3, <1>6 DEF InitPipeline
  <2> QED BY <1>2, <1>5, <1>6, <2>2, <2>3, <2>4 DEF InitPipeline, ControlType, WorkletType, WorkerType
<1>7. CASE cmd.type = "SET_ENABLED" /\ SetEnabled(n, cmd)
  <2>1. Msg("SET_ENABLED", cmd.arg) \in WorkerMessages
    BY <1>1, <1>7 DEF Commands, Msg, WorkerMessages
  <2>2. toMain' \in [Ids -> Seq(Replies)] /\ toWorker' \in [Ids -> Seq(WorkerMessages)]
    BY <1>3, <1>4, <1>7, <2>1 DEF SetEnabled
  <2> QED BY <1>2, <1>5, <1>7, <2>2 DEF SetEnabled, ControlType, WorkletType, WorkerType
<1>8. CASE cmd.type = "SET_STAGE_MODULE" /\ SetStageModule(n, cmd)
  <2>1. cmd.arg \in Modules /\ Msg("SET_MODULE", cmd.arg) \in WorkerMessages
    BY <1>1, <1>8 DEF Commands, Msg, WorkerMessages
  <2>2. toMain' \in [Ids -> Seq(Replies)] /\ toWorker' \in [Ids -> Seq(WorkerMessages)]
    BY <1>3, <1>4, <1>8, <2>1 DEF SetStageModule
  <2>3. worklet' \in [Ids -> Worklets]
    BY <1>1, <1>8, <2>1 DEF SetStageModule, ControlType, WorkletType, Worklets
  <2> QED BY <1>2, <1>5, <1>8, <2>2, <2>3 DEF SetStageModule, ControlType, WorkletType, WorkerType
<1>9. CASE cmd.type = "SET_MODULE_CONFIG" /\ SetModuleConfig(n, cmd)
  <2>1. cmd.arg \in ConfigArgs /\ Msg("SET_MODULE_CONFIG", cmd.arg) \in WorkerMessages
    BY <1>1, <1>9 DEF Commands, Msg, WorkerMessages
  <2>2. toMain' \in [Ids -> Seq(Replies)] /\ toWorker' \in [Ids -> Seq(WorkerMessages)]
    BY <1>3, <1>4, <1>9, <2>1 DEF SetModuleConfig
  <2>3. worklet' \in [Ids -> Worklets]
    <3>1. CASE cmd.arg.module = "rnnoise"
      <4>1. cmd.arg.config["vadLogIntervalMs"] \in 0 .. MaxValue
        BY <2>1, <3>1 DEF ConfigArgs, Config, Fields
      <4>2. [worklet[n].vad EXCEPT !["vadLogIntervalMs"] = cmd.arg.config["vadLogIntervalMs"]] \in Config("rnnoise")
        BY <1>1, <4>1 DEF Worklets, Config, Fields
      <4> QED BY <1>1, <1>9, <3>1, <4>2 DEF SetModuleConfig, ControlType, WorkletType, Worklets
    <3> QED BY <1>9, <3>1 DEF SetModuleConfig, ControlType, WorkletType
  <2> QED BY <1>2, <1>5, <1>9, <2>2, <2>3 DEF SetModuleConfig, ControlType, WorkletType, WorkerType
<1>10. CASE cmd.type = "DESTROY" /\ Destroy(n, cmd)
  <2>1. Msg("DESTROY", None) \in WorkerMessages
    BY DEF Msg, WorkerMessages
  <2>2. toMain' \in [Ids -> Seq(Replies)] /\ toWorker' \in [Ids -> Seq(WorkerMessages)]
    BY <1>3, <1>4, <1>10, <2>1 DEF Destroy
  <2>3. worklet' \in [Ids -> Worklets]
    BY <1>1, <1>10 DEF Destroy, ControlType, WorkletType, Worklets
  <2>4. portHolder' \in [Ids -> PortHolders] /\ fromWorker' \in [Ids -> Seq(WorkerReplies)]
    <3>1. [at |-> "closed", node |-> None] \in PortHolders
      BY DEF PortHolders
    <3>2. portHolder \in [Ids -> PortHolders] /\ fromWorker \in [Ids -> Seq(WorkerReplies)]
      BY DEF ControlType, WorkerType
    <3>3. <<>> \in Seq(WorkerReplies)
      OBVIOUS
    <3> QED BY <1>10, <3>1, <3>2, <3>3 DEF Destroy
  <2> QED BY <1>2, <1>5, <2>2, <2>3, <2>4 DEF ControlType, WorkletType, WorkerType
<1> QED BY <1>6, <1>7, <1>8, <1>9, <1>10 DEF Dispatch

\* A message of a worker that its worklet takes.
LEMMA PortType ==
    ASSUME ControlType, NEW p \in Ids, WorkletReceives(p)
    PROVE  WorkletType' /\ WorkerType'
PROOF
<1>1. Head(fromWorker[p]) \in WorkerReplies /\ fromWorker' \in [Ids -> Seq(WorkerReplies)]
  BY DEF WorkletReceives, ControlType, WorkerType
<1>2. worklet' \in [Ids -> Worklets]
  <2>1. CASE UNCHANGED worklet
    BY <2>1 DEF ControlType, WorkletType
  <2>2. ASSUME NEW m \in Modules, NEW n, worklet' = [worklet EXCEPT ![n].frameModule = m]
        PROVE  worklet' \in [Ids -> Worklets]
    <3>1. ASSUME NEW r \in Worklets PROVE [r EXCEPT !.frameModule = m] \in Worklets
      BY DEF Worklets
    <3> QED BY <2>2, <3>1 DEF ControlType, WorkletType
  <2>3. Head(fromWorker[p]).type = "MODULE_CHANGED" => Head(fromWorker[p]).arg \in Modules
    BY <1>1 DEF WorkerReplies
  <2> QED BY <2>1, <2>2, <2>3 DEF WorkletReceives
<1> QED BY <1>1, <1>2 DEF WorkletReceives, ControlType, WorkletType, WorkerType

\* A message a worker takes.
LEMMA WorkerStepType ==
    ASSUME ControlType, NEW w \in Ids, WorkerReceives(w)
    PROVE  WorkerType'
PROOF
<1> USE Constants
<1> DEFINE msg == Head(toWorker[w])
<1>1. msg \in WorkerMessages /\ worker[w] \in Workers /\ toWorker' \in [Ids -> Seq(WorkerMessages)]
  BY DEF WorkerReceives, ControlType, WorkerType
<1>2. workerLife' = workerLife /\ portHolder' = portHolder
  BY DEF WorkerReceives
<1>3. ASSUME NEW reply \in WorkerReplies, Respond(w, reply) PROVE fromWorker' \in [Ids -> Seq(WorkerReplies)]
  BY <1>3 DEF Respond, ControlType, WorkerType
<1>4. SUFFICES worker' \in [Ids -> Workers] /\ fromWorker' \in [Ids -> Seq(WorkerReplies)]
  BY <1>1, <1>2 DEF ControlType, WorkerType
<1>5. CASE msg.type = "INIT" /\ HandleInit(w, msg.arg)
  <2>1. msg.arg.module \in Modules /\ msg.arg.configs \in AllConfigs
    BY <1>1, <1>5 DEF WorkerMessages
  <2>2. Msg("INIT_OK", msg.arg.module) \in WorkerReplies /\ Msg("ERROR", "init") \in WorkerReplies
    BY <2>1 DEF Msg, WorkerReplies
  <2>3. worker' \in [Ids -> Workers]
    <3> DEFINE fresh == [worker[w] EXCEPT !.currentModuleId = msg.arg.module, !.configs = msg.arg.configs]
    <3>1. fresh \in Workers
      BY <1>1, <2>1 DEF Workers
    <3>2. [fresh EXCEPT !.loaded = Modules, !.dfState = msg.arg.configs["deepfilternet"]] \in Workers
      BY <2>1, <3>1 DEF Workers, AllConfigs
    <3>3. \A created \in {{}, {"rnnoise"}} : [fresh EXCEPT !.loaded = created] \in Workers
      BY <3>1 DEF Workers, Modules
    <3>4. \E r \in Workers : worker' = [worker EXCEPT ![w] = r]
      BY <1>5, <3>2, <3>3 DEF HandleInit
    <3> QED BY <3>4 DEF ControlType, WorkerType
  <2> QED BY <1>3, <1>5, <2>2, <2>3 DEF HandleInit
<1>6. CASE msg.type = "SET_MODULE" /\ HandleSetModule(w, msg.arg)
  <2>1. msg.arg \in Modules
    BY <1>1, <1>6 DEF WorkerMessages
  <2>2. Msg("MODULE_CHANGED", msg.arg) \in WorkerReplies /\ Msg("ERROR", "not available") \in WorkerReplies
    BY <2>1 DEF Msg, WorkerReplies
  <2>3. worker' \in [Ids -> Workers]
    <3>1. [worker[w] EXCEPT !.currentModuleId = msg.arg] \in Workers
      BY <1>1, <2>1 DEF Workers
    <3>2. worker' = worker \/ worker' = [worker EXCEPT ![w] = [worker[w] EXCEPT !.currentModuleId = msg.arg]]
      BY <1>6 DEF HandleSetModule
    <3> QED BY <3>1, <3>2 DEF ControlType, WorkerType
  <2>4. CASE UNCHANGED fromWorker
    BY <2>4, <2>3 DEF ControlType, WorkerType
  <2> QED BY <1>3, <1>6, <2>2, <2>3, <2>4 DEF HandleSetModule
<1>7. CASE msg.type = "SET_MODULE_CONFIG" /\ HandleSetModuleConfig(w, msg.arg)
  <2> DEFINE merged == Merge(worker[w].configs[msg.arg.module], msg.arg.config)
  <2>1. msg.arg \in ConfigArgs
    BY <1>1, <1>7 DEF WorkerMessages
  <2>2. msg.arg.module \in Modules /\ merged \in Config(msg.arg.module)
    BY <1>1, <2>1, MergeType DEF ConfigArgs, Workers, AllConfigs, Modules
  <2>3. msg.arg.module = "deepfilternet" => UpdatedState(worker[w], merged) \in Config("deepfilternet")
    BY <1>1, <2>2 DEF UpdatedState, Workers, Config
  <2> HIDE DEF merged
  <2>4. [worker[w].configs EXCEPT ![msg.arg.module] = merged] \in AllConfigs
    BY <1>1, <2>2 DEF Workers, AllConfigs, Modules
  <2>5. worker' \in [Ids -> Workers]
    BY <1>1, <1>7, <2>3, <2>4 DEF HandleSetModuleConfig, ControlType, WorkerType, Workers, merged
  <2> QED BY <1>7, <2>5 DEF HandleSetModuleConfig, ControlType, WorkerType
<1>8. CASE msg.type = "SET_ENABLED" /\ HandleSetEnabled(w, msg.arg)
  <2>1. msg.arg \in BOOLEAN
    BY <1>1, <1>8 DEF WorkerMessages
  <2> QED BY <1>1, <1>8, <2>1 DEF HandleSetEnabled, ControlType, WorkerType, Workers
<1>9. CASE msg.type = "DESTROY" /\ HandleDestroy(w)
  <2>1. InitialWorker \in Workers
    BY InitsAssumption DEF InitialWorker, Workers, DefaultConfig, Config, Modules
  <2> QED BY <1>9, <2>1 DEF HandleDestroy, ControlType, WorkerType
<1> QED BY <1>5, <1>6, <1>7, <1>8, <1>9 DEF WorkerReceives

LEMMA TypeStep ==
    ControlType /\ TransportInv /\ [Next]_vars => ControlType'
PROOF
<1> SUFFICES ASSUME ControlType, TransportInv, [Next]_vars PROVE ControlType'
  OBVIOUS
<1> USE Constants
<1>1. CASE UNCHANGED vars
  BY <1>1 DEF vars, mainVars, workerVars, workletVars, ControlType, MainType, WorkletType, WorkerType
<1>2. ASSUME NEW t \in Ids, NEW pc \in TaskStates, task' = [task EXCEPT ![t].pc = pc]
      PROVE  task' \in [Ids -> Tasks]
  <2>1. ASSUME NEW r \in Tasks PROVE [r EXCEPT !.pc = pc] \in Tasks
    BY DEF Tasks
  <2> QED BY <1>2, <2>1 DEF ControlType, MainType
<1>3. ASSUME NEW t \in Ids, CallInit(t) PROVE ControlType'
  BY <1>2, <1>3
     DEF CallInit, TaskStates, ControlType, MainType, WorkletType, WorkerType, workerVars, workletVars
<1>4. ASSUME NEW t \in Ids, CallRestart(t) PROVE ControlType'
  <2>1. CloseInternal({t})
    BY <1>4 DEF CallRestart
  <2> QED BY <2>1, CloseType
<1>5. CASE CallDestroy
  <2>1. CloseInternal({})
    BY <1>5 DEF CallDestroy
  <2> QED BY <2>1, CloseType
<1>6. ASSUME NEW op \in Ops, CallSetter(op) PROVE ControlType'
  <2>1. setters' \in Seq(Ops) /\ setters' # <<>>
    BY <1>6 DEF CallSetter, ControlType, MainType
  <2> QED BY <1>6, <2>1
             DEF CallSetter, ControlType, MainType, WorkletType, WorkerType, workerVars, workletVars
<1>7. ASSUME NEW t \in Ids, WorkletLoaded(t) PROVE ControlType'
  <2>1. task' \in [Ids -> Tasks]
    <3>1. task[t] \in Tasks /\ options \in Options
      BY DEF ControlType, MainType
    <3>2. [task[t] EXCEPT !.pc = "fetching", !.module = options.denoise, !.configs = options.configs] \in Tasks
      BY <3>1 DEF Tasks, TaskStates, Options
    <3> QED BY <1>7, <3>2 DEF WorkletLoaded, ControlType, MainType
  <2>2. worklet' \in [Ids -> Worklets]
    <3>1. ASSUME NEW r \in Worklets PROVE [r EXCEPT !.life = "running"] \in Worklets
      BY DEF Worklets
    <3> QED BY <1>7, <3>1 DEF WorkletLoaded, ControlType, WorkletType
  <2> QED BY <1>7, <2>1, <2>2 DEF WorkletLoaded, ControlType, MainType, WorkletType, WorkerType, workerVars
<1>8. ASSUME NEW t \in Ids, LoadFails(t) \/ FetchFails(t) PROVE ControlType'
  <2>1. task' \in [Ids -> Tasks]
    BY <1>2, <1>8 DEF LoadFails, FetchFails, Fail, TaskStates
  <2>2. UNCHANGED <<enabled, options, node, listening, workerRef, published, setters, running,
                    workerVars, workletVars>>
    BY <1>8 DEF LoadFails, FetchFails
  <2> QED BY <2>1, <2>2 DEF ControlType, MainType, WorkletType, WorkerType, workerVars, workletVars
<1>9. ASSUME NEW t \in Ids, WasmFetched(t) PROVE ControlType'
  <2>1. task' \in [Ids -> Tasks]
    BY <1>2, <1>9 DEF WasmFetched, TaskStates
  <2>2. toWorker' \in [Ids -> Seq(WorkerMessages)]
    <3>1. Msg("INIT", [module |-> task[t].module, configs |-> task[t].configs]) \in WorkerMessages
      BY DEF Msg, WorkerMessages, ControlType, MainType, Tasks
    <3> QED BY <1>9, <3>1 DEF WasmFetched, ControlType, WorkerType
  <2> QED BY <1>9, <2>1, <2>2 DEF WasmFetched, ControlType, MainType, WorkletType, WorkerType, workletVars
<1>10. ASSUME NEW t \in Ids, ClosePort(t)
       PROVE  portHolder' \in [Ids -> PortHolders] /\ fromWorker' \in [Ids -> Seq(WorkerReplies)]
  <2>1. [at |-> "closed", node |-> None] \in PortHolders /\ <<>> \in Seq(WorkerReplies)
    BY DEF PortHolders
  <2> QED BY <1>10, <2>1 DEF ClosePort, ControlType, WorkerType
<1>11. ASSUME NEW t \in Ids, WorkerInitFails(t) PROVE ControlType'
  BY <1>2, <1>10, <1>11 DEF WorkerInitFails, Fail, TaskStates, ControlType, MainType, WorkletType, WorkerType,
                            workletVars
<1>12. ASSUME NEW cmd \in Commands, node # None, Post(cmd) PROVE toNode' \in [Ids -> Seq(Commands)]
  <2>1. node \in Ids /\ toNode \in [Ids -> Seq(Commands)]
    BY <1>12 DEF ControlType, MainType, WorkletType
  <2>2. toNode' = [toNode EXCEPT ![node] = Append(toNode[node], cmd)]
    BY <1>12 DEF Post
  <2>3. Append(toNode[node], cmd) \in Seq(Commands)
    BY <2>1
  <2> QED BY <2>1, <2>2, <2>3
<1>13. ASSUME NEW t \in Ids, WorkerInitOk(t) PROVE ControlType'
  <2>1. CASE node = None /\ Fail(t) /\ ClosePort(t) /\ UNCHANGED <<toNode, transportVars>>
    BY <1>2, <1>10, <1>13, <2>1 DEF WorkerInitOk, Fail, TaskStates, ControlType, MainType, WorkletType, WorkerType
  <2>2. CASE /\ node # None /\ Post(PipelineCommand(t))
             /\ task' = [task EXCEPT ![t] = [@ EXCEPT !.pc = "pipelineInit", !.req = nextRequestId]]
             /\ fromWorker' = [fromWorker EXCEPT ![t] = Tail(@)]
             /\ portHolder' = [portHolder EXCEPT ![t].at = "transit"]
    <3>1. nextRequestId \in RequestIds
      BY <2>2 DEF Post, Send
    <3>2. PipelineCommand(t) \in Commands
      BY <1>13, <3>1, PipelineCommandType DEF WorkerInitOk
    <3>3. toNode' \in [Ids -> Seq(Commands)]
      BY <1>12, <2>2, <3>2
    <3>4. task' \in [Ids -> Tasks]
      <4>1. ASSUME NEW r \in Tasks PROVE [r EXCEPT !.pc = "pipelineInit", !.req = nextRequestId] \in Tasks
        BY <3>1 DEF Tasks, TaskStates
      <4> QED BY <2>2, <4>1 DEF ControlType, MainType
    <3>5. fromWorker' \in [Ids -> Seq(WorkerReplies)]
      BY <1>13, <2>2 DEF WorkerInitOk, ControlType, WorkerType
    <3>6. portHolder' \in [Ids -> PortHolders]
      <4>1. ASSUME NEW r \in PortHolders PROVE [r EXCEPT !.at = "transit"] \in PortHolders
        BY DEF PortHolders
      <4> QED BY <2>2, <4>1 DEF ControlType, WorkerType
    <3> QED BY <1>13, <3>3, <3>4, <3>5, <3>6
               DEF WorkerInitOk, ControlType, MainType, WorkletType, WorkerType
  <2> QED BY <1>13, <2>1, <2>2 DEF WorkerInitOk, PipelineCommand
<1>14. CASE StartSetter
  <2> DEFINE op == Head(setters)
  <2>1. op \in Ops /\ setters # <<>>
    BY <1>14 DEF StartSetter, ControlType, MainType
  <2>2. enabled' \in BOOLEAN
    BY <1>14, <2>1 DEF StartSetter, ControlType, MainType, Ops
  <2>3. CASE FinishSetter(TRUE) /\ UNCHANGED <<toNode, transportVars>>
    <3>1. setters' \in Seq(Ops) /\ running' = NoRequest /\ options' \in Options
      BY <2>1, <2>3, FinishSetterType
    <3> QED BY <1>14, <2>2, <2>3, <3>1
               DEF StartSetter, ControlType, MainType, WorkletType, WorkerType, workerVars
  <2>4. CASE /\ node # None /\ Post(SetterCommand(op, nextRequestId))
             /\ running' = nextRequestId /\ UNCHANGED <<setters, options>>
    <3>1. nextRequestId \in RequestIds
      BY <2>4 DEF Post, Send
    <3>2. SetterCommand(op, nextRequestId) \in Commands
      BY <2>1, <3>1, SetterCommandType DEF ControlType, MainType
    <3> QED BY <1>12, <1>14, <2>1, <2>2, <2>4, <3>1, <3>2
               DEF StartSetter, ControlType, MainType, WorkletType, WorkerType, workerVars
  <2> QED BY <1>14, <2>3, <2>4 DEF StartSetter
<1>15. ASSUME NEW n \in Ids, ReceiveReply(n) PROVE ControlType'
  <2> DEFINE reply == Head(toMain[n])
  <2>1. reply \in Replies /\ toMain' \in [Ids -> Seq(Replies)]
    BY <1>15 DEF ReceiveReply, ControlType, WorkletType
  <2>2. MainType'
    <3>1. CASE UNCHANGED <<setters, running, options, task, published>>
      BY <1>15, <3>1 DEF ReceiveReply, ControlType, MainType
    <3>2. CASE reply.id \in pending /\ Continue(reply.id, reply.ok)
      BY <1>15, <2>1, <3>2, ContinueType DEF ReceiveReply, Replies
    <3> QED BY <1>15, <3>1, <3>2 DEF ReceiveReply
  <2> QED BY <1>15, <2>1, <2>2 DEF ReceiveReply, ControlType, WorkletType, WorkerType, workerVars
<1>16. ASSUME NEW id \in RequestIds, CommandTimeout(id) PROVE ControlType'
  <2>1. MainType'
    BY <1>16, ContinueType DEF CommandTimeout, Timeout
  <2> QED BY <1>16, <2>1 DEF CommandTimeout, ControlType, WorkletType, WorkerType, workerVars, workletVars
<1>17. ASSUME NEW n \in Ids, NodeStep(n) \/ PortStep(n) PROVE ControlType'
  BY <1>17, NodeType, PortType DEF NodeStep, PortStep, ControlType, MainType, mainVars
<1>18. ASSUME NEW w \in Ids, WorkerStep(w) PROVE ControlType'
  BY <1>18, WorkerStepType DEF WorkerStep, ControlType, MainType, WorkletType, mainVars, workletVars
<1>19. /\ \A enable \in BOOLEAN : Op("setEnabled", enable) \in Ops
       /\ \A m \in Modules : Op("setStageModule", m) \in Ops
       /\ \A c \in Patches("rnnoise") : Op("setRnnoise", c) \in Ops
       /\ \A c \in Patches("deepfilternet") : Op("setDeepFilter", c) \in Ops
  BY DEF Op, Ops
<1> QED BY <1>1, <1>3, <1>4, <1>5, <1>6, <1>7, <1>8, <1>9, <1>11, <1>13, <1>14, <1>15, <1>16, <1>17, <1>18, <1>19
           DEF Next

-----------------------------------------------------------------------------
(* Each command that waits has one caller. *)

\* A step of an init call that sends no command.
LEMMA RequestsPassed ==
    ASSUME Requests, \A t \in Ids : /\ task'[t].req = task[t].req
                                    /\ task'[t].pc = "pipelineInit" <=> task[t].pc = "pipelineInit",
           UNCHANGED <<running, transportVars>>, node' # None \/ node' = node
    PROVE  Requests'
PROOF BY DEF Requests, transportVars

\* The command that waited has been settled and its caller goes on.
LEMMA RequestsSettled ==
    ASSUME TransportInv, ControlType, Requests, NEW id \in pending, NEW how, Settle(id, how),
           NEW ok \in BOOLEAN, Continue(id, ok), node' = node
    PROVE  Requests'
PROOF
<1> USE Constants DEF ControlType, MainType
<1>1. id \in RequestIds /\ id # NoRequest
  BY DEF TransportInv, TransportTypeOK
<1>2. pending' = pending \ {id} /\ nextRequestId' = nextRequestId
  BY DEF Settle
<1>3. CASE id = running /\ FinishSetter(ok) /\ UNCHANGED <<task, published>>
  <2>1. running' = NoRequest /\ task' = task
    BY <1>3 DEF FinishSetter
  <2> QED BY <1>1, <1>2, <1>3, <2>1 DEF Requests
<1>4. ASSUME NEW t \in Ids, id = task[t].req,
             task' = [task EXCEPT ![t].pc = IF ok THEN "done" ELSE "failed"], UNCHANGED running
      PROVE  Requests'
  <2>1. \A s \in Ids : task'[s].req = task[s].req /\ task'[s].pc = IF s # t THEN task[s].pc ELSE
                       IF ok THEN "done" ELSE "failed"
    BY <1>4 DEF Tasks
  <2>2. \A s \in Ids : s # t => task[s].req # id
    BY <1>1, <1>4 DEF Requests
  <2>3. running # id
    BY <1>1, <1>4 DEF Requests
  <2> QED BY <1>1, <1>2, <1>4, <2>1, <2>2, <2>3 DEF Requests
<1> QED BY <1>3, <1>4 DEF Continue

LEMMA RequestsClosed ==
    ASSUME TransportInv, ControlType, Requests, NEW started \in SUBSET Ids, CloseInternal(started)
    PROVE  Requests'
PROOF
<1> USE Constants DEF ControlType, MainType, CloseInternal
<1>1. pending' = {} /\ nextRequestId' = nextRequestId
  BY DEF RejectAwaiting, Close
<1>2. running' = NoRequest
  BY DEF RejectAwaiting, FinishSetter, Requests
<1>3. \A t \in Ids : task'[t].req = task[t].req /\ task'[t].pc # "pipelineInit"
  BY DEF Requests, Tasks
<1> QED BY <1>1, <1>2, <1>3 DEF Requests

LEMMA RequestsStep ==
    ASSUME TransportInv, ControlType, Requests, [Next]_vars
    PROVE  Requests'
PROOF
<1> USE Constants
<1>1. ASSUME UNCHANGED <<task, running, node, transportVars>> PROVE Requests'
  BY <1>1, RequestsPassed
<1>2. ASSUME NEW t \in Ids, CallInit(t) \/ WorkletLoaded(t) \/ LoadFails(t) \/ WasmFetched(t) \/ FetchFails(t)
                            \/ WorkerInitFails(t)
      PROVE  Requests'
  <2>1. UNCHANGED <<running, transportVars>> /\ (node' # None \/ node' = node)
    BY <1>2 DEF CallInit, WorkletLoaded, LoadFails, WasmFetched, FetchFails, WorkerInitFails
  <2>2. task[t].pc # "pipelineInit"
    BY <1>2 DEF CallInit, NextTask, WorkletLoaded, LoadFails, WasmFetched, FetchFails, WorkerInitFails
  <2>3. \E pc \in {"loading", "failed", "fetching", "workerInit"} : \E m, c :
           \/ task' = [task EXCEPT ![t].pc = pc]
           \/ task' = [task EXCEPT ![t] = [@ EXCEPT !.pc = pc, !.module = m, !.configs = c]]
    <3>1. CASE WorkletLoaded(t)
      BY <3>1 DEF WorkletLoaded
    <3> QED BY <1>2, <3>1 DEF CallInit, LoadFails, WasmFetched, FetchFails, WorkerInitFails, Fail
  <2>4. \A s \in Ids : task'[s].req = task[s].req /\ (task'[s].pc = "pipelineInit" <=> task[s].pc = "pipelineInit")
    <3> SUFFICES ASSUME NEW s \in Ids
                 PROVE  task'[s].req = task[s].req /\ (task'[s].pc = "pipelineInit" <=> task[s].pc = "pipelineInit")
      OBVIOUS
    <3>1. task[t] \in Tasks /\ task \in [Ids -> Tasks]
      BY DEF ControlType, MainType
    <3>2. PICK pc \in {"loading", "failed", "fetching", "workerInit"} : \E m, c :
             \/ task' = [task EXCEPT ![t].pc = pc]
             \/ task' = [task EXCEPT ![t] = [@ EXCEPT !.pc = pc, !.module = m, !.configs = c]]
      BY <2>3
    <3>3. PICK m, c :
             \/ task' = [task EXCEPT ![t].pc = pc]
             \/ task' = [task EXCEPT ![t] = [@ EXCEPT !.pc = pc, !.module = m, !.configs = c]]
      BY <3>2
    <3>4. CASE s # t
      BY <3>1, <3>3, <3>4
    <3>5. CASE s = t
      <4>0. ASSUME NEW r \in Tasks
            PROVE  /\ [r EXCEPT !.pc = pc].req = r.req /\ [r EXCEPT !.pc = pc].pc = pc
                   /\ [r EXCEPT !.pc = pc, !.module = m, !.configs = c].req = r.req
                   /\ [r EXCEPT !.pc = pc, !.module = m, !.configs = c].pc = pc
        BY DEF Tasks
      <4>1. task'[s].req = task[s].req /\ task'[s].pc = pc
        BY <3>1, <3>3, <3>5, <4>0
      <4> QED BY <2>2, <3>5, <4>1
    <3> QED BY <3>4, <3>5
  <2> QED BY <2>1, <2>4, RequestsPassed
<1>3. ASSUME NEW t \in Ids, CallRestart(t) PROVE Requests'
  <2>1. CloseInternal({t})
    BY <1>3 DEF CallRestart
  <2> QED BY <2>1, RequestsClosed
<1>4. CASE CallDestroy
  <2>1. CloseInternal({})
    BY <1>4 DEF CallDestroy
  <2> QED BY <2>1, RequestsClosed
<1>5. ASSUME NEW op, CallSetter(op) PROVE Requests'
  BY <1>1, <1>5 DEF CallSetter
<1>6. ASSUME Send
      PROVE  /\ nextRequestId \in RequestIds /\ nextRequestId' = nextRequestId + 1
             /\ pending' = pending \cup {nextRequestId} /\ nextRequestId \notin pending
             /\ \A id \in pending : id < nextRequestId'
             /\ \A t \in Ids : task[t].req # nextRequestId /\ task[t].req < nextRequestId'
  <2>1. nextRequestId \in Nat /\ nextRequestId \in RequestIds
    BY <1>6 DEF Send
  <2>2. \A id \in pending : id \in RequestIds /\ id < nextRequestId
    BY <2>1 DEF TransportInv, TransportTypeOK, PendingAreWaiting, IdsAreFresh
  <2>3. \A t \in Ids : task[t].req \in Nat /\ task[t].req < nextRequestId
    <3> SUFFICES ASSUME NEW t \in Ids PROVE task[t].req \in Nat /\ task[t].req < nextRequestId
      OBVIOUS
    <3>1. task[t] \in Tasks
      BY DEF ControlType, MainType
    <3>2. task[t].req \in {NoRequest} \cup RequestIds
      BY <3>1 DEF Tasks
    <3>3. task[t].req < nextRequestId
      BY DEF Requests
    <3> QED BY <3>2, <3>3, RequestsAssumption DEF NoRequest, RequestIds
  <2>4. /\ nextRequestId' = nextRequestId + 1 /\ pending' = pending \cup {nextRequestId}
    BY <1>6 DEF Send
  <2>5. nextRequestId \notin pending
    BY <2>1, <2>2
  <2>6. \A id \in pending : id < nextRequestId'
    BY <2>1, <2>2, <2>4, RequestsAssumption DEF RequestIds
  <2>7. \A t \in Ids : task[t].req # nextRequestId /\ task[t].req < nextRequestId'
    BY <2>1, <2>3, <2>4
  <2> QED BY <2>1, <2>4, <2>5, <2>6, <2>7
<1>7. ASSUME NEW t \in Ids, WorkerInitOk(t) PROVE Requests'
  <2>1. CASE node = None /\ Fail(t) /\ UNCHANGED transportVars
    <3>1. \A s \in Ids : task'[s].req = task[s].req /\ (task'[s].pc = "pipelineInit" <=> task[s].pc = "pipelineInit")
      BY <1>7, <2>1 DEF WorkerInitOk, Fail, ControlType, MainType, Tasks
    <3>2. UNCHANGED <<running, node, transportVars>>
      BY <1>7, <2>1 DEF WorkerInitOk
    <3> QED BY <3>1, <3>2, RequestsPassed
  <2>2. CASE node # None /\ Send
             /\ task' = [task EXCEPT ![t] = [@ EXCEPT !.pc = "pipelineInit", !.req = nextRequestId]]
    <3>1. UNCHANGED <<running, node>> /\ task[t].pc = "workerInit"
      BY <1>7 DEF WorkerInitOk
    <3>2. task'[t].pc = "pipelineInit" /\ task'[t].req = nextRequestId
      BY <2>2 DEF ControlType, MainType, Tasks
    <3>3. \A s \in Ids : s # t => task'[s] = task[s]
      BY <2>2 DEF ControlType, MainType
    <3>4. running # nextRequestId
      BY <1>6, <2>2 DEF Requests
    <3>5. task[t].req \notin pending
      BY <3>1 DEF Requests
    <3> QED BY <1>6, <2>2, <3>1, <3>2, <3>3, <3>4, <3>5 DEF Requests
  <2> QED BY <1>7, <2>1, <2>2 DEF WorkerInitOk, Post
<1>8. CASE StartSetter
  <2>1. CASE FinishSetter(TRUE) /\ UNCHANGED <<toNode, transportVars>>
    BY <1>1, <1>8, <2>1 DEF StartSetter, FinishSetter
  <2>2. CASE node # None /\ Send /\ running' = nextRequestId
    <3>1. UNCHANGED <<task, node>> /\ running = NoRequest
      BY <1>8 DEF StartSetter
    <3>2. \A t \in Ids : /\ task'[t] = task[t] /\ task[t].req # running' /\ task[t].req < nextRequestId'
                         /\ task[t].req # nextRequestId
      BY <1>6, <2>2, <3>1
    <3>3. \A t \in Ids : task[t].req \in pending' <=> task[t].req \in pending
      BY <1>6, <2>2, <3>2
    <3>4. \A id \in pending : id # running
      BY <3>1, Constants DEF TransportInv, TransportTypeOK
    <3> QED BY <1>6, <2>2, <3>1, <3>2, <3>3, <3>4 DEF Requests
  <2> QED BY <1>8, <2>1, <2>2 DEF StartSetter, Post
<1>9. ASSUME NEW n \in Ids, ReceiveReply(n) PROVE Requests'
  <2> DEFINE reply == Head(toMain[n])
  <2>1. CASE UNCHANGED <<transportVars, setters, running, options, task, published>>
    BY <1>1, <1>9, <2>1 DEF ReceiveReply
  <2>2. CASE /\ reply.id \in pending
             /\ IF reply.ok THEN Resolve(reply.id) ELSE Reject(reply.id)
             /\ Continue(reply.id, reply.ok)
    <3>1. reply.ok \in BOOLEAN
      <4>1. toMain[n] \in Seq(Replies) /\ toMain[n] # <<>>
        BY <1>9 DEF ReceiveReply, ControlType, WorkletType
      <4>2. reply \in Replies
        BY <4>1
      <4> QED BY <4>2 DEF Replies
    <3>2. \E how : Settle(reply.id, how)
      BY <2>2 DEF Resolve, Reject
    <3>3. node' = node
      BY <1>9 DEF ReceiveReply
    <3> QED BY <2>2, <3>1, <3>2, <3>3, RequestsSettled
  <2> QED BY <1>9, <2>1, <2>2 DEF ReceiveReply
<1>10. ASSUME NEW id \in RequestIds, CommandTimeout(id) PROVE Requests'
  BY <1>10, RequestsSettled DEF CommandTimeout, Timeout
<1>11. ASSUME NEW n \in Ids, NodeStep(n) \/ PortStep(n) \/ WorkerStep(n) PROVE Requests'
  BY <1>1, <1>11 DEF NodeStep, PortStep, WorkerStep, mainVars
<1>12. CASE UNCHANGED vars
  BY <1>1, <1>12 DEF vars, mainVars
<1> QED BY <1>2, <1>3, <1>4, <1>5, <1>7, <1>8, <1>9, <1>10, <1>11, <1>12 DEF Next

-----------------------------------------------------------------------------
(* The handles, and the last command of a worklet. *)

\* No call goes back to before its worklet was loaded.
Onward == \A t \in Ids : task'[t].pc \in {"idle", "loading"} => task[t].pc \in {"idle", "loading"}

LEMMA FinishKeepsHandles ==
    ASSUME ControlType, NEW id, NEW ok \in BOOLEAN, Continue(id, ok)
    PROVE  Onward /\ (published' = published \/ published' = node)
PROOF
<1>1. CASE UNCHANGED <<task, published>>
  BY <1>1 DEF Onward
<1>2. ASSUME NEW t \in Ids, task' = [task EXCEPT ![t].pc = IF ok THEN "done" ELSE "failed"],
             published' = IF ok THEN node ELSE published
      PROVE  Onward /\ (published' = published \/ published' = node)
  BY <1>2 DEF Onward, ControlType, MainType, Tasks
<1> QED BY <1>1, <1>2 DEF Continue

LEMMA HandlesKept ==
    ASSUME Handles, Onward, UNCHANGED <<node, workerRef, listening, workerLife, toNode>>,
           published' = published \/ (published' = node /\ node # None),
           \A n \in Ids : worklet'[n].life = worklet[n].life, node \in {None} \cup Ids
    PROVE  Handles'
PROOF
<1>1. DestroyIsLast'
  BY DEF Handles, DestroyIsLast
<1>2. HandlesAreLive'
  BY DEF Handles, HandlesAreLive
<1>3. (node # None => ~Closing(node))'
  BY DEF Handles, Closing
<1>4. (\A t \in Ids : task[t].pc \in {"idle", "loading"} =>
          node # t /\ toNode[t] = <<>> /\ worklet[t].life = "none")'
  BY DEF Handles, Onward
<1> QED BY <1>1, <1>2, <1>3, <1>4 DEF Handles

\* A command to the current node, which is open.
LEMMA HandlesPosted ==
    ASSUME Handles, Onward, ControlType, node # None,
           UNCHANGED <<node, workerRef, published, listening, workerLife, worklet>>,
           NEW cmd \in Commands, cmd.type # "DESTROY",
           toNode' = [toNode EXCEPT ![node] = Append(@, cmd)]
    PROVE  Handles'
PROOF
<1>0. node \in Ids /\ toNode \in [Ids -> Seq(Commands)]
  BY DEF ControlType, MainType, WorkletType
<1>1. \A n \in Ids : n # node => toNode'[n] = toNode[n]
  BY <1>0
<1>2. toNode'[node] = Append(toNode[node], cmd) /\ toNode[node] \in Seq(Commands)
  BY <1>0
<1>3. \A i \in DOMAIN toNode'[node] : toNode'[node][i].type # "DESTROY"
  BY <1>0, <1>2 DEF Handles, Closing
<1>4. worklet[node].life # "destroyed"
  BY DEF Handles, HandlesAreLive
<1>5. DestroyIsLast'
  <2> SUFFICES ASSUME NEW n \in Ids, NEW i \in DOMAIN toNode'[n]
               PROVE  (toNode'[n][i].type = "DESTROY" => i = Len(toNode'[n])) /\ worklet[n].life # "destroyed"
    BY DEF DestroyIsLast
  <2>1. CASE n = node
    BY <1>3, <1>4, <2>1
  <2>2. CASE n # node
    BY <1>1, <2>2 DEF Handles, DestroyIsLast
  <2> QED BY <2>1, <2>2
<1>6. HandlesAreLive'
  BY DEF Handles, HandlesAreLive
<1>7. (node # None => ~Closing(node))'
  BY <1>3 DEF Closing
<1>8. (\A t \in Ids : task[t].pc \in {"idle", "loading"} =>
          node # t /\ toNode[t] = <<>> /\ worklet[t].life = "none")'
  BY <1>1 DEF Handles, Onward
<1> QED BY <1>5, <1>6, <1>7, <1>8 DEF Handles

LEMMA HandlesClosed ==
    ASSUME Handles, ControlType, NEW started \in SUBSET Ids, CloseInternal(started),
           \A t \in started : task[t].pc = "idle"
    PROVE  Handles'
PROOF
<1> DEFINE cmd == Command("DESTROY", None, NoRequest)
<1>0. node \in {None} \cup Ids /\ toNode \in [Ids -> Seq(Commands)] /\ cmd \in Commands
  BY DEF ControlType, MainType, WorkletType, Command, Commands
<1>1. node' = None /\ workerRef' = None /\ published' = None /\ worklet' = worklet
  BY DEF CloseInternal, DropHandles
<1>2. Onward
  BY DEF CloseInternal, Onward, ControlType, MainType, Tasks
<1>3. \A n \in Ids : n # node => toNode'[n] = toNode[n]
  BY <1>0 DEF CloseInternal, DestroyNode
<1>4. node # None => toNode'[node] = Append(toNode[node], cmd)
  BY <1>0 DEF CloseInternal, DestroyNode
<1>5. DestroyIsLast'
  <2> SUFFICES ASSUME NEW n \in Ids, NEW i \in DOMAIN toNode'[n]
               PROVE  (toNode'[n][i].type = "DESTROY" => i = Len(toNode'[n])) /\ worklet[n].life # "destroyed"
    BY <1>1 DEF DestroyIsLast
  <2>1. CASE n = node
    <3>1. worklet[n].life = "running" /\ ~Closing(n)
      BY <2>1, Constants DEF Handles, HandlesAreLive
    <3>2. toNode'[n] = Append(toNode[n], cmd) /\ toNode[n] \in Seq(Commands)
      BY <1>0, <1>4, <2>1, Constants
    <3>3. i = Len(toNode'[n]) \/ toNode'[n][i].type # "DESTROY"
      BY <3>1, <3>2 DEF Closing
    <3> QED BY <3>1, <3>3
  <2>2. CASE n # node
    BY <1>3, <2>2 DEF Handles, DestroyIsLast
  <2> QED BY <2>1, <2>2
<1>6. HandlesAreLive'
  BY <1>1 DEF HandlesAreLive
<1>7. (\A t \in Ids : task[t].pc \in {"idle", "loading"} =>
          node # t /\ toNode[t] = <<>> /\ worklet[t].life = "none")'
  BY <1>1, <1>2, <1>3, Constants DEF Handles, Onward
<1> QED BY <1>1, <1>5, <1>6, <1>7 DEF Handles

\* What a worklet has taken from its queue: it is destroyed by DESTROY only.
LEMMA DispatchEffect ==
    ASSUME ControlType, NEW n \in Ids, Dispatch(n)
    PROVE  /\ toNode[n] # <<>> /\ toNode'[n] = Tail(toNode[n])
           /\ \A k \in Ids : k # n => toNode'[k] = toNode[k] /\ worklet'[k] = worklet[k]
           /\ Head(toNode[n]).type = "DESTROY" => worklet'[n].life = "destroyed"
           /\ Head(toNode[n]).type # "DESTROY" => worklet'[n].life = worklet[n].life
PROOF
<1> DEFINE cmd == Head(toNode[n])
<1>1. toNode[n] # <<>> /\ toNode'[n] = Tail(toNode[n]) /\ \A k \in Ids : k # n => toNode'[k] = toNode[k]
  BY DEF Dispatch, ControlType, WorkletType
<1>2. worklet \in [Ids -> Worklets] /\ worklet[n] \in Worklets
  BY DEF ControlType, WorkletType
<1>3. ASSUME NEW r, worklet' = [worklet EXCEPT ![n] = r]
      PROVE  worklet'[n] = r /\ \A k \in Ids : k # n => worklet'[k] = worklet[k]
  BY <1>2, <1>3
<1>4. CASE cmd.type = "INIT_PIPELINE" /\ InitPipeline(n, cmd)
  <2> DEFINE connected == [worklet[n] EXCEPT
          !.currentModuleId = cmd.arg.module, !.vad = cmd.arg.rnnoise,
          !.workerPort = cmd.arg.workerPort, !.frameModule = cmd.arg.frameModule]
  <2>1. connected.life = worklet[n].life /\ [connected EXCEPT !.workerReady = TRUE].life = worklet[n].life
    BY <1>2 DEF Worklets
  <2>2. \/ worklet' = [worklet EXCEPT ![n] = connected]
        \/ worklet' = [worklet EXCEPT ![n] = [connected EXCEPT !.workerReady = TRUE]]
    BY <1>4 DEF InitPipeline
  <2> QED BY <1>1, <1>3, <1>4, <2>1, <2>2
<1>5. CASE cmd.type = "SET_ENABLED" /\ SetEnabled(n, cmd)
  BY <1>1, <1>5 DEF SetEnabled
<1>6. CASE cmd.type = "SET_STAGE_MODULE" /\ SetStageModule(n, cmd)
  BY <1>1, <1>2, <1>6 DEF SetStageModule, Worklets
<1>7. CASE cmd.type = "SET_MODULE_CONFIG" /\ SetModuleConfig(n, cmd)
  BY <1>1, <1>2, <1>7 DEF SetModuleConfig, Worklets
<1>8. CASE cmd.type = "DESTROY" /\ Destroy(n, cmd)
  BY <1>1, <1>2, <1>8 DEF Destroy, Worklets
<1> QED BY <1>4, <1>5, <1>6, <1>7, <1>8 DEF Dispatch

LEMMA HandlesDispatched ==
    ASSUME Handles, ControlType, NEW n \in Ids, NodeStep(n)
    PROVE  Handles'
PROOF
<1>1. UNCHANGED <<node, workerRef, published, listening, task, workerLife>> /\ Dispatch(n)
  BY DEF NodeStep, mainVars, Dispatch
<1>2. toNode[n] \in Seq(Commands) /\ toNode[n] # <<>> /\ toNode'[n] = Tail(toNode[n])
  BY <1>1, DispatchEffect DEF ControlType, WorkletType
<1>3. \A k \in Ids : k # n => toNode'[k] = toNode[k] /\ worklet'[k] = worklet[k]
  BY <1>1, DispatchEffect
<1>4. \A i \in DOMAIN toNode'[n] : i + 1 \in DOMAIN toNode[n] /\ toNode'[n][i] = toNode[n][i + 1]
  BY <1>2
<1>5. 1 \in DOMAIN toNode[n] /\ Head(toNode[n]) = toNode[n][1]
  BY <1>2
<1>6. Head(toNode[n]).type = "DESTROY" => toNode'[n] = <<>> /\ n # node
  <2>1. Head(toNode[n]).type = "DESTROY" => Len(toNode[n]) = 1
    BY <1>5 DEF Handles, DestroyIsLast
  <2>2. Head(toNode[n]).type = "DESTROY" => Closing(n)
    BY <1>5 DEF Closing
  <2>3. Len(toNode[n]) = 1 => toNode'[n] = <<>>
    BY <1>2, TailFacts
  <2>4. Closing(n) => n # node
    BY Constants DEF Handles
  <2> QED BY <2>1, <2>2, <2>3, <2>4
<1>7. Head(toNode[n]).type # "DESTROY" => worklet'[n].life = worklet[n].life
  BY <1>1, DispatchEffect
<1>8. task[n].pc \notin {"idle", "loading"}
  BY <1>2 DEF Handles
<1>9. DestroyIsLast'
  <2> SUFFICES ASSUME NEW k \in Ids, NEW i \in DOMAIN toNode'[k]
               PROVE  (toNode'[k][i].type = "DESTROY" => i = Len(toNode'[k])) /\ worklet'[k].life # "destroyed"
    BY DEF DestroyIsLast
  <2>1. CASE k = n
    <3>1. Head(toNode[n]).type # "DESTROY"
      BY <1>6, <2>1
    <3>2. worklet'[n].life # "destroyed"
      BY <1>5, <1>7, <3>1 DEF Handles, DestroyIsLast
    <3>3. toNode'[n][i].type = "DESTROY" => i + 1 = Len(toNode[n])
      BY <1>4, <2>1 DEF Handles, DestroyIsLast
    <3>4. i \in Nat /\ Len(toNode'[n]) = Len(toNode[n]) - 1 /\ Len(toNode[n]) \in Nat
      BY <1>2, <2>1, TailFacts
    <3>5. i + 1 = Len(toNode[n]) => i = Len(toNode'[k])
      BY <2>1, <3>4
    <3> QED BY <2>1, <3>2, <3>3, <3>5
  <2>2. CASE k # n
    BY <1>3, <2>2 DEF Handles, DestroyIsLast
  <2> QED BY <2>1, <2>2
<1>10. HandlesAreLive'
  <2>1. node # None => worklet'[node].life = worklet[node].life
    BY <1>3, <1>6, <1>7 DEF ControlType, MainType
  <2> QED BY <1>1, <2>1 DEF Handles, HandlesAreLive
<1>11. (node # None => ~Closing(node))'
  <2>1. CASE node = n
    BY <1>1, <1>4, <2>1 DEF Handles, Closing
  <2>2. CASE node # n
    BY <1>1, <1>3, <2>2 DEF Handles, Closing, ControlType, MainType
  <2> QED BY <2>1, <2>2
<1>12. (\A t \in Ids : task[t].pc \in {"idle", "loading"} =>
          node # t /\ toNode[t] = <<>> /\ worklet[t].life = "none")'
  BY <1>1, <1>3, <1>8 DEF Handles
<1> QED BY <1>9, <1>10, <1>11, <1>12 DEF Handles

LEMMA HandlesStep ==
    ASSUME TransportInv, ControlType, Requests, Handles, [Next]_vars
    PROVE  Handles'
PROOF
<1> USE Constants
<1>0. node \in {None} \cup Ids /\ task \in [Ids -> Tasks]
  BY DEF ControlType, MainType
<1>1. ASSUME NEW t \in Ids, NEW pc, task' = [task EXCEPT ![t].pc = pc], task[t].pc \in {"idle", "loading"}
                                    \/ pc \notin {"idle", "loading"}
      PROVE  Onward
  BY <1>0, <1>1 DEF Onward, Tasks
<1>2. ASSUME NEW t \in Ids, CallInit(t) \/ LoadFails(t) \/ FetchFails(t) \/ WorkerInitFails(t) PROVE Handles'
  <2>1. Onward
    BY <1>1, <1>2 DEF CallInit, NextTask, LoadFails, FetchFails, WorkerInitFails, Fail
  <2>2. UNCHANGED <<node, workerRef, published, listening, workerLife, toNode, worklet>>
    BY <1>2 DEF CallInit, LoadFails, FetchFails, WorkerInitFails, workerVars, workletVars
  <2> QED BY <1>0, <2>1, <2>2, HandlesKept
<1>3. ASSUME NEW t \in Ids, CallRestart(t) PROVE Handles'
  BY <1>3, HandlesClosed DEF CallRestart, NextTask
<1>4. CASE CallDestroy
  BY <1>4, HandlesClosed DEF CallDestroy
<1>5. ASSUME NEW op, CallSetter(op) PROVE Handles'
  <2>1. Onward
    BY <1>5 DEF CallSetter, Onward
  <2>2. UNCHANGED <<node, workerRef, published, listening, workerLife, toNode, worklet>>
    BY <1>5 DEF CallSetter, workerVars, workletVars
  <2> QED BY <1>0, <2>1, <2>2, HandlesKept
<1>6. ASSUME NEW t \in Ids, WorkletLoaded(t) PROVE Handles'
  <2>1. task[t].pc = "loading" /\ node' = t /\ UNCHANGED <<workerRef, workerLife, toNode, published>>
    BY <1>6 DEF WorkletLoaded, workerVars
  <2>2. \A s \in Ids : s # t => task'[s] = task[s] /\ worklet'[s] = worklet[s] /\ listening'[s] = listening[s]
    BY <1>6 DEF WorkletLoaded, ControlType, MainType, WorkletType
  <2>3. task'[t].pc = "fetching" /\ worklet'[t].life = "running" /\ listening'[t]
    BY <1>0, <1>6 DEF WorkletLoaded, ControlType, MainType, WorkletType, Tasks, Worklets
  <2>4. toNode[t] = <<>>
    BY <2>1 DEF Handles
  <2>5. DestroyIsLast'
    <3> SUFFICES ASSUME NEW s \in Ids, NEW i \in DOMAIN toNode[s]
                 PROVE  /\ toNode[s][i].type = "DESTROY" => i = Len(toNode[s])
                        /\ worklet'[s].life # "destroyed"
      BY <2>1 DEF DestroyIsLast
    <3>1. s # t
      BY <2>4
    <3> QED BY <3>1, <2>2 DEF Handles, DestroyIsLast
  <2>6. HandlesAreLive'
    BY <2>1, <2>3 DEF Handles, HandlesAreLive
  <2>7. (node # None => ~Closing(node))'
    BY <2>1, <2>4 DEF Closing
  <2>8. (\A s \in Ids : task[s].pc \in {"idle", "loading"} =>
            node # s /\ toNode[s] = <<>> /\ worklet[s].life = "none")'
    BY <2>1, <2>2, <2>3 DEF Handles
  <2> QED BY <2>5, <2>6, <2>7, <2>8 DEF Handles
<1>7. ASSUME NEW t \in Ids, WasmFetched(t) PROVE Handles'
  <2>1. Onward
    BY <1>1, <1>7 DEF WasmFetched
  <2>2. UNCHANGED <<node, published, listening, toNode, worklet>> /\ workerRef' = t
    BY <1>7 DEF WasmFetched, workletVars
  <2>3. workerLife'[t] = "alive"
    BY <1>7 DEF WasmFetched, ControlType, WorkerType
  <2>4. DestroyIsLast'
    BY <2>2 DEF Handles, DestroyIsLast
  <2>5. HandlesAreLive'
    BY <2>2, <2>3 DEF Handles, HandlesAreLive
  <2>6. (node # None => ~Closing(node))'
    BY <2>2 DEF Handles, Closing
  <2>7. (\A s \in Ids : task[s].pc \in {"idle", "loading"} =>
            node # s /\ toNode[s] = <<>> /\ worklet[s].life = "none")'
    BY <2>1, <2>2 DEF Handles, Onward
  <2> QED BY <2>4, <2>5, <2>6, <2>7 DEF Handles
<1>8. ASSUME NEW t \in Ids, WorkerInitOk(t) PROVE Handles'
  <2>1. UNCHANGED <<node, workerRef, published, listening, workerLife, worklet>>
    BY <1>8 DEF WorkerInitOk
  <2>2. Onward
    <3>1. ASSUME NEW r, task' = [task EXCEPT ![t] = r], r.pc \notin {"idle", "loading"} PROVE Onward
      BY <1>0, <3>1 DEF Onward
    <3>2. [task[t] EXCEPT !.pc = "failed"].pc = "failed"
          /\ [task[t] EXCEPT !.pc = "pipelineInit", !.req = nextRequestId].pc = "pipelineInit"
      BY <1>0 DEF Tasks
    <3> QED BY <1>8, <3>1, <3>2 DEF WorkerInitOk, Fail
  <2>3. CASE UNCHANGED toNode
    BY <1>0, <2>1, <2>2, <2>3, HandlesKept
  <2>4. CASE node # None /\ Post(PipelineCommand(t))
    <3>1. PipelineCommand(t) \in Commands /\ PipelineCommand(t).type # "DESTROY"
      BY <1>8, <2>4, PipelineCommandType DEF WorkerInitOk, PipelineCommand, Command, Post, Send
    <3> QED BY <2>1, <2>2, <2>4, <3>1, HandlesPosted DEF Post
  <2> QED BY <1>8, <2>3, <2>4 DEF WorkerInitOk, PipelineCommand
<1>9. CASE StartSetter
  <2>1. UNCHANGED <<node, workerRef, published, listening, workerLife, worklet>> /\ Onward
    BY <1>9 DEF StartSetter, workerVars, Onward
  <2>2. CASE UNCHANGED toNode
    BY <1>0, <2>1, <2>2, HandlesKept
  <2>3. CASE node # None /\ Post(SetterCommand(Head(setters), nextRequestId))
    <3>1. Head(setters) \in Ops /\ options \in Options /\ nextRequestId \in RequestIds
      BY <1>9, <2>3, TailFacts DEF StartSetter, Post, Send, ControlType, MainType
    <3>2. SetterCommand(Head(setters), nextRequestId) \in Commands
          /\ SetterCommand(Head(setters), nextRequestId).type # "DESTROY"
      BY <3>1, SetterCommandType
    <3> QED BY <2>1, <2>3, <3>2, HandlesPosted DEF Post
  <2> QED BY <1>9, <2>2, <2>3 DEF StartSetter
<1>10. ASSUME NEW id \in pending, NEW ok \in BOOLEAN, Continue(id, ok),
              UNCHANGED <<node, workerRef, listening, workerLife, toNode, worklet>>
       PROVE  Handles'
  <2>1. node # None
    BY <1>10 DEF Requests
  <2>2. Onward /\ (published' = published \/ published' = node)
    BY <1>10, FinishKeepsHandles
  <2> QED BY <1>0, <1>10, <2>1, <2>2, HandlesKept
<1>11. ASSUME NEW n \in Ids, ReceiveReply(n) PROVE Handles'
  <2>1. UNCHANGED <<node, workerRef, listening, workerLife, toNode, worklet>>
    BY <1>11 DEF ReceiveReply, workerVars
  <2>2. CASE UNCHANGED <<task, published>>
    BY <1>0, <2>1, <2>2, HandlesKept DEF Onward
  <2>3. CASE Head(toMain[n]).id \in pending /\ Continue(Head(toMain[n]).id, Head(toMain[n]).ok)
    <3>1. Head(toMain[n]) \in Replies
      BY <1>11, TailFacts DEF ReceiveReply, ControlType, WorkletType
    <3> QED BY <1>10, <2>1, <2>3, <3>1 DEF Replies
  <2> QED BY <1>11, <2>2, <2>3 DEF ReceiveReply
<1>12. ASSUME NEW id \in RequestIds, CommandTimeout(id) PROVE Handles'
  BY <1>10, <1>12 DEF CommandTimeout, Timeout, workerVars, workletVars
<1>13. ASSUME NEW n \in Ids, NodeStep(n) PROVE Handles'
  BY <1>13, HandlesDispatched
<1>14. ASSUME NEW p \in Ids, PortStep(p) PROVE Handles'
  <2>1. UNCHANGED <<task, node, workerRef, published, listening, workerLife, toNode>>
    BY <1>14 DEF PortStep, WorkletReceives, mainVars
  <2>2. \A n \in Ids : worklet'[n].life = worklet[n].life
    <3>1. ASSUME NEW r \in Worklets, NEW m PROVE [r EXCEPT !.frameModule = m].life = r.life
      BY DEF Worklets
    <3>2. ASSUME NEW k, NEW m, worklet' = [worklet EXCEPT ![k].frameModule = m], NEW n \in Ids
          PROVE  worklet'[n].life = worklet[n].life
      <4>1. worklet \in [Ids -> Worklets] /\ worklet[n] \in Worklets
        BY DEF ControlType, WorkletType
      <4> QED BY <3>1, <3>2, <4>1
    <3>3. CASE UNCHANGED worklet
      BY <3>3
    <3> QED BY <1>14, <3>2, <3>3 DEF PortStep, WorkletReceives
  <2> QED BY <1>0, <2>1, <2>2, HandlesKept DEF Onward
<1>15. ASSUME NEW w \in Ids, WorkerStep(w) PROVE Handles'
  <2>1. UNCHANGED <<task, node, workerRef, published, listening, workerLife, toNode, worklet>>
    BY <1>15 DEF WorkerStep, WorkerReceives, mainVars, workletVars
  <2> QED BY <1>0, <2>1, HandlesKept DEF Onward
<1>16. CASE UNCHANGED vars
  BY <1>0, <1>16, HandlesKept DEF vars, mainVars, workerVars, workletVars, Onward
<1> QED BY <1>2, <1>3, <1>4, <1>5, <1>6, <1>7, <1>8, <1>9, <1>11, <1>12, <1>13, <1>14, <1>15, <1>16 DEF Next

-----------------------------------------------------------------------------
(* Theorems for every order of calls and every failure. *)

LEMMA ControlInvInit == Init => ControlInv
PROOF
<1> SUFFICES ASSUME Init PROVE ControlInv
  OBVIOUS
<1>1. Requests
  BY Constants DEF Init, TransportInit, IdleTask, Requests, NoRequest
<1>2. Handles
  BY Constants DEF Init, IdleTask, WorkletInit, InitialWorklet, Handles, DestroyIsLast, HandlesAreLive, Closing
<1> QED BY <1>1, <1>2, InitType DEF ControlInv

LEMMA ControlInvStep == ControlInv /\ [Next]_vars => ControlInv'
PROOF
<1> SUFFICES ASSUME ControlInv, [Next]_vars PROVE ControlInv'
  OBVIOUS
<1>1. TransportInv'
  BY TransportStep, TransportInvStep DEF ControlInv
<1> QED BY <1>1, TypeStep, RequestsStep, HandlesStep DEF ControlInv

\* Whatever calls the application makes and whatever fails: what each runtime
\* holds and what is on the way between them keeps its type.
THEOREM ControlInvariant == Spec => []ControlInv
PROOF BY ControlInvInit, ControlInvStep, PTL DEF Spec

\* Every command that waits has exactly one call awaiting it, and no call
\* awaits a command that is gone.
THEOREM AwaitedHolds == Spec => []PendingIsAwaited
PROOF
<1>1. ControlInv => PendingIsAwaited
  <2> SUFFICES ASSUME ControlInv PROVE PendingIsAwaited
    OBVIOUS
  <2>1. pending \subseteq Awaiting \ {NoRequest}
    <3>1. NoRequest \notin pending
      BY Constants DEF ControlInv, TransportInv, TransportTypeOK
    <3>2. \A id \in pending : id = running \/ \E t \in Ids : task[t].pc = "pipelineInit" /\ id = task[t].req
      BY DEF ControlInv, Requests
    <3> QED BY <3>1, <3>2 DEF Awaiting
  <2>2. Awaiting \ {NoRequest} \subseteq pending
    BY DEF ControlInv, Requests, Awaiting
  <2> QED BY <2>1, <2>2 DEF PendingIsAwaited
<1> QED BY <1>1, ControlInvariant, PTL

\* The node and the worker that destroy() would release are open and running,
\* and a track that was handed out has a node.
THEOREM HandlesHold == Spec => []HandlesAreLive
PROOF
<1>1. ControlInv => HandlesAreLive
  BY DEF ControlInv, Handles
<1> QED BY <1>1, ControlInvariant, PTL

\* DESTROY is the last command any worklet is sent.
THEOREM DestroyLastHolds == Spec => []DestroyIsLast
PROOF
<1>1. ControlInv => DestroyIsLast
  BY DEF ControlInv, Handles
<1> QED BY <1>1, ControlInvariant, PTL

\* The control plane implements the transport: each of its steps settles,
\* sends or closes as CommandTransport allows, or leaves the requests alone.
THEOREM TransportRefined == Spec => TransportImplemented
PROOF
<1>1. Init => TransportInit
  BY DEF Init
<1>2. ControlInv /\ [Next]_vars => [TransportNext]_transportVars
  BY TransportStep DEF ControlInv
<1> QED BY <1>1, <1>2, ControlInvariant, PTL DEF Spec, TransportImplemented, TransportSpec

\* No promise of a command settles twice, however calls, replies and timers of
\* the three runtimes interleave.
THEOREM ControlSettlesOnce == Spec => SettledForGood
PROOF BY TransportRefined, SettlesOnce, PTL DEF TransportImplemented

\* The options the application reads change only when there is no runtime to
\* tell, or on the confirmation of a worklet it listens to of a command that was
\* still awaited.
THEOREM ConsentHolds == Spec => OptionsNeedConsent
PROOF
<1> DEFINE Consent == options' # options =>
               \/ node = None
               \/ running \in pending /\ outcome'[running] = "ok" /\ listening[node]
<1>1. ControlInv /\ [Next]_vars => [Consent]_vars
  <2> SUFFICES ASSUME ControlInv, Next PROVE Consent
    OBVIOUS
  <2> USE Constants DEF ControlInv
  <2>1. ASSUME NEW t \in Ids, CallRestart(t) \/ CallDestroy PROVE UNCHANGED options
    BY <2>1 DEF CallRestart, CallDestroy, CloseInternal, RejectAwaiting, FinishSetter
  <2>2. ASSUME CallDestroy PROVE UNCHANGED options
    BY <2>2 DEF CallDestroy, CloseInternal, RejectAwaiting, FinishSetter
  <2>3. CASE StartSetter
    <3>1. CASE node # None /\ options' # options
      <4>1. Head(setters).kind = "setStageModule" /\ options.denoise = Head(setters).arg /\ FinishSetter(TRUE)
        BY <2>3, <3>1 DEF StartSetter
      <4>2. options' = [options EXCEPT !.denoise = Head(setters).arg]
        BY <4>1 DEF FinishSetter, NextOptions
      <4>3. options \in Options
        BY DEF ControlType, MainType
      <4> QED BY <3>1, <4>1, <4>2, <4>3 DEF Options
    <3> QED BY <3>1
  <2>4. ASSUME NEW n \in Ids, ReceiveReply(n) PROVE Consent
    <3> DEFINE reply == Head(toMain[n])
    <3>1. CASE UNCHANGED options
      BY <3>1
    <3>2. CASE /\ reply.id \in pending
               /\ IF reply.ok THEN Resolve(reply.id) ELSE Reject(reply.id)
               /\ reply.id = running /\ FinishSetter(reply.ok)
      <4>1. ~reply.ok => UNCHANGED options
        BY <3>2 DEF FinishSetter
      <4>2. reply.ok => outcome'[running] = "ok"
        BY <3>2 DEF Resolve, Settle, TransportInv, TransportTypeOK
      <4>3. node # None /\ listening[node]
        BY <3>2 DEF Requests, Handles, HandlesAreLive
      <4> QED BY <3>2, <4>1, <4>2, <4>3
    <3> QED BY <2>4, <3>1, <3>2 DEF ReceiveReply, Continue
  <2>5. ASSUME NEW id \in RequestIds, CommandTimeout(id) PROVE UNCHANGED options
    BY <2>5 DEF CommandTimeout, Continue, FinishSetter
  <2>6. ASSUME NEW t \in Ids, CallInit(t) \/ WorkletLoaded(t) \/ LoadFails(t) \/ WasmFetched(t) \/ FetchFails(t)
                              \/ WorkerInitOk(t) \/ WorkerInitFails(t)
        PROVE  UNCHANGED options
    BY <2>6 DEF CallInit, WorkletLoaded, LoadFails, WasmFetched, FetchFails, WorkerInitOk, WorkerInitFails
  <2>7. ASSUME NEW op, CallSetter(op) PROVE UNCHANGED options
    BY <2>7 DEF CallSetter
  <2>8. ASSUME NEW n \in Ids, NodeStep(n) \/ PortStep(n) \/ WorkerStep(n) PROVE UNCHANGED options
    BY <2>8 DEF NodeStep, PortStep, WorkerStep, mainVars
  <2> QED BY <2>1, <2>2, <2>3, <2>4, <2>5, <2>6, <2>7, <2>8 DEF Next
<1> QED BY <1>1, ControlInvariant, PTL DEF Spec, OptionsNeedConsent

-----------------------------------------------------------------------------
(* An application that makes one lifecycle call at a time (the rule          *)
(* "oneAtATime"): no worker or worklet is left running, and a track that was *)
(* handed out is served.  Setters may come at any time, and everything may   *)
(* fail.  At the end, with a few more rules: the three runtimes agree.       *)

\* At most one init call is in progress and the handles are its own.
Alone ==
    /\ \A s, t \in Ids : InProgress(s) /\ InProgress(t) => s = t
    /\ \A t \in Ids :
          /\ InProgress(t) => published = None
          /\ task[t].pc = "loading" => node = None
          /\ task[t].pc \in {"fetching", "workerInit", "pipelineInit"} => node = t
          /\ task[t].pc \in {"loading", "fetching"} => workerRef = None
          /\ task[t].pc \in {"workerInit", "pipelineInit"} => workerRef = t
    /\ workerRef # None => node = workerRef

\* A worklet is only ever connected to the worker of its own init call, whose
\* pipeline command comes after the worker has answered.
PortOf(n) ==
    /\ worklet[n].workerPort \in {None, n}
    /\ \A i \in DOMAIN toNode[n] : toNode[n][i].type = "INIT_PIPELINE" =>
          toNode[n][i].arg.workerPort = n /\ task[n].pc \in {"pipelineInit", "done", "failed"}

\* The worker has not handled its INIT yet.
Fresh(w) == \E i \in DOMAIN toWorker[w] : toWorker[w][i].type = "INIT"

\* A worker is initialised once, before anything else reaches it and before it is
\* connected, and while it runs it is not told to destroy itself.
QueueOf(w) ==
    /\ task[w].pc \in {"idle", "loading", "fetching"} => workerLife[w] = "none" /\ fromWorker[w] = <<>>
    /\ task[w].pc \in {"idle", "loading", "fetching", "workerInit"} =>
          worklet[w].workerPort = None /\ portHolder[w].at = "main"
    /\ workerLife[w] # "alive" => toWorker[w] = <<>>
    /\ \A i \in DOMAIN toWorker[w] : toWorker[w][i].type # "DESTROY"
    /\ Fresh(w) => /\ Len(toWorker[w]) = 1 /\ fromWorker[w] = <<>>
                   /\ worklet[w].workerPort = None /\ task[w].pc \in {"workerInit", "failed"}
                   /\ \A i \in DOMAIN toNode[w] : toNode[w][i].type # "INIT_PIPELINE"

\* A worker that has announced its modules has them from then on.
Announced(w) ==
    \/ task[w].pc = "workerInit" /\ fromWorker[w] # <<>> /\ Head(fromWorker[w]).type = "INIT_OK"
    \/ task[w].pc = "pipelineInit"
    \/ published # None /\ workerRef = w
LoadedOf(w) == Announced(w) => worker[w].loaded = Modules /\ ~Fresh(w)

\* No message has an id that was not handed out.
IdsOf(n) ==
    /\ \A i \in DOMAIN toNode[n] : toNode[n][i].id < nextRequestId
    /\ \A i \in DOMAIN toMain[n] : toMain[n][i].id < nextRequestId

\* The pipeline command an init call awaits is the only one with its id, and the
\* worklet that has confirmed it is connected to the worker.
Connected(n) == worklet[n].workerReady /\ worklet[n].workerPort = n
AnswerOf(t, n) ==
    task[t].pc = "pipelineInit" =>
        /\ \A i \in DOMAIN toNode[n] :
              toNode[n][i].id = task[t].req => n = t /\ toNode[n][i].type = "INIT_PIPELINE"
        /\ \A i \in DOMAIN toMain[n] :
              toMain[n][i].id = task[t].req /\ toMain[n][i].ok => Connected(t)

Serving == published # None => published = node /\ workerRef = node /\ Connected(node)

Messages ==
    \A n \in Ids : /\ PortOf(n) /\ QueueOf(n) /\ LoadedOf(n) /\ IdsOf(n)
                   /\ \A t \in Ids : AnswerOf(t, n)

LifecycleInv == NoOrphan /\ Serving /\ Alone /\ Messages

-----------------------------------------------------------------------------
LEMMA Types ==
    ASSUME ControlType, NEW n \in Ids
    PROVE  /\ toNode[n] \in Seq(Commands) /\ toMain[n] \in Seq(Replies)
           /\ toWorker[n] \in Seq(WorkerMessages) /\ fromWorker[n] \in Seq(WorkerReplies)
           /\ task[n] \in Tasks /\ worklet[n] \in Worklets /\ worker[n] \in Workers /\ portHolder[n] \in PortHolders
PROOF BY DEF ControlType, MainType, WorkletType, WorkerType

\* A step that only lets calls fail or go on, and takes replies.
LEMMA Settling ==
    ASSUME ControlType, LifecycleInv,
           UNCHANGED <<node, workerRef, published, workerLife, worker, toWorker, worklet, toNode>>,
           UNCHANGED nextRequestId,
           \A n \in Ids : toMain'[n] = toMain[n] \/ (toMain[n] # <<>> /\ toMain'[n] = Tail(toMain[n])),
           \A t \in Ids : \/ task'[t].pc = task[t].pc /\ task'[t].req = task[t].req
                          \/ InProgress(t) /\ task'[t].pc = "failed",
           \A w \in Ids : \/ fromWorker'[w] = fromWorker[w] /\ portHolder'[w] = portHolder[w]
                          \/ fromWorker'[w] = <<>> /\ task'[w].pc = "failed"
    PROVE  LifecycleInv'
PROOF
<1>1. NoOrphan'
  BY DEF LifecycleInv, NoOrphan
<1>2. Serving'
  BY DEF LifecycleInv, Serving, Connected
<1>3. Alone'
  BY DEF LifecycleInv, Alone, InProgress
<1>4. ASSUME NEW n \in Ids PROVE PortOf(n)'
  BY DEF LifecycleInv, Messages, PortOf, InProgress
<1>5. ASSUME NEW n \in Ids PROVE QueueOf(n)'
  <2>1. Fresh(n)' = Fresh(n)
    BY DEF Fresh
  <2>2. QueueOf(n)
    BY DEF LifecycleInv, Messages
  <2>3. CASE task'[n].pc = "failed" /\ InProgress(n)
    BY <2>1, <2>2, <2>3 DEF QueueOf, InProgress
  <2>4. CASE task'[n].pc = task[n].pc
    BY <2>1, <2>2, <2>4 DEF QueueOf
  <2> QED BY <2>3, <2>4
<1>6. ASSUME NEW n \in Ids PROVE LoadedOf(n)'
  BY DEF LifecycleInv, Messages, LoadedOf, Announced, Fresh
<1>7. ASSUME NEW n \in Ids, NEW i \in DOMAIN toMain'[n] PROVE \E j \in DOMAIN toMain[n] : toMain'[n][i] = toMain[n][j]
  <2>1. toMain[n] \in Seq(Replies)
    BY Types
  <2>2. CASE toMain[n] # <<>> /\ toMain'[n] = Tail(toMain[n])
    BY <1>7, <2>1, <2>2, TailFacts
  <2> QED BY <1>7, <2>2
<1>8. ASSUME NEW n \in Ids PROVE IdsOf(n)'
  BY <1>7 DEF LifecycleInv, Messages, IdsOf
<1>9. ASSUME NEW t \in Ids, NEW n \in Ids PROVE AnswerOf(t, n)'
  BY <1>7 DEF LifecycleInv, Messages, AnswerOf, Connected
<1> QED BY <1>1, <1>2, <1>3, <1>4, <1>5, <1>6, <1>8, <1>9 DEF LifecycleInv, Messages

LEMMA LifeCalled ==
    ASSUME ControlInv, LifecycleInv, "oneAtATime" \in Rules, NEW t \in Ids, CallInit(t)
    PROVE  LifecycleInv'
PROOF
<1>1. /\ node = None /\ workerRef = None /\ published = None /\ task[t].pc = "idle"
      /\ \A s \in Ids : ~InProgress(s)
  BY DEF CallInit, MayInit, Busy, NextTask, ControlInv, Handles, HandlesAreLive
<1>2. UNCHANGED <<node, workerRef, published, workerLife, worker, toWorker, fromWorker, portHolder,
                  worklet, toNode, toMain, nextRequestId>>
  BY DEF CallInit, workerVars, workletVars, transportVars
<1>3. task'[t].pc = "loading" /\ \A s \in Ids : s # t => task'[s] = task[s]
  BY DEF CallInit, ControlInv, ControlType, MainType, Tasks
<1>4. NoOrphan'
  BY <1>2 DEF LifecycleInv, NoOrphan
<1>5. Serving'
  BY <1>1, <1>2 DEF Serving
<1>6. Alone'
  BY <1>1, <1>2, <1>3 DEF Alone, InProgress
<1>7. ASSUME NEW n \in Ids PROVE PortOf(n)'
  BY <1>1, <1>2, <1>3 DEF LifecycleInv, Messages, PortOf
<1>8. ASSUME NEW n \in Ids PROVE QueueOf(n)'
  <2>1. Fresh(n)' = Fresh(n)
    BY <1>2 DEF Fresh
  <2>2. QueueOf(n)
    BY DEF LifecycleInv, Messages
  <2> QED BY <1>1, <1>2, <1>3, <2>1, <2>2 DEF QueueOf
<1>9. ASSUME NEW n \in Ids PROVE LoadedOf(n)'
  BY <1>1, <1>2, <1>3 DEF LifecycleInv, Messages, LoadedOf, Announced, Fresh
<1>10. ASSUME NEW n \in Ids PROVE IdsOf(n)'
  BY <1>2 DEF LifecycleInv, Messages, IdsOf
<1>11. ASSUME NEW s \in Ids, NEW n \in Ids PROVE AnswerOf(s, n)'
  BY <1>1, <1>2, <1>3 DEF LifecycleInv, Messages, AnswerOf, Connected
<1> QED BY <1>4, <1>5, <1>6, <1>7, <1>8, <1>9, <1>10, <1>11 DEF LifecycleInv, Messages

\* restart and destroy, when no init call is in progress.
LEMMA LifeClosed ==
    ASSUME ControlInv, LifecycleInv, NEW started \in SUBSET Ids, CloseInternal(started),
           ~Busy, \A s, t \in started : s = t /\ task[s].pc = "idle"
    PROVE  LifecycleInv'
PROOF
<1> DEFINE cmd == Command("DESTROY", None, NoRequest)
<1>0. ControlType /\ node \in {None} \cup Ids /\ workerRef \in {None} \cup Ids /\ cmd \in Commands
  BY DEF ControlInv, ControlType, MainType, Command, Commands
<1>1. node' = None /\ workerRef' = None /\ published' = None
  BY DEF CloseInternal, DropHandles
<1>2. UNCHANGED <<worker, fromWorker, portHolder, worklet, toMain, nextRequestId>>
  BY DEF CloseInternal, RejectAwaiting, Close
<1>3. \A t \in Ids : ~InProgress(t) /\ task[t].req \notin pending
  BY DEF Busy, InProgress, ControlInv, Requests
<1>4. \A t \in Ids : task'[t] = task[t] \/ (t \in started /\ task[t].pc = "idle" /\ task'[t].pc = "loading")
  BY <1>0, <1>3, Types DEF CloseInternal, Tasks
<1>5. \A w \in Ids : IF w = workerRef THEN workerLife'[w] = "terminated" /\ toWorker'[w] = <<>>
                     ELSE workerLife'[w] = workerLife[w] /\ toWorker'[w] = toWorker[w]
  BY <1>0, Constants DEF CloseInternal, TerminateWorker, ControlType, WorkerType
<1>6. \A n \in Ids : toNode'[n] = IF n = node THEN Append(toNode[n], cmd) ELSE toNode[n]
  BY <1>0, Constants DEF CloseInternal, DestroyNode, ControlType, WorkletType
<1>7. \A n \in Ids : \A i \in DOMAIN toNode'[n] :
         \/ i \in DOMAIN toNode[n] /\ toNode'[n][i] = toNode[n][i]
         \/ toNode'[n][i] = cmd
  <2> SUFFICES ASSUME NEW n \in Ids, NEW i \in DOMAIN toNode'[n], n = node
               PROVE  \/ i \in DOMAIN toNode[n] /\ toNode'[n][i] = toNode[n][i]
                      \/ toNode'[n][i] = cmd
    BY <1>6
  <2>1. toNode[n] \in Seq(Commands) /\ toNode'[n] = Append(toNode[n], cmd)
    BY <1>0, <1>6, Types
  <2> QED BY <1>0, <2>1, AppendFacts
<1>8. NoOrphan'
  <2>1. \A w \in Ids : workerLife'[w] # "alive"
    BY <1>5 DEF LifecycleInv, NoOrphan
  <2>2. ASSUME NEW n \in Ids, worklet'[n].life = "running"
        PROVE  \E i \in DOMAIN toNode'[n] : toNode'[n][i].type = "DESTROY"
    <3>1. CASE n = node
      <4>1. Len(toNode[n]) + 1 \in DOMAIN toNode'[n] /\ toNode'[n][Len(toNode[n]) + 1] = cmd
        <5>1. toNode[n] \in Seq(Commands) /\ toNode'[n] = Append(toNode[n], cmd)
          BY <1>0, <1>6, <3>1, Types
        <5> QED BY <1>0, <5>1, AppendFacts
      <4> QED BY <4>1 DEF Command
    <3>2. CASE n # node
      BY <1>2, <1>6, <2>2, <3>2 DEF LifecycleInv, NoOrphan
    <3> QED BY <3>1, <3>2
  <2> QED BY <2>1, <2>2 DEF NoOrphan
<1>9. Serving'
  BY <1>1 DEF Serving
<1>10. Alone'
  BY <1>1, <1>3, <1>4 DEF Alone, InProgress
<1>11. ASSUME NEW n \in Ids PROVE PortOf(n)'
  BY <1>2, <1>4, <1>7 DEF LifecycleInv, Messages, PortOf, Command
<1>12. ASSUME NEW n \in Ids PROVE QueueOf(n)'
  <2>1. Fresh(n)' => Fresh(n) /\ n # workerRef /\ toWorker'[n] = toWorker[n]
    BY <1>5 DEF Fresh
  <2>2. QueueOf(n)
    BY DEF LifecycleInv, Messages
  <2>3. task[n].pc \in {"idle", "loading", "fetching"} => n # workerRef
    BY <2>2, Constants DEF QueueOf, ControlInv, Handles, HandlesAreLive
  <2>4. \A i \in DOMAIN toWorker'[n] : toWorker'[n][i].type # "DESTROY"
    BY <1>5, <2>2 DEF QueueOf
  <2>5. Fresh(n)' => /\ Len(toWorker'[n]) = 1 /\ fromWorker'[n] = <<>>
                     /\ worklet'[n].workerPort = None /\ task'[n].pc \in {"workerInit", "failed"}
                     /\ \A i \in DOMAIN toNode'[n] : toNode'[n][i].type # "INIT_PIPELINE"
    BY <1>2, <1>4, <1>7, <2>1, <2>2 DEF QueueOf, Command
  <2> QED BY <1>2, <1>4, <1>5, <2>2, <2>3, <2>4, <2>5 DEF QueueOf
<1>13. ASSUME NEW n \in Ids PROVE LoadedOf(n)'
  BY <1>1, <1>3, <1>4 DEF LoadedOf, Announced, InProgress
<1>14. ASSUME NEW n \in Ids PROVE IdsOf(n)'
  <2>1. cmd.id < nextRequestId
    BY RequestsAssumption DEF Command, NoRequest, ControlInv, TransportInv, TransportTypeOK
  <2> QED BY <1>2, <1>7, <2>1 DEF LifecycleInv, Messages, IdsOf
<1>15. ASSUME NEW s \in Ids, NEW n \in Ids PROVE AnswerOf(s, n)'
  BY <1>3, <1>4 DEF AnswerOf, InProgress
<1> QED BY <1>8, <1>9, <1>10, <1>11, <1>12, <1>13, <1>14, <1>15 DEF LifecycleInv, Messages

LEMMA LifeLoaded ==
    ASSUME ControlInv, LifecycleInv, NEW t \in Ids, WorkletLoaded(t)
    PROVE  LifecycleInv'
PROOF
<1>0. ControlType
  BY DEF ControlInv
<1>1. node = None /\ workerRef = None /\ published = None /\ task[t].pc = "loading"
      /\ \A s \in Ids : s # t => ~InProgress(s)
  BY DEF WorkletLoaded, LifecycleInv, Alone, InProgress
<1>2. UNCHANGED <<workerRef, published, workerLife, worker, toWorker, fromWorker, portHolder,
                  toNode, toMain, nextRequestId>> /\ node' = t
  BY DEF WorkletLoaded, workerVars, transportVars
<1>3. task'[t].pc = "fetching" /\ \A s \in Ids : s # t => task'[s] = task[s]
  BY <1>0 DEF WorkletLoaded, ControlType, MainType, Tasks
<1>4. /\ worklet'[t].workerPort = worklet[t].workerPort /\ worklet'[t].workerReady = worklet[t].workerReady
      /\ \A n \in Ids : n # t => worklet'[n] = worklet[n]
  BY <1>0 DEF WorkletLoaded, ControlType, WorkletType, Worklets
<1>5. toNode[t] = <<>>
  BY <1>1 DEF ControlInv, Handles
<1>6. NoOrphan'
  BY <1>1, <1>2, <1>4, Constants DEF LifecycleInv, NoOrphan
<1>7. Serving'
  BY <1>1, <1>2 DEF Serving
<1>8. Alone'
  BY <1>1, <1>2, <1>3 DEF Alone, InProgress
<1>9. ASSUME NEW n \in Ids PROVE PortOf(n)'
  BY <1>2, <1>3, <1>4, <1>5 DEF LifecycleInv, Messages, PortOf
<1>10. ASSUME NEW n \in Ids PROVE QueueOf(n)'
  <2>1. Fresh(n)' = Fresh(n)
    BY <1>2 DEF Fresh
  <2>2. QueueOf(n)
    BY DEF LifecycleInv, Messages
  <2> QED BY <1>1, <1>2, <1>3, <1>4, <2>1, <2>2 DEF QueueOf
<1>11. ASSUME NEW n \in Ids PROVE LoadedOf(n)'
  BY <1>1, <1>2, <1>3 DEF LifecycleInv, Messages, LoadedOf, Announced, Fresh
<1>12. ASSUME NEW n \in Ids PROVE IdsOf(n)'
  BY <1>2 DEF LifecycleInv, Messages, IdsOf
<1>13. ASSUME NEW s \in Ids, NEW n \in Ids PROVE AnswerOf(s, n)'
  BY <1>1, <1>3 DEF AnswerOf, InProgress
<1> QED BY <1>6, <1>7, <1>8, <1>9, <1>10, <1>11, <1>12, <1>13 DEF LifecycleInv, Messages

LEMMA LifeFetched ==
    ASSUME ControlInv, LifecycleInv, NEW t \in Ids, WasmFetched(t)
    PROVE  LifecycleInv'
PROOF
<1> DEFINE msg == Msg("INIT", [module |-> task[t].module, configs |-> task[t].configs])
<1>0. ControlType
  BY DEF ControlInv
<1>1. node = t /\ workerRef = None /\ published = None /\ task[t].pc = "fetching"
      /\ \A s \in Ids : s # t => ~InProgress(s)
  BY DEF WasmFetched, LifecycleInv, Alone, InProgress
<1>2. UNCHANGED <<node, published, worker, fromWorker, portHolder, worklet, toNode, toMain, nextRequestId>>
      /\ workerRef' = t
  BY DEF WasmFetched, workletVars, transportVars
<1>3. task'[t].pc = "workerInit" /\ \A s \in Ids : s # t => task'[s] = task[s]
  BY <1>0 DEF WasmFetched, ControlType, MainType, Tasks
<1>4. /\ workerLife'[t] = "alive" /\ \A w \in Ids : w # t => workerLife'[w] = workerLife[w] /\ toWorker'[w] = toWorker[w]
      /\ toWorker'[t] = Append(toWorker[t], msg)
  BY <1>0 DEF WasmFetched, ControlType, WorkerType
<1>5. /\ QueueOf(t) /\ toWorker[t] = <<>> /\ fromWorker[t] = <<>> /\ worklet[t].workerPort = None
      /\ portHolder[t].at = "main"
  BY <1>1 DEF LifecycleInv, Messages, QueueOf
<1>6. toWorker'[t] = <<msg>> /\ msg.type = "INIT"
  BY <1>4, <1>5 DEF Msg
<1>7. NoOrphan'
  BY <1>1, <1>2, <1>4, Constants DEF LifecycleInv, NoOrphan
<1>8. Serving'
  BY <1>1, <1>2 DEF Serving
<1>9. Alone'
  BY <1>1, <1>2, <1>3, Constants DEF Alone, InProgress
<1>10. ASSUME NEW n \in Ids PROVE PortOf(n)'
  BY <1>1, <1>2, <1>3 DEF LifecycleInv, Messages, PortOf
<1>11. ASSUME NEW n \in Ids PROVE QueueOf(n)'
  <2>1. CASE n = t
    <3>1. \A i \in DOMAIN toWorker'[t] : toWorker'[t][i].type # "DESTROY"
      BY <1>6
    <3>2. Len(toWorker'[t]) = 1
      BY <1>6
    <3>3. \A i \in DOMAIN toNode'[t] : toNode'[t][i].type # "INIT_PIPELINE"
      BY <1>1, <1>2 DEF LifecycleInv, Messages, PortOf
    <3> QED BY <1>2, <1>3, <1>4, <1>5, <2>1, <3>1, <3>2, <3>3 DEF QueueOf
  <2>2. CASE n # t
    <3>1. Fresh(n)' = Fresh(n)
      BY <1>4, <2>2 DEF Fresh
    <3>2. QueueOf(n)
      BY DEF LifecycleInv, Messages
    <3> QED BY <1>2, <1>3, <1>4, <2>2, <3>1, <3>2 DEF QueueOf
  <2> QED BY <2>1, <2>2
<1>12. ASSUME NEW n \in Ids PROVE LoadedOf(n)'
  BY <1>1, <1>2, <1>3, <1>4, <1>5 DEF LifecycleInv, Messages, LoadedOf, Announced, Fresh, InProgress
<1>13. ASSUME NEW n \in Ids PROVE IdsOf(n)'
  BY <1>2 DEF LifecycleInv, Messages, IdsOf
<1>14. ASSUME NEW s \in Ids, NEW n \in Ids PROVE AnswerOf(s, n)'
  BY <1>1, <1>3 DEF AnswerOf, InProgress
<1> QED BY <1>7, <1>8, <1>9, <1>10, <1>11, <1>12, <1>13, <1>14 DEF LifecycleInv, Messages

\* What posting a command to the current node does to its queue.
LEMMA PostEffect ==
    ASSUME ControlInv, NEW cmd \in Commands, node # None, Post(cmd)
    PROVE  /\ node \in Ids /\ nextRequestId \in Nat /\ nextRequestId' = nextRequestId + 1
           /\ \A n \in Ids : n # node => toNode'[n] = toNode[n]
           /\ DOMAIN toNode'[node] = DOMAIN toNode[node] \cup {Len(toNode[node]) + 1}
           /\ \A i \in DOMAIN toNode[node] : toNode'[node][i] = toNode[node][i]
           /\ toNode'[node][Len(toNode[node]) + 1] = cmd
           /\ \A n \in Ids : \A i \in DOMAIN toNode'[n] :
                \/ i \in DOMAIN toNode[n] /\ toNode'[n][i] = toNode[n][i]
                \/ n = node /\ toNode'[n][i] = cmd
PROOF
<1>1. node \in Ids /\ toNode \in [Ids -> Seq(Commands)]
  BY DEF ControlInv, ControlType, MainType, WorkletType
<1>2. nextRequestId \in Nat /\ nextRequestId' = nextRequestId + 1
  BY RequestsAssumption DEF Post, Send, RequestIds
<1>3. toNode'[node] = Append(toNode[node], cmd) /\ \A n \in Ids : n # node => toNode'[n] = toNode[n]
  BY <1>1 DEF Post
<1>4. toNode[node] \in Seq(Commands)
  BY <1>1
<1>5. /\ DOMAIN toNode'[node] = DOMAIN toNode[node] \cup {Len(toNode[node]) + 1}
      /\ \A i \in DOMAIN toNode[node] : toNode'[node][i] = toNode[node][i]
      /\ toNode'[node][Len(toNode[node]) + 1] = cmd
  BY <1>3, <1>4, AppendFacts
<1> QED BY <1>1, <1>2, <1>3, <1>5

LEMMA PostedIds ==
    ASSUME ControlInv, NEW cmd \in Commands, node # None, Post(cmd), cmd.id = nextRequestId,
           toMain' = toMain, NEW n \in Ids, IdsOf(n)
    PROVE  IdsOf(n)'
PROOF
<1>1. toNode[n] \in Seq(Commands) /\ toMain[n] \in Seq(Replies)
  BY Types DEF ControlInv
<1>2. nextRequestId \in Nat /\ nextRequestId' = nextRequestId + 1
  BY PostEffect
<1>3. \A c \in Commands : c.id \in {NoRequest} \cup RequestIds
  BY DEF Commands
<1>4. \A r \in Replies : r.id \in {NoRequest} \cup RequestIds
  BY DEF Replies
<1>5. ASSUME NEW id \in {NoRequest} \cup RequestIds, id < nextRequestId PROVE id < nextRequestId'
  BY <1>2, <1>5, RequestsAssumption DEF NoRequest, RequestIds
<1>6. \A i \in DOMAIN toNode[n] : toNode[n][i].id < nextRequestId'
  <2>1. \A i \in DOMAIN toNode[n] : toNode[n][i] \in Commands
    BY <1>1
  <2> QED BY <1>3, <1>5, <2>1 DEF IdsOf
<1>7. \A i \in DOMAIN toMain[n] : toMain[n][i].id < nextRequestId'
  <2>1. \A i \in DOMAIN toMain[n] : toMain[n][i] \in Replies
    BY <1>1
  <2> QED BY <1>4, <1>5, <2>1 DEF IdsOf
<1>8. cmd.id < nextRequestId'
  BY <1>2
<1>9. \A i \in DOMAIN toNode'[n] :
          (i \in DOMAIN toNode[n] /\ toNode'[n][i] = toNode[n][i]) \/ toNode'[n][i] = cmd
  BY PostEffect
<1> QED BY <1>6, <1>7, <1>8, <1>9 DEF IdsOf

\* A setter's command is posted.
LEMMA LifePosted ==
    ASSUME ControlInv, LifecycleInv, NEW cmd \in Commands, node # None, Post(cmd),
           cmd.type \notin {"INIT_PIPELINE", "DESTROY"}, cmd.id = nextRequestId,
           UNCHANGED <<task, node, workerRef, published, workerVars, worklet, toMain>>
    PROVE  LifecycleInv'
PROOF
<1>0. UNCHANGED <<workerLife, worker, toWorker, fromWorker, portHolder>>
  BY DEF workerVars
<1>1. NoOrphan'
  <2>1. \A n \in Ids : \A i \in DOMAIN toNode[n] : i \in DOMAIN toNode'[n] /\ toNode'[n][i] = toNode[n][i]
    BY PostEffect
  <2> QED BY <1>0, <2>1 DEF LifecycleInv, NoOrphan
<1>2. Serving'
  BY DEF LifecycleInv, Serving, Connected
<1>3. Alone'
  BY DEF LifecycleInv, Alone, InProgress
<1>4. \A n \in Ids : \A i \in DOMAIN toNode'[n] :
          (i \in DOMAIN toNode[n] /\ toNode'[n][i] = toNode[n][i]) \/ toNode'[n][i] = cmd
  BY PostEffect
<1>5. ASSUME NEW n \in Ids PROVE PortOf(n)'
  BY <1>4 DEF LifecycleInv, Messages, PortOf
<1>6. ASSUME NEW n \in Ids PROVE QueueOf(n)'
  <2>1. Fresh(n)' = Fresh(n)
    BY <1>0 DEF Fresh
  <2>2. QueueOf(n)
    BY DEF LifecycleInv, Messages
  <2> QED BY <1>0, <1>4, <2>1, <2>2 DEF QueueOf
<1>7. ASSUME NEW n \in Ids PROVE LoadedOf(n)'
  BY <1>0 DEF LifecycleInv, Messages, LoadedOf, Announced, Fresh
<1>8. nextRequestId \in Nat /\ nextRequestId' = nextRequestId + 1
  BY PostEffect
<1>9. ASSUME NEW n \in Ids PROVE IdsOf(n)'
  BY <1>4, PostedIds DEF LifecycleInv, Messages
<1>10. ASSUME NEW t \in Ids, NEW n \in Ids PROVE AnswerOf(t, n)'
  <2>1. task[t].req < nextRequestId /\ AnswerOf(t, n)
    BY DEF ControlInv, Requests, LifecycleInv, Messages
  <2>2. task[t].req # cmd.id
    BY <1>8, <2>1
  <2> QED BY <1>4, <2>1, <2>2 DEF AnswerOf, Connected
<1> QED BY <1>1, <1>2, <1>3, <1>5, <1>6, <1>7, <1>9, <1>10 DEF LifecycleInv, Messages

\* The worker has answered: the pipeline command is posted.
LEMMA LifeAnswered ==
    ASSUME ControlInv, LifecycleInv, NEW t \in Ids, WorkerInitOk(t)
    PROVE  LifecycleInv'
PROOF
<1> DEFINE cmd == PipelineCommand(t)
<1>0. ControlType
  BY DEF ControlInv
<1>1. node = t /\ workerRef = t /\ published = None /\ task[t].pc = "workerInit"
      /\ \A s \in Ids : s # t => ~InProgress(s)
  BY DEF WorkerInitOk, LifecycleInv, Alone, InProgress
<1>2. /\ Post(cmd) /\ fromWorker' = [fromWorker EXCEPT ![t] = Tail(@)]
      /\ task' = [task EXCEPT ![t] = [@ EXCEPT !.pc = "pipelineInit", !.req = nextRequestId]]
      /\ portHolder' = [portHolder EXCEPT ![t].at = "transit"]
  BY <1>1, Constants DEF WorkerInitOk, PipelineCommand
<1>3. cmd \in Commands /\ cmd.type = "INIT_PIPELINE" /\ cmd.arg.workerPort = t /\ cmd.id = nextRequestId
  BY <1>0, <1>2, PipelineCommandType DEF WorkerInitOk, Post, Send, PipelineCommand, Command
<1>4. UNCHANGED <<node, workerRef, published, workerLife, worker, toWorker, worklet, toMain>>
  BY DEF WorkerInitOk
<1>5. /\ task'[t].pc = "pipelineInit" /\ task'[t].req = nextRequestId
      /\ \A s \in Ids : s # t => task'[s] = task[s]
  BY <1>0, <1>2 DEF ControlType, MainType, Tasks
<1>6. \A w \in Ids : w # t => fromWorker'[w] = fromWorker[w] /\ portHolder'[w] = portHolder[w]
  BY <1>0, <1>2 DEF ControlType, WorkerType
<1>7. worker[t].loaded = Modules /\ ~Fresh(t)
  BY <1>1 DEF WorkerInitOk, LifecycleInv, Messages, LoadedOf, Announced
<1>8. /\ \A n \in Ids : \A i \in DOMAIN toNode[n] : i \in DOMAIN toNode'[n] /\ toNode'[n][i] = toNode[n][i]
      /\ \A n \in Ids : \A i \in DOMAIN toNode'[n] :
            \/ i \in DOMAIN toNode[n] /\ toNode'[n][i] = toNode[n][i]
            \/ n = t /\ toNode'[n][i] = cmd
  <2>1. node # None
    BY <1>1, Constants
  <2> QED BY <1>1, <1>2, <1>3, <2>1, PostEffect
<1>9. \A n \in Ids : Fresh(n)' = Fresh(n)
  BY <1>4 DEF Fresh
<1>10. NoOrphan'
  BY <1>4, <1>8 DEF LifecycleInv, NoOrphan
<1>11. Serving'
  BY <1>1, <1>4 DEF Serving
<1>12. Alone'
  BY <1>1, <1>4, <1>5 DEF Alone, InProgress
<1>13. ASSUME NEW n \in Ids PROVE PortOf(n)'
  <2>1. PortOf(n)
    BY DEF LifecycleInv, Messages
  <2>2. \A i \in DOMAIN toNode'[n] : toNode'[n][i].type = "INIT_PIPELINE" =>
           toNode'[n][i].arg.workerPort = n /\ task'[n].pc \in {"pipelineInit", "done", "failed"}
    BY <1>3, <1>5, <1>8, <2>1 DEF PortOf
  <2> QED BY <1>4, <2>1, <2>2 DEF PortOf
<1>14. ASSUME NEW n \in Ids PROVE QueueOf(n)'
  <2>1. QueueOf(n)
    BY DEF LifecycleInv, Messages
  <2>2. CASE n = t
    BY <1>4, <1>5, <1>7, <1>9, <2>1, <2>2 DEF QueueOf
  <2>3. CASE n # t
    <3>1. (\A i \in DOMAIN toNode[n] : toNode[n][i].type # "INIT_PIPELINE") =>
              \A i \in DOMAIN toNode'[n] : toNode'[n][i].type # "INIT_PIPELINE"
      BY <1>8, <2>3
    <3> QED BY <1>4, <1>5, <1>6, <1>9, <2>1, <2>3, <3>1 DEF QueueOf
  <2> QED BY <2>2, <2>3
<1>15. ASSUME NEW n \in Ids PROVE LoadedOf(n)'
  <2>1. CASE n = t
    BY <1>4, <1>7, <1>9, <2>1 DEF LoadedOf
  <2>2. CASE n # t
    BY <1>1, <1>4, <1>5, <1>6, <1>9, <2>2 DEF LifecycleInv, Messages, LoadedOf, Announced, InProgress
  <2> QED BY <2>1, <2>2
<1>16. ASSUME NEW n \in Ids PROVE IdsOf(n)'
  <2>1. node # None
    BY <1>1, Constants
  <2> QED BY <1>2, <1>3, <1>4, <2>1, PostedIds DEF LifecycleInv, Messages
<1>17. ASSUME NEW s \in Ids, NEW n \in Ids PROVE AnswerOf(s, n)'
  <2>1. CASE s = t
    <3>1. ASSUME NEW i \in DOMAIN toNode'[n], toNode'[n][i].id = nextRequestId
          PROVE  n = t /\ toNode'[n][i].type = "INIT_PIPELINE"
      <4>1. i \in DOMAIN toNode[n] => toNode[n][i].id # nextRequestId
        <5>1. nextRequestId \in Nat
          BY RequestsAssumption DEF ControlInv, TransportInv, TransportTypeOK
        <5> QED BY <5>1 DEF LifecycleInv, Messages, IdsOf
      <4> QED BY <1>3, <1>8, <3>1, <4>1
    <3>2. \A i \in DOMAIN toMain[n] : toMain[n][i].id # nextRequestId
      <4>1. nextRequestId \in Nat
        BY RequestsAssumption DEF ControlInv, TransportInv, TransportTypeOK
      <4> QED BY <4>1 DEF LifecycleInv, Messages, IdsOf
    <3> QED BY <1>4, <1>5, <2>1, <3>1, <3>2 DEF AnswerOf
  <2>2. CASE s # t
    BY <1>1, <1>5, <2>2 DEF AnswerOf, InProgress
  <2> QED BY <2>1, <2>2
<1> QED BY <1>10, <1>11, <1>12, <1>13, <1>14, <1>15, <1>16, <1>17 DEF LifecycleInv, Messages

\* The worklet has confirmed the pipeline: the track is handed out.
LEMMA LifePublished ==
    ASSUME ControlInv, LifecycleInv, NEW n \in Ids, toMain[n] # <<>>, toMain' = [toMain EXCEPT ![n] = Tail(@)],
           Head(toMain[n]).ok, Head(toMain[n]).id \in pending,
           NEW t \in Ids, Head(toMain[n]).id = task[t].req, task' = [task EXCEPT ![t].pc = "done"],
           published' = node, UNCHANGED <<node, workerRef, workerVars, worklet, toNode, nextRequestId>>
    PROVE  LifecycleInv'
PROOF
<1>0. ControlType /\ UNCHANGED <<workerLife, worker, toWorker, fromWorker, portHolder>>
  BY DEF ControlInv, workerVars
<1>1. task[t].pc = "pipelineInit"
  BY DEF ControlInv, Requests
<1>2. node = t /\ workerRef = t /\ \A s \in Ids : s # t => ~InProgress(s)
  BY <1>1 DEF LifecycleInv, Alone, InProgress
<1>3. 1 \in DOMAIN toMain[n] /\ toMain[n][1] = Head(toMain[n])
  BY <1>0, Types, TailFacts
<1>4. Connected(t)
  BY <1>1, <1>3 DEF LifecycleInv, Messages, AnswerOf
<1>5. task'[t].pc = "done" /\ \A s \in Ids : s # t => task'[s] = task[s]
  BY <1>0, Types DEF ControlType, MainType, Tasks
<1>6. \A k \in Ids : \A i \in DOMAIN toMain'[k] : \E j \in DOMAIN toMain[k] : toMain'[k][i] = toMain[k][j]
  <2> SUFFICES ASSUME NEW i \in DOMAIN toMain'[n] PROVE \E j \in DOMAIN toMain[n] : toMain'[n][i] = toMain[n][j]
    BY <1>0 DEF ControlType, WorkletType
  <2>1. toMain[n] \in Seq(Replies) /\ toMain'[n] = Tail(toMain[n])
    BY <1>0 DEF ControlType, WorkletType
  <2> QED BY <2>1, TailFacts
<1>7. \A k \in Ids : Fresh(k)' = Fresh(k)
  BY <1>0 DEF Fresh
<1>8. NoOrphan'
  BY <1>0 DEF LifecycleInv, NoOrphan
<1>9. Serving'
  BY <1>2, <1>4 DEF Serving, Connected
<1>10. Alone'
  BY <1>2, <1>5 DEF Alone, InProgress
<1>11. ASSUME NEW k \in Ids PROVE PortOf(k)'
  BY <1>5 DEF LifecycleInv, Messages, PortOf
<1>12. ASSUME NEW k \in Ids PROVE QueueOf(k)'
  <2>1. QueueOf(k)
    BY DEF LifecycleInv, Messages
  <2> QED BY <1>0, <1>1, <1>5, <1>7, <2>1 DEF QueueOf
<1>13. ASSUME NEW k \in Ids PROVE LoadedOf(k)'
  <2>1. LoadedOf(t) /\ LoadedOf(k)
    BY DEF LifecycleInv, Messages
  <2> QED BY <1>0, <1>1, <1>2, <1>5, <1>7, <2>1 DEF LoadedOf, Announced
<1>14. ASSUME NEW k \in Ids PROVE IdsOf(k)'
  BY <1>6 DEF LifecycleInv, Messages, IdsOf
<1>15. ASSUME NEW s \in Ids, NEW k \in Ids PROVE AnswerOf(s, k)'
  BY <1>2, <1>5 DEF AnswerOf, InProgress
<1> QED BY <1>8, <1>9, <1>10, <1>11, <1>12, <1>13, <1>14, <1>15 DEF LifecycleInv, Messages

-----------------------------------------------------------------------------
(* A command that a worklet executes. *)

ToItsWorker(n, type) ==
    \/ UNCHANGED toWorker
    \/ /\ worklet[n].workerPort # None /\ workerLife[worklet[n].workerPort] = "alive"
       /\ \E m \in WorkerMessages :
             m.type = type /\ toWorker' = [toWorker EXCEPT ![worklet[n].workerPort] = Append(@, m)]

LEMMA ForwardEffect ==
    ASSUME NEW n, NEW m \in WorkerMessages, ToWorker(n, m)
    PROVE  ToItsWorker(n, m.type)
PROOF
<1>1. CASE UNCHANGED toWorker
  BY <1>1 DEF ToItsWorker
<1>2. CASE toWorker' # toWorker
  BY <1>2 DEF ToWorker, Posted, ToItsWorker
<1> QED BY <1>1, <1>2

\* What executing a command changes that the lifecycle depends on.
LEMMA ExecuteEffect ==
    ASSUME ControlType, NEW n \in Ids, Dispatch(n)
    PROVE  LET cmd == Head(toNode[n])
               p == worklet[n].workerPort IN
           /\ \/ UNCHANGED toMain
              \/ \E ok \in BOOLEAN :
                    /\ toMain' = [toMain EXCEPT ![n] = Append(@, [id |-> cmd.id, ok |-> ok])]
                    /\ ok /\ cmd.type = "INIT_PIPELINE" => worklet'[n].workerReady
           /\ \/ /\ cmd.type = "INIT_PIPELINE" /\ worklet'[n].workerPort = cmd.arg.workerPort
                 /\ worklet[n].workerReady => worklet'[n].workerReady
                 /\ UNCHANGED <<toWorker, fromWorker>>
                 /\ \A w \in Ids : w # cmd.arg.workerPort => portHolder'[w] = portHolder[w]
              \/ /\ cmd.type \in {"SET_ENABLED", "SET_STAGE_MODULE", "SET_MODULE_CONFIG"}
                 /\ worklet'[n].workerPort = p /\ worklet'[n].workerReady = worklet[n].workerReady
                 /\ UNCHANGED <<fromWorker, portHolder>>
                 /\ \E type \in {"SET_ENABLED", "SET_MODULE", "SET_MODULE_CONFIG"} : ToItsWorker(n, type)
              \/ /\ cmd.type = "DESTROY" /\ worklet'[n].workerPort = None
                 /\ ToItsWorker(n, "DESTROY")
                 /\ \A w \in Ids : w # p => portHolder'[w] = portHolder[w] /\ fromWorker'[w] = fromWorker[w]
                 /\ p \in Ids => fromWorker'[p] = <<>>
PROOF
<1> DEFINE cmd == Head(toNode[n])
           p == worklet[n].workerPort
<1>0. /\ worklet \in [Ids -> Worklets] /\ worklet[n] \in Worklets /\ toNode[n] \in Seq(Commands)
      /\ portHolder \in [Ids -> PortHolders] /\ fromWorker \in [Ids -> Seq(WorkerReplies)]
  BY DEF ControlType, WorkletType, WorkerType
<1>1. cmd \in Commands
  BY <1>0, TailFacts DEF Dispatch
<1>2. ASSUME NEW ok \in BOOLEAN, Reply(n, cmd, ok), ok /\ cmd.type = "INIT_PIPELINE" => worklet'[n].workerReady
      PROVE  \/ UNCHANGED toMain
             \/ \E b \in BOOLEAN :
                   /\ toMain' = [toMain EXCEPT ![n] = Append(@, [id |-> cmd.id, ok |-> b])]
                   /\ b /\ cmd.type = "INIT_PIPELINE" => worklet'[n].workerReady
  BY <1>2 DEF Reply
<1>3. CASE cmd.type = "INIT_PIPELINE" /\ InitPipeline(n, cmd)
  <2> DEFINE connected == [worklet[n] EXCEPT
          !.currentModuleId = cmd.arg.module, !.vad = cmd.arg.rnnoise,
          !.workerPort = cmd.arg.workerPort, !.frameModule = cmd.arg.frameModule]
  <2>1. connected.workerPort = cmd.arg.workerPort /\ connected.workerReady = worklet[n].workerReady
        /\ [connected EXCEPT !.workerReady = TRUE].workerPort = cmd.arg.workerPort
        /\ [connected EXCEPT !.workerReady = TRUE].workerReady
    BY <1>0 DEF Worklets
  <2>2. \A w \in Ids : w # cmd.arg.workerPort => portHolder'[w] = portHolder[w]
    BY <1>0, <1>3 DEF InitPipeline
  <2>3. \/ worklet' = [worklet EXCEPT ![n] = connected] /\ Reply(n, cmd, FALSE)
        \/ worklet' = [worklet EXCEPT ![n] = [connected EXCEPT !.workerReady = TRUE]] /\ Reply(n, cmd, TRUE)
    BY <1>3 DEF InitPipeline
  <2>4. CASE worklet' = [worklet EXCEPT ![n] = connected] /\ Reply(n, cmd, FALSE)
    <3>1. worklet'[n] = connected
      BY <1>0, <2>4
    <3> QED BY <1>2, <1>3, <2>1, <2>2, <2>4, <3>1 DEF InitPipeline
  <2>5. CASE worklet' = [worklet EXCEPT ![n] = [connected EXCEPT !.workerReady = TRUE]] /\ Reply(n, cmd, TRUE)
    <3>1. worklet'[n] = [connected EXCEPT !.workerReady = TRUE]
      BY <1>0, <2>5
    <3> QED BY <1>2, <1>3, <2>1, <2>2, <2>5, <3>1 DEF InitPipeline
  <2> QED BY <2>3, <2>4, <2>5
<1>4. CASE cmd.type = "SET_ENABLED" /\ SetEnabled(n, cmd)
  <2>1. Msg("SET_ENABLED", cmd.arg) \in WorkerMessages /\ Msg("SET_ENABLED", cmd.arg).type = "SET_ENABLED"
    BY <1>1, <1>4 DEF Commands, Msg, WorkerMessages
  <2>2. ToItsWorker(n, "SET_ENABLED")
    BY <1>4, <2>1, ForwardEffect DEF SetEnabled
  <2> QED BY <1>2, <1>4, <2>2 DEF SetEnabled
<1>5. CASE cmd.type = "SET_STAGE_MODULE" /\ SetStageModule(n, cmd)
  <2>1. Msg("SET_MODULE", cmd.arg) \in WorkerMessages /\ Msg("SET_MODULE", cmd.arg).type = "SET_MODULE"
    BY <1>1, <1>5 DEF Commands, Msg, WorkerMessages
  <2>2. ToItsWorker(n, "SET_MODULE")
    BY <1>5, <2>1, ForwardEffect DEF SetStageModule
  <2>3. worklet'[n].workerPort = p /\ worklet'[n].workerReady = worklet[n].workerReady
    BY <1>0, <1>5 DEF SetStageModule, Worklets
  <2> QED BY <1>2, <1>5, <2>2, <2>3 DEF SetStageModule
<1>6. CASE cmd.type = "SET_MODULE_CONFIG" /\ SetModuleConfig(n, cmd)
  <2>1. Msg("SET_MODULE_CONFIG", cmd.arg) \in WorkerMessages
        /\ Msg("SET_MODULE_CONFIG", cmd.arg).type = "SET_MODULE_CONFIG"
    BY <1>1, <1>6 DEF Commands, Msg, WorkerMessages
  <2>2. ToItsWorker(n, "SET_MODULE_CONFIG")
    BY <1>6, <2>1, ForwardEffect DEF SetModuleConfig
  <2>3. worklet'[n].workerPort = p /\ worklet'[n].workerReady = worklet[n].workerReady
    BY <1>0, <1>6 DEF SetModuleConfig, Worklets
  <2> QED BY <1>2, <1>6, <2>2, <2>3 DEF SetModuleConfig
<1>7. CASE cmd.type = "DESTROY" /\ Destroy(n, cmd)
  <2>1. Msg("DESTROY", None) \in WorkerMessages /\ Msg("DESTROY", None).type = "DESTROY"
    BY DEF Msg, WorkerMessages
  <2>2. ToItsWorker(n, "DESTROY")
    BY <1>7, <2>1, ForwardEffect DEF Destroy
  <2>3. worklet'[n].workerPort = None
    BY <1>0, <1>7 DEF Destroy, Worklets
  <2>4. /\ \A w \in Ids : w # p => portHolder'[w] = portHolder[w] /\ fromWorker'[w] = fromWorker[w]
        /\ p \in Ids => fromWorker'[p] = <<>>
    BY <1>0, <1>7, Constants DEF Destroy
  <2> QED BY <1>2, <1>7, <2>2, <2>3, <2>4 DEF Destroy
<1> QED BY <1>3, <1>4, <1>5, <1>6, <1>7 DEF Dispatch

\* Replies only come from the command they answer.
LEMMA Replied ==
    ASSUME ControlType, NEW n \in Ids, Dispatch(n), NEW k \in Ids, NEW i \in DOMAIN toMain'[k]
    PROVE  \/ i \in DOMAIN toMain[k] /\ toMain'[k][i] = toMain[k][i]
           \/ /\ k = n /\ toMain'[k][i].id = Head(toNode[n]).id
              /\ toMain'[k][i].ok /\ Head(toNode[n]).type = "INIT_PIPELINE" => worklet'[n].workerReady
PROOF
<1>1. CASE UNCHANGED toMain
  BY <1>1
<1>2. ASSUME NEW ok \in BOOLEAN, toMain' = [toMain EXCEPT ![n] = Append(@, [id |-> Head(toNode[n]).id, ok |-> ok])],
             ok /\ Head(toNode[n]).type = "INIT_PIPELINE" => worklet'[n].workerReady
      PROVE  \/ i \in DOMAIN toMain[k] /\ toMain'[k][i] = toMain[k][i]
             \/ /\ k = n /\ toMain'[k][i].id = Head(toNode[n]).id
                /\ toMain'[k][i].ok /\ Head(toNode[n]).type = "INIT_PIPELINE" => worklet'[n].workerReady
  <2> DEFINE r == [id |-> Head(toNode[n]).id, ok |-> ok]
  <2>1. toMain \in [Ids -> Seq(Replies)] /\ toMain[n] \in Seq(Replies)
    BY DEF ControlType, WorkletType
  <2>2. r \in Replies
    <3>1. Head(toNode[n]) \in Commands
      BY Types, TailFacts DEF Dispatch
    <3> QED BY <3>1 DEF Commands, Replies
  <2>3. CASE k # n
    BY <1>2, <2>1, <2>3
  <2>4. CASE k = n
    <3>1. toMain'[n] = Append(toMain[n], r)
      BY <1>2, <2>1
    <3>2. (i \in DOMAIN toMain[n] /\ toMain'[n][i] = toMain[n][i]) \/ toMain'[n][i] = r
      BY <2>1, <2>2, <2>4, <3>1, AppendFacts
    <3> QED BY <1>2, <2>4, <3>2
  <2> QED BY <2>3, <2>4
<1> QED BY <1>1, <1>2, ExecuteEffect

LEMMA LifeDispatched ==
    ASSUME ControlInv, LifecycleInv, NEW n \in Ids, NodeStep(n)
    PROVE  LifecycleInv'
PROOF
<1> DEFINE cmd == Head(toNode[n])
<1>0. ControlType /\ Dispatch(n) /\ PortOf(n) /\ QueueOf(n)
      /\ UNCHANGED <<task, node, workerRef, published, workerLife, worker, nextRequestId>>
  BY DEF ControlInv, NodeStep, mainVars, transportVars, Dispatch, LifecycleInv, Messages
<1>1. /\ toNode[n] \in Seq(Commands) /\ toNode[n] # <<>> /\ toNode'[n] = Tail(toNode[n])
      /\ \A k \in Ids : k # n => toNode'[k] = toNode[k] /\ worklet'[k] = worklet[k]
  BY <1>0, DispatchEffect, Types
<1>2. /\ cmd.type = "DESTROY" => worklet'[n].life = "destroyed"
      /\ cmd.type # "DESTROY" => worklet'[n].life = worklet[n].life
  BY <1>0, DispatchEffect
<1>3. 1 \in DOMAIN toNode[n] /\ cmd = toNode[n][1] /\ cmd \in Commands
  BY <1>1, TailFacts
<1>4. \A k \in Ids : \A i \in DOMAIN toNode'[k] : \E j \in DOMAIN toNode[k] : toNode'[k][i] = toNode[k][j]
  <2>1. \A i \in DOMAIN toNode'[n] : i + 1 \in DOMAIN toNode[n] /\ toNode'[n][i] = toNode[n][i + 1]
    BY <1>1, TailFacts
  <2> QED BY <1>1, <2>1
<1>5. worklet[n].workerPort \in {None, n} /\ (cmd.type = "INIT_PIPELINE" => cmd.arg.workerPort = n)
  BY <1>0, <1>3 DEF PortOf
<1>6. cmd.type = "DESTROY" => node # n /\ workerLife[n] # "alive"
  <2>1. cmd.type = "DESTROY" => Closing(n)
    BY <1>3 DEF Closing
  <2>2. Closing(n) => n # node
    BY Constants DEF ControlInv, Handles
  <2>3. workerLife[n] = "alive" => node = n
    BY Constants DEF LifecycleInv, NoOrphan, Alone
  <2> QED BY <2>1, <2>2, <2>3
<1>7. /\ \A w \in Ids : w # n => toWorker'[w] = toWorker[w] /\ fromWorker'[w] = fromWorker[w]
                                 /\ portHolder'[w] = portHolder[w]
      /\ \/ toWorker'[n] = toWorker[n]
         \/ /\ worklet[n].workerPort = n /\ workerLife[n] = "alive"
            /\ \E m \in WorkerMessages : /\ m.type \in {"SET_ENABLED", "SET_MODULE", "SET_MODULE_CONFIG"}
                                         /\ toWorker'[n] = Append(toWorker[n], m)
      /\ fromWorker'[n] = fromWorker[n] \/ fromWorker'[n] = <<>>
      /\ portHolder'[n] = portHolder[n] \/ cmd.type = "INIT_PIPELINE" \/ worklet[n].workerPort = n
  <2>1. toWorker \in [Ids -> Seq(WorkerMessages)]
    BY <1>0 DEF ControlType, WorkerType
  <2>2. ASSUME NEW type, ToItsWorker(n, type), type = "DESTROY" => cmd.type = "DESTROY"
        PROVE  /\ \A w \in Ids : w # n => toWorker'[w] = toWorker[w]
               /\ \/ toWorker'[n] = toWorker[n]
                  \/ /\ worklet[n].workerPort = n /\ workerLife[n] = "alive" /\ type # "DESTROY"
                     /\ \E m \in WorkerMessages : m.type = type /\ toWorker'[n] = Append(toWorker[n], m)
    BY <1>5, <1>6, <2>1, <2>2 DEF ToItsWorker
  <2>3. CASE cmd.type = "INIT_PIPELINE"
    BY <1>0, <1>5, <2>3, ExecuteEffect
  <2>4. CASE cmd.type \in {"SET_ENABLED", "SET_STAGE_MODULE", "SET_MODULE_CONFIG"}
    <3>1. UNCHANGED <<fromWorker, portHolder>>
          /\ \E type \in {"SET_ENABLED", "SET_MODULE", "SET_MODULE_CONFIG"} : ToItsWorker(n, type)
      BY <1>0, <2>4, ExecuteEffect
    <3> QED BY <2>2, <3>1
  <2>5. CASE cmd.type = "DESTROY"
    <3>1. /\ ToItsWorker(n, "DESTROY")
          /\ \A w \in Ids : w # worklet[n].workerPort => portHolder'[w] = portHolder[w] /\ fromWorker'[w] = fromWorker[w]
          /\ worklet[n].workerPort \in Ids => fromWorker'[worklet[n].workerPort] = <<>>
      BY <1>0, <2>5, ExecuteEffect
    <3>2. CASE worklet[n].workerPort = None
      <4>1. \A w \in Ids : portHolder'[w] = portHolder[w] /\ fromWorker'[w] = fromWorker[w]
        BY <3>1, <3>2, Constants
      <4> QED BY <2>2, <2>5, <3>1, <4>1
    <3>3. CASE worklet[n].workerPort = n
      <4>1. /\ \A w \in Ids : w # n => portHolder'[w] = portHolder[w] /\ fromWorker'[w] = fromWorker[w]
            /\ fromWorker'[n] = <<>>
        BY <3>1, <3>3
      <4> QED BY <2>2, <2>5, <3>1, <3>3, <4>1
    <3> QED BY <1>5, <3>2, <3>3
  <2> QED BY <1>3, <2>3, <2>4, <2>5 DEF Commands
<1>8. /\ worklet'[n].workerPort = worklet[n].workerPort \/ cmd.type \in {"INIT_PIPELINE", "DESTROY"}
      /\ cmd.type = "INIT_PIPELINE" => worklet'[n].workerPort = n
      /\ cmd.type = "DESTROY" => worklet'[n].workerPort = None
      /\ cmd.type # "DESTROY" /\ Connected(n) => Connected(n)'
  BY <1>0, <1>5, ExecuteEffect DEF Connected
<1>9. \A w \in Ids : Fresh(w)' => Fresh(w) /\ toWorker'[w] = toWorker[w]
  <2> SUFFICES ASSUME Fresh(n)' PROVE Fresh(n) /\ toWorker'[n] = toWorker[n]
    BY <1>7 DEF Fresh
  <2>1. CASE toWorker'[n] = toWorker[n]
    BY <2>1 DEF Fresh
  <2>2. ASSUME worklet[n].workerPort = n,
               NEW m \in WorkerMessages, m.type \in {"SET_ENABLED", "SET_MODULE", "SET_MODULE_CONFIG"},
               toWorker'[n] = Append(toWorker[n], m)
        PROVE  FALSE
    <3>1. toWorker[n] \in Seq(WorkerMessages)
      BY <1>0, Types
    <3>2. \A i \in DOMAIN toWorker'[n] :
             toWorker'[n][i] = m \/ (i \in DOMAIN toWorker[n] /\ toWorker'[n][i] = toWorker[n][i])
      BY <2>2, <3>1, AppendFacts
    <3>3. Fresh(n)
      BY <2>2, <3>2 DEF Fresh
    <3> QED BY <1>0, <2>2, <3>3, Constants DEF QueueOf
  <2> QED BY <1>7, <2>1, <2>2
<1>10. NoOrphan'
  <2>1. ASSUME NEW k \in Ids, worklet'[k].life = "running", k # node
        PROVE  \E i \in DOMAIN toNode'[k] : toNode'[k][i].type = "DESTROY"
    <3>1. CASE k # n
      BY <1>0, <1>1, <2>1, <3>1 DEF LifecycleInv, NoOrphan
    <3>2. CASE k = n
      <4>1. cmd.type # "DESTROY" /\ worklet[n].life = "running"
        BY <1>2, <2>1, <3>2
      <4>2. PICK i \in DOMAIN toNode[n] : toNode[n][i].type = "DESTROY"
        BY <2>1, <3>2, <4>1 DEF LifecycleInv, NoOrphan
      <4>3. i # 1
        BY <1>3, <4>1, <4>2
      <4>4. i - 1 \in DOMAIN toNode'[n] /\ toNode'[n][i - 1] = toNode[n][i]
        BY <1>1, <4>3, TailFacts
      <4> QED BY <3>2, <4>2, <4>4
    <3> QED BY <3>1, <3>2
  <2> QED BY <1>0, <2>1 DEF LifecycleInv, NoOrphan
<1>11. Serving'
  <2>1. published # None => Connected(node) /\ node \in Ids /\ (node = n => cmd.type # "DESTROY")
    BY <1>0, <1>6, Constants DEF LifecycleInv, Serving, ControlType, MainType
  <2>2. published # None => worklet'[node].workerReady /\ worklet'[node].workerPort = node
    <3>1. CASE node = n
      BY <1>8, <2>1, <3>1 DEF Connected
    <3>2. CASE node # n
      BY <1>1, <2>1, <3>2 DEF Connected
    <3> QED BY <3>1, <3>2
  <2> QED BY <1>0, <2>2 DEF LifecycleInv, Serving, Connected
<1>12. Alone'
  BY <1>0 DEF LifecycleInv, Alone, InProgress
<1>13. ASSUME NEW k \in Ids PROVE PortOf(k)'
  <2>1. PortOf(k)
    BY DEF LifecycleInv, Messages
  <2>2. worklet'[k].workerPort \in {None, k}
    BY <1>1, <1>8, <2>1 DEF PortOf
  <2> QED BY <1>0, <1>4, <2>1, <2>2 DEF PortOf
<1>14. ASSUME NEW k \in Ids PROVE QueueOf(k)'
  <2>1. QueueOf(k)
    BY DEF LifecycleInv, Messages
  <2>2. CASE k # n
    <3>1. (\A i \in DOMAIN toNode[k] : toNode[k][i].type # "INIT_PIPELINE")
             => \A i \in DOMAIN toNode'[k] : toNode'[k][i].type # "INIT_PIPELINE"
      BY <1>4
    <3> QED BY <1>0, <1>1, <1>7, <1>9, <2>1, <2>2, <3>1 DEF QueueOf
  <2>3. CASE k = n
    <3>1. task[n].pc \in {"idle", "loading", "fetching", "workerInit"} => cmd.type # "INIT_PIPELINE"
      BY <1>0, <1>3 DEF PortOf
    <3>2. task[n].pc \in {"idle", "loading", "fetching", "workerInit"} =>
             worklet'[n].workerPort = None /\ portHolder'[n].at = "main"
      BY <1>7, <1>8, <2>1, <2>3, <3>1, Constants DEF QueueOf
    <3>3. task[n].pc \in {"idle", "loading", "fetching"} => fromWorker'[n] = <<>>
      BY <1>7, <2>1, <2>3 DEF QueueOf
    <3>4. (workerLife'[n] # "alive" => toWorker'[n] = <<>>)
      BY <1>0, <1>7, <2>1, <2>3 DEF QueueOf
    <3>5. \A i \in DOMAIN toWorker'[n] : toWorker'[n][i].type # "DESTROY"
      <4>1. ASSUME NEW m \in WorkerMessages, m.type # "DESTROY", toWorker'[n] = Append(toWorker[n], m)
            PROVE  \A i \in DOMAIN toWorker'[n] : toWorker'[n][i].type # "DESTROY"
        <5>1. toWorker[n] \in Seq(WorkerMessages)
          BY <1>0, Types
        <5>2. \A i \in DOMAIN toWorker'[n] :
                 toWorker'[n][i] = m \/ (i \in DOMAIN toWorker[n] /\ toWorker'[n][i] = toWorker[n][i])
          BY <4>1, <5>1, AppendFacts
        <5> QED BY <1>0, <4>1, <5>2 DEF QueueOf
      <4> QED BY <1>0, <1>7, <4>1 DEF QueueOf
    <3>6. Fresh(n)' => cmd.type # "INIT_PIPELINE"
      BY <1>0, <1>3, <1>9 DEF QueueOf
    <3>7. Fresh(n)' => /\ Len(toWorker'[n]) = 1 /\ fromWorker'[n] = <<>>
                       /\ worklet'[n].workerPort = None /\ task[n].pc \in {"workerInit", "failed"}
                       /\ \A i \in DOMAIN toNode'[n] : toNode'[n][i].type # "INIT_PIPELINE"
      BY <1>0, <1>4, <1>7, <1>8, <1>9, <3>6 DEF QueueOf
    <3> QED BY <1>0, <2>1, <2>3, <3>2, <3>3, <3>4, <3>5, <3>7 DEF QueueOf
  <2> QED BY <2>2, <2>3
<1>15. ASSUME NEW k \in Ids PROVE LoadedOf(k)'
  <2>1. Announced(k)' => Announced(k)
    BY <1>0, <1>7 DEF Announced
  <2> QED BY <1>0, <1>9, <2>1 DEF LifecycleInv, Messages, LoadedOf
<1>16. ASSUME NEW k \in Ids PROVE IdsOf(k)'
  <2>1. \A i \in DOMAIN toNode'[k] : toNode'[k][i].id < nextRequestId
    BY <1>4 DEF LifecycleInv, Messages, IdsOf
  <2>2. cmd.id < nextRequestId
    BY <1>3 DEF LifecycleInv, Messages, IdsOf
  <2>3. \A i \in DOMAIN toMain'[k] : toMain'[k][i].id < nextRequestId
    BY <1>0, <2>2, Replied DEF LifecycleInv, Messages, IdsOf
  <2> QED BY <1>0, <2>1, <2>3 DEF IdsOf
<1>17. ASSUME NEW t \in Ids, NEW k \in Ids PROVE AnswerOf(t, k)'
  <2> SUFFICES ASSUME task[t].pc = "pipelineInit" PROVE AnswerOf(t, k)'
    BY <1>0 DEF AnswerOf
  <2>1. AnswerOf(t, k) /\ AnswerOf(t, n) /\ node = t
    BY DEF LifecycleInv, Messages, Alone
  <2>2. \A i \in DOMAIN toNode'[k] :
           toNode'[k][i].id = task[t].req => k = t /\ toNode'[k][i].type = "INIT_PIPELINE"
    BY <1>4, <2>1 DEF AnswerOf
  <2>3. Connected(t) => Connected(t)'
    BY <1>1, <1>6, <1>8, <2>1 DEF Connected
  <2>4. ASSUME NEW i \in DOMAIN toMain'[k], toMain'[k][i].id = task[t].req, toMain'[k][i].ok
        PROVE  Connected(t)'
    <3>1. CASE i \in DOMAIN toMain[k] /\ toMain'[k][i] = toMain[k][i]
      BY <2>1, <2>3, <2>4, <3>1 DEF AnswerOf
    <3>2. CASE cmd.id = task[t].req /\ (toMain'[k][i].ok /\ cmd.type = "INIT_PIPELINE" => worklet'[n].workerReady)
      <4>1. n = t /\ cmd.type = "INIT_PIPELINE"
        BY <1>3, <2>1, <3>2 DEF AnswerOf
      <4> QED BY <1>8, <2>4, <3>2, <4>1 DEF Connected
    <3>3. \/ i \in DOMAIN toMain[k] /\ toMain'[k][i] = toMain[k][i]
          \/ /\ toMain'[k][i].id = cmd.id
             /\ toMain'[k][i].ok /\ cmd.type = "INIT_PIPELINE" => worklet'[n].workerReady
      BY <1>0, Replied
    <3> QED BY <2>4, <3>1, <3>2, <3>3
  <2> QED BY <1>0, <2>2, <2>4 DEF AnswerOf
<1> QED BY <1>10, <1>11, <1>12, <1>13, <1>14, <1>15, <1>16, <1>17 DEF LifecycleInv, Messages

\* A message of a worker that its worklet takes.
LEMMA LifeReceived ==
    ASSUME ControlInv, LifecycleInv, NEW p \in Ids, PortStep(p)
    PROVE  LifecycleInv'
PROOF
<1>0. /\ ControlType /\ fromWorker[p] # <<>> /\ portHolder[p].at = "worklet"
      /\ UNCHANGED <<task, node, workerRef, published, workerLife, worker, toWorker, portHolder,
                     toNode, toMain, nextRequestId>>
  BY DEF ControlInv, PortStep, WorkletReceives, mainVars, transportVars
<1>1. \A w \in Ids : w # p => fromWorker'[w] = fromWorker[w]
  BY <1>0 DEF PortStep, WorkletReceives, ControlType, WorkerType
<1>2. ASSUME NEW n \in Ids
      PROVE  /\ worklet'[n].life = worklet[n].life /\ worklet'[n].workerPort = worklet[n].workerPort
             /\ worklet'[n].workerReady = worklet[n].workerReady
  <2>1. CASE UNCHANGED worklet
    BY <2>1
  <2>2. ASSUME NEW k, NEW m, worklet' = [worklet EXCEPT ![k].frameModule = m]
        PROVE  /\ worklet'[n].life = worklet[n].life /\ worklet'[n].workerPort = worklet[n].workerPort
               /\ worklet'[n].workerReady = worklet[n].workerReady
    <3>1. worklet \in [Ids -> Worklets] /\ worklet[n] \in Worklets
      BY <1>0 DEF ControlType, WorkletType
    <3>2. worklet'[n] = worklet[n] \/ worklet'[n] = [worklet[n] EXCEPT !.frameModule = m]
      BY <2>2, <3>1
    <3> QED BY <3>1, <3>2 DEF Worklets
  <2> QED BY <2>1, <2>2 DEF PortStep, WorkletReceives
<1>3. \A w \in Ids : Fresh(w)' = Fresh(w)
  BY <1>0 DEF Fresh
<1>4. QueueOf(p) /\ task[p].pc \notin {"idle", "loading", "fetching", "workerInit"} /\ ~Fresh(p)
  BY <1>0 DEF LifecycleInv, Messages, QueueOf
<1>5. NoOrphan'
  BY <1>0, <1>2 DEF LifecycleInv, NoOrphan
<1>6. Serving'
  BY <1>0, <1>2, Constants DEF LifecycleInv, Serving, Connected, ControlType, MainType
<1>7. Alone'
  BY <1>0 DEF LifecycleInv, Alone, InProgress
<1>8. ASSUME NEW n \in Ids PROVE PortOf(n)'
  BY <1>0, <1>2 DEF LifecycleInv, Messages, PortOf
<1>9. ASSUME NEW n \in Ids PROVE QueueOf(n)'
  <2>1. QueueOf(n)
    BY DEF LifecycleInv, Messages
  <2> QED BY <1>0, <1>1, <1>2, <1>3, <1>4, <2>1 DEF QueueOf
<1>10. ASSUME NEW n \in Ids PROVE LoadedOf(n)'
  BY <1>0, <1>1, <1>3, <1>4 DEF LifecycleInv, Messages, LoadedOf, Announced
<1>11. ASSUME NEW n \in Ids PROVE IdsOf(n)'
  BY <1>0 DEF LifecycleInv, Messages, IdsOf
<1>12. ASSUME NEW t \in Ids, NEW n \in Ids PROVE AnswerOf(t, n)'
  BY <1>0, <1>2 DEF LifecycleInv, Messages, AnswerOf, Connected
<1> QED BY <1>5, <1>6, <1>7, <1>8, <1>9, <1>10, <1>11, <1>12 DEF LifecycleInv, Messages

\* What a worker's handling of a message changes that the lifecycle depends on.
LEMMA HandleEffect ==
    ASSUME ControlType, NEW w \in Ids, WorkerReceives(w)
    PROVE  LET msg == Head(toWorker[w]) IN
           /\ \A v \in Ids : v # w => worker'[v] = worker[v] /\ fromWorker'[v] = fromWorker[v]
           /\ \/ fromWorker'[w] = fromWorker[w]
              \/ \E r \in WorkerReplies :
                    /\ fromWorker'[w] = Append(fromWorker[w], r)
                    /\ r.type = "INIT_OK" => msg.type = "INIT" /\ worker'[w].loaded = Modules
           /\ msg.type \notin {"INIT", "DESTROY"} => worker'[w].loaded = worker[w].loaded
PROOF
<1> DEFINE msg == Head(toWorker[w])
<1>0. /\ worker \in [Ids -> Workers] /\ worker[w] \in Workers
      /\ fromWorker \in [Ids -> Seq(WorkerReplies)] /\ msg \in WorkerMessages
  BY TailFacts DEF WorkerReceives, ControlType, WorkerType
<1>1. ASSUME NEW r, Respond(w, r)
      PROVE  /\ \A v \in Ids : v # w => fromWorker'[v] = fromWorker[v]
             /\ fromWorker'[w] = fromWorker[w] \/ fromWorker'[w] = Append(fromWorker[w], r)
  BY <1>0, <1>1 DEF Respond
<1>2. CASE msg.type = "INIT" /\ HandleInit(w, msg.arg)
  <2> DEFINE fresh == [worker[w] EXCEPT !.currentModuleId = msg.arg.module, !.configs = msg.arg.configs]
             done == [fresh EXCEPT !.loaded = Modules, !.dfState = msg.arg.configs["deepfilternet"]]
  <2>1. Msg("INIT_OK", msg.arg.module) \in WorkerReplies /\ Msg("ERROR", "init") \in WorkerReplies
        /\ Msg("ERROR", "init").type # "INIT_OK"
    BY <1>0, <1>2 DEF WorkerMessages, Msg, WorkerReplies
  <2>2. \A v \in Ids : v # w => worker'[v] = worker[v]
    BY <1>0, <1>2 DEF HandleInit
  <2>3. CASE worker' = [worker EXCEPT ![w] = done] /\ Respond(w, Msg("INIT_OK", msg.arg.module))
    <3>1. worker'[w].loaded = Modules
      BY <1>0, <2>3 DEF Workers
    <3> QED BY <1>1, <1>2, <2>1, <2>2, <2>3, <3>1
  <2>4. CASE Respond(w, Msg("ERROR", "init"))
    BY <1>1, <1>2, <2>1, <2>2, <2>4
  <2> QED BY <1>2, <2>3, <2>4 DEF HandleInit
<1>3. CASE msg.type = "SET_MODULE" /\ HandleSetModule(w, msg.arg)
  <2>1. /\ Msg("MODULE_CHANGED", msg.arg) \in WorkerReplies /\ Msg("ERROR", "not available") \in WorkerReplies
        /\ Msg("MODULE_CHANGED", msg.arg).type # "INIT_OK" /\ Msg("ERROR", "not available").type # "INIT_OK"
    BY <1>0, <1>3 DEF WorkerMessages, Msg, WorkerReplies
  <2>2. worker'[w].loaded = worker[w].loaded /\ \A v \in Ids : v # w => worker'[v] = worker[v]
    BY <1>0, <1>3 DEF HandleSetModule, Workers
  <2>3. CASE UNCHANGED fromWorker
    BY <1>3, <2>2, <2>3
  <2> QED BY <1>1, <1>3, <2>1, <2>2, <2>3 DEF HandleSetModule
<1>4. CASE msg.type = "SET_MODULE_CONFIG" /\ HandleSetModuleConfig(w, msg.arg)
  BY <1>0, <1>4 DEF HandleSetModuleConfig, Workers
<1>5. CASE msg.type = "SET_ENABLED" /\ HandleSetEnabled(w, msg.arg)
  BY <1>0, <1>5 DEF HandleSetEnabled, Workers
<1>6. CASE msg.type = "DESTROY" /\ HandleDestroy(w)
  BY <1>0, <1>6 DEF HandleDestroy
<1> QED BY <1>2, <1>3, <1>4, <1>5, <1>6 DEF WorkerReceives

LEMMA LifeHandled ==
    ASSUME ControlInv, LifecycleInv, NEW w \in Ids, WorkerStep(w)
    PROVE  LifecycleInv'
PROOF
<1> DEFINE msg == Head(toWorker[w])
<1>0. /\ ControlType /\ WorkerReceives(w) /\ QueueOf(w) /\ workerLife[w] = "alive"
      /\ UNCHANGED <<task, node, workerRef, published, workerLife, portHolder, worklet,
                     toNode, toMain, nextRequestId>>
  BY DEF ControlInv, WorkerStep, WorkerReceives, mainVars, transportVars, workletVars, LifecycleInv, Messages
<1>1. /\ toWorker[w] \in Seq(WorkerMessages) /\ toWorker[w] # <<>> /\ toWorker'[w] = Tail(toWorker[w])
      /\ \A v \in Ids : v # w => toWorker'[v] = toWorker[v]
  BY <1>0 DEF WorkerReceives, ControlType, WorkerType
<1>2. 1 \in DOMAIN toWorker[w] /\ msg = toWorker[w][1]
  BY <1>1, TailFacts
<1>3. \A i \in DOMAIN toWorker'[w] : \E j \in DOMAIN toWorker[w] : toWorker'[w][i] = toWorker[w][j]
  BY <1>1, TailFacts
<1>4. /\ \A v \in Ids : v # w => worker'[v] = worker[v] /\ fromWorker'[v] = fromWorker[v]
      /\ \/ fromWorker'[w] = fromWorker[w]
         \/ \E r \in WorkerReplies :
               /\ fromWorker'[w] = Append(fromWorker[w], r)
               /\ r.type = "INIT_OK" => msg.type = "INIT" /\ worker'[w].loaded = Modules
      /\ msg.type \notin {"INIT", "DESTROY"} => worker'[w].loaded = worker[w].loaded
  BY <1>0, HandleEffect
<1>5. msg.type # "DESTROY" /\ (msg.type = "INIT" => Fresh(w))
  BY <1>0, <1>2 DEF QueueOf, Fresh
<1>6. ~Fresh(w)'
  <2>1. Fresh(w) => toWorker'[w] = <<>>
    BY <1>0, <1>1, TailFacts DEF QueueOf
  <2>2. ~Fresh(w) => ~Fresh(w)'
    BY <1>3 DEF Fresh
  <2> QED BY <2>1, <2>2 DEF Fresh
<1>7. \A v \in Ids : v # w => Fresh(v)' = Fresh(v)
  BY <1>1 DEF Fresh
<1>8. NoOrphan'
  BY <1>0 DEF LifecycleInv, NoOrphan
<1>9. Serving'
  BY <1>0 DEF LifecycleInv, Serving, Connected
<1>10. Alone'
  BY <1>0 DEF LifecycleInv, Alone, InProgress
<1>11. ASSUME NEW n \in Ids PROVE PortOf(n)'
  BY <1>0 DEF LifecycleInv, Messages, PortOf
<1>12. ASSUME NEW n \in Ids PROVE QueueOf(n)'
  <2>1. CASE n = w
    <3>1. \A i \in DOMAIN toWorker'[w] : toWorker'[w][i].type # "DESTROY"
      BY <1>0, <1>3 DEF QueueOf
    <3> QED BY <1>0, <1>6, <2>1, <3>1 DEF QueueOf
  <2>2. CASE n # w
    <3>1. QueueOf(n)
      BY DEF LifecycleInv, Messages
    <3> QED BY <1>0, <1>1, <1>4, <1>7, <2>2, <3>1 DEF QueueOf
  <2> QED BY <2>1, <2>2
<1>13. ASSUME NEW n \in Ids PROVE LoadedOf(n)'
  <2>0. LoadedOf(n)
    BY DEF LifecycleInv, Messages
  <2>1. CASE n # w
    BY <1>0, <1>4, <1>7, <2>0, <2>1 DEF LoadedOf, Announced
  <2>2. CASE n = w /\ Announced(w)
    <3>1. worker[w].loaded = Modules /\ ~Fresh(w)
      BY <2>0, <2>2 DEF LoadedOf
    <3> QED BY <1>4, <1>5, <1>6, <2>2, <3>1 DEF LoadedOf
  <2>3. CASE n = w /\ ~Announced(w) /\ Announced(w)'
    <3>1. /\ task[w].pc = "workerInit" /\ fromWorker'[w] # <<>> /\ Head(fromWorker'[w]).type = "INIT_OK"
          /\ ~(fromWorker[w] # <<>> /\ Head(fromWorker[w]).type = "INIT_OK")
      BY <1>0, <2>3 DEF Announced
    <3>2. PICK r \in WorkerReplies :
             /\ fromWorker'[w] = Append(fromWorker[w], r)
             /\ r.type = "INIT_OK" => msg.type = "INIT" /\ worker'[w].loaded = Modules
      BY <1>4, <3>1
    <3>3. fromWorker[w] \in Seq(WorkerReplies)
      BY <1>0, Types
    <3>4. fromWorker[w] = <<>> /\ Head(fromWorker'[w]) = r
      <4>1. fromWorker[w] # <<>> => Head(fromWorker'[w]) = Head(fromWorker[w])
        BY <3>2, <3>3, AppendFacts
      <4>2. fromWorker[w] = <<>> => Head(fromWorker'[w]) = r
        BY <3>2, <3>3, AppendFacts
      <4> QED BY <3>1, <4>1, <4>2
    <3> QED BY <1>6, <2>3, <3>1, <3>2, <3>4 DEF LoadedOf
  <2> QED BY <2>1, <2>2, <2>3 DEF LoadedOf
<1>14. ASSUME NEW n \in Ids PROVE IdsOf(n)'
  BY <1>0 DEF LifecycleInv, Messages, IdsOf
<1>15. ASSUME NEW t \in Ids, NEW n \in Ids PROVE AnswerOf(t, n)'
  BY <1>0 DEF LifecycleInv, Messages, AnswerOf, Connected
<1> QED BY <1>8, <1>9, <1>10, <1>11, <1>12, <1>13, <1>14, <1>15 DEF LifecycleInv, Messages

-----------------------------------------------------------------------------
LEMMA LifeInit == Init => LifecycleInv
PROOF
<1> SUFFICES ASSUME Init PROVE LifecycleInv
  OBVIOUS
<1> USE Constants DEF Init, WorkerInit, WorkletInit, InitialWorklet, IdleTask
<1>1. NoOrphan
  BY DEF NoOrphan
<1>2. Serving
  BY DEF Serving
<1>3. Alone
  BY DEF Alone, InProgress
<1>4. ASSUME NEW n \in Ids PROVE PortOf(n) /\ QueueOf(n) /\ LoadedOf(n) /\ IdsOf(n)
  BY DEF PortOf, QueueOf, LoadedOf, Announced, Fresh, IdsOf
<1>5. ASSUME NEW t \in Ids, NEW n \in Ids PROVE AnswerOf(t, n)
  BY DEF AnswerOf
<1> QED BY <1>1, <1>2, <1>3, <1>4, <1>5 DEF LifecycleInv, Messages

\* What awaits a command goes on; on success of an init call, see LifePublished.
LEMMA LifeContinued ==
    ASSUME ControlInv, LifecycleInv, NEW id \in pending, NEW ok \in BOOLEAN, Continue(id, ok),
           id = running \/ ~ok,
           UNCHANGED <<node, workerRef, workerVars, worklet, toNode, nextRequestId>>,
           \A n \in Ids : toMain'[n] = toMain[n] \/ (toMain[n] # <<>> /\ toMain'[n] = Tail(toMain[n]))
    PROVE  LifecycleInv'
PROOF
<1>0. ControlType /\ UNCHANGED <<workerLife, worker, toWorker, fromWorker, portHolder>>
  BY DEF ControlInv, workerVars
<1>1. CASE UNCHANGED <<task, published>>
  BY <1>0, <1>1, Settling
<1>2. ASSUME NEW t \in Ids, id = task[t].req, task' = [task EXCEPT ![t].pc = IF ok THEN "done" ELSE "failed"],
             published' = IF ok THEN node ELSE published
      PROVE  LifecycleInv'
  <2>1. id # NoRequest
    BY Constants DEF ControlInv, TransportInv, TransportTypeOK
  <2>2. ~ok
    BY <1>2, <2>1 DEF ControlInv, Requests
  <2>3. task[t].pc = "pipelineInit"
    BY <1>2 DEF ControlInv, Requests
  <2>4. task'[t].pc = "failed" /\ \A s \in Ids : s # t => task'[s] = task[s]
    BY <1>0, <1>2, <2>2 DEF ControlType, MainType, Tasks
  <2>5. \A s \in Ids : \/ task'[s].pc = task[s].pc /\ task'[s].req = task[s].req
                       \/ InProgress(s) /\ task'[s].pc = "failed"
    BY <2>3, <2>4 DEF InProgress
  <2> QED BY <1>0, <1>2, <2>2, <2>5, Settling
<1> QED BY <1>1, <1>2 DEF Continue

LEMMA LifeStep ==
    ASSUME "oneAtATime" \in Rules, ControlInv, LifecycleInv, [Next]_vars
    PROVE  LifecycleInv'
PROOF
<1>0. ControlType
  BY DEF ControlInv
<1>1. ASSUME UNCHANGED <<task, node, workerRef, published, workerVars, workletVars, nextRequestId>>
      PROVE  LifecycleInv'
  <2>1. UNCHANGED <<workerLife, worker, toWorker, fromWorker, portHolder, worklet, toNode, toMain>>
    BY <1>1 DEF workerVars, workletVars
  <2> QED BY <1>0, <1>1, <2>1, Settling
<1>2. ASSUME NEW t \in Ids, InProgress(t), task' = [task EXCEPT ![t].pc = "failed"],
             UNCHANGED <<node, workerRef, published, workerLife, worker, toWorker, workletVars, nextRequestId>>,
             UNCHANGED <<fromWorker, portHolder>> \/ ClosePort(t)
      PROVE  LifecycleInv'
  <2>1. task'[t].pc = "failed" /\ \A s \in Ids : s # t => task'[s] = task[s]
    BY <1>0, <1>2 DEF ControlType, MainType, Tasks
  <2>2. \A s \in Ids : \/ task'[s].pc = task[s].pc /\ task'[s].req = task[s].req
                       \/ InProgress(s) /\ task'[s].pc = "failed"
    BY <1>2, <2>1
  <2>3. \A w \in Ids : \/ fromWorker'[w] = fromWorker[w] /\ portHolder'[w] = portHolder[w]
                       \/ fromWorker'[w] = <<>> /\ task'[w].pc = "failed"
    BY <1>0, <1>2, <2>1 DEF ClosePort, ControlType, WorkerType
  <2> QED BY <1>0, <1>2, <2>2, <2>3, Settling DEF workletVars
<1>3. ASSUME NEW t \in Ids, LoadFails(t) \/ FetchFails(t) \/ WorkerInitFails(t) PROVE LifecycleInv'
  <2>1. CASE LoadFails(t)
    BY <1>2, <2>1 DEF LoadFails, Fail, InProgress, workerVars, transportVars
  <2>2. CASE FetchFails(t)
    BY <1>2, <2>2 DEF FetchFails, Fail, InProgress, workerVars, transportVars
  <2>3. CASE WorkerInitFails(t)
    BY <1>2, <2>3 DEF WorkerInitFails, Fail, InProgress, transportVars
  <2> QED BY <1>3, <2>1, <2>2, <2>3
<1>4. ASSUME NEW t \in Ids, CallRestart(t) PROVE LifecycleInv'
  <2>1. CloseInternal({t}) /\ ~Busy /\ task[t].pc = "idle"
    BY <1>4 DEF CallRestart, MayInit, NextTask
  <2> QED BY <2>1, LifeClosed
<1>5. CASE CallDestroy
  BY <1>5, LifeClosed DEF CallDestroy
<1>6. ASSUME NEW op, CallSetter(op) PROVE LifecycleInv'
  BY <1>1, <1>6 DEF CallSetter, transportVars
<1>7. CASE StartSetter
  <2>1. UNCHANGED <<task, node, workerRef, published, workerVars, worklet, toMain>>
    BY <1>7 DEF StartSetter
  <2>2. CASE UNCHANGED <<toNode, transportVars>>
    BY <1>1, <2>1, <2>2 DEF workletVars, transportVars
  <2>3. CASE node # None /\ Post(SetterCommand(Head(setters), nextRequestId))
    <3>1. Head(setters) \in Ops /\ options \in Options /\ nextRequestId \in RequestIds
      BY <1>0, <1>7, <2>3, TailFacts DEF StartSetter, Post, Send, ControlType, MainType
    <3>2. /\ SetterCommand(Head(setters), nextRequestId) \in Commands
          /\ SetterCommand(Head(setters), nextRequestId).id = nextRequestId
          /\ SetterCommand(Head(setters), nextRequestId).type \notin {"INIT_PIPELINE", "DESTROY"}
      BY <3>1, SetterCommandType
    <3> QED BY <2>1, <2>3, <3>2, LifePosted
  <2> QED BY <1>7, <2>2, <2>3 DEF StartSetter
<1>8. ASSUME NEW n \in Ids, ReceiveReply(n) PROVE LifecycleInv'
  <2> DEFINE reply == Head(toMain[n])
  <2>1. /\ toMain[n] # <<>> /\ toMain' = [toMain EXCEPT ![n] = Tail(@)] /\ reply \in Replies
        /\ UNCHANGED <<node, workerRef, workerVars, worklet, toNode>>
    BY <1>0, <1>8, Types, TailFacts DEF ReceiveReply
  <2>2. \A k \in Ids : toMain'[k] = toMain[k] \/ (toMain[k] # <<>> /\ toMain'[k] = Tail(toMain[k]))
    BY <1>0, <2>1 DEF ControlType, WorkletType
  <2>3. CASE UNCHANGED <<transportVars, task, published>>
    BY <1>0, <2>1, <2>2, <2>3, Settling DEF workerVars, transportVars
  <2>4. CASE /\ reply.id \in pending /\ Continue(reply.id, reply.ok)
             /\ IF reply.ok THEN Resolve(reply.id) ELSE Reject(reply.id)
    <3>1. nextRequestId' = nextRequestId /\ reply.ok \in BOOLEAN
      BY <2>1, <2>4 DEF Resolve, Reject, Settle, Replies
    <3>2. CASE reply.id = running \/ ~reply.ok
      BY <2>1, <2>2, <2>4, <3>1, <3>2, LifeContinued
    <3>3. CASE reply.id # running /\ reply.ok
      <4>1. PICK t \in Ids : reply.id = task[t].req /\ task' = [task EXCEPT ![t].pc = "done"] /\ published' = node
        BY <2>4, <3>3 DEF Continue
      <4> QED BY <2>1, <2>4, <3>1, <3>3, <4>1, LifePublished
    <3> QED BY <3>2, <3>3
  <2> QED BY <1>8, <2>3, <2>4 DEF ReceiveReply
<1>9. ASSUME NEW id \in RequestIds, CommandTimeout(id) PROVE LifecycleInv'
  <2>1. id \in pending /\ nextRequestId' = nextRequestId /\ Continue(id, FALSE)
        /\ UNCHANGED <<node, workerRef, workerVars, workletVars>>
    BY <1>9 DEF CommandTimeout, Timeout, Settle
  <2> QED BY <2>1, LifeContinued DEF workletVars
<1>10. CASE UNCHANGED vars
  BY <1>1, <1>10 DEF vars, mainVars, transportVars
<1> QED BY <1>3, <1>4, <1>5, <1>6, <1>7, <1>8, <1>9, <1>10, LifeCalled, LifeLoaded, LifeFetched, LifeAnswered,
           LifeDispatched, LifeReceived, LifeHandled DEF Next

\* The invariant behind the two theorems below, for an application that waits
\* for one lifecycle call before it makes the next.
THEOREM LifecycleInvariant == "oneAtATime" \in Rules => (Spec => []LifecycleInv)
PROOF
<1> SUFFICES ASSUME "oneAtATime" \in Rules PROVE Spec => []LifecycleInv
  OBVIOUS
<1>1. ControlInv /\ LifecycleInv /\ [Next]_vars => LifecycleInv'
  BY LifeStep
<1> QED BY <1>1, LifeInit, ControlInvariant, PTL DEF Spec

\* Nothing runs that destroy() or restart() would not release: a worker that
\* runs is the one the main thread refers to, and a worklet that runs is the one
\* it refers to or has its DESTROY on the way, failed init calls included.
THEOREM NoOrphanHolds == "oneAtATime" \in Rules => (Spec => []NoOrphan)
PROOF
<1> SUFFICES ASSUME "oneAtATime" \in Rules PROVE Spec => []NoOrphan
  OBVIOUS
<1>1. LifecycleInv => NoOrphan
  BY DEF LifecycleInv
<1> QED BY <1>1, LifecycleInvariant, PTL

\* A track that was handed out comes from a worklet that runs and is connected to
\* a worker that runs and has both modules.
THEOREM PublishedHolds == "oneAtATime" \in Rules => (Spec => []PublishedIsServed)
PROOF
<1> SUFFICES ASSUME "oneAtATime" \in Rules PROVE Spec => []PublishedIsServed
  OBVIOUS
<1>1. ControlInv /\ LifecycleInv => PublishedIsServed
  <2> SUFFICES ASSUME ControlInv, LifecycleInv, published # None PROVE PublishedIsServed
    BY DEF PublishedIsServed
  <2>1. published = node /\ workerRef = node /\ Connected(node) /\ node \in Ids
    BY DEF ControlInv, ControlType, MainType, LifecycleInv, Serving
  <2>2. worker[node].loaded = Modules
    BY <2>1 DEF LifecycleInv, Messages, LoadedOf, Announced
  <2>3. workerLife[workerRef] = "alive" /\ worklet[node].life = "running"
    BY <2>1 DEF ControlInv, Handles, HandlesAreLive
  <2> QED BY <2>1, <2>2, <2>3 DEF PublishedIsServed, Connected
<1> QED BY <1>1, LifecycleInvariant, ControlInvariant, PTL

-----------------------------------------------------------------------------
(* The three runtimes agree once every message has been dealt with, for an  *)
(* application that makes one lifecycle call at a time, calls its setters   *)
(* between them, restarts only while enabled and meets no command time-out  *)
(* (AgreementRules): the cases in which the code disagrees with itself are  *)
(* the other runs of the control plane.                                     *)

AgreementRules == {"oneAtATime", "initFirst", "initEnabled"} \subseteq Rules /\ "timeout" \notin Faults

\* The last message of the class S that the receiver of q has handled (now) or
\* will handle is m.
Latest(q, S, now, m) ==
    \/ \E i \in DOMAIN q : q[i] \in S /\ q[i] = m /\ \A j \in DOMAIN q : j > i => q[j] \notin S
    \/ now = m /\ \A j \in DOMAIN q : q[j] \notin S

ModuleMessages == [type : {"SET_MODULE"}, arg : Modules]
EnabledMessages == [type : {"SET_ENABLED"}, arg : BOOLEAN]
ConfigMessages(m) == [type : {"SET_MODULE_CONFIG"}, arg : [module : {m}, config : Config(m)]]
ChangedMessages == [type : {"MODULE_CHANGED"}, arg : Modules]
ModuleIs(m) == Msg("SET_MODULE", m)
EnabledIs(b) == Msg("SET_ENABLED", b)
ConfigIs(m, c) == Msg("SET_MODULE_CONFIG", [module |-> m, config |-> c])
ChangedTo(m) == Msg("MODULE_CHANGED", m)

\* The options the worklet has been told: a setter whose command it has executed
\* counts before the main thread hears of it.
Asked == IF running # NoRequest /\ toNode[node] = <<>> THEN NextOptions(Head(setters)) ELSE options

\* The DeepFilterNet state runs with the parameters of the config.
Live(w) == \A f \in LiveFields : worker[w].dfState[f] = worker[w].configs["deepfilternet"][f]

\* What the worker of the current node has been told, and what it has been told
\* about processing; what the worklet runs and will hear from the worker.
WorkerAgrees(w) ==
    /\ Latest(toWorker[w], ModuleMessages, ModuleIs(worker[w].currentModuleId), ModuleIs(Asked.denoise))
    /\ \A m \in Modules : Latest(toWorker[w], ConfigMessages(m), ConfigIs(m, worker[w].configs[m]),
                                 ConfigIs(m, Asked.configs[m]))
    /\ Live(w)
WorkerEnabled(w) ==
    Latest(toWorker[w], EnabledMessages, EnabledIs(worker[w].processingEnabled), EnabledIs(enabled))
WorkletAgrees(n) ==
    /\ worklet[n].currentModuleId = Asked.denoise
    /\ portHolder[n] = [at |-> "worklet", node |-> n]
    /\ Latest(fromWorker[n], ChangedMessages, ChangedTo(worklet[n].frameModule),
              ChangedTo(worker[n].currentModuleId))

\* The next command of the current node is not of this type.
NotNext(type) == toNode[node] = <<>> \/ Head(toNode[node]).type # type

\* From the pipeline command on.
Up == published # None \/ \E t \in Ids : task[t].pc = "pipelineInit"
Agreed ==
    Up => /\ WorkerAgrees(node)
          /\ NotNext("SET_ENABLED") => WorkerEnabled(node)
          /\ NotNext("INIT_PIPELINE") => WorkletAgrees(node)

\* An init call in progress has the application's silence and its options.
Starting(t) ==
    /\ InProgress(t) => setters = <<>> /\ enabled
    /\ task[t].pc \in {"fetching", "workerInit", "pipelineInit"} =>
          task[t].module = options.denoise /\ task[t].configs = options.configs

\* The worker of an init call gets INIT and answers it, and nothing else.
InitMessage(t) == Msg("INIT", [module |-> task[t].module, configs |-> task[t].configs])
InitAnswered(t) ==
    fromWorker[t] # <<>> /\ Head(fromWorker[t]).type = "INIT_OK" =>
        /\ Head(fromWorker[t]).arg = options.denoise
        /\ worker[t].currentModuleId = options.denoise /\ worker[t].configs = options.configs
        /\ Live(t)
Initialising(t) ==
    /\ task[t].pc \in {"fetching", "workerInit"} => toNode[t] = <<>>
    /\ task[t].pc = "workerInit" =>
          /\ worker[t].processingEnabled
          /\ \/ toWorker[t] = <<InitMessage(t)>>
             \/ toWorker[t] = <<>> /\ Len(fromWorker[t]) \in {0, 1} /\ InitAnswered(t)

\* The pipeline command of an init call carries the module of the options, and
\* nothing reaches the worker before it.
StartsWith(t, cmd) ==
    /\ cmd.type = "INIT_PIPELINE" /\ cmd.id = task[t].req
    /\ cmd.arg.module = options.denoise /\ cmd.arg.frameModule = options.denoise
Connecting(t) ==
    task[t].pc = "pipelineInit" =>
        \/ toNode[t] = <<>>
        \/ /\ Len(toNode[t]) = 1 /\ StartsWith(t, Head(toNode[t]))
           /\ toWorker[t] = <<>> /\ fromWorker[t] = <<>>
           /\ \A k \in Ids : \A i \in DOMAIN toMain[k] : toMain[k][i].id # task[t].req

\* A worker's port leads to the worklet of the same init call, and a worker that
\* does not exist yet has its processing on.
Ports(p) ==
    /\ portHolder[p].at = "worklet" => portHolder[p].node = p
    /\ workerLife[p] = "none" => worker[p].processingEnabled

\* While the pipeline is up its worklet has at most the command of the running
\* setter to execute, and confirms it.
Setting ==
    published # None =>
        /\ running = NoRequest => toNode[node] = <<>>
        /\ running # NoRequest =>
              /\ toNode[node] = <<>> \/ toNode[node] = <<SetterCommand(Head(setters), running)>>
              /\ Head(setters).kind = "setEnabled" => enabled = Head(setters).arg
              /\ \A k \in Ids : \A i \in DOMAIN toMain[k] :
                    toMain[k][i].id = running => toMain[k][i].ok /\ toNode[node] = <<>>
              /\ \A k \in Ids : k # node => \A i \in DOMAIN toNode[k] : toNode[k][i].id # running

Startup(t) == Starting(t) /\ Initialising(t) /\ Connecting(t) /\ Ports(t)

AgreementInv == (\A t \in Ids : Startup(t)) /\ Setting /\ Agreed

-----------------------------------------------------------------------------
(* Queues and configs. *)

LEMMA LatestAppend ==
    ASSUME NEW T, NEW q \in Seq(T), NEW e \in T, NEW S, NEW now, NEW m
    PROVE  /\ e \in S => Latest(Append(q, e), S, now, e)
           /\ e \notin S /\ Latest(q, S, now, m) => Latest(Append(q, e), S, now, m)
PROOF
<1> DEFINE r == Append(q, e)
<1>1. /\ DOMAIN r = DOMAIN q \cup {Len(q) + 1} /\ r[Len(q) + 1] = e
      /\ \A i \in DOMAIN q : r[i] = q[i] /\ i \in Nat /\ i < Len(q) + 1
  BY AppendFacts
<1>2. Len(q) \in Nat
  OBVIOUS
<1> HIDE DEF r
<1>3. CASE e \in S
  <2>1. \A j \in DOMAIN r : ~(j > Len(q) + 1)
    BY <1>1, <1>2
  <2> QED BY <1>1, <1>3, <2>1 DEF Latest, r
<1>4. CASE e \notin S /\ Latest(q, S, now, m)
  <2>1. CASE now = m /\ \A j \in DOMAIN q : q[j] \notin S
    BY <1>1, <1>4, <2>1 DEF Latest, r
  <2>2. CASE \E i \in DOMAIN q : q[i] \in S /\ q[i] = m /\ \A j \in DOMAIN q : j > i => q[j] \notin S
    <3>1. PICK i \in DOMAIN q : q[i] \in S /\ q[i] = m /\ \A j \in DOMAIN q : j > i => q[j] \notin S
      BY <2>2
    <3>2. i \in DOMAIN r /\ r[i] = m /\ r[i] \in S /\ \A j \in DOMAIN r : j > i => r[j] \notin S
      BY <1>1, <1>4, <3>1
    <3> QED BY <1>4, <3>2 DEF Latest, r
  <2> QED BY <1>4, <2>1, <2>2 DEF Latest
<1> QED BY <1>3, <1>4

LEMMA LatestTail ==
    ASSUME NEW T, NEW q \in Seq(T), q # <<>>, NEW S, NEW now, NEW m, Latest(q, S, now, m)
    PROVE  /\ Head(q) \in S => Latest(Tail(q), S, Head(q), m)
           /\ Head(q) \notin S => Latest(Tail(q), S, now, m)
PROOF
<1> DEFINE r == Tail(q)
<1>1. /\ Len(q) \in Nat \ {0} /\ DOMAIN q = 1 .. Len(q) /\ Head(q) = q[1]
      /\ DOMAIN r = 1 .. Len(q) - 1 /\ \A i \in DOMAIN r : r[i] = q[i + 1]
  <2>1. Len(q) \in Nat /\ Len(q) # 0
    BY EmptySeq
  <2>2. Len(r) = Len(q) - 1 /\ r \in Seq(T)
    BY <2>1
  <2> QED BY <2>1, <2>2
<1> HIDE DEF r
<1>2. CASE now = m /\ \A j \in DOMAIN q : q[j] \notin S
  <2>1. \A j \in DOMAIN r : r[j] \notin S
    BY <1>1, <1>2
  <2>2. Head(q) \notin S
    BY <1>1, <1>2
  <2> QED BY <1>2, <2>1, <2>2 DEF Latest, r
<1>3. CASE \E i \in DOMAIN q : q[i] \in S /\ q[i] = m /\ \A j \in DOMAIN q : j > i => q[j] \notin S
  <2>1. PICK i \in DOMAIN q : q[i] \in S /\ q[i] = m /\ \A j \in DOMAIN q : j > i => q[j] \notin S
    BY <1>3
  <2>2. CASE i = 1
    <3>1. Head(q) = m /\ Head(q) \in S /\ \A j \in DOMAIN r : r[j] \notin S
      BY <1>1, <2>1, <2>2
    <3> QED BY <3>1 DEF Latest, r
  <2>3. CASE i # 1
    <3> DEFINE k == i - 1
    <3>1. k \in DOMAIN r /\ r[k] = m /\ r[k] \in S /\ \A j \in DOMAIN r : j > k => r[j] \notin S
      BY <1>1, <2>1, <2>3
    <3> HIDE DEF k
    <3> QED BY <3>1 DEF Latest, r
  <2> QED BY <2>2, <2>3
<1> QED BY <1>2, <1>3 DEF Latest

LEMMA LatestEmpty ==
    ASSUME NEW S, NEW now, NEW m
    PROVE  Latest(<<>>, S, now, m) <=> now = m
PROOF BY DEF Latest

\* A setter sends the worker a whole config, which replaces the one it has.
LEMMA MergeWhole ==
    ASSUME NEW m \in Modules, NEW base \in Config(m), NEW c \in Config(m)
    PROVE  Merge(base, c) = c
PROOF BY DEF Merge, Config

LEMMA MessagesApart ==
    /\ \A m \in Modules : ModuleIs(m) \in ModuleMessages /\ ChangedTo(m) \in ChangedMessages
    /\ \A b \in BOOLEAN : EnabledIs(b) \in EnabledMessages
    /\ \A m \in Modules : \A c \in Config(m) : ConfigIs(m, c) \in ConfigMessages(m)
    /\ \A a, b : /\ ModuleIs(a) = ModuleIs(b) => a = b
                 /\ ChangedTo(a) = ChangedTo(b) => a = b
                 /\ EnabledIs(a) = EnabledIs(b) => a = b
                 /\ \A m \in Modules : ConfigIs(m, a) = ConfigIs(m, b) => a = b
PROOF
<1>1. \A a, b : /\ ModuleIs(a) = ModuleIs(b) => a = b
                /\ ChangedTo(a) = ChangedTo(b) => a = b
                /\ EnabledIs(a) = EnabledIs(b) => a = b
  BY DEF ModuleIs, ChangedTo, EnabledIs, Msg
<1>2. \A a, b : \A m \in Modules : ConfigIs(m, a) = ConfigIs(m, b) => a = b
  BY DEF ConfigIs, Msg
<1>3. /\ \A m \in Modules : ModuleIs(m) \in ModuleMessages /\ ChangedTo(m) \in ChangedMessages
      /\ \A b \in BOOLEAN : EnabledIs(b) \in EnabledMessages
  BY DEF ModuleIs, ChangedTo, EnabledIs, Msg, ModuleMessages, ChangedMessages, EnabledMessages
<1>4. \A m \in Modules : \A c \in Config(m) : ConfigIs(m, c) \in ConfigMessages(m)
  BY DEF ConfigIs, Msg, ConfigMessages
<1> QED BY <1>1, <1>2, <1>3, <1>4

-----------------------------------------------------------------------------
(* What a step leaves alone. *)

\* A pipeline that is up has its own worker, initialised and not told to stop.
LEMMA UpNode ==
    ASSUME ControlInv, LifecycleInv, Up
    PROVE  /\ node \in Ids /\ node # None /\ workerRef = node /\ workerLife[node] = "alive"
           /\ worker[node].loaded = Modules /\ ~Fresh(node) /\ Announced(node) /\ QueueOf(node) /\ PortOf(node)
           /\ \A t \in Ids : InProgress(t) => t = node
PROOF
<1>1. node \in Ids /\ workerRef = node /\ Announced(node)
  <2>1. CASE published # None
    BY <2>1 DEF LifecycleInv, Serving, Announced, ControlInv, ControlType, MainType
  <2>2. ASSUME NEW t \in Ids, task[t].pc = "pipelineInit"
        PROVE  node \in Ids /\ workerRef = node /\ Announced(node)
    BY <2>2 DEF LifecycleInv, Alone, Announced
  <2> QED BY <2>1, <2>2 DEF Up
<1>2. node # None /\ workerLife[node] = "alive"
  BY <1>1, Constants DEF ControlInv, Handles, HandlesAreLive
<1>3. worker[node].loaded = Modules /\ ~Fresh(node) /\ QueueOf(node) /\ PortOf(node)
  BY <1>1 DEF LifecycleInv, Messages, LoadedOf
<1>4. \A t \in Ids : InProgress(t) => t = node
  <2>1. CASE published # None
    BY <2>1 DEF LifecycleInv, Alone
  <2>2. ASSUME NEW t \in Ids, task[t].pc = "pipelineInit"
        PROVE  \A s \in Ids : InProgress(s) => s = node
    BY <2>2 DEF LifecycleInv, Alone, InProgress
  <2> QED BY <2>1, <2>2 DEF Up
<1> QED BY <1>1, <1>2, <1>3, <1>4

\* The part of the invariant about one init call, for a step that does not
\* concern it or ends it.
LEMMA StartupKept ==
    ASSUME ControlType, NEW t \in Ids, Startup(t),
           task'[t] = task[t] \/ ~InProgress(t)',
           InProgress(t) => UNCHANGED <<options, enabled, setters>>,
           InProgress(t) => /\ toNode'[t] = toNode[t] /\ toWorker'[t] = toWorker[t]
                            /\ fromWorker'[t] = fromWorker[t] /\ worker'[t] = worker[t],
           InProgress(t) /\ task[t].pc = "pipelineInit" => \A k \in Ids : \A i \in DOMAIN toMain'[k] :
               toMain'[k][i].id = task[t].req => \E j \in DOMAIN toMain[k] : toMain[k][j].id = task[t].req,
           Ports(t)'
    PROVE  Startup(t)'
PROOF
<1>1. CASE ~InProgress(t)'
  BY <1>1 DEF Startup, InProgress, Starting, Initialising, Connecting
<1>2. CASE InProgress(t)' /\ task'[t] = task[t]
  <2>1. InProgress(t)
    BY <1>2 DEF InProgress
  <2>2. Starting(t)'
    BY <1>2, <2>1 DEF Startup, Starting
  <2>3. Initialising(t)'
    BY <1>2, <2>1 DEF Startup, Initialising, InitMessage, InitAnswered, Live
  <2>4. Connecting(t)'
    BY <1>2, <2>1 DEF Startup, Connecting, StartsWith
  <2> QED BY <2>2, <2>3, <2>4 DEF Startup
<1> QED BY <1>1, <1>2

\* Agreement, for a step that touches nothing of the pipeline that is up.
LEMMA AgreedKept ==
    ASSUME ControlInv, LifecycleInv, Agreed, Up' => Up,
           Up => /\ UNCHANGED <<node, enabled, options, running>>
                 /\ running # NoRequest => Head(setters') = Head(setters)
                 /\ toNode'[node] = toNode[node] /\ toWorker'[node] = toWorker[node]
                 /\ fromWorker'[node] = fromWorker[node] /\ worker'[node] = worker[node]
                 /\ portHolder'[node] = portHolder[node]
                 /\ worklet'[node].currentModuleId = worklet[node].currentModuleId
                 /\ worklet'[node].frameModule = worklet[node].frameModule
    PROVE  Agreed'
PROOF
<1> SUFFICES ASSUME Up' PROVE (/\ WorkerAgrees(node)
                               /\ NotNext("SET_ENABLED") => WorkerEnabled(node)
                               /\ NotNext("INIT_PIPELINE") => WorkletAgrees(node))'
  BY DEF Agreed
<1>1. Up /\ node' = node
  OBVIOUS
<1>2. Asked' = Asked
  BY <1>1 DEF Asked, NextOptions
<1>3. /\ NotNext("SET_ENABLED")' = NotNext("SET_ENABLED")
      /\ NotNext("INIT_PIPELINE")' = NotNext("INIT_PIPELINE")
  BY <1>1 DEF NotNext
<1>4. WorkerAgrees(node)'
  BY <1>1, <1>2 DEF Agreed, WorkerAgrees, Live
<1>5. NotNext("SET_ENABLED") => WorkerEnabled(node)'
  BY <1>1 DEF Agreed, WorkerEnabled
<1>6. NotNext("INIT_PIPELINE") => WorkletAgrees(node)'
  BY <1>1, <1>2 DEF Agreed, WorkletAgrees
<1> QED BY <1>3, <1>4, <1>5, <1>6

LEMMA SettingKept ==
    ASSUME ControlInv, LifecycleInv, Setting, published' # None => published # None,
           published # None =>
               /\ UNCHANGED <<node, enabled, options, running>>
               /\ running # NoRequest => Head(setters') = Head(setters)
               /\ toNode'[node] = toNode[node]
               /\ \A k \in Ids : \A i \in DOMAIN toMain'[k] :
                      \E j \in DOMAIN toMain[k] : toMain'[k][i] = toMain[k][j]
               /\ \A k \in Ids : \A i \in DOMAIN toNode'[k] :
                      \E j \in DOMAIN toNode[k] : toNode'[k][i] = toNode[k][j]
    PROVE  Setting'
PROOF
<1>1. running # NoRequest /\ published # None =>
          SetterCommand(Head(setters), running)' = SetterCommand(Head(setters), running)
  BY DEF SetterCommand, NextOptions
<1> QED BY <1>1 DEF Setting

-----------------------------------------------------------------------------
(* Calls of the application. *)

LEMMA AgreeCalled ==
    ASSUME ControlInv, LifecycleInv, AgreementInv, AgreementRules, NEW t \in Ids, CallInit(t)
    PROVE  AgreementInv'
PROOF
<1>0. /\ ControlType /\ setters = <<>> /\ enabled /\ node = None /\ ~Busy
      /\ UNCHANGED <<enabled, options, node, published, setters, running, workerVars, workletVars>>
  BY DEF ControlInv, CallInit, MayInit, AgreementRules
<1>1. published = None
  BY <1>0 DEF ControlInv, Handles, HandlesAreLive
<1>2. task[t].pc = "idle" /\ task'[t].pc = "loading" /\ \A s \in Ids : s # t => task'[s] = task[s]
  BY <1>0 DEF CallInit, NextTask, ControlType, MainType, Tasks
<1>3. \A s \in Ids : ~InProgress(s)
  BY <1>0 DEF Busy
<1>4. ASSUME NEW s \in Ids PROVE Startup(s)'
  <2>0. Startup(s)
    BY DEF AgreementInv
  <2>1. Ports(s)'
    BY <1>0, <2>0 DEF Startup, Ports, workerVars
  <2>2. CASE s # t
    BY <1>0, <1>2, <1>3, <2>0, <2>1, <2>2, StartupKept
  <2>3. CASE s = t
    BY <1>0, <1>2, <2>1, <2>3 DEF Startup, Starting, Initialising, Connecting
  <2> QED BY <2>2, <2>3
<1>5. Setting' /\ Agreed'
  BY <1>0, <1>1, <1>2, <1>3 DEF Setting, Agreed, Up, InProgress
<1> QED BY <1>4, <1>5 DEF AgreementInv

\* destroy() and restart(): nothing is up any more.
LEMMA AgreeClosed ==
    ASSUME ControlInv, LifecycleInv, AgreementInv, NEW started \in SUBSET Ids, CloseInternal(started),
           ~Busy, started # {} => setters = <<>> /\ enabled,
           \A s \in started : task[s].pc = "idle"
    PROVE  AgreementInv'
PROOF
<1>0. ControlType /\ node \in {None} \cup Ids /\ workerRef \in {None} \cup Ids
  BY DEF ControlInv, ControlType, MainType
<1>1. /\ published' = None /\ UNCHANGED <<enabled, worker, fromWorker, portHolder, worklet, toMain>>
  BY DEF CloseInternal, DropHandles
<1>2. \A t \in Ids : ~InProgress(t) /\ task[t].req \notin pending
  BY DEF Busy, InProgress, ControlInv, Requests
<1>3. \A t \in Ids : task'[t] = task[t] \/ (t \in started /\ task'[t].pc = "loading")
  BY <1>0, <1>2, Types DEF CloseInternal, Tasks
<1>4. setters = <<>> => setters' = <<>>
  <2>1. setters = <<>> => running \notin pending
    BY <1>0 DEF ControlType, MainType, ControlInv, TransportInv, TransportTypeOK, RequestIds, NoRequest
  <2> QED BY <2>1 DEF CloseInternal, RejectAwaiting
<1>5. ASSUME NEW s \in Ids PROVE Startup(s)'
  <2>0. Startup(s)
    BY DEF AgreementInv
  <2>1. workerLife'[s] = "none" => workerLife[s] = "none"
    BY <1>0 DEF CloseInternal, TerminateWorker, ControlType, WorkerType
  <2>2. Ports(s)'
    BY <1>1, <2>0, <2>1 DEF Startup, Ports
  <2>3. CASE task'[s] = task[s]
    BY <1>0, <1>2, <2>0, <2>2, <2>3, StartupKept
  <2>4. CASE s \in started /\ task'[s].pc = "loading"
    BY <1>1, <1>4, <2>2, <2>4 DEF Startup, Starting, Initialising, Connecting
  <2> QED BY <1>3, <2>3, <2>4
<1>6. Setting' /\ Agreed'
  BY <1>1, <1>2, <1>3 DEF Setting, Agreed, Up, InProgress
<1> QED BY <1>5, <1>6 DEF AgreementInv

LEMMA AgreeSet ==
    ASSUME ControlInv, LifecycleInv, AgreementInv, AgreementRules, NEW op \in Ops, CallSetter(op)
    PROVE  AgreementInv'
PROOF
<1>0. /\ ControlType /\ ~Busy /\ setters' = Append(setters, op)
      /\ UNCHANGED <<enabled, options, node, published, task, running, workerVars, workletVars>>
  BY DEF ControlInv, CallSetter, AgreementRules
<1>1. running # NoRequest => Head(setters') = Head(setters)
  <2>1. setters \in Seq(Ops) /\ (running # NoRequest => setters # <<>>)
    BY <1>0 DEF ControlType, MainType
  <2> QED BY <1>0, <2>1, AppendFacts
<1>2. ASSUME NEW s \in Ids PROVE Startup(s)'
  <2>0. Startup(s) /\ ~InProgress(s)
    BY <1>0 DEF AgreementInv, Busy
  <2>1. Ports(s)'
    BY <1>0, <2>0 DEF Startup, Ports, workerVars
  <2> QED BY <1>0, <2>0, <2>1, StartupKept
<1>3. Setting'
  BY <1>0, <1>1, SettingKept DEF AgreementInv, workletVars
<1>4. Agreed'
  BY <1>0, <1>1, AgreedKept DEF AgreementInv, Up, workerVars, workletVars
<1> QED BY <1>2, <1>3, <1>4 DEF AgreementInv

-----------------------------------------------------------------------------
(* The steps of an init call. *)

LEMMA AgreeFailed ==
    ASSUME ControlInv, LifecycleInv, AgreementInv, NEW t \in Ids,
           LoadFails(t) \/ FetchFails(t) \/ WorkerInitFails(t)
    PROVE  AgreementInv'
PROOF
<1>0. /\ ControlType /\ Fail(t) /\ task[t].pc \in {"loading", "fetching", "workerInit"}
      /\ UNCHANGED <<enabled, options, node, published, setters, running, workerLife, worker, toWorker,
                     workletVars>>
  BY DEF ControlInv, LoadFails, FetchFails, WorkerInitFails, workerVars
<1>1. published = None /\ \A s \in Ids : s # t => ~InProgress(s)
  BY <1>0 DEF LifecycleInv, Alone, InProgress
<1>2. task'[t].pc = "failed" /\ \A s \in Ids : s # t => task'[s] = task[s]
  BY <1>0 DEF Fail, ControlType, MainType, Tasks
<1>3. ASSUME NEW s \in Ids
      PROVE  portHolder'[s] = portHolder[s] \/ portHolder'[s].at = "closed"
  BY <1>0 DEF LoadFails, FetchFails, WorkerInitFails, ClosePort, workerVars, ControlType, WorkerType
<1>4. ASSUME NEW s \in Ids PROVE Startup(s)'
  <2>0. Startup(s)
    BY DEF AgreementInv
  <2>1. Ports(s)'
    BY <1>0, <1>3, <2>0 DEF Startup, Ports
  <2>2. ~InProgress(s)'
    BY <1>1, <1>2 DEF InProgress
  <2> QED BY <2>1, <2>2 DEF Startup, InProgress, Starting, Initialising, Connecting
<1>5. Setting' /\ Agreed'
  BY <1>0, <1>1, <1>2 DEF Setting, Agreed, Up, InProgress
<1> QED BY <1>4, <1>5 DEF AgreementInv

LEMMA AgreeLoaded ==
    ASSUME ControlInv, LifecycleInv, AgreementInv, NEW t \in Ids, WorkletLoaded(t)
    PROVE  AgreementInv'
PROOF
<1>0. /\ ControlType /\ task[t].pc = "loading"
      /\ UNCHANGED <<enabled, options, published, setters, running, workerVars, toNode, toMain>>
  BY DEF ControlInv, WorkletLoaded
<1>1. published = None /\ \A s \in Ids : s # t => ~InProgress(s)
  BY <1>0 DEF LifecycleInv, Alone, InProgress
<1>2. /\ task'[t].pc = "fetching" /\ task'[t].module = options.denoise /\ task'[t].configs = options.configs
      /\ \A s \in Ids : s # t => task'[s] = task[s]
  BY <1>0 DEF WorkletLoaded, ControlType, MainType, Tasks
<1>3. toNode[t] = <<>>
  BY <1>0 DEF ControlInv, Handles
<1>4. ASSUME NEW s \in Ids PROVE Startup(s)'
  <2>0. Startup(s)
    BY DEF AgreementInv
  <2>1. Ports(s)'
    BY <1>0, <2>0 DEF Startup, Ports, workerVars
  <2>2. CASE s # t
    BY <1>0, <1>1, <1>2, <2>0, <2>1, <2>2, StartupKept
  <2>3. CASE s = t
    BY <1>0, <1>2, <1>3, <2>0, <2>1, <2>3
       DEF Startup, InProgress, Starting, Initialising, Connecting
  <2> QED BY <2>2, <2>3
<1>5. Setting' /\ Agreed'
  BY <1>0, <1>1, <1>2 DEF Setting, Agreed, Up, InProgress
<1> QED BY <1>4, <1>5 DEF AgreementInv

LEMMA AgreeFetched ==
    ASSUME ControlInv, LifecycleInv, AgreementInv, NEW t \in Ids, WasmFetched(t)
    PROVE  AgreementInv'
PROOF
<1>0. /\ ControlType /\ task[t].pc = "fetching"
      /\ UNCHANGED <<enabled, options, node, published, setters, running, worker, fromWorker, portHolder,
                     workletVars>>
  BY DEF ControlInv, WasmFetched
<1>1. published = None /\ \A s \in Ids : s # t => ~InProgress(s)
  BY <1>0 DEF LifecycleInv, Alone, InProgress
<1>2. /\ task'[t].pc = "workerInit" /\ task'[t].module = task[t].module /\ task'[t].configs = task[t].configs
      /\ \A s \in Ids : s # t => task'[s] = task[s]
  BY <1>0 DEF WasmFetched, ControlType, MainType, Tasks
<1>3. workerLife[t] = "none" /\ toWorker[t] = <<>>
  BY <1>0 DEF LifecycleInv, Messages, QueueOf
<1>4. /\ toWorker'[t] = <<InitMessage(t)>>
      /\ \A s \in Ids : s # t => toWorker'[s] = toWorker[s] /\ workerLife'[s] = workerLife[s]
      /\ workerLife'[t] = "alive"
  BY <1>0, <1>3 DEF WasmFetched, ControlType, WorkerType, InitMessage
<1>5. ASSUME NEW s \in Ids PROVE Startup(s)'
  <2>0. Startup(s)
    BY DEF AgreementInv
  <2>1. Ports(s)'
    BY <1>0, <1>4, <2>0 DEF Startup, Ports
  <2>2. CASE s # t
    BY <1>0, <1>1, <1>2, <2>0, <2>1, <2>2, StartupKept
  <2>3. CASE s = t
    <3>1. Starting(t)'
      BY <1>0, <1>2, <2>0, <2>3 DEF Startup, InProgress, Starting
    <3>2. InitMessage(t)' = InitMessage(t)
      BY <1>2 DEF InitMessage
    <3>3. worker'[t].processingEnabled /\ toNode'[t] = <<>>
      BY <1>0, <1>3, <2>0, <2>3 DEF Startup, Ports, Initialising, workletVars
    <3>4. Initialising(t)' /\ Connecting(t)'
      BY <1>2, <1>4, <3>2, <3>3 DEF Initialising, Connecting
    <3> QED BY <2>1, <2>3, <3>1, <3>4 DEF Startup
  <2> QED BY <2>2, <2>3
<1>6. Setting' /\ Agreed'
  BY <1>0, <1>1, <1>2 DEF Setting, Agreed, Up, InProgress
<1> QED BY <1>5, <1>6 DEF AgreementInv

\* The worker runs the module and configs of the options when the pipeline
\* command is posted.
LEMMA AgreeAnswered ==
    ASSUME ControlInv, LifecycleInv, AgreementInv, NEW t \in Ids, WorkerInitOk(t)
    PROVE  AgreementInv'
PROOF
<1> DEFINE cmd == PipelineCommand(t)
<1>0. /\ ControlType /\ task[t].pc = "workerInit" /\ fromWorker[t] # <<>> /\ Head(fromWorker[t]).type = "INIT_OK"
      /\ UNCHANGED <<enabled, options, node, published, setters, running, workerLife, worker, toWorker,
                     worklet, toMain>>
  BY DEF ControlInv, WorkerInitOk
<1>1. published = None /\ node = t /\ \A s \in Ids : s # t => ~InProgress(s)
  BY <1>0 DEF LifecycleInv, Alone, InProgress
<1>2. /\ Post(cmd) /\ fromWorker' = [fromWorker EXCEPT ![t] = Tail(@)]
      /\ task' = [task EXCEPT ![t] = [@ EXCEPT !.pc = "pipelineInit", !.req = nextRequestId]]
      /\ portHolder' = [portHolder EXCEPT ![t].at = "transit"]
  BY <1>1, Constants DEF WorkerInitOk, PipelineCommand
<1>3. /\ task'[t].pc = "pipelineInit" /\ task'[t].req = nextRequestId
      /\ task'[t].module = task[t].module /\ task'[t].configs = task[t].configs
      /\ \A s \in Ids : s # t => task'[s] = task[s]
  BY <1>0, <1>2 DEF ControlType, MainType, Tasks
<1>4. /\ setters = <<>> /\ enabled /\ running = NoRequest /\ task[t].module = options.denoise
      /\ task[t].configs = options.configs /\ toNode[t] = <<>> /\ worker[t].processingEnabled
  BY <1>0 DEF AgreementInv, Startup, Starting, Initialising, InProgress, ControlType, MainType
<1>5. toWorker[t] = <<>> /\ Len(fromWorker[t]) \in {0, 1} /\ InitAnswered(t)
  <2>1. QueueOf(t)
    BY DEF LifecycleInv, Messages
  <2>2. toWorker[t] # <<InitMessage(t)>>
    BY <1>0, <2>1 DEF QueueOf, Fresh, InitMessage, Msg
  <2> QED BY <1>0, <2>2 DEF AgreementInv, Startup, Initialising
<1>6. fromWorker'[t] = <<>> /\ \A s \in Ids : s # t => fromWorker'[s] = fromWorker[s]
  <2>1. fromWorker \in [Ids -> Seq(WorkerReplies)] /\ fromWorker[t] \in Seq(WorkerReplies)
    BY <1>0 DEF ControlType, WorkerType
  <2>2. Len(fromWorker[t]) = 1
    <3>1. Len(fromWorker[t]) # 0
      BY <1>0, <2>1, EmptySeq
    <3> QED BY <1>5, <3>1
  <2>3. Tail(fromWorker[t]) = <<>>
    <3>1. Tail(fromWorker[t]) \in Seq(WorkerReplies) /\ Len(Tail(fromWorker[t])) = 0
      BY <1>0, <2>1, <2>2
    <3> QED BY <3>1, EmptySeq
  <2> QED BY <1>2, <2>1, <2>3
<1>7. cmd \in Commands /\ cmd.type = "INIT_PIPELINE" /\ cmd.id = nextRequestId
      /\ cmd.arg.module = options.denoise /\ cmd.arg.frameModule = options.denoise
  <2>1. cmd \in Commands
    BY <1>0, <1>2, PipelineCommandType DEF Post, Send
  <2>2. cmd.arg.frameModule = options.denoise
    BY <1>0, <1>5 DEF InitAnswered, PipelineCommand, Command
  <2> QED BY <1>4, <2>1, <2>2 DEF PipelineCommand, Command
<1>8. toNode'[t] = <<cmd>> /\ \A s \in Ids : s # t => toNode'[s] = toNode[s]
  BY <1>0, <1>1, <1>2, <1>4 DEF Post, ControlType, WorkletType
<1>9. /\ portHolder'[t].at = "transit" /\ \A s \in Ids : s # t => portHolder'[s] = portHolder[s]
  BY <1>0, <1>2 DEF ControlType, WorkerType, PortHolders
<1>10. \A k \in Ids : \A i \in DOMAIN toMain[k] : toMain[k][i].id # nextRequestId
  <2>1. nextRequestId \in Nat
    BY RequestsAssumption DEF ControlInv, TransportInv, TransportTypeOK
  <2> QED BY <2>1 DEF LifecycleInv, Messages, IdsOf
<1>11. ASSUME NEW s \in Ids PROVE Startup(s)'
  <2>0. Startup(s)
    BY DEF AgreementInv
  <2>1. Ports(s)'
    BY <1>0, <1>9, <2>0 DEF Startup, Ports
  <2>2. CASE s # t
    BY <1>0, <1>1, <1>3, <1>6, <1>8, <2>0, <2>1, <2>2, StartupKept
  <2>3. CASE s = t
    <3>1. Starting(t)' /\ Initialising(t)'
      BY <1>0, <1>3, <1>4 DEF Starting, Initialising
    <3>2. Len(toNode'[t]) = 1 /\ Head(toNode'[t]) = cmd
      BY <1>8
    <3>3. /\ Head(toNode'[t]).type = "INIT_PIPELINE" /\ Head(toNode'[t]).id = task'[t].req
          /\ Head(toNode'[t]).arg.module = options'.denoise /\ Head(toNode'[t]).arg.frameModule = options'.denoise
      BY <1>0, <1>3, <1>7, <3>2
    <3>4. Connecting(t)'
      BY <1>0, <1>3, <1>5, <1>6, <1>10, <3>2, <3>3 DEF Connecting, StartsWith
    <3> QED BY <2>1, <2>3, <3>1, <3>4 DEF Startup
  <2> QED BY <2>2, <2>3
<1>12. Setting'
  BY <1>0, <1>1 DEF Setting
<1>13. Agreed'
  <2>1. Asked' = options
    BY <1>0, <1>4 DEF Asked
  <2>2. WorkerAgrees(t)'
    <3>1. worker[t].currentModuleId = options.denoise /\ worker[t].configs = options.configs /\ Live(t)
      BY <1>0, <1>5 DEF InitAnswered
    <3> QED BY <1>0, <1>5, <2>1, <3>1, LatestEmpty DEF WorkerAgrees, Live
  <2>3. WorkerEnabled(t)'
    <3>1. worker[t].processingEnabled \in BOOLEAN /\ enabled \in BOOLEAN
      BY <1>0, Types DEF Workers, ControlType, MainType
    <3>2. worker[t].processingEnabled = enabled
      BY <1>4, <3>1
    <3> QED BY <1>0, <1>5, <3>2, LatestEmpty DEF WorkerEnabled
  <2>4. ~NotNext("INIT_PIPELINE")'
    BY <1>0, <1>1, <1>7, <1>8 DEF NotNext
  <2> QED BY <1>0, <1>1, <2>2, <2>3, <2>4 DEF Agreed
<1> QED BY <1>11, <1>12, <1>13 DEF AgreementInv

-----------------------------------------------------------------------------
(* The setters and the replies. *)

LEMMA AgreeSent ==
    ASSUME ControlInv, LifecycleInv, AgreementInv, StartSetter
    PROVE  AgreementInv'
PROOF
<1> DEFINE op == Head(setters)
<1>0. /\ ControlType /\ setters # <<>> /\ running = NoRequest
      /\ UNCHANGED <<node, published, task, workerVars, worklet, toMain>>
      /\ enabled' = IF op.kind = "setEnabled" THEN op.arg ELSE enabled
  BY DEF ControlInv, StartSetter
<1>1. /\ \A s \in Ids : ~InProgress(s)
      /\ (Up <=> published # None) /\ (Up' <=> published # None)
      /\ op \in Ops /\ options \in Options
  <2>1. \A s \in Ids : ~InProgress(s)
    BY <1>0 DEF AgreementInv, Startup, Starting
  <2>2. op \in Ops
    BY <1>0, TailFacts DEF ControlType, MainType
  <2> QED BY <1>0, <2>1, <2>2 DEF Up, InProgress, ControlType, MainType
<1>2. ASSUME NEW s \in Ids PROVE Startup(s)'
  <2>0. Startup(s)
    BY DEF AgreementInv
  <2>1. Ports(s)'
    BY <1>0, <2>0 DEF Startup, Ports, workerVars
  <2> QED BY <1>0, <1>1, <2>0, <2>1, StartupKept
<1>3. CASE published = None
  BY <1>0, <1>1, <1>2, <1>3 DEF AgreementInv, Setting, Agreed
<1>4. CASE published # None
  <2>0. node \in Ids /\ node # None /\ toNode[node] = <<>> /\ Asked = options
    BY <1>0, <1>1, <1>4, UpNode DEF AgreementInv, Setting, Asked
  <2>1. CASE FinishSetter(TRUE) /\ UNCHANGED toNode /\ op.kind = "setStageModule" /\ options.denoise = op.arg
    <3>1. options' = options
      BY <1>1, <2>1, NextOptionsType DEF FinishSetter, Options
    <3>2. Setting'
      BY <1>0, <2>0, <2>1, <3>1, SettingKept DEF AgreementInv, FinishSetter
    <3>3. Agreed'
      BY <1>0, <1>1, <2>0, <2>1, <3>1, AgreedKept DEF AgreementInv, FinishSetter, workerVars
    <3> QED BY <1>2, <3>2, <3>3 DEF AgreementInv
  <2>2. CASE Post(SetterCommand(op, nextRequestId)) /\ running' = nextRequestId /\ UNCHANGED <<setters, options>>
    <3> DEFINE cmd == SetterCommand(op, nextRequestId)
    <3>0. /\ cmd \in Commands /\ cmd.type # "INIT_PIPELINE" /\ (cmd.type = "SET_ENABLED" <=> op.kind = "setEnabled")
      <4>1. nextRequestId \in RequestIds
        BY <2>2 DEF Post, Send
      <4> QED BY <1>1, <4>1, SetterCommandType DEF SetterCommand, Command
    <3>1. toNode'[node] = <<cmd>> /\ \A k \in Ids : k # node => toNode'[k] = toNode[k]
      BY <1>0, <2>0, <2>2 DEF Post, ControlType, WorkletType
    <3>2. /\ nextRequestId \in Nat /\ nextRequestId # NoRequest
          /\ \A k \in Ids : /\ \A i \in DOMAIN toMain[k] : toMain[k][i].id # nextRequestId
                            /\ \A i \in DOMAIN toNode[k] : toNode[k][i].id # nextRequestId
      <4>1. nextRequestId \in Nat /\ nextRequestId # NoRequest
        BY RequestsAssumption DEF ControlInv, TransportInv, TransportTypeOK, NoRequest
      <4> QED BY <4>1 DEF LifecycleInv, Messages, IdsOf
    <3>3. SetterCommand(Head(setters), running)' = cmd
      BY <2>2 DEF SetterCommand, NextOptions
    <3>4. Setting'
      BY <1>0, <2>2, <3>1, <3>2, <3>3 DEF Setting
    <3>5. Agreed'
      <4>1. Asked' = options /\ toNode'[node] # <<>> /\ Head(toNode'[node]) = cmd
        BY <1>0, <2>2, <3>1 DEF Asked
      <4>2. /\ WorkerAgrees(node) /\ WorkerEnabled(node) /\ WorkletAgrees(node)
        BY <1>1, <1>4, <2>0 DEF AgreementInv, Agreed, NotNext
      <4>3. WorkerAgrees(node)' /\ WorkletAgrees(node)'
        BY <1>0, <2>0, <4>1, <4>2 DEF WorkerAgrees, WorkletAgrees, Live, workerVars
      <4>4. NotNext("SET_ENABLED")' => enabled' = enabled
        BY <1>0, <3>0, <4>1 DEF NotNext
      <4>5. NotNext("SET_ENABLED")' => WorkerEnabled(node)'
        BY <1>0, <4>2, <4>4 DEF WorkerEnabled, workerVars
      <4> QED BY <1>0, <4>3, <4>5 DEF Agreed
    <3> QED BY <1>2, <3>4, <3>5 DEF AgreementInv
  <2> QED BY <1>4, <2>0, <2>1, <2>2 DEF StartSetter
<1> QED BY <1>3, <1>4

LEMMA AgreeReplied ==
    ASSUME ControlInv, LifecycleInv, AgreementInv, NEW n \in Ids, ReceiveReply(n)
    PROVE  AgreementInv'
PROOF
<1> DEFINE reply == Head(toMain[n])
<1>0. /\ ControlType /\ toMain[n] # <<>> /\ toMain' = [toMain EXCEPT ![n] = Tail(@)]
      /\ UNCHANGED <<enabled, node, workerVars, worklet, toNode>>
  BY DEF ControlInv, ReceiveReply
<1>1. /\ 1 \in DOMAIN toMain[n] /\ toMain[n][1] = reply /\ reply \in Replies
      /\ \A k \in Ids : \A i \in DOMAIN toMain'[k] : \E j \in DOMAIN toMain[k] : toMain'[k][i] = toMain[k][j]
  <2>1. toMain \in [Ids -> Seq(Replies)] /\ toMain[n] \in Seq(Replies)
    BY <1>0 DEF ControlType, WorkletType
  <2>2. toMain'[n] = Tail(toMain[n]) /\ \A k \in Ids : k # n => toMain'[k] = toMain[k]
    BY <1>0, <2>1
  <2> QED BY <1>0, <2>1, <2>2, TailFacts
<1>2. ASSUME NEW s \in Ids PROVE Startup(s) /\ Ports(s)'
  BY <1>0 DEF AgreementInv, Startup, Ports, workerVars
<1>3. CASE UNCHANGED <<setters, running, options, task, published>>
  <2>1. ASSUME NEW s \in Ids PROVE Startup(s)'
    <3>1. \A k \in Ids : \A i \in DOMAIN toMain'[k] :
              toMain'[k][i].id = task[s].req => \E j \in DOMAIN toMain[k] : toMain[k][j].id = task[s].req
      BY <1>1
    <3> QED BY <1>0, <1>2, <1>3, <3>1, StartupKept DEF workerVars
  <2>2. Setting'
    BY <1>0, <1>1, <1>3, SettingKept DEF AgreementInv
  <2>3. Agreed'
    BY <1>0, <1>3, AgreedKept DEF AgreementInv, Up, workerVars
  <2> QED BY <2>1, <2>2, <2>3 DEF AgreementInv
<1>4. CASE /\ reply.id \in pending /\ reply.id = running /\ FinishSetter(reply.ok)
           /\ UNCHANGED <<task, published>>
  <2>1. running # NoRequest /\ setters # <<>>
    BY <1>0, <1>4, Constants DEF ControlType, MainType, ControlInv, TransportInv, TransportTypeOK
  <2>2. \A s \in Ids : ~InProgress(s) /\ ~InProgress(s)'
    BY <1>4, <2>1 DEF AgreementInv, Startup, Starting, InProgress
  <2>3. ASSUME NEW s \in Ids PROVE Startup(s)'
    BY <1>0, <1>2, <2>2, StartupKept
  <2>4. CASE published = None
    BY <1>4, <2>2, <2>3, <2>4 DEF AgreementInv, Setting, Agreed, Up, InProgress
  <2>5. CASE published # None
    <3>1. reply.ok /\ toNode[node] = <<>>
      BY <1>1, <1>4, <2>1, <2>5 DEF AgreementInv, Setting
    <3>2. running' = NoRequest /\ options' = Asked /\ Asked' = Asked
      BY <1>4, <2>1, <3>1 DEF FinishSetter, Asked
    <3>3. Setting'
      BY <1>0, <3>1, <3>2 DEF Setting
    <3>4. WorkerAgrees(node) /\ WorkerEnabled(node) /\ WorkletAgrees(node)
      BY <2>5, <3>1 DEF AgreementInv, Agreed, Up, NotNext
    <3>5. (WorkerAgrees(node) /\ WorkerEnabled(node) /\ WorkletAgrees(node))'
      BY <1>0, <3>2, <3>4 DEF WorkerAgrees, WorkerEnabled, WorkletAgrees, Live, workerVars
    <3> QED BY <2>3, <3>3, <3>5 DEF AgreementInv, Agreed
  <2> QED BY <2>4, <2>5
<1>5. ASSUME NEW t \in Ids, reply.id \in pending, reply.id = task[t].req,
             task' = [task EXCEPT ![t].pc = IF reply.ok THEN "done" ELSE "failed"],
             published' = IF reply.ok THEN node ELSE published,
             UNCHANGED <<setters, running, options>>
      PROVE  AgreementInv'
  <2>1. task[t].pc = "pipelineInit"
    BY <1>5 DEF ControlInv, Requests
  <2>2. /\ node = t /\ published = None /\ setters = <<>> /\ running = NoRequest
        /\ \A s \in Ids : s # t => ~InProgress(s)
    BY <1>0, <2>1 DEF LifecycleInv, Alone, InProgress, AgreementInv, Startup, Starting, ControlType, MainType
  <2>3. task'[t].pc = (IF reply.ok THEN "done" ELSE "failed") /\ \A s \in Ids : s # t => task'[s] = task[s]
    BY <1>0, <1>5, Types DEF ControlType, MainType, Tasks
  <2>4. toNode[t] = <<>>
    BY <1>1, <1>5, <2>1 DEF AgreementInv, Startup, Connecting
  <2>5. \A s \in Ids : ~InProgress(s)'
    BY <2>2, <2>3 DEF InProgress
  <2>6. ASSUME NEW s \in Ids PROVE Startup(s)'
    BY <1>2, <2>5 DEF Startup, InProgress, Starting, Initialising, Connecting
  <2>7. Setting'
    BY <1>0, <1>5, <2>2, <2>4 DEF Setting
  <2>8. Agreed'
    <3>1. Up
      BY <2>1 DEF Up
    <3> QED BY <1>0, <1>5, <2>2, <3>1, AgreedKept DEF AgreementInv, workerVars
  <2> QED BY <2>6, <2>7, <2>8 DEF AgreementInv
<1>6. \/ UNCHANGED <<setters, running, options, task, published>>
      \/ reply.id \in pending /\ Continue(reply.id, reply.ok)
  BY DEF ReceiveReply
<1> QED BY <1>3, <1>4, <1>5, <1>6 DEF Continue

-----------------------------------------------------------------------------
(* Messages between a worker and its worklet. *)

LEMMA NothingBeforePipeline ==
    ASSUME ControlInv, LifecycleInv, AgreementInv, Up,
           toWorker[node] # <<>> \/ fromWorker[node] # <<>>
    PROVE  NotNext("INIT_PIPELINE")
PROOF
<1>1. CASE published # None
  <2>1. \A op, id : SetterCommand(op, id).type # "INIT_PIPELINE"
    BY DEF SetterCommand, Command
  <2> QED BY <1>1, <2>1 DEF AgreementInv, Setting, NotNext
<1>2. ASSUME NEW t \in Ids, task[t].pc = "pipelineInit" PROVE NotNext("INIT_PIPELINE")
  <2>1. node = t
    BY <1>2 DEF LifecycleInv, Alone
  <2> QED BY <1>2, <2>1 DEF AgreementInv, Startup, Connecting, NotNext
<1> QED BY <1>1, <1>2 DEF Up

LEMMA AgreePort ==
    ASSUME ControlInv, LifecycleInv, AgreementInv, NEW p \in Ids, PortStep(p)
    PROVE  AgreementInv'
PROOF
<1> DEFINE msg == Head(fromWorker[p])
<1>0. /\ ControlType /\ fromWorker[p] # <<>> /\ portHolder[p].at = "worklet"
      /\ UNCHANGED <<mainVars, workerLife, worker, toWorker, portHolder, toNode, toMain>>
      /\ UNCHANGED <<task, node, published, enabled, options, setters, running>>
  BY DEF ControlInv, PortStep, WorkletReceives, mainVars
<1>1. portHolder[p].node = p /\ task[p].pc \notin {"idle", "loading", "fetching", "workerInit"}
  BY <1>0 DEF AgreementInv, Startup, Ports, LifecycleInv, Messages, QueueOf
<1>2. /\ fromWorker[p] \in Seq(WorkerReplies) /\ fromWorker'[p] = Tail(fromWorker[p]) /\ msg \in WorkerReplies
      /\ \A s \in Ids : s # p => fromWorker'[s] = fromWorker[s]
  BY <1>0, TailFacts DEF PortStep, WorkletReceives, ControlType, WorkerType
<1>3. \/ msg.type = "MODULE_CHANGED" /\ worklet' = [worklet EXCEPT ![p].frameModule = msg.arg]
      \/ msg.type = "ERROR" /\ UNCHANGED worklet
  BY <1>1 DEF PortStep, WorkletReceives
<1>4. /\ \A s \in Ids : s # p => worklet'[s] = worklet[s]
      /\ worklet'[p].currentModuleId = worklet[p].currentModuleId
      /\ worklet'[p].frameModule = IF msg.type = "MODULE_CHANGED" THEN msg.arg ELSE worklet[p].frameModule
  <2>1. worklet \in [Ids -> Worklets] /\ worklet[p] \in Worklets
    BY <1>0 DEF ControlType, WorkletType
  <2>2. ASSUME NEW m
        PROVE  /\ [worklet[p] EXCEPT !.frameModule = m].currentModuleId = worklet[p].currentModuleId
               /\ [worklet[p] EXCEPT !.frameModule = m].frameModule = m
    BY <2>1 DEF Worklets
  <2>3. CASE msg.type = "MODULE_CHANGED" /\ worklet' = [worklet EXCEPT ![p].frameModule = msg.arg]
    <3>1. worklet'[p] = [worklet[p] EXCEPT !.frameModule = msg.arg] /\ \A s \in Ids : s # p => worklet'[s] = worklet[s]
      BY <2>1, <2>3
    <3> QED BY <2>2, <2>3, <3>1
  <2>4. CASE msg.type = "ERROR" /\ UNCHANGED worklet
    BY <2>4
  <2> QED BY <1>3, <2>3, <2>4
<1>5. ASSUME NEW s \in Ids PROVE Startup(s)'
  <2>0. Startup(s) /\ Ports(s)'
    BY <1>0 DEF AgreementInv, Startup, Ports
  <2>1. CASE s # p
    BY <1>0, <1>2, <2>0, <2>1, StartupKept
  <2>2. CASE s = p
    <3>1. Starting(p)' /\ Initialising(p)'
      BY <1>0, <1>1, <2>0, <2>2 DEF Startup, Starting, Initialising, InProgress
    <3>2. Connecting(p)'
      BY <1>0, <2>0, <2>2 DEF Startup, Connecting
    <3> QED BY <2>0, <2>2, <3>1, <3>2 DEF Startup
  <2> QED BY <2>1, <2>2
<1>6. Setting'
  BY <1>0, SettingKept DEF AgreementInv
<1>7. Agreed'
  <2>1. CASE p # node
    <3>1. Up => node \in Ids
      BY UpNode
    <3> QED BY <1>0, <1>2, <1>4, <2>1, <3>1, AgreedKept DEF AgreementInv, Up
  <2>2. CASE p = node /\ Up
    <3>1. Asked' = Asked /\ (NotNext("SET_ENABLED")' = NotNext("SET_ENABLED"))
      BY <1>0 DEF Asked, NextOptions, NotNext
    <3>2. WorkerAgrees(p)' /\ (NotNext("SET_ENABLED") => WorkerEnabled(p)')
      BY <1>0, <2>2, <3>1 DEF AgreementInv, Agreed, WorkerAgrees, WorkerEnabled, Live
    <3>3. WorkletAgrees(p)
      BY <1>0, <2>2, NothingBeforePipeline DEF AgreementInv, Agreed
    <3>4. Latest(Tail(fromWorker[p]), ChangedMessages, ChangedTo(worklet'[p].frameModule),
                 ChangedTo(worker[p].currentModuleId))
      <4>1. CASE msg.type = "MODULE_CHANGED"
        <5>1. msg \in ChangedMessages /\ ChangedTo(worklet'[p].frameModule) = msg
          BY <1>2, <1>4, <4>1 DEF WorkerReplies, ChangedMessages, ChangedTo, Msg
        <5> QED BY <1>0, <1>2, <3>3, <5>1, LatestTail DEF WorkletAgrees
      <4>2. CASE msg.type = "ERROR"
        <5>1. msg \notin ChangedMessages /\ worklet'[p].frameModule = worklet[p].frameModule
          BY <1>4, <4>2 DEF ChangedMessages
        <5> QED BY <1>0, <1>2, <3>3, <5>1, LatestTail DEF WorkletAgrees
      <4> QED BY <1>3, <4>1, <4>2
    <3>5. WorkletAgrees(p)'
      BY <1>0, <1>2, <1>4, <3>1, <3>3, <3>4 DEF WorkletAgrees
    <3> QED BY <1>0, <2>2, <3>1, <3>2, <3>5 DEF Agreed
  <2>3. CASE ~Up
    BY <1>0, <2>3 DEF Agreed, Up
  <2> QED BY <2>1, <2>2, <2>3
<1> QED BY <1>5, <1>6, <1>7 DEF AgreementInv

\* A message of the worklet changes of the worker what it is about.
LEMMA WorkerEffect ==
    ASSUME ControlType, NEW w \in Ids, WorkerReceives(w), worker[w].loaded = Modules,
           Head(toWorker[w]).type \notin {"INIT", "DESTROY"}, portHolder[w].at # "closed"
    PROVE  LET msg == Head(toWorker[w])
               r == worker'[w] IN
           \/ /\ msg.type = "SET_MODULE" /\ r.currentModuleId = msg.arg
              /\ r.configs = worker[w].configs /\ r.dfState = worker[w].dfState
              /\ r.processingEnabled = worker[w].processingEnabled
              /\ \/ msg.arg = worker[w].currentModuleId /\ fromWorker'[w] = fromWorker[w]
                 \/ fromWorker'[w] = Append(fromWorker[w], ChangedTo(msg.arg))
           \/ /\ msg.type = "SET_MODULE_CONFIG" /\ r.currentModuleId = worker[w].currentModuleId
              /\ r.configs = [worker[w].configs EXCEPT ![msg.arg.module] = msg.arg.config]
              /\ IF msg.arg.module = "deepfilternet"
                 THEN \A f \in LiveFields : r.dfState[f] = msg.arg.config[f]
                 ELSE r.dfState = worker[w].dfState
              /\ r.processingEnabled = worker[w].processingEnabled
              /\ fromWorker'[w] = fromWorker[w]
           \/ /\ msg.type = "SET_ENABLED" /\ r.processingEnabled = msg.arg
              /\ r.currentModuleId = worker[w].currentModuleId
              /\ r.configs = worker[w].configs /\ r.dfState = worker[w].dfState
              /\ fromWorker'[w] = fromWorker[w]
PROOF
<1> DEFINE msg == Head(toWorker[w])
<1>0. /\ worker \in [Ids -> Workers] /\ worker[w] \in Workers
      /\ fromWorker \in [Ids -> Seq(WorkerReplies)] /\ msg \in WorkerMessages
  BY TailFacts DEF WorkerReceives, ControlType, WorkerType
<1>1. CASE msg.type = "SET_MODULE" /\ HandleSetModule(w, msg.arg)
  <2>0. msg.arg \in Modules
    BY <1>0, <1>1 DEF WorkerMessages
  <2>1. CASE msg.arg = worker[w].currentModuleId /\ UNCHANGED <<worker, fromWorker>>
    BY <1>1, <2>1
  <2>2. CASE /\ worker' = [worker EXCEPT ![w].currentModuleId = msg.arg]
             /\ Respond(w, IF msg.arg \in worker[w].loaded THEN Msg("MODULE_CHANGED", msg.arg)
                                                           ELSE Msg("ERROR", "not available"))
    <3>1. fromWorker'[w] = Append(fromWorker[w], ChangedTo(msg.arg))
      BY <1>0, <2>0, <2>2 DEF Respond, ChangedTo
    <3>2. worker'[w] = [worker[w] EXCEPT !.currentModuleId = msg.arg]
      BY <1>0, <2>2
    <3> QED BY <1>0, <1>1, <3>1, <3>2 DEF Workers
  <2> QED BY <1>1, <2>1, <2>2 DEF HandleSetModule
<1>2. CASE msg.type = "SET_MODULE_CONFIG" /\ HandleSetModuleConfig(w, msg.arg)
  <2> DEFINE m == msg.arg.module
             c == msg.arg.config
             df == IF m = "deepfilternet" THEN UpdatedState(worker[w], c) ELSE worker[w].dfState
  <2>0. m \in Modules /\ c \in Config(m) /\ worker[w].configs \in AllConfigs
    BY <1>0, <1>2 DEF WorkerMessages, ConfigArgs, Modules, Workers
  <2>1. Merge(worker[w].configs[m], c) = c
    <3>1. worker[w].configs[m] \in Config(m)
      BY <2>0 DEF AllConfigs, Modules
    <3> QED BY <2>0, <3>1, MergeWhole
  <2>2. worker'[w] = [worker[w] EXCEPT !.configs = [@ EXCEPT ![m] = c], !.dfState = df]
    BY <1>0, <1>2, <2>1 DEF HandleSetModuleConfig
  <2>3. m = "deepfilternet" => \A f \in LiveFields : df[f] = c[f]
    <3>1. "deepfilternet" \in worker[w].loaded /\ LiveFields \subseteq DOMAIN worker[w].dfState
      BY <1>0 DEF Modules, Workers, Config, Fields, LiveFields
    <3> QED BY <3>1 DEF UpdatedState
  <2> HIDE DEF df
  <2>4. /\ worker'[w].currentModuleId = worker[w].currentModuleId
        /\ worker'[w].configs = [worker[w].configs EXCEPT ![m] = c] /\ worker'[w].dfState = df
        /\ worker'[w].processingEnabled = worker[w].processingEnabled
    BY <1>0, <2>2 DEF Workers
  <2>5. m # "deepfilternet" => df = worker[w].dfState
    BY DEF df
  <2> QED BY <1>2, <2>3, <2>4, <2>5 DEF HandleSetModuleConfig
<1>3. CASE msg.type = "SET_ENABLED" /\ HandleSetEnabled(w, msg.arg)
  <2>1. worker'[w] = [worker[w] EXCEPT !.processingEnabled = msg.arg] /\ fromWorker'[w] = fromWorker[w]
    BY <1>0, <1>3 DEF HandleSetEnabled
  <2> QED BY <1>0, <1>3, <2>1 DEF Workers
<1> QED BY <1>1, <1>2, <1>3 DEF WorkerReceives

\* INIT leaves the worker with the module and configs it carries, and answered.
LEMMA InitEffect ==
    ASSUME ControlType, NEW w \in Ids, WorkerReceives(w), Head(toWorker[w]) = InitMessage(w),
           fromWorker[w] = <<>>
    PROVE  /\ worker'[w].processingEnabled = worker[w].processingEnabled
           /\ Len(fromWorker'[w]) \in {0, 1}
           /\ fromWorker'[w] # <<>> /\ Head(fromWorker'[w]).type = "INIT_OK" =>
                 /\ Head(fromWorker'[w]).arg = task[w].module
                 /\ worker'[w].currentModuleId = task[w].module /\ worker'[w].configs = task[w].configs
                 /\ worker'[w].dfState = task[w].configs["deepfilternet"]
PROOF
<1> DEFINE msg == Head(toWorker[w])
           fresh == [worker[w] EXCEPT !.currentModuleId = msg.arg.module, !.configs = msg.arg.configs]
           done == [fresh EXCEPT !.loaded = Modules, !.dfState = msg.arg.configs["deepfilternet"]]
<1>0. /\ worker \in [Ids -> Workers] /\ worker[w] \in Workers /\ fromWorker \in [Ids -> Seq(WorkerReplies)]
      /\ msg.type = "INIT" /\ msg.arg.module = task[w].module /\ msg.arg.configs = task[w].configs
  BY DEF ControlType, WorkerType, InitMessage, Msg
<1>1. HandleInit(w, msg.arg)
  BY <1>0 DEF WorkerReceives
<1>2. ASSUME NEW r, Respond(w, r)
      PROVE  fromWorker'[w] = <<>> \/ (Len(fromWorker'[w]) = 1 /\ Head(fromWorker'[w]) = r)
  BY <1>0, <1>2 DEF Respond
<1>3. CASE worker' = [worker EXCEPT ![w] = done] /\ Respond(w, Msg("INIT_OK", msg.arg.module))
  <2>1. /\ worker'[w].processingEnabled = worker[w].processingEnabled
        /\ worker'[w].currentModuleId = task[w].module /\ worker'[w].configs = task[w].configs
        /\ worker'[w].dfState = task[w].configs["deepfilternet"]
    BY <1>0, <1>3 DEF Workers
  <2>2. fromWorker'[w] = <<>> \/ (Len(fromWorker'[w]) = 1 /\ Head(fromWorker'[w]).arg = task[w].module)
    BY <1>0, <1>2, <1>3 DEF Msg
  <2>3. Len(fromWorker'[w]) \in {0, 1}
    BY <2>2
  <2> QED BY <2>1, <2>2, <2>3
<1>4. ASSUME NEW created, worker' = [worker EXCEPT ![w] = [fresh EXCEPT !.loaded = created]],
             Respond(w, Msg("ERROR", "init"))
      PROVE  /\ worker'[w].processingEnabled = worker[w].processingEnabled
             /\ Len(fromWorker'[w]) \in {0, 1}
             /\ ~(fromWorker'[w] # <<>> /\ Head(fromWorker'[w]).type = "INIT_OK")
  <2>1. worker'[w].processingEnabled = worker[w].processingEnabled
    BY <1>0, <1>4 DEF Workers
  <2>2. fromWorker'[w] = <<>> \/ (Len(fromWorker'[w]) = 1 /\ Head(fromWorker'[w]).type = "ERROR")
    BY <1>2, <1>4 DEF Msg
  <2>3. Len(fromWorker'[w]) \in {0, 1}
    BY <2>2
  <2> QED BY <2>1, <2>2, <2>3
<1> QED BY <1>1, <1>3, <1>4 DEF HandleInit

LEMMA AgreeHandled ==
    ASSUME ControlInv, LifecycleInv, AgreementInv, NEW w \in Ids, WorkerStep(w)
    PROVE  AgreementInv'
PROOF
<1> DEFINE msg == Head(toWorker[w])
<1>0. /\ ControlType /\ WorkerReceives(w) /\ workerLife[w] = "alive" /\ toWorker[w] # <<>> /\ QueueOf(w)
      /\ UNCHANGED <<task, node, published, enabled, options, setters, running, workerLife, portHolder,
                     worklet, toNode, toMain>>
  BY DEF ControlInv, WorkerStep, WorkerReceives, mainVars, workletVars, LifecycleInv, Messages
<1>1. /\ toWorker[w] \in Seq(WorkerMessages) /\ msg \in WorkerMessages /\ toWorker'[w] = Tail(toWorker[w])
      /\ 1 \in DOMAIN toWorker[w] /\ msg = toWorker[w][1]
      /\ \A s \in Ids : s # w => toWorker'[s] = toWorker[s]
  BY <1>0, TailFacts DEF WorkerReceives, ControlType, WorkerType
<1>2. \A s \in Ids : s # w => worker'[s] = worker[s] /\ fromWorker'[s] = fromWorker[s]
  BY <1>0, HandleEffect
<1>3. ASSUME NEW s \in Ids PROVE Startup(s)'
  <2>0. Startup(s)
    BY DEF AgreementInv
  <2>1. Ports(s)'
    <3>1. s = w => workerLife'[s] # "none"
      BY <1>0
    <3> QED BY <1>0, <1>2, <2>0, <3>1 DEF Startup, Ports
  <2>2. CASE s # w
    BY <1>0, <1>1, <1>2, <2>0, <2>1, <2>2, StartupKept
  <2>3. CASE s = w /\ task[w].pc # "workerInit"
    <3>1. Starting(w)' /\ Initialising(w)' /\ Connecting(w)'
      BY <1>0, <2>0, <2>3 DEF QueueOf, Startup, Starting, Initialising, Connecting, InProgress
    <3> QED BY <2>1, <2>3, <3>1 DEF Startup
  <2>4. CASE s = w /\ task[w].pc = "workerInit"
    <3>1. /\ toWorker[w] = <<InitMessage(w)>> /\ worker[w].processingEnabled /\ toNode[w] = <<>>
          /\ task[w].module = options.denoise /\ task[w].configs = options.configs
      BY <1>0, <2>0, <2>4 DEF Startup, Initialising, Starting
    <3>2. msg = InitMessage(w) /\ toWorker'[w] = <<>>
      BY <1>1, <3>1
    <3>3. fromWorker[w] = <<>>
      BY <1>0, <1>1, <3>2 DEF QueueOf, Fresh, InitMessage, Msg
    <3>4. /\ worker'[w].processingEnabled = worker[w].processingEnabled
          /\ Len(fromWorker'[w]) \in {0, 1}
          /\ fromWorker'[w] # <<>> /\ Head(fromWorker'[w]).type = "INIT_OK" =>
                /\ Head(fromWorker'[w]).arg = task[w].module
                /\ worker'[w].currentModuleId = task[w].module /\ worker'[w].configs = task[w].configs
                /\ worker'[w].dfState = task[w].configs["deepfilternet"]
      BY <1>0, <3>2, <3>3, InitEffect
    <3>5. InitAnswered(w)'
      BY <1>0, <3>1, <3>4 DEF InitAnswered, Live
    <3>6. Starting(w)' /\ Initialising(w)' /\ Connecting(w)'
      BY <1>0, <2>0, <2>4, <3>1, <3>2, <3>4, <3>5 DEF Startup, Starting, Initialising, Connecting, InProgress
    <3> QED BY <2>1, <2>4, <3>6 DEF Startup
  <2> QED BY <2>2, <2>3, <2>4
<1>4. Setting'
  BY <1>0, SettingKept DEF AgreementInv
<1>5. CASE ~Up
  BY <1>0, <1>3, <1>4, <1>5 DEF AgreementInv, Agreed, Up
<1>6. CASE Up /\ w # node
  <2>1. node \in Ids
    BY <1>6, UpNode
  <2>2. Agreed'
    BY <1>0, <1>1, <1>2, <1>6, <2>1, AgreedKept DEF AgreementInv
  <2> QED BY <1>3, <1>4, <2>2 DEF AgreementInv
<1>7. CASE Up /\ w = node
  <2>1. WorkletAgrees(w) /\ WorkerAgrees(w) /\ (NotNext("SET_ENABLED") => WorkerEnabled(w))
    BY <1>0, <1>7, NothingBeforePipeline DEF AgreementInv, Agreed
  <2>2. msg.type \notin {"INIT", "DESTROY"} /\ worker[w].loaded = Modules /\ portHolder[w].at # "closed"
    BY <1>0, <1>1, <1>7, <2>1, UpNode DEF QueueOf, Fresh, WorkletAgrees
  <2>3. Asked' = Asked /\ (NotNext("SET_ENABLED")' = NotNext("SET_ENABLED"))
    BY <1>0 DEF Asked, NextOptions, NotNext
  <2>4. \A f \in LiveFields : f = "attenLimDb"
    BY DEF LiveFields
  <2> DEFINE S(m) == ConfigMessages(m)
             Mod == ModuleIs(Asked.denoise)
             Cfg(m) == ConfigIs(m, Asked.configs[m])
             En == EnabledIs(enabled)
  <2>5. /\ msg \in ModuleMessages => Latest(Tail(toWorker[w]), ModuleMessages, msg, Mod)
        /\ msg \notin ModuleMessages =>
              Latest(Tail(toWorker[w]), ModuleMessages, ModuleIs(worker[w].currentModuleId), Mod)
    BY <1>0, <1>1, <2>1, LatestTail DEF WorkerAgrees
  <2>6. \A m \in Modules :
        /\ msg \in S(m) => Latest(Tail(toWorker[w]), S(m), msg, Cfg(m))
        /\ msg \notin S(m) => Latest(Tail(toWorker[w]), S(m), ConfigIs(m, worker[w].configs[m]), Cfg(m))
    BY <1>0, <1>1, <2>1, LatestTail DEF WorkerAgrees
  <2>7. NotNext("SET_ENABLED") =>
        /\ msg \in EnabledMessages => Latest(Tail(toWorker[w]), EnabledMessages, msg, En)
        /\ msg \notin EnabledMessages =>
              Latest(Tail(toWorker[w]), EnabledMessages, EnabledIs(worker[w].processingEnabled), En)
    BY <1>0, <1>1, <2>1, LatestTail DEF WorkerEnabled
  <2> HIDE DEF S, Mod, Cfg, En
  <2>8. SUFFICES (WorkerAgrees(w) /\ WorkletAgrees(w) /\ (NotNext("SET_ENABLED") => WorkerEnabled(w)))'
    BY <1>0, <1>3, <1>4, <1>7 DEF AgreementInv, Agreed
  <2> DEFINE r == worker'[w]
  <2>9. CASE /\ msg.type = "SET_MODULE" /\ r.currentModuleId = msg.arg
             /\ r.configs = worker[w].configs /\ r.dfState = worker[w].dfState
             /\ r.processingEnabled = worker[w].processingEnabled
             /\ \/ msg.arg = worker[w].currentModuleId /\ fromWorker'[w] = fromWorker[w]
                \/ fromWorker'[w] = Append(fromWorker[w], ChangedTo(msg.arg))
    <3>1. /\ msg \in ModuleMessages /\ msg = ModuleIs(r.currentModuleId) /\ msg \notin EnabledMessages
          /\ \A m \in Modules : msg \notin S(m)
          /\ msg.arg \in Modules
      BY <1>1, <2>9 DEF WorkerMessages, ModuleMessages, ModuleIs, Msg, EnabledMessages, ConfigMessages, S
    <3>2. WorkerAgrees(w)'
      BY <1>1, <2>1, <2>3, <2>5, <2>6, <2>9, <3>1 DEF WorkerAgrees, Live, S, Mod, Cfg
    <3>3. NotNext("SET_ENABLED")' => WorkerEnabled(w)'
      BY <1>0, <1>1, <2>3, <2>7, <2>9, <3>1 DEF WorkerEnabled, En
    <3>4. Latest(fromWorker'[w], ChangedMessages, ChangedTo(worklet[w].frameModule), ChangedTo(r.currentModuleId))
      <4>1. CASE msg.arg = worker[w].currentModuleId /\ fromWorker'[w] = fromWorker[w]
        BY <2>1, <2>9, <4>1 DEF WorkletAgrees
      <4>2. CASE fromWorker'[w] = Append(fromWorker[w], ChangedTo(msg.arg))
        <5>1. fromWorker[w] \in Seq(WorkerReplies)
          BY <1>0, Types
        <5>2. ChangedTo(msg.arg) \in WorkerReplies /\ ChangedTo(msg.arg) \in ChangedMessages
          BY <3>1 DEF ChangedTo, Msg, WorkerReplies, ChangedMessages
        <5> QED BY <2>9, <4>2, <5>1, <5>2, LatestAppend
      <4> QED BY <2>9, <4>1, <4>2
    <3>5. WorkletAgrees(w)'
      BY <1>0, <2>1, <2>3, <3>4 DEF WorkletAgrees
    <3> QED BY <3>2, <3>3, <3>5
  <2>10. CASE /\ msg.type = "SET_MODULE_CONFIG" /\ r.currentModuleId = worker[w].currentModuleId
              /\ r.configs = [worker[w].configs EXCEPT ![msg.arg.module] = msg.arg.config]
              /\ IF msg.arg.module = "deepfilternet"
                 THEN \A f \in LiveFields : r.dfState[f] = msg.arg.config[f]
                 ELSE r.dfState = worker[w].dfState
              /\ r.processingEnabled = worker[w].processingEnabled
              /\ fromWorker'[w] = fromWorker[w]
    <3> DEFINE a == msg.arg.module
               c == msg.arg.config
    <3>1. /\ msg \in S(a) /\ msg = ConfigIs(a, c) /\ msg \notin EnabledMessages /\ msg \notin ModuleMessages
          /\ \A m \in Modules : m # a => msg \notin S(m)
          /\ a \in Modules
      BY <1>1, <2>10 DEF WorkerMessages, ConfigArgs, ModuleMessages, Msg, EnabledMessages, ConfigMessages, S,
                         ConfigIs, Modules
    <3>2. r.configs[a] = c /\ \A m \in Modules : m # a => r.configs[m] = worker[w].configs[m]
      <4>1. worker[w].configs \in AllConfigs
        BY <1>0, Types DEF Workers
      <4>2. DOMAIN worker[w].configs = Modules
        BY <4>1 DEF AllConfigs, Modules
      <4> QED BY <2>10, <3>1, <4>2
    <3>3. Latest(toWorker'[w], ModuleMessages, ModuleIs(r.currentModuleId), Mod)
      BY <1>1, <2>5, <2>10, <3>1
    <3>4. ASSUME NEW m \in Modules PROVE Latest(toWorker'[w], S(m), ConfigIs(m, r.configs[m]), Cfg(m))
      BY <1>1, <2>6, <3>1, <3>2
    <3>5. Live(w)'
      BY <2>1, <2>10, <3>1, <3>2 DEF WorkerAgrees, Live, Modules
    <3>6. WorkerAgrees(w)'
      BY <2>3, <3>3, <3>4, <3>5 DEF WorkerAgrees, S, Mod, Cfg
    <3>7. NotNext("SET_ENABLED")' => WorkerEnabled(w)'
      BY <1>0, <1>1, <2>3, <2>7, <2>10, <3>1 DEF WorkerEnabled, En
    <3>8. WorkletAgrees(w)'
      BY <1>0, <2>1, <2>3, <2>10 DEF WorkletAgrees
    <3> QED BY <3>6, <3>7, <3>8
  <2>11. CASE /\ msg.type = "SET_ENABLED" /\ r.processingEnabled = msg.arg
              /\ r.currentModuleId = worker[w].currentModuleId
              /\ r.configs = worker[w].configs /\ r.dfState = worker[w].dfState
              /\ fromWorker'[w] = fromWorker[w]
    <3>1. /\ msg \in EnabledMessages /\ msg = EnabledIs(r.processingEnabled) /\ msg \notin ModuleMessages
          /\ \A m \in Modules : msg \notin S(m)
      BY <1>1, <2>11 DEF WorkerMessages, ModuleMessages, EnabledIs, Msg, EnabledMessages, ConfigMessages, S
    <3>2. WorkerAgrees(w)'
      BY <1>1, <2>1, <2>3, <2>5, <2>6, <2>11, <3>1 DEF WorkerAgrees, Live, S, Mod, Cfg
    <3>3. NotNext("SET_ENABLED")' => WorkerEnabled(w)'
      BY <1>0, <1>1, <2>3, <2>7, <3>1 DEF WorkerEnabled, En
    <3>4. WorkletAgrees(w)'
      BY <1>0, <2>1, <2>3, <2>11 DEF WorkletAgrees
    <3> QED BY <3>2, <3>3, <3>4
  <2> QED BY <1>0, <2>2, <2>9, <2>10, <2>11, WorkerEffect
<1> QED BY <1>5, <1>6, <1>7

-----------------------------------------------------------------------------
(* The commands a worklet executes. *)

\* A setter's command is forwarded to the connected worker and confirmed.
LEMMA SetterEffect ==
    ASSUME ControlType, NEW n \in Ids, Dispatch(n), worklet[n].workerPort = n, workerLife[n] = "alive",
           n # None, Head(toNode[n]).type \notin {"INIT_PIPELINE", "DESTROY"}
    PROVE  LET cmd == Head(toNode[n]) IN
           /\ toMain' = toMain \/ toMain' = [toMain EXCEPT ![n] = Append(@, [id |-> cmd.id, ok |-> TRUE])]
           /\ UNCHANGED <<fromWorker, portHolder>> /\ worklet'[n].frameModule = worklet[n].frameModule
           /\ \/ /\ cmd.type = "SET_ENABLED" /\ toWorker'[n] = Append(toWorker[n], EnabledIs(cmd.arg))
                 /\ worklet'[n].currentModuleId = worklet[n].currentModuleId
              \/ /\ cmd.type = "SET_STAGE_MODULE" /\ toWorker'[n] = Append(toWorker[n], ModuleIs(cmd.arg))
                 /\ worklet'[n].currentModuleId = cmd.arg
              \/ /\ cmd.type = "SET_MODULE_CONFIG"
                 /\ toWorker'[n] = Append(toWorker[n], Msg("SET_MODULE_CONFIG", cmd.arg))
                 /\ worklet'[n].currentModuleId = worklet[n].currentModuleId
PROOF
<1> DEFINE cmd == Head(toNode[n])
<1>0. worklet \in [Ids -> Worklets] /\ worklet[n] \in Worklets /\ toWorker \in [Ids -> Seq(WorkerMessages)]
  BY DEF ControlType, WorkletType, WorkerType
<1>1. ASSUME NEW m, ToWorker(n, m) PROVE toWorker'[n] = Append(toWorker[n], m)
  BY <1>0, <1>1 DEF ToWorker, Posted
<1>2. ASSUME Reply(n, cmd, TRUE)
      PROVE  toMain' = toMain \/ toMain' = [toMain EXCEPT ![n] = Append(@, [id |-> cmd.id, ok |-> TRUE])]
  BY <1>2 DEF Reply
<1>3. CASE cmd.type = "SET_ENABLED" /\ SetEnabled(n, cmd)
  BY <1>1, <1>2, <1>3 DEF SetEnabled, EnabledIs
<1>4. CASE cmd.type = "SET_STAGE_MODULE" /\ SetStageModule(n, cmd)
  <2>1. worklet'[n] = [worklet[n] EXCEPT !.currentModuleId = cmd.arg]
    BY <1>0, <1>4 DEF SetStageModule
  <2>2. worklet'[n].currentModuleId = cmd.arg /\ worklet'[n].frameModule = worklet[n].frameModule
    BY <1>0, <2>1 DEF Worklets
  <2> QED BY <1>1, <1>2, <1>4, <2>2 DEF SetStageModule, ModuleIs
<1>5. CASE cmd.type = "SET_MODULE_CONFIG" /\ SetModuleConfig(n, cmd)
  <2>1. /\ worklet'[n].currentModuleId = worklet[n].currentModuleId
        /\ worklet'[n].frameModule = worklet[n].frameModule
    <3>1. CASE worklet' = worklet
      BY <3>1
    <3>2. ASSUME NEW v, worklet' = [worklet EXCEPT ![n].vad["vadLogIntervalMs"] = v]
          PROVE  /\ worklet'[n].currentModuleId = worklet[n].currentModuleId
                 /\ worklet'[n].frameModule = worklet[n].frameModule
      BY <1>0, <3>2 DEF Worklets
    <3> QED BY <1>5, <3>1, <3>2 DEF SetModuleConfig
  <2> QED BY <1>1, <1>2, <1>5, <2>1 DEF SetModuleConfig
<1> QED BY <1>3, <1>4, <1>5 DEF Dispatch

\* The pipeline command connects the worker and takes over its module.
LEMMA PipelineEffect ==
    ASSUME ControlType, NEW n \in Ids, Dispatch(n), Head(toNode[n]).type = "INIT_PIPELINE",
           Head(toNode[n]).arg.workerPort = n
    PROVE  /\ UNCHANGED <<toWorker, fromWorker>>
           /\ portHolder'[n] = [at |-> "worklet", node |-> n]
           /\ \A k \in Ids : k # n => portHolder'[k] = portHolder[k]
           /\ worklet'[n].currentModuleId = Head(toNode[n]).arg.module
           /\ worklet'[n].frameModule = Head(toNode[n]).arg.frameModule
PROOF
<1> DEFINE cmd == Head(toNode[n])
           connected == [worklet[n] EXCEPT
               !.currentModuleId = cmd.arg.module, !.vad = cmd.arg.rnnoise,
               !.workerPort = cmd.arg.workerPort, !.frameModule = cmd.arg.frameModule]
<1>0. worklet \in [Ids -> Worklets] /\ worklet[n] \in Worklets /\ portHolder \in [Ids -> PortHolders]
  BY DEF ControlType, WorkletType, WorkerType
<1>1. InitPipeline(n, cmd)
  BY DEF Dispatch
<1>2. worklet'[n] = connected \/ worklet'[n] = [connected EXCEPT !.workerReady = TRUE]
  BY <1>0, <1>1 DEF InitPipeline
<1>3. worklet'[n].currentModuleId = cmd.arg.module /\ worklet'[n].frameModule = cmd.arg.frameModule
  BY <1>0, <1>2 DEF Worklets
<1> QED BY <1>0, <1>1, <1>3 DEF InitPipeline

\* The other worklets' queues and ports are their own.
LEMMA DispatchOthers ==
    ASSUME ControlInv, LifecycleInv, NEW n \in Ids, Dispatch(n)
    PROVE  /\ \A s \in Ids : s # n => /\ toNode'[s] = toNode[s] /\ worklet'[s] = worklet[s]
                                      /\ toWorker'[s] = toWorker[s] /\ fromWorker'[s] = fromWorker[s]
                                      /\ portHolder'[s] = portHolder[s]
           /\ portHolder'[n].at = "worklet" => portHolder'[n] = portHolder[n] \/ portHolder'[n].node = n
PROOF
<1> DEFINE cmd == Head(toNode[n])
           p == worklet[n].workerPort
<1>0. /\ ControlType /\ toNode[n] # <<>> /\ p \in {None, n} /\ toNode[n] \in Seq(Commands)
      /\ toWorker \in [Ids -> Seq(WorkerMessages)] /\ fromWorker \in [Ids -> Seq(WorkerReplies)]
      /\ portHolder \in [Ids -> PortHolders]
  BY DEF ControlInv, LifecycleInv, Messages, PortOf, Dispatch, ControlType, WorkletType, WorkerType
<1>1. cmd.type = "INIT_PIPELINE" => cmd.arg.workerPort = n
  <2>1. 1 \in DOMAIN toNode[n] /\ toNode[n][1] = cmd
    BY <1>0, TailFacts
  <2> QED BY <2>1 DEF LifecycleInv, Messages, PortOf
<1>2. \A s \in Ids : s # n => toNode'[s] = toNode[s] /\ worklet'[s] = worklet[s]
  BY <1>0, DispatchEffect
<1>3. ASSUME NEW type, ToItsWorker(n, type) PROVE \A s \in Ids : s # n => toWorker'[s] = toWorker[s]
  BY <1>0, <1>3 DEF ToItsWorker
<1>4. CASE cmd.type = "INIT_PIPELINE"
  <2>1. /\ UNCHANGED <<toWorker, fromWorker>>
        /\ portHolder'[n] = [at |-> "worklet", node |-> n]
        /\ \A k \in Ids : k # n => portHolder'[k] = portHolder[k]
    BY <1>0, <1>1, <1>4, PipelineEffect
  <2>2. portHolder'[n].node = n
    BY <2>1
  <2> QED BY <1>2, <2>1, <2>2
<1>5. CASE cmd.type \in {"SET_ENABLED", "SET_STAGE_MODULE", "SET_MODULE_CONFIG"}
  BY <1>0, <1>2, <1>3, <1>5, ExecuteEffect
<1>6. CASE cmd.type = "DESTROY"
  <2>1. Destroy(n, cmd)
    BY <1>6 DEF Dispatch
  <2>2. p = n => portHolder'[n].at = "closed"
    BY <1>0, <2>1, Constants DEF Destroy
  <2>3. p = None => UNCHANGED portHolder
    BY <2>1 DEF Destroy
  <2>4. ToItsWorker(n, "DESTROY")
    BY <1>0, <1>6, ExecuteEffect
  <2>5. \A s \in Ids : s # p => portHolder'[s] = portHolder[s] /\ fromWorker'[s] = fromWorker[s]
    BY <1>0, <1>6, ExecuteEffect
  <2>6. \A s \in Ids : s # n => s # p
    BY <1>0, Constants
  <2>7. portHolder'[n].at = "worklet" => portHolder'[n] = portHolder[n]
    BY <1>0, <2>2, <2>3
  <2> QED BY <1>2, <1>3, <2>4, <2>5, <2>6, <2>7
<1> QED BY <1>4, <1>5, <1>6 DEF Dispatch

LEMMA AgreeDispatched ==
    ASSUME ControlInv, LifecycleInv, AgreementInv, NEW n \in Ids, NodeStep(n)
    PROVE  AgreementInv'
PROOF
<1> DEFINE cmd == Head(toNode[n])
<1>0. /\ ControlType /\ Dispatch(n)
      /\ UNCHANGED <<task, node, published, enabled, options, setters, running, workerLife, worker>>
  BY DEF ControlInv, NodeStep, Dispatch, mainVars
<1>1. /\ toNode[n] # <<>> /\ toNode[n] \in Seq(Commands) /\ toNode'[n] = Tail(toNode[n])
      /\ 1 \in DOMAIN toNode[n] /\ toNode[n][1] = cmd /\ cmd \in Commands
      /\ \A s \in Ids : s # n => /\ toNode'[s] = toNode[s] /\ worklet'[s] = worklet[s]
                                 /\ toWorker'[s] = toWorker[s] /\ fromWorker'[s] = fromWorker[s]
                                 /\ portHolder'[s] = portHolder[s]
      /\ portHolder'[n].at = "worklet" => portHolder'[n] = portHolder[n] \/ portHolder'[n].node = n
  <2>1. toNode[n] # <<>> /\ toNode[n] \in Seq(Commands) /\ toNode'[n] = Tail(toNode[n])
    BY <1>0, Types, DispatchEffect
  <2> QED BY <1>0, <2>1, TailFacts, DispatchOthers
<1>2. \A k \in Ids : \A i \in DOMAIN toNode'[k] : \E j \in DOMAIN toNode[k] : toNode'[k][i] = toNode[k][j]
  <2>1. toNode[n] \in Seq(Commands) /\ toNode[n] # <<>>
    BY <1>1
  <2>2. \A i \in DOMAIN Tail(toNode[n]) : \E j \in DOMAIN toNode[n] : Tail(toNode[n])[i] = toNode[n][j]
    <3> SUFFICES ASSUME NEW i \in DOMAIN Tail(toNode[n])
                 PROVE  \E j \in DOMAIN toNode[n] : Tail(toNode[n])[i] = toNode[n][j]
      OBVIOUS
    <3>1. i + 1 \in DOMAIN toNode[n] /\ Tail(toNode[n])[i] = toNode[n][i + 1]
      BY <2>1, TailFacts
    <3> QED BY <3>1
  <2>3. ASSUME NEW k \in Ids PROVE toNode'[k] = toNode[k] \/ (k = n /\ toNode'[k] = Tail(toNode[n]))
    BY <1>1
  <2> QED BY <2>2, <2>3
<1>3. \A k \in Ids : \A i \in DOMAIN toMain'[k] :
          \/ i \in DOMAIN toMain[k] /\ toMain'[k][i] = toMain[k][i]
          \/ k = n /\ toMain'[k][i].id = cmd.id
  BY <1>0, Replied
<1>4. Len(toNode[n]) = 1 => toNode'[n] = <<>>
  <2>1. Len(toNode[n]) = 1 => Tail(toNode[n]) \in Seq(Commands) /\ Len(Tail(toNode[n])) = 0
    BY <1>1
  <2> QED BY <1>1, <2>1, EmptySeq
<1>5. ASSUME NEW s \in Ids PROVE Startup(s)'
  <2>0. Startup(s)
    BY DEF AgreementInv
  <2>1. Ports(s)'
    BY <1>0, <1>1, <2>0 DEF Startup, Ports
  <2>2. CASE ~InProgress(s)
    BY <1>0, <2>0, <2>1, <2>2, StartupKept
  <2>3. CASE InProgress(s) /\ s # n
    <3>1. task[s].pc = "pipelineInit" => task[s].req # cmd.id
      BY <1>1, <2>3 DEF LifecycleInv, Messages, AnswerOf
    <3>2. task[s].pc = "pipelineInit" => \A k \in Ids : \A i \in DOMAIN toMain'[k] :
              toMain'[k][i].id = task[s].req => \E j \in DOMAIN toMain[k] : toMain[k][j].id = task[s].req
      BY <1>3, <3>1
    <3> QED BY <1>0, <1>1, <2>0, <2>1, <2>3, <3>2, StartupKept
  <2>4. CASE InProgress(s) /\ s = n
    <3>1. task[n].pc = "pipelineInit"
      <4>1. task[n].pc \notin {"loading", "fetching", "workerInit"}
        BY <1>1, <2>0, <2>4 DEF Startup, Initialising, ControlInv, Handles
      <4> QED BY <1>0, <2>4, <4>1, Types DEF InProgress, Tasks, TaskStates
    <3>2. toNode'[n] = <<>>
      <4>1. Len(toNode[n]) = 1
        BY <1>1, <2>0, <2>4, <3>1 DEF Startup, Connecting
      <4> QED BY <1>4, <4>1
    <3>3. Starting(n)' /\ Initialising(n)' /\ Connecting(n)'
      BY <1>0, <2>0, <2>4, <3>1, <3>2 DEF Startup, Starting, Initialising, Connecting, InProgress
    <3> QED BY <2>1, <2>4, <3>3 DEF Startup
  <2> QED BY <2>2, <2>3, <2>4
<1>6. CASE n # node
  <2>1. Setting'
    <3>1. published # None /\ running # NoRequest => cmd.id # running
      BY <1>1, <1>6 DEF AgreementInv, Setting
    <3>2. SetterCommand(Head(setters), running)' = SetterCommand(Head(setters), running)
      BY <1>0 DEF SetterCommand, NextOptions
    <3>3. published # None => node \in Ids /\ toNode'[node] = toNode[node]
      BY <1>1, <1>6, UpNode DEF Up
    <3> QED BY <1>0, <1>2, <1>3, <3>1, <3>2, <3>3 DEF AgreementInv, Setting
  <2>2. Agreed'
    <3>1. Up => node \in Ids
      BY UpNode
    <3>2. Up => /\ UNCHANGED <<node, enabled, options, running, setters>>
                /\ toNode'[node] = toNode[node] /\ toWorker'[node] = toWorker[node]
                /\ fromWorker'[node] = fromWorker[node] /\ worker'[node] = worker[node]
                /\ portHolder'[node] = portHolder[node] /\ worklet'[node] = worklet[node]
      BY <1>0, <1>1, <1>6, <3>1
    <3> QED BY <1>0, <3>2, AgreedKept DEF AgreementInv, Up
  <2> QED BY <1>5, <2>1, <2>2 DEF AgreementInv
<1>7. CASE ~Up
  <2>1. Setting' /\ Agreed'
    BY <1>0, <1>7 DEF Setting, Agreed, Up
  <2> QED BY <1>5, <2>1 DEF AgreementInv
<1>8. CASE n = node /\ published = None /\ Up
  <2>1. PICK t \in Ids : task[t].pc = "pipelineInit"
    BY <1>8 DEF Up
  <2>2. /\ t = n /\ Len(toNode[n]) = 1 /\ StartsWith(n, cmd) /\ toWorker[n] = <<>> /\ fromWorker[n] = <<>>
        /\ setters = <<>> /\ running = NoRequest
    <3>1. t = n /\ Startup(t)
      BY <1>8, <2>1 DEF LifecycleInv, Alone, AgreementInv
    <3> QED BY <1>0, <1>1, <2>1, <3>1
            DEF Startup, Connecting, Starting, InProgress, ControlType, MainType
  <2>3. /\ UNCHANGED <<toWorker, fromWorker>>
        /\ portHolder'[n] = [at |-> "worklet", node |-> n]
        /\ worklet'[n].currentModuleId = options.denoise /\ worklet'[n].frameModule = options.denoise
    <3>1. cmd.arg.workerPort = n
      BY <1>1, <2>2 DEF StartsWith, LifecycleInv, Messages, PortOf
    <3> QED BY <1>0, <2>2, <3>1, PipelineEffect DEF StartsWith
  <2>4. Asked = options /\ Asked' = options
    BY <1>0, <2>2 DEF Asked
  <2>5. WorkerAgrees(n) /\ WorkerEnabled(n)
    BY <1>1, <1>8, <2>2 DEF AgreementInv, Agreed, NotNext, StartsWith
  <2>6. worker[n].currentModuleId = options.denoise
    <3>1. ModuleIs(worker[n].currentModuleId) = ModuleIs(options.denoise)
      BY <2>2, <2>4, <2>5, LatestEmpty DEF WorkerAgrees
    <3> QED BY <3>1, MessagesApart
  <2>7. WorkerAgrees(n)' /\ WorkerEnabled(n)'
    BY <1>0, <2>3, <2>4, <2>5 DEF WorkerAgrees, WorkerEnabled, Live
  <2>8. WorkletAgrees(n)'
    BY <1>0, <2>2, <2>3, <2>4, <2>6, LatestEmpty DEF WorkletAgrees
  <2>9. Setting' /\ Agreed'
    BY <1>0, <1>8, <2>7, <2>8 DEF Setting, Agreed
  <2> QED BY <1>5, <2>9 DEF AgreementInv
<1>9. CASE n = node /\ published # None
  <2> DEFINE op == Head(setters)
  <2>1. /\ running # NoRequest /\ toNode[n] = <<cmd>> /\ cmd = SetterCommand(op, running) /\ op \in Ops
        /\ options \in Options
        /\ op.kind = "setEnabled" => enabled = op.arg
        /\ \A k \in Ids : \A i \in DOMAIN toMain[k] : toMain[k][i].id # running
    <3>1. running # NoRequest /\ toNode[n] = <<SetterCommand(op, running)>>
      BY <1>1, <1>9 DEF AgreementInv, Setting
    <3>2. cmd = SetterCommand(op, running)
      BY <3>1
    <3>3. op \in Ops /\ options \in Options
      BY <1>0, <3>1, TailFacts DEF ControlType, MainType
    <3>4. op.kind = "setEnabled" => enabled = op.arg
      BY <1>9, <3>1 DEF AgreementInv, Setting
    <3>5. \A k \in Ids : \A i \in DOMAIN toMain[k] : toMain[k][i].id # running
      BY <1>1, <1>9, <3>1 DEF AgreementInv, Setting
    <3> QED BY <3>1, <3>2, <3>3, <3>4, <3>5
  <2>2. /\ cmd.type \notin {"INIT_PIPELINE", "DESTROY"} /\ cmd.id = running
        /\ op.kind = "setEnabled" => cmd.type = "SET_ENABLED" /\ cmd.arg = op.arg
        /\ op.kind = "setStageModule" => cmd.type = "SET_STAGE_MODULE" /\ cmd.arg = op.arg
        /\ op.kind \in {"setRnnoise", "setDeepFilter"} =>
              /\ cmd.type = "SET_MODULE_CONFIG"
              /\ cmd.arg = [module |-> Target(op), config |-> NextOptions(op).configs[Target(op)]]
    BY <2>1 DEF SetterCommand, Command
  <2>3. worklet[n].workerPort = n /\ workerLife[n] = "alive" /\ n # None /\ Up
    BY <1>9, UpNode DEF LifecycleInv, Serving, Connected, Up
  <2>4. /\ toMain' = toMain \/ toMain' = [toMain EXCEPT ![n] = Append(@, [id |-> running, ok |-> TRUE])]
        /\ UNCHANGED <<fromWorker, portHolder>> /\ worklet'[n].frameModule = worklet[n].frameModule
        /\ \/ /\ cmd.type = "SET_ENABLED" /\ toWorker'[n] = Append(toWorker[n], EnabledIs(cmd.arg))
              /\ worklet'[n].currentModuleId = worklet[n].currentModuleId
           \/ /\ cmd.type = "SET_STAGE_MODULE" /\ toWorker'[n] = Append(toWorker[n], ModuleIs(cmd.arg))
              /\ worklet'[n].currentModuleId = cmd.arg
           \/ /\ cmd.type = "SET_MODULE_CONFIG"
              /\ toWorker'[n] = Append(toWorker[n], Msg("SET_MODULE_CONFIG", cmd.arg))
              /\ worklet'[n].currentModuleId = worklet[n].currentModuleId
    BY <1>0, <2>2, <2>3, SetterEffect
  <2>5. toNode'[n] = <<>> /\ Asked = options /\ Asked' = NextOptions(op)
    <3>1. toNode'[n] = <<>>
      <4>1. Len(toNode[n]) = 1
        BY <2>1
      <4> QED BY <1>4, <4>1
    <3>2. Asked = options
      BY <1>1, <1>9 DEF Asked
    <3>3. Asked' = NextOptions(op)
      BY <1>0, <1>9, <2>1, <3>1 DEF Asked, NextOptions
    <3> QED BY <3>1, <3>2, <3>3
  <2>6. Setting'
    <3>1. ASSUME NEW k \in Ids, NEW i \in DOMAIN toMain'[k], toMain'[k][i].id = running PROVE toMain'[k][i].ok
      <4> DEFINE r == [id |-> running, ok |-> TRUE]
      <4>1. toMain \in [Ids -> Seq(Replies)] /\ toMain[k] \in Seq(Replies) /\ r \in Replies
        BY <1>0 DEF ControlType, WorkletType, MainType, Replies
      <4>2. toMain' = [toMain EXCEPT ![n] = Append(@, r)]
        BY <2>1, <2>4, <3>1
      <4>3. k = n /\ toMain'[n] = Append(toMain[n], r)
        BY <2>1, <3>1, <4>1, <4>2
      <4>4. (i \in DOMAIN toMain[n] /\ toMain'[n][i] = toMain[n][i]) \/ toMain'[n][i] = r
        BY <3>1, <4>1, <4>3, AppendFacts
      <4> QED BY <2>1, <3>1, <4>3, <4>4
    <3>2. \A k \in Ids : k # node => \A i \in DOMAIN toNode'[k] : toNode'[k][i].id # running
      BY <1>1, <1>9, <2>1 DEF AgreementInv, Setting
    <3> QED BY <1>0, <1>9, <2>1, <2>5, <3>1, <3>2 DEF Setting
  <2>7. WorkerAgrees(n) /\ (cmd.type # "SET_ENABLED" => WorkerEnabled(n)) /\ WorkletAgrees(n)
    BY <1>9, <2>2, <2>3 DEF AgreementInv, Agreed, NotNext
  <2>8. toWorker[n] \in Seq(WorkerMessages) /\ worker[n] \in Workers
    BY <1>0, Types
  <2>9. SUFFICES (WorkerAgrees(n) /\ WorkerEnabled(n) /\ WorkletAgrees(n))'
    BY <1>0, <1>5, <1>9, <2>6 DEF AgreementInv, Agreed
  <2>10. CASE op.kind = "setEnabled"
    <3> DEFINE m == EnabledIs(op.arg)
    <3>1. /\ m \in WorkerMessages /\ m \in EnabledMessages /\ m \notin ModuleMessages
          /\ \A k \in Modules : m \notin ConfigMessages(k)
      BY <2>1, <2>10 DEF Ops, EnabledIs, Msg, WorkerMessages, EnabledMessages, ModuleMessages, ConfigMessages
    <3>2. /\ toWorker'[n] = Append(toWorker[n], m) /\ Asked' = Asked /\ enabled' = op.arg
          /\ worklet'[n].currentModuleId = worklet[n].currentModuleId
      BY <1>0, <2>1, <2>2, <2>4, <2>5, <2>10 DEF NextOptions
    <3> HIDE DEF m
    <3>3. WorkerAgrees(n)'
      BY <1>0, <2>7, <2>8, <3>1, <3>2, LatestAppend DEF WorkerAgrees, Live
    <3>4. WorkerEnabled(n)'
      BY <1>0, <2>8, <3>1, <3>2, LatestAppend DEF WorkerEnabled, m
    <3>5. WorkletAgrees(n)'
      BY <1>0, <2>4, <2>7, <3>2 DEF WorkletAgrees
    <3> QED BY <3>3, <3>4, <3>5
  <2>11. CASE op.kind = "setStageModule"
    <3> DEFINE m == ModuleIs(op.arg)
    <3>1. /\ m \in WorkerMessages /\ m \notin EnabledMessages /\ m \in ModuleMessages
          /\ \A k \in Modules : m \notin ConfigMessages(k)
      BY <2>1, <2>11 DEF Ops, ModuleIs, Msg, WorkerMessages, EnabledMessages, ModuleMessages, ConfigMessages
    <3>2. /\ toWorker'[n] = Append(toWorker[n], m) /\ worklet'[n].currentModuleId = op.arg
      BY <2>1, <2>2, <2>4, <2>11
    <3>3. Asked'.denoise = op.arg /\ Asked'.configs = Asked.configs
      <4>1. Asked' = [options EXCEPT !.denoise = op.arg]
        BY <2>1, <2>5, <2>11, NextOptionsType
      <4> QED BY <2>1, <2>5, <4>1 DEF Options
    <3> HIDE DEF m
    <3>4. WorkerAgrees(n)'
      <4>1. Latest(toWorker'[n], ModuleMessages, ModuleIs(worker[n].currentModuleId), ModuleIs(Asked'.denoise))
        BY <2>8, <3>1, <3>2, <3>3, LatestAppend DEF m
      <4>2. ASSUME NEW k \in Modules
            PROVE  Latest(toWorker'[n], ConfigMessages(k), ConfigIs(k, worker[n].configs[k]),
                          ConfigIs(k, Asked'.configs[k]))
        BY <2>7, <2>8, <3>1, <3>2, <3>3, LatestAppend DEF WorkerAgrees
      <4> QED BY <1>0, <2>7, <4>1, <4>2 DEF WorkerAgrees, Live
    <3>5. WorkerEnabled(n)'
      BY <1>0, <2>2, <2>7, <2>8, <2>11, <3>1, <3>2, LatestAppend DEF WorkerEnabled
    <3>6. WorkletAgrees(n)'
      BY <1>0, <2>4, <2>7, <3>2, <3>3 DEF WorkletAgrees
    <3> QED BY <3>4, <3>5, <3>6
  <2>12. CASE op.kind \in {"setRnnoise", "setDeepFilter"}
    <3> DEFINE a == Target(op)
               c == NextOptions(op).configs[a]
               m == ConfigIs(a, c)
    <3>0. a \in Modules /\ NextOptions(op) \in Options /\ c \in Config(a)
      <4>1. a \in Modules /\ NextOptions(op) \in Options
        BY <2>1, NextOptionsType DEF Target, Modules
      <4> QED BY <4>1 DEF Options, AllConfigs, Modules
    <3>1. /\ m \in WorkerMessages /\ m \notin EnabledMessages /\ m \notin ModuleMessages
          /\ m \in ConfigMessages(a)
          /\ \A k \in Modules : k # a => m \notin ConfigMessages(k)
      <4>1. [module |-> a, config |-> c] \in ConfigArgs
        BY <3>0 DEF ConfigArgs, Modules
      <4> QED BY <3>0, <4>1
              DEF ConfigIs, Msg, WorkerMessages, EnabledMessages, ModuleMessages, ConfigMessages
    <3>2. /\ toWorker'[n] = Append(toWorker[n], m)
          /\ worklet'[n].currentModuleId = worklet[n].currentModuleId
      BY <2>2, <2>4, <2>12 DEF ConfigIs
    <3>3. /\ Asked'.denoise = Asked.denoise /\ Asked'.configs[a] = c
          /\ \A k \in Modules : k # a => Asked'.configs[k] = Asked.configs[k]
      <4>1. NextOptions(op) = [options EXCEPT !.configs[a] = Merge(@, op.arg)]
        BY <2>12 DEF NextOptions
      <4>2. options.configs \in AllConfigs /\ DOMAIN options.configs = Modules
        BY <2>1 DEF Options, AllConfigs, Modules
      <4>3. NextOptions(op).denoise = options.denoise
            /\ \A k \in Modules : k # a => NextOptions(op).configs[k] = options.configs[k]
        BY <2>1, <4>1, <4>2 DEF Options
      <4> QED BY <2>5, <4>3
    <3> HIDE DEF m, c, a
    <3>4. WorkerAgrees(n)'
      <4>1. Latest(toWorker'[n], ModuleMessages, ModuleIs(worker[n].currentModuleId), ModuleIs(Asked'.denoise))
        BY <2>7, <2>8, <3>1, <3>2, <3>3, LatestAppend DEF WorkerAgrees
      <4>2. ASSUME NEW k \in Modules
            PROVE  Latest(toWorker'[n], ConfigMessages(k), ConfigIs(k, worker[n].configs[k]),
                          ConfigIs(k, Asked'.configs[k]))
        <5>1. CASE k = a
          BY <2>8, <3>1, <3>2, <3>3, <5>1, LatestAppend DEF m
        <5>2. CASE k # a
          BY <2>7, <2>8, <3>1, <3>2, <3>3, <5>2, LatestAppend DEF WorkerAgrees
        <5> QED BY <5>1, <5>2
      <4> QED BY <1>0, <2>7, <4>1, <4>2 DEF WorkerAgrees, Live
    <3>5. WorkerEnabled(n)'
      BY <1>0, <2>2, <2>7, <2>8, <2>12, <3>1, <3>2, LatestAppend DEF WorkerEnabled
    <3>6. WorkletAgrees(n)'
      BY <1>0, <2>4, <2>7, <3>2, <3>3 DEF WorkletAgrees
    <3> QED BY <3>4, <3>5, <3>6
  <2> QED BY <2>1, <2>10, <2>11, <2>12 DEF Ops
<1> QED BY <1>6, <1>7, <1>8, <1>9

-----------------------------------------------------------------------------
LEMMA AgreementInit == Init => AgreementInv
PROOF
<1> SUFFICES ASSUME Init PROVE AgreementInv
  OBVIOUS
<1>1. /\ published = None /\ setters = <<>> /\ \A t \in Ids : task[t].pc = "idle"
      /\ \A p \in Ids : portHolder[p].at = "main" /\ worker[p].processingEnabled
  BY DEF Init, IdleTask, WorkerInit, InitialWorker
<1>2. \A t \in Ids : Startup(t)
  BY <1>1 DEF Startup, Starting, Initialising, Connecting, Ports, InProgress
<1>3. Setting /\ Agreed
  BY <1>1 DEF Setting, Agreed, Up
<1> QED BY <1>2, <1>3 DEF AgreementInv

LEMMA AgreementStep ==
    ASSUME AgreementRules, ControlInv, LifecycleInv, AgreementInv, [Next]_vars
    PROVE  AgreementInv'
PROOF
<1>1. ASSUME NEW t \in Ids, CallRestart(t) PROVE AgreementInv'
  <2>1. CloseInternal({t}) /\ ~Busy /\ setters = <<>> /\ enabled /\ task[t].pc = "idle"
    BY <1>1 DEF CallRestart, MayInit, NextTask, AgreementRules
  <2> QED BY <2>1, AgreeClosed
<1>2. CASE CallDestroy
  <2>1. CloseInternal({}) /\ ~Busy
    BY <1>2 DEF CallDestroy, AgreementRules
  <2> QED BY <2>1, AgreeClosed
<1>3. ASSUME NEW enable \in BOOLEAN, CallSetter(Op("setEnabled", enable)) PROVE AgreementInv'
  <2>1. Op("setEnabled", enable) \in Ops
    BY DEF Op, Ops
  <2> QED BY <1>3, <2>1, AgreeSet
<1>4. ASSUME NEW m \in Modules, CallSetter(Op("setStageModule", m)) PROVE AgreementInv'
  <2>1. Op("setStageModule", m) \in Ops
    BY DEF Op, Ops
  <2> QED BY <1>4, <2>1, AgreeSet
<1>5. ASSUME NEW c \in Patches("rnnoise"), CallSetter(Op("setRnnoise", c)) PROVE AgreementInv'
  <2>1. Op("setRnnoise", c) \in Ops
    BY DEF Op, Ops
  <2> QED BY <1>5, <2>1, AgreeSet
<1>6. ASSUME NEW c \in Patches("deepfilternet"), CallSetter(Op("setDeepFilter", c)) PROVE AgreementInv'
  <2>1. Op("setDeepFilter", c) \in Ops
    BY DEF Op, Ops
  <2> QED BY <1>6, <2>1, AgreeSet
<1>7. ASSUME NEW id \in RequestIds, CommandTimeout(id) PROVE FALSE
  BY <1>7 DEF CommandTimeout, AgreementRules
<1>8. CASE UNCHANGED vars
  <2>1. /\ UNCHANGED <<task, node, published, enabled, options, setters, running>>
        /\ UNCHANGED <<workerLife, worker, toWorker, fromWorker, portHolder, worklet, toNode, toMain>>
    BY <1>8 DEF vars, mainVars, workerVars, workletVars
  <2>2. \A t \in Ids : Startup(t)'
    BY <2>1 DEF AgreementInv, Startup, Starting, Initialising, Connecting, Ports, InProgress, InitMessage,
                InitAnswered, StartsWith, Live
  <2>3. Setting'
    BY <2>1, SettingKept DEF AgreementInv
  <2>4. Agreed'
    BY <2>1, AgreedKept DEF AgreementInv, Up
  <2> QED BY <2>2, <2>3, <2>4 DEF AgreementInv
<1> QED BY <1>1, <1>2, <1>3, <1>4, <1>5, <1>6, <1>7, <1>8, AgreeCalled, AgreeLoaded, AgreeFailed,
           AgreeFetched, AgreeAnswered, AgreeSent, AgreeReplied, AgreeDispatched, AgreePort, AgreeHandled
        DEF Next

\* The invariant behind the three theorems below.
THEOREM AgreementInvariant == AgreementRules => (Spec => []AgreementInv)
PROOF
<1> SUFFICES ASSUME AgreementRules PROVE Spec => []AgreementInv
  OBVIOUS
<1>1. "oneAtATime" \in Rules
  BY DEF AgreementRules
<1>2. ControlInv /\ LifecycleInv /\ AgreementInv /\ [Next]_vars => AgreementInv'
  BY AgreementStep
<1>3. Spec => []ControlInv
  BY ControlInvariant
<1>4. Spec => []LifecycleInv
  BY <1>1, LifecycleInvariant
<1> QED BY <1>2, <1>3, <1>4, AgreementInit, PTL DEF Spec

\* A pipeline at rest holds what the invariant says with nothing on its way.
LEMMA AtRest ==
    ASSUME ControlInv, LifecycleInv, AgreementInv, Quiescent
    PROVE  /\ node \in Ids /\ Served = node
           /\ worker[node].currentModuleId = options.denoise
           /\ worklet[node].currentModuleId = options.denoise
           /\ worklet[node].frameModule = options.denoise
           /\ worker[node].processingEnabled = enabled
           /\ \A m \in Modules : worker[node].configs[m] = options.configs[m]
           /\ Live(node)
PROOF
<1>1. /\ ControlType /\ node # None /\ published = node /\ setters = <<>> /\ toNode[node] = <<>>
      /\ worklet[node].workerPort = node /\ Up
      /\ toWorker[Served] = <<>> /\ fromWorker[Served] = <<>>
  BY DEF Quiescent, ControlInv, LifecycleInv, Serving, Connected, Up
<1>2. node \in Ids /\ Served = node /\ toWorker[node] = <<>> /\ fromWorker[node] = <<>>
  BY <1>1, UpNode DEF Served
<1>3. Asked = options
  BY <1>1 DEF Asked, ControlType, MainType
<1>4. WorkerAgrees(node) /\ WorkerEnabled(node) /\ WorkletAgrees(node)
  BY <1>1 DEF AgreementInv, Agreed, NotNext
<1>5. /\ ModuleIs(worker[node].currentModuleId) = ModuleIs(options.denoise)
      /\ \A m \in Modules : ConfigIs(m, worker[node].configs[m]) = ConfigIs(m, options.configs[m])
      /\ Live(node)
  BY <1>2, <1>3, <1>4, LatestEmpty DEF WorkerAgrees
<1>6. EnabledIs(worker[node].processingEnabled) = EnabledIs(enabled)
  BY <1>2, <1>4, LatestEmpty DEF WorkerEnabled
<1>7. /\ worklet[node].currentModuleId = options.denoise
      /\ ChangedTo(worklet[node].frameModule) = ChangedTo(worker[node].currentModuleId)
  <2>1. /\ worklet[node].currentModuleId = options.denoise
        /\ Latest(<<>>, ChangedMessages, ChangedTo(worklet[node].frameModule),
                  ChangedTo(worker[node].currentModuleId))
    BY <1>2, <1>3, <1>4 DEF WorkletAgrees
  <2> QED BY <2>1, LatestEmpty
<1>8. /\ worker[node].currentModuleId = options.denoise
      /\ worklet[node].frameModule = worker[node].currentModuleId
      /\ worker[node].processingEnabled = enabled
  BY <1>5, <1>6, <1>7, MessagesApart
<1>9. \A m \in Modules : worker[node].configs[m] = options.configs[m]
  BY <1>5 DEF ConfigIs, Msg
<1> QED BY <1>2, <1>5, <1>7, <1>8, <1>9

\* With nothing on its way, the worker and the worklet run the module that the
\* main thread believes active, and the worklet's queues fit its frames.
THEOREM ModuleConvergedHolds == AgreementRules => (Spec => []ModuleConverged)
PROOF
<1> SUFFICES ASSUME AgreementRules PROVE Spec => []ModuleConverged
  OBVIOUS
<1>1. ControlInv /\ LifecycleInv /\ AgreementInv => ModuleConverged
  BY AtRest DEF ModuleConverged
<1>2. "oneAtATime" \in Rules
  BY DEF AgreementRules
<1> QED BY <1>1, <1>2, AgreementInvariant, LifecycleInvariant, ControlInvariant, PTL

\* With nothing on its way, the worker processes frames exactly when isEnabled()
\* says so.
THEOREM EnabledConvergedHolds == AgreementRules => (Spec => []EnabledConverged)
PROOF
<1> SUFFICES ASSUME AgreementRules PROVE Spec => []EnabledConverged
  OBVIOUS
<1>1. ControlInv /\ LifecycleInv /\ AgreementInv => EnabledConverged
  BY AtRest DEF EnabledConverged
<1>2. "oneAtATime" \in Rules
  BY DEF AgreementRules
<1> QED BY <1>1, <1>2, AgreementInvariant, LifecycleInvariant, ControlInvariant, PTL

\* With nothing on its way, the worker holds the configs that the main thread
\* has, and the DeepFilterNet state runs with the parameters that can change
\* while it exists.
THEOREM ConfigConvergedHolds == AgreementRules => (Spec => []ConfigConverged)
PROOF
<1> SUFFICES ASSUME AgreementRules PROVE Spec => []ConfigConverged
  OBVIOUS
<1>1. ControlInv /\ LifecycleInv /\ AgreementInv => ConfigConverged
  <2> SUFFICES ASSUME ControlInv, LifecycleInv, AgreementInv, Quiescent
               PROVE  /\ worker[Served].configs = options.configs
                      /\ \A f \in LiveFields :
                            worker[Served].dfState[f] = options.configs["deepfilternet"][f]
    BY DEF ConfigConverged
  <2>1. ControlType /\ node \in Ids /\ Served = node /\ Live(node)
        /\ \A m \in Modules : worker[node].configs[m] = options.configs[m]
    BY AtRest DEF ControlInv
  <2>2. worker[node].configs \in AllConfigs /\ options.configs \in AllConfigs
    BY <2>1, Types DEF Workers, Options, ControlType, MainType
  <2>3. worker[node].configs = options.configs
    BY <2>1, <2>2 DEF AllConfigs, Modules
  <2> QED BY <2>1, <2>3 DEF Live
<1>2. "oneAtATime" \in Rules
  BY DEF AgreementRules
<1> QED BY <1>1, <1>2, AgreementInvariant, LifecycleInvariant, ControlInvariant, PTL

=============================================================================
