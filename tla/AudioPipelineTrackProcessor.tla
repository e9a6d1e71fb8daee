-------------------- MODULE AudioPipelineTrackProcessor ---------------------
(***************************************************************************)
(* The control plane of the web pipeline: the main-thread object the       *)
(* application calls (js/src/AudioPipelineTrackProcessor.ts), composed     *)
(* with the worklets and workers it creates and the transport to them.     *)
(*                                                                         *)
(* init, restart and destroy run as soon as they are called; the setters   *)
(* are serialised by _runSerial.  Every await is a point where any other   *)
(* call, reply, timer or message may come first.  What follows a reply in  *)
(* the same microtask checkpoint is part of the action that handles it.    *)
(***************************************************************************)
EXTENDS AudioPipelineWorklet, CommandTransport

CONSTANTS
    MaxSetters,         \* bound on setter calls
    MaxDestroys,        \* bound on destroy() calls
    Setters,            \* the setters the application uses
    StartModules,       \* the denoise modules it may configure at the start
    Rules               \* the orders of calls the application keeps to, see below

ASSUME CallsAssumption ==
    /\ MaxSetters \in Nat /\ MaxDestroys \in Nat
    /\ MaxRequests >= MaxSetters + MaxInits     \* request ids never run out
    /\ Setters \subseteq {"setEnabled", "setStageModule", "setRnnoise", "setDeepFilter"}
    /\ StartModules \subseteq Modules
    /\ Rules \subseteq {"oneAtATime", "initFirst", "initEnabled"}
    /\ Faults \subseteq {"load", "fetch", "wasm", "pipeline", "timeout"}

VARIABLES
    enabled,            \* _enabled
    options,            \* _options: the denoise module and the module configs
    node,               \* _workletNode
    listening,          \* per node: its port.onmessage is _handleRuntimeMessage
    workerRef,          \* _worker
    published,          \* processedTrack: the node whose destination it comes from
    contextLoaded,      \* the context is in _loadedContexts
    task,               \* the init and restart calls
    setters,            \* _operationQueue: setter calls that have not settled
    running,            \* the request the first of them waits for
    calls               \* setter and destroy calls made so far

mainVars == <<enabled, options, node, listening, workerRef, published, contextLoaded,
              task, setters, running, calls>>
vars == <<mainVars, transportVars, workerVars, workletVars>>

IdleTask == [pc |-> "idle", module |-> "rnnoise", configs |-> DefaultConfigs, req |-> NoRequest]

Init ==
    /\ enabled = TRUE
    /\ options \in [denoise : StartModules, configs : {DefaultConfigs}]
    /\ node = None /\ workerRef = None /\ published = None
    /\ listening = [n \in Ids |-> FALSE]
    /\ contextLoaded = FALSE
    /\ task = [t \in Ids |-> IdleTask]
    /\ setters = <<>> /\ running = NoRequest
    /\ calls = [set |-> 0, destroy |-> 0]
    /\ TransportInit /\ WorkerInit /\ WorkletInit

-----------------------------------------------------------------------------
\* An init() or restart() that has not settled.
InProgress(t) == task[t].pc \notin {"idle", "done", "failed"}
Busy == \E t \in Ids : InProgress(t)

\* A setter that can start does so in a microtask: only the application's own
\* calls can come before it, no message, timer or settled fetch.
NoMicrotask == setters # <<>> => running # NoRequest

\* A setter call, and what it makes of the options when it succeeds.
Op(kind, arg) == [kind |-> kind, arg |-> arg]
Target(op) == IF op.kind = "setRnnoise" THEN "rnnoise" ELSE "deepfilternet"

NextOptions(op) ==
    CASE op.kind = "setEnabled" -> options
      [] op.kind = "setStageModule" -> [options EXCEPT !.denoise = op.arg]
      [] OTHER -> [options EXCEPT !.configs[Target(op)] = Merge(@, op.arg)]

\* The command that carries a setter to the worklet.
SetterCommand(op, id) ==
    CASE op.kind = "setEnabled" -> Command("SET_ENABLED", op.arg, id)
      [] op.kind = "setStageModule" -> Command("SET_STAGE_MODULE", op.arg, id)
      [] OTHER -> Command("SET_MODULE_CONFIG",
                          [module |-> Target(op), config |-> NextOptions(op).configs[Target(op)]], id)

\* Mutant: the request id is not incremented.
PostReusingId(cmd) ==
    /\ nextRequestId \in RequestIds
    /\ pending' = pending \cup {nextRequestId}
    /\ outcome' = [outcome EXCEPT ![nextRequestId] = "waiting"]
    /\ toNode' = [toNode EXCEPT ![node] = Append(@, cmd)]
    /\ UNCHANGED nextRequestId

\* _sendCommand to the current node, which exists.
Post(cmd) == Send /\ toNode' = [toNode EXCEPT ![node] = Append(@, cmd)]

\* The head of the queue settles; the options change only on success.
FinishSetter(ok) ==
    /\ setters' = Tail(setters)
    /\ running' = NoRequest
    /\ options' = IF ok THEN NextOptions(Head(setters)) ELSE options

Fail(t) == task' = [task EXCEPT ![t].pc = "failed"]

\* The awaiting _waitForWorkerInit has given up: port2.onmessage is null.
ClosePort(p) ==
    /\ portHolder' = [portHolder EXCEPT ![p] = [at |-> "closed", node |-> None]]
    /\ fromWorker' = [fromWorker EXCEPT ![p] = <<>>]

-----------------------------------------------------------------------------
\* Mutant: a node whose init() did not complete is not told.
DestroyPublishedNode ==
    /\ toNode' = IF published = None THEN toNode
                 ELSE [toNode EXCEPT ![node] = Append(@, Command("DESTROY", None, NoRequest))]
    /\ listening' = IF node = None THEN listening ELSE [listening EXCEPT ![node] = FALSE]

\* _closeInternal: the node is told and no longer listened to, ...
DestroyNode ==
    /\ toNode' = IF node = None THEN toNode
                 ELSE [toNode EXCEPT ![node] = Append(@, Command("DESTROY", None, NoRequest))]
    /\ listening' = IF node = None THEN listening ELSE [listening EXCEPT ![node] = FALSE]

\* ... the worker is terminated with whatever it had not handled, ...
TerminateWorker ==
    /\ workerLife' = IF workerRef = None THEN workerLife ELSE [workerLife EXCEPT ![workerRef] = "terminated"]
    /\ toWorker' = IF workerRef = None THEN toWorker ELSE [toWorker EXCEPT ![workerRef] = <<>>]

\* Mutant: close() clears the map without rejecting the promises.
RejectNobody == Close /\ UNCHANGED <<setters, running, options>>

\* ... the calls that await a command are rejected, ...
RejectAwaiting ==
    /\ Close
    /\ IF running \in pending THEN FinishSetter(FALSE) ELSE UNCHANGED <<setters, running, options>>

\* Mutants: the node, or the worker, stays referenced.
KeepNode == node' = node /\ workerRef' = None /\ published' = None
KeepWorker == node' = None /\ workerRef' = workerRef /\ published' = None

\* ... and the handles are dropped.
DropHandles == node' = None /\ workerRef' = None /\ published' = None

\* The whole of it; the init calls in started begin in the same step.
CloseInternal(started) ==
    /\ DestroyNode /\ TerminateWorker /\ RejectAwaiting /\ DropHandles
    /\ task' = [t \in Ids |-> IF task[t].req \in pending THEN [task[t] EXCEPT !.pc = "failed"]
                              ELSE IF t \in started THEN [task[t] EXCEPT !.pc = "loading"]
                              ELSE task[t]]
    /\ UNCHANGED <<enabled, contextLoaded, worker, fromWorker, portHolder, worklet, toMain>>

NextTask(t) == task[t].pc = "idle" /\ \A s \in Ids : s < t => task[s].pc # "idle"

\* What an application that keeps to Rules checks before init and restart.
MayInit ==
    /\ "oneAtATime" \in Rules => ~Busy /\ setters = <<>>
    /\ "initEnabled" \in Rules => enabled

CallInit(t) ==
    /\ NextTask(t)
    /\ MayInit
    /\ "oneAtATime" \in Rules => node = None /\ workerRef = None
    /\ task' = [task EXCEPT ![t].pc = "loading"]
    /\ UNCHANGED <<enabled, options, node, listening, workerRef, published, contextLoaded,
                   setters, running, calls, transportVars, workerVars, workletVars>>

CallRestart(t) ==
    /\ NextTask(t)
    /\ MayInit
    /\ CloseInternal({t})
    /\ UNCHANGED calls

CallDestroy ==
    /\ calls.destroy < MaxDestroys
    /\ "oneAtATime" \in Rules => ~Busy
    /\ CloseInternal({})
    /\ calls' = [calls EXCEPT !.destroy = @ + 1]

CallSetter(op) ==
    /\ calls.set < MaxSetters
    /\ op.kind \in Setters
    /\ "initFirst" \in Rules => ~Busy
    /\ setters' = Append(setters, op)
    /\ calls' = [calls EXCEPT !.set = @ + 1]
    /\ UNCHANGED <<enabled, options, node, listening, workerRef, published, contextLoaded,
                   task, running, transportVars, workerVars, workletVars>>

-----------------------------------------------------------------------------
\* _initInternal, from one await to the next.

\* addModule resolved, or was not needed and the await took one microtask: the
\* node is created and the module and configs are captured for the worker.
WorkletLoaded(t) ==
    /\ NoMicrotask \/ contextLoaded
    /\ task[t].pc = "loading"
    /\ contextLoaded' = TRUE
    /\ worklet' = [worklet EXCEPT ![t].life = "running"]
    /\ node' = t
    /\ listening' = [listening EXCEPT ![t] = TRUE]
    /\ task' = [task EXCEPT ![t] =
           [@ EXCEPT !.pc = "fetching", !.module = options.denoise, !.configs = options.configs]]
    /\ UNCHANGED <<enabled, options, workerRef, published, setters, running, calls,
                   transportVars, workerVars, toNode, toMain>>

LoadFails(t) ==
    /\ NoMicrotask
    /\ "load" \in Faults
    /\ task[t].pc = "loading" /\ ~contextLoaded
    /\ Fail(t)
    /\ UNCHANGED <<enabled, options, node, listening, workerRef, published, contextLoaded,
                   setters, running, calls, transportVars, workerVars, workletVars>>

\* fetchWasmBinaries resolved: the worker is created and sent INIT.
WasmFetched(t) ==
    /\ NoMicrotask
    /\ task[t].pc = "fetching"
    /\ workerRef' = t
    /\ workerLife' = [workerLife EXCEPT ![t] = "alive"]
    /\ toWorker' = [toWorker EXCEPT ![t] =
           Append(@, Msg("INIT", [module |-> task[t].module, configs |-> task[t].configs]))]
    /\ task' = [task EXCEPT ![t].pc = "workerInit"]
    /\ UNCHANGED <<enabled, options, node, listening, published, contextLoaded, setters, running,
                   calls, transportVars, worker, fromWorker, portHolder, workletVars>>

FetchFails(t) ==
    /\ NoMicrotask
    /\ "fetch" \in Faults
    /\ task[t].pc = "fetching"
    /\ Fail(t)
    /\ UNCHANGED <<enabled, options, node, listening, workerRef, published, contextLoaded,
                   setters, running, calls, transportVars, workerVars, workletVars>>

\* INIT_OK: the pipeline command goes to the node that is current now, which
\* need not be the one this call created; without a node the call fails.
WorkerInitOk(t) ==
    /\ NoMicrotask
    /\ task[t].pc = "workerInit"
    /\ fromWorker[t] # <<>> /\ Head(fromWorker[t]).type = "INIT_OK"
    /\ \/ /\ node = None
          /\ Fail(t)
          /\ ClosePort(t)
          /\ UNCHANGED <<toNode, transportVars>>
       \/ /\ node # None
          /\ Post(Command("INIT_PIPELINE",
                 [enable |-> enabled, workerPort |-> t, frameModule |-> Head(fromWorker[t]).arg,
                  module |-> task[t].module, rnnoise |-> task[t].configs["rnnoise"]], nextRequestId))
          /\ task' = [task EXCEPT ![t] = [@ EXCEPT !.pc = "pipelineInit", !.req = nextRequestId]]
          /\ fromWorker' = [fromWorker EXCEPT ![t] = Tail(@)]
          /\ portHolder' = [portHolder EXCEPT ![t].at = "transit"]
    /\ UNCHANGED <<enabled, options, node, listening, workerRef, published, contextLoaded, setters,
                   running, calls, workerLife, worker, toWorker, worklet, toMain>>

WorkerInitFails(t) ==
    /\ NoMicrotask
    /\ task[t].pc = "workerInit"
    /\ \/ "timeout" \in Faults      \* the 10 s timer
       \/ fromWorker[t] # <<>> /\ Head(fromWorker[t]).type = "ERROR"
    /\ Fail(t)
    /\ ClosePort(t)
    /\ UNCHANGED <<enabled, options, node, listening, workerRef, published, contextLoaded, setters,
                   running, calls, transportVars, workerLife, worker, toWorker, workletVars>>

-----------------------------------------------------------------------------
\* Mutant: the options are assigned before the worklet has answered.
StartOptimistic ==
    /\ setters # <<>> /\ running = NoRequest /\ node # None
    /\ Post(SetterCommand(Head(setters), nextRequestId))
    /\ running' = nextRequestId
    /\ options' = NextOptions(Head(setters))
    /\ UNCHANGED <<enabled, node, listening, workerRef, published, contextLoaded, task, setters, calls,
                   workerVars, worklet, toMain>>

\* The next queued setter starts once the one before it has settled.
StartSetter ==
    /\ setters # <<>> /\ running = NoRequest
    /\ LET op == Head(setters) IN
       /\ enabled' = IF op.kind = "setEnabled" THEN op.arg ELSE enabled
       /\ \/ /\ node = None \/ (op.kind = "setStageModule" /\ options.denoise = op.arg)
             /\ FinishSetter(TRUE)
             /\ UNCHANGED <<toNode, transportVars>>
          \/ /\ node # None
             /\ ~(op.kind = "setStageModule" /\ options.denoise = op.arg)
             /\ Post(SetterCommand(op, nextRequestId))
             /\ running' = nextRequestId
             /\ UNCHANGED <<setters, options>>
    /\ UNCHANGED <<node, listening, workerRef, published, contextLoaded, task, calls,
                   workerVars, worklet, toMain>>

\* Mutant: the track is handed out although the pipeline command failed.
ContinueAnyway(id, ok) ==
    \/ /\ id = running
       /\ FinishSetter(ok)
       /\ UNCHANGED <<task, published>>
    \/ \E t \in Ids :
       /\ id = task[t].req
       /\ task' = [task EXCEPT ![t].pc = "done"]
       /\ published' = node
       /\ UNCHANGED <<setters, running, options>>

\* What awaits request id goes on: the running setter, or the init call, which
\* connects the graph to the node that is current now.
Continue(id, ok) ==
    \/ /\ id = running
       /\ FinishSetter(ok)
       /\ UNCHANGED <<task, published>>
    \/ \E t \in Ids :
       /\ id = task[t].req
       /\ task' = [task EXCEPT ![t].pc = IF ok THEN "done" ELSE "failed"]
       /\ published' = IF ok THEN node ELSE published
       /\ UNCHANGED <<setters, running, options>>

\* _handleRuntimeMessage: a reply of a closed node is not heard, one whose
\* request is gone is ignored.
ReceiveReply(n) ==
    /\ NoMicrotask
    /\ toMain[n] # <<>>
    /\ LET reply == Head(toMain[n]) IN
       \/ /\ listening[n] /\ reply.id \in pending
          /\ IF reply.ok THEN Resolve(reply.id) ELSE Reject(reply.id)
          /\ Continue(reply.id, reply.ok)
       \/ /\ ~listening[n] \/ reply.id \notin pending
          /\ UNCHANGED <<transportVars, setters, running, options, task, published>>
    /\ toMain' = [toMain EXCEPT ![n] = Tail(@)]
    /\ UNCHANGED <<enabled, node, listening, workerRef, contextLoaded, calls, workerVars, worklet, toNode>>

\* The 10 s timer of a command.
CommandTimeout(id) ==
    /\ NoMicrotask
    /\ "timeout" \in Faults
    /\ Timeout(id)
    /\ Continue(id, FALSE)
    /\ UNCHANGED <<enabled, node, listening, workerRef, contextLoaded, calls, workerVars, workletVars>>

-----------------------------------------------------------------------------
NodeStep(n) == Dispatch(n) /\ UNCHANGED <<mainVars, transportVars>>
PortStep(p) == WorkletReceives(p) /\ UNCHANGED <<mainVars, transportVars>>
WorkerStep(w) == WorkerReceives(w) /\ UNCHANGED <<mainVars, transportVars, workletVars>>

Next ==
    \/ \E t \in Ids : CallInit(t) \/ CallRestart(t)
    \/ CallDestroy
    \/ \E enable \in BOOLEAN : CallSetter(Op("setEnabled", enable))
    \/ \E m \in Modules : CallSetter(Op("setStageModule", m))
    \/ \E c \in Patches("rnnoise") : CallSetter(Op("setRnnoise", c))
    \/ \E c \in Patches("deepfilternet") : CallSetter(Op("setDeepFilter", c))
    \/ \E t \in Ids : WorkletLoaded(t) \/ LoadFails(t) \/ WasmFetched(t) \/ FetchFails(t)
                      \/ WorkerInitOk(t) \/ WorkerInitFails(t)
    \/ StartSetter
    \/ \E n \in Ids : ReceiveReply(n) \/ NodeStep(n) \/ PortStep(n) \/ WorkerStep(n)
    \/ \E id \in RequestIds : CommandTimeout(id)

Spec == Init /\ [][Next]_vars

=============================================================================
