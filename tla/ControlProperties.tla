------------------------- MODULE ControlProperties -------------------------
(***************************************************************************)
(* What the control plane of the web pipeline should guarantee, and the    *)
(* fairness its liveness rests on.                                         *)
(***************************************************************************)
EXTENDS AudioPipelineTrackProcessor

-----------------------------------------------------------------------------
(* Agreement of the three runtimes.                                        *)

\* The pipeline is up and every call and message has been dealt with.
Served == worklet[node].workerPort
Quiescent ==
    /\ node # None /\ published = node
    /\ ~Busy /\ setters = <<>>
    /\ toNode[node] = <<>> /\ Served # None
    /\ toWorker[Served] = <<>> /\ fromWorker[Served] = <<>>

\* setStageModule: the module the main thread believes active is the one the
\* worklet and the worker run, and the worklet's queues fit its frames.
ModuleConverged ==
    Quiescent =>
        /\ worker[Served].currentModuleId = options.denoise
        /\ worklet[node].currentModuleId = options.denoise
        /\ worklet[node].frameModule = options.denoise

\* setEnabled: the worker processes frames exactly when isEnabled() says so.
EnabledConverged == Quiescent => worker[Served].processingEnabled = enabled

\* setModuleConfig: the worker holds the configs the main thread has, also of
\* the module that is not active, and the DeepFilterNet state runs with the
\* parameters that can be changed while it exists.
ConfigConverged ==
    Quiescent =>
        /\ worker[Served].configs = options.configs
        /\ \A f \in LiveFields : worker[Served].dfState[f] = options.configs["deepfilternet"][f]

-----------------------------------------------------------------------------
(* Resources, for an application that makes one lifecycle call at a time.  *)

\* Nothing runs that destroy() or restart() would not release, failed init calls
\* included: every worker that runs is the current one, and every worklet that
\* has not been destroyed is the current one or has its DESTROY on the way.
NoOrphan ==
    /\ \A w \in Ids : workerLife[w] = "alive" => workerRef = w
    /\ \A n \in Ids : worklet[n].life = "running" =>
          \/ n = node
          \/ \E i \in DOMAIN toNode[n] : toNode[n][i].type = "DESTROY"

\* A track that was handed out comes from a worklet that runs, has its worker
\* port and worker, and that worker has its modules.
PublishedIsServed ==
    published # None =>
        LET w == worklet[published].workerPort IN
        /\ published = node /\ worklet[node].life = "running" /\ worklet[node].workerReady
        /\ w = workerRef /\ workerLife[w] = "alive" /\ worker[w].loaded = Modules

-----------------------------------------------------------------------------
(* What holds whatever the application calls and whatever fails.           *)

\* The runtime's transport keeps the promise of CommandTransport: it settles
\* no request twice and forgets none.
TransportImplemented == TransportSpec

\* Every command that waits in the transport has exactly one call awaiting it,
\* so a rejected or resolved command always lets its call go on, and no call
\* awaits a command that is gone.
Awaiting == {running} \cup {task[t].req : t \in {s \in Ids : task[s].pc = "pipelineInit"}}
PendingIsAwaited == pending = Awaiting \ {NoRequest}

\* DESTROY is the last thing a worklet is sent, so none of its commands can
\* reach a closed worker port.
DestroyIsLast ==
    \A n \in Ids : \A i \in DOMAIN toNode[n] :
        /\ toNode[n][i].type = "DESTROY" => i = Len(toNode[n])
        /\ worklet[n].life # "destroyed"

\* The options change only when there is no runtime to tell or when the
\* worklet has confirmed the change with a command that was still awaited.
OptionsNeedConsent ==
    [][options' # options =>
         \/ node = None
         \/ running \in pending /\ outcome'[running] = "ok" /\ listening[node]]_vars

\* destroy() finds what it has to release: the node and the worker the main
\* thread refers to are open and running, and a track that was handed out has
\* a node, however destroy() and restart() interrupt an init().
HandlesAreLive ==
    /\ workerRef # None => workerLife[workerRef] = "alive"
    /\ node # None => listening[node] /\ worklet[node].life = "running"
    /\ published # None => node # None

-----------------------------------------------------------------------------
(* Liveness.  The event loop runs queued setters; the browser settles       *)
(* addModule and fetch one way or the other, since the code has no timer of *)
(* its own for them; the two timers fire.  Nothing is assumed of worklets   *)
(* and workers, which may hang.                                             *)
Fairness ==
    /\ WF_vars(StartSetter)
    /\ \A t \in Ids :
        /\ WF_vars(WorkletLoaded(t) \/ LoadFails(t))
        /\ WF_vars(WasmFetched(t) \/ FetchFails(t))
        /\ WF_vars(WorkerInitFails(t))
    /\ \A id \in RequestIds : WF_vars(CommandTimeout(id))

FairSpec == Spec /\ Fairness

\* Every call settles, also when the worklet never answers and when the runtime
\* is closed under it: the operation queue drains, and every init() and restart()
\* resolves or rejects.
CallsSettle ==
    /\ (setters # <<>>) ~> (setters = <<>>)
    /\ \A t \in Ids : InProgress(t) ~> ~InProgress(t)

=============================================================================
