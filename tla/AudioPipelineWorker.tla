------------------------ MODULE AudioPipelineWorker ------------------------
(***************************************************************************)
(* The control state of AudioPipelineWorkerRuntime                         *)
(* (js/src/AudioPipelineWorker.ts): one runtime per Worker, fed by its     *)
(* MessagePort in order.  Audio frames are in FramePipeline.               *)
(***************************************************************************)
EXTENDS PipelineTypes

CONSTANT Faults         \* the failures of the environment that may happen

VARIABLES
    workerLife,         \* "none", "alive" or "terminated", per worker
    worker,             \* the fields of the runtime, per worker
    toWorker,           \* port2 -> port1 of a worker's channel
    fromWorker,         \* port1 -> port2
    portHolder          \* who listens on port2: "main", "transit", "closed" or a worklet

workerVars == <<workerLife, worker, toWorker, fromWorker, portHolder>>

InitialWorker == [
    currentModuleId |-> "rnnoise", processingEnabled |-> TRUE,
    configs |-> DefaultConfigs,
    loaded |-> {},                              \* the modules that exist
    dfState |-> DefaultConfig("deepfilternet")] \* what the DeepFilterNet state runs with

WorkerInit ==
    /\ workerLife = [w \in Ids |-> "none"]
    /\ worker = [w \in Ids |-> InitialWorker]
    /\ toWorker = [w \in Ids |-> <<>>]
    /\ fromWorker = [w \in Ids |-> <<>>]
    /\ portHolder = [w \in Ids |-> [at |-> "main", node |-> None]]

\* What a message posted to a worker's port becomes; a terminated worker has
\* dropped its queue and takes nothing more.
Posted(w, msg) == IF workerLife[w] = "alive" THEN [toWorker EXCEPT ![w] = Append(@, msg)] ELSE toWorker

\* _respond: posting to a channel whose other end was closed is lost.
Respond(w, msg) ==
    fromWorker' = IF portHolder[w].at = "closed" THEN fromWorker ELSE [fromWorker EXCEPT ![w] = Append(@, msg)]

-----------------------------------------------------------------------------
\* Applied to the modules that are loaded: updateConfig of a DeepFilterModule
\* changes the live parameters of its state and no other.
UpdatedState(r, cfg) ==
    IF "deepfilternet" \in r.loaded
    THEN [f \in DOMAIN r.dfState |-> IF f \in LiveFields THEN cfg[f] ELSE r.dfState[f]]
    ELSE r.dfState

\* _handleInit with _initAllModules and _activateModule.  A WASM module that
\* cannot be created leaves those created before it.
HandleInit(w, arg) ==
    LET fresh == [worker[w] EXCEPT !.currentModuleId = arg.module, !.configs = arg.configs] IN
    \/ /\ worker' = [worker EXCEPT ![w] =
              [fresh EXCEPT !.loaded = Modules, !.dfState = arg.configs["deepfilternet"]]]
       /\ Respond(w, Msg("INIT_OK", arg.module))
    \/ /\ "wasm" \in Faults
       /\ \E created \in {{}, {"rnnoise"}} : worker' = [worker EXCEPT ![w] = [fresh EXCEPT !.loaded = created]]
       /\ Respond(w, Msg("ERROR", "init"))

\* Mutant: the switch is not announced.
SetModuleSilently(w, moduleId) ==
    /\ worker' = [worker EXCEPT ![w].currentModuleId = moduleId]
    /\ UNCHANGED fromWorker

\* _handleSetModule: silent when the module is already current.
HandleSetModule(w, moduleId) ==
    \/ /\ moduleId = worker[w].currentModuleId
       /\ UNCHANGED <<worker, fromWorker>>
    \/ /\ moduleId # worker[w].currentModuleId
       /\ worker' = [worker EXCEPT ![w].currentModuleId = moduleId]
       /\ Respond(w, IF moduleId \in worker[w].loaded THEN Msg("MODULE_CHANGED", moduleId)
                                                      ELSE Msg("ERROR", "not available"))

\* Mutant: a config for the module that is not active is dropped.
SetActiveConfig(w, arg) ==
    LET merged == Merge(worker[w].configs[arg.module], arg.config) IN
    /\ worker' = IF arg.module = worker[w].currentModuleId
                 THEN [worker EXCEPT
                          ![w].configs = [@ EXCEPT ![arg.module] = merged],
                          ![w].dfState = IF arg.module = "deepfilternet" THEN UpdatedState(worker[w], merged) ELSE @]
                 ELSE worker
    /\ UNCHANGED fromWorker

HandleSetModuleConfig(w, arg) ==
    LET merged == Merge(worker[w].configs[arg.module], arg.config) IN
    /\ worker' = [worker EXCEPT
           ![w].configs = [@ EXCEPT ![arg.module] = merged],
           ![w].dfState = IF arg.module = "deepfilternet" THEN UpdatedState(worker[w], merged) ELSE @]
    /\ UNCHANGED fromWorker

HandleSetEnabled(w, enable) ==
    /\ worker' = [worker EXCEPT ![w].processingEnabled = enable]
    /\ UNCHANGED fromWorker

\* _handleDestroy: back to the defaults, both modules disposed.
HandleDestroy(w) ==
    /\ worker' = [worker EXCEPT ![w] = InitialWorker]
    /\ UNCHANGED fromWorker

\* handleMessage
WorkerReceives(w) ==
    /\ workerLife[w] = "alive"
    /\ toWorker[w] # <<>>
    /\ LET msg == Head(toWorker[w]) IN
       \/ msg.type = "INIT" /\ HandleInit(w, msg.arg)
       \/ msg.type = "SET_MODULE" /\ HandleSetModule(w, msg.arg)
       \/ msg.type = "SET_MODULE_CONFIG" /\ HandleSetModuleConfig(w, msg.arg)
       \/ msg.type = "SET_ENABLED" /\ HandleSetEnabled(w, msg.arg)
       \/ msg.type = "DESTROY" /\ HandleDestroy(w)
    /\ toWorker' = [toWorker EXCEPT ![w] = Tail(@)]
    /\ UNCHANGED <<workerLife, portHolder>>

=============================================================================
