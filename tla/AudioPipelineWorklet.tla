----------------------- MODULE AudioPipelineWorklet ------------------------
(***************************************************************************)
(* The control half of the AudioWorkletProcessor                           *)
(* (js/src/AudioPipelineWorklet.ts): it executes the commands of the main  *)
(* thread in order, one at a time (_messageChain), forwards what concerns  *)
(* the worker and answers with COMMAND_OK or COMMAND_ERROR.  Its audio     *)
(* path is in FramePipeline.                                               *)
(***************************************************************************)
EXTENDS AudioPipelineWorker

VARIABLES
    worklet,            \* the fields of the processor, per AudioWorkletNode
    toNode,             \* commands on the way to the worklet
    toMain              \* its replies on the way back

workletVars == <<worklet, toNode, toMain>>

InitialWorklet == [
    life |-> "none",            \* "none", "running" or "destroyed" (_destroyed)
    workerPort |-> None,        \* the worker _workerPort leads to
    workerReady |-> FALSE,
    currentModuleId |-> "rnnoise",
    frameModule |-> "rnnoise",  \* whose frame length the queues are built for
    vad |-> DefaultConfig("rnnoise")]   \* _vadLogsEnabled, _vadLogIntervalMs

WorkletInit ==
    /\ worklet = [n \in Ids |-> InitialWorklet]
    /\ toNode = [n \in Ids |-> <<>>]
    /\ toMain = [n \in Ids |-> <<>>]

\* _workerPort?.postMessage
ToWorker(n, msg) ==
    toWorker' = IF worklet[n].workerPort = None THEN toWorker ELSE Posted(worklet[n].workerPort, msg)

\* _respondOk and _respondError: a command without an id gets no OK.
Reply(n, cmd, ok) ==
    toMain' = IF cmd.id = NoRequest /\ ok THEN toMain
              ELSE [toMain EXCEPT ![n] = Append(@, [id |-> cmd.id, ok |-> ok])]

-----------------------------------------------------------------------------
\* _initPipeline.  payload.enable is not read.  Rebuilding the queues may
\* throw (they are sized by the caller's batchFrames); the port is set by then.
InitPipeline(n, cmd) ==
    LET p == cmd.arg.workerPort
        connected == [worklet[n] EXCEPT
            !.currentModuleId = cmd.arg.module, !.vad = cmd.arg.rnnoise,
            !.workerPort = p, !.frameModule = cmd.arg.frameModule]
    IN
    /\ portHolder' = [portHolder EXCEPT ![p] = [at |-> "worklet", node |-> n]]
    /\ \/ /\ worklet' = [worklet EXCEPT ![n] = [connected EXCEPT !.workerReady = TRUE]]
          /\ Reply(n, cmd, TRUE)
       \/ /\ "pipeline" \in Faults
          /\ worklet' = [worklet EXCEPT ![n] = connected]
          /\ Reply(n, cmd, FALSE)
    /\ UNCHANGED <<toWorker, fromWorker>>

\* Mutant: the command is answered here and not passed on.
SetEnabledHere(n, cmd) ==
    /\ Reply(n, cmd, TRUE)
    /\ UNCHANGED <<worklet, portHolder, toWorker, fromWorker>>

SetEnabled(n, cmd) ==
    /\ ToWorker(n, Msg("SET_ENABLED", cmd.arg))
    /\ Reply(n, cmd, TRUE)
    /\ UNCHANGED <<worklet, portHolder, fromWorker>>

SetStageModule(n, cmd) ==
    /\ worklet' = [worklet EXCEPT ![n].currentModuleId = cmd.arg]
    /\ ToWorker(n, Msg("SET_MODULE", cmd.arg))
    /\ Reply(n, cmd, TRUE)
    /\ UNCHANGED <<portHolder, fromWorker>>

\* _handleSetModuleConfig: of an rnnoise config only the interval is kept here.
SetModuleConfig(n, cmd) ==
    /\ worklet' = IF cmd.arg.module = "rnnoise"
                  THEN [worklet EXCEPT ![n].vad["vadLogIntervalMs"] = cmd.arg.config["vadLogIntervalMs"]]
                  ELSE worklet
    /\ ToWorker(n, Msg("SET_MODULE_CONFIG", cmd.arg))
    /\ Reply(n, cmd, TRUE)
    /\ UNCHANGED <<portHolder, fromWorker>>

\* _destroy: the worker is told, then the port is closed; what was still on
\* its way from the worker is lost.
Destroy(n, cmd) ==
    LET p == worklet[n].workerPort IN
    /\ worklet' = [worklet EXCEPT ![n].life = "destroyed", ![n].workerReady = FALSE, ![n].workerPort = None]
    /\ ToWorker(n, Msg("DESTROY", None))
    /\ portHolder' = IF p = None THEN portHolder ELSE [portHolder EXCEPT ![p] = [at |-> "closed", node |-> None]]
    /\ fromWorker' = IF p = None THEN fromWorker ELSE [fromWorker EXCEPT ![p] = <<>>]
    /\ Reply(n, cmd, TRUE)

\* One link of _messageChain: _dispatch of the next command.
Dispatch(n) ==
    /\ worklet[n].life # "none"
    /\ toNode[n] # <<>>
    /\ LET cmd == Head(toNode[n]) IN
       \/ cmd.type = "INIT_PIPELINE" /\ InitPipeline(n, cmd)
       \/ cmd.type = "SET_ENABLED" /\ SetEnabled(n, cmd)
       \/ cmd.type = "SET_STAGE_MODULE" /\ SetStageModule(n, cmd)
       \/ cmd.type = "SET_MODULE_CONFIG" /\ SetModuleConfig(n, cmd)
       \/ cmd.type = "DESTROY" /\ Destroy(n, cmd)
    /\ toNode' = [toNode EXCEPT ![n] = Tail(@)]
    /\ UNCHANGED <<workerLife, worker>>

\* The handler of _setupWorkerPort.  ERROR is only logged.
WorkletReceives(p) ==
    LET n == portHolder[p].node IN
    /\ portHolder[p].at = "worklet"
    /\ fromWorker[p] # <<>>
    /\ LET msg == Head(fromWorker[p]) IN
       \/ msg.type = "MODULE_CHANGED" /\ worklet' = [worklet EXCEPT ![n].frameModule = msg.arg]
       \/ msg.type = "ERROR" /\ UNCHANGED worklet
    /\ fromWorker' = [fromWorker EXCEPT ![p] = Tail(@)]
    /\ UNCHANGED <<workerLife, worker, toWorker, portHolder, toNode, toMain>>

=============================================================================
