-------------------------- MODULE PipelineTypes ---------------------------
(***************************************************************************)
(* What the three runtimes of the web pipeline (main thread, audio worklet *)
(* and worker, js/src) share: identities, module configurations and the    *)
(* messages of js/src/shared/contracts.ts and worker-contracts.ts.         *)
(*                                                                         *)
(* The n-th init() or restart() call creates at most one AudioWorkletNode, *)
(* one Worker and one MessageChannel, so one set of ids names them all.    *)
(***************************************************************************)
EXTENDS Naturals, Sequences

CONSTANTS
    MaxInits,           \* bound on init() and restart() calls together
    MaxValue            \* config values are 0 .. MaxValue, 0 the default

ASSUME InitsAssumption == MaxInits \in Nat /\ MaxValue \in Nat

Ids == 1 .. MaxInits
None == 0               \* undefined, for a field that holds an id
NoRequest == 0          \* a message without a requestId

Modules == {"rnnoise", "deepfilternet"}

\* A resolved config is a total function on the fields of its module, a
\* patch a partial one.  vadLogs = 0 stands for FALSE.
Fields(m) ==
    IF m = "rnnoise" THEN {"vadLogs", "vadLogIntervalMs"} ELSE {"attenLimDb", "minDbThresh"}
Config(m) == [Fields(m) -> 0 .. MaxValue]
Patches(m) == UNION {[{f} -> 0 .. MaxValue] : f \in Fields(m)}
DefaultConfig(m) == [f \in Fields(m) |-> 0]
AllConfigs == [rnnoise : Config("rnnoise"), deepfilternet : Config("deepfilternet")]
DefaultConfigs == [rnnoise |-> DefaultConfig("rnnoise"), deepfilternet |-> DefaultConfig("deepfilternet")]

\* mergeRnnoiseConfig and mergeDeepFilterConfig on resolved values.
Merge(base, patch) == [f \in DOMAIN base |-> IF f \in DOMAIN patch THEN patch[f] ELSE base[f]]

\* The fields df_set_* can change in a DeepFilterNet state that exists.
LiveFields == {"attenLimDb"}

\* Messages.  Commands (main to worklet) also carry their request id.
Msg(type, arg) == [type |-> type, arg |-> arg]
Command(type, arg, id) == [type |-> type, arg |-> arg, id |-> id]

=============================================================================
