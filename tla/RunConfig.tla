----------------------------- MODULE RunConfig -----------------------------
(***************************************************************************)
(* The batch size of a training process: the option in config.ini          *)
(* (df/config.py), and the table of batch sizes that the hosts of a        *)
(* cluster share (scripts/set_batch_size.py, called by df/train.py).  The  *)
(* config file belongs to the run, the table outlives it, and a job that   *)
(* is submitted again may start on another host.                           *)
(*                                                                         *)
(* config.ini names the model and the size of the FFT, which the table's   *)
(* key is made of, and no option is set in the environment.  Autocasting   *)
(* does not change during a run, so the table has one training size per    *)
(* host; the evaluation size is left out.                                  *)
(***************************************************************************)
EXTENDS Naturals

CONSTANTS
    Hosts,          \* the hosts the job may start on
    ConfigBs,       \* train.batch_size in the config of the new run, or None
    HostBs          \* the table before the run: for each host a size or None

None == 0
Sizes == {ConfigBs} \cup {HostBs[h] : h \in Hosts} \cup {1}

ASSUME ConfigAssumption == ConfigBs \in Nat /\ HostBs \in [Hosts -> Nat]

VARIABLES
    ini,            \* train.batch_size in config.ini
    hostBs,         \* the table of the hosts
    base            \* bs of the process, None before it has read it

configVars == <<ini, hostBs, base>>

ConfigInit == ini = ConfigBs /\ hostBs = HostBs /\ base = None

\* Of the two entries one follows the other: the config the host, when both
\* are there, the host the config, when it has none.
UpdateBatchSize(current, entry) ==
    [config |-> IF current # None /\ entry # None THEN entry ELSE current,
     host |-> IF current # None /\ entry = None THEN current ELSE entry]

SetBatchSize(h) ==
    LET new == UpdateBatchSize(ini, hostBs[h]) IN
    /\ ini' = new.config
    /\ hostBs' = [hostBs EXCEPT ![h] = new.host]

\* config(option, default): the value in the file, or the default
ConfigCall(value, default) == IF value # None THEN value ELSE default

\* config.save: options that were not in the file are added with the value
\* that was used
ConfigSave == ini' = ConfigCall(ini, base)
=============================================================================
