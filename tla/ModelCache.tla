----------------------------- MODULE ModelCache -----------------------------
(***************************************************************************)
(* The directory of a pretrained model in the user's cache (df/enhance.py, *)
(* maybe_download_model): the archive is downloaded and unpacked on first  *)
(* use (df/utils.py, download_file).  The program may be interrupted       *)
(* meanwhile and is then started again; the archive itself is overwritten  *)
(* by the next download.                                                   *)
(***************************************************************************)
EXTENDS Naturals

CONSTANTS
    MaxInterrupts   \* bound on the interrupted starts

ASSUME CacheAssumption == MaxInterrupts \in Nat

VARIABLES
    step,           \* look, get, unpack, found or failed
    parts,          \* of the config file and the checkpoint: none, cut or whole
    interrupts      \* history: interrupted starts

cacheVars == <<step, parts, interrupts>>

Names == {"config", "checkpoint"}
Unpacked(state) == [n \in Names |-> state]

\* A cache without the model, or with all of it.
CacheInit ==
    /\ step = "look" /\ interrupts = 0
    /\ parts \in {Unpacked("none"), Unpacked("whole")}

\* A config.ini or a directory "checkpoints" is taken for the whole model.
Look ==
    /\ step = "look"
    /\ step' = IF \E n \in Names : parts[n] # "none" THEN "found" ELSE "get"
    /\ UNCHANGED <<parts, interrupts>>

\* The download: a status of 400 or more, or an archive that was cut, ends
\* the program with nothing unpacked.
Get ==
    /\ step = "get"
    /\ step' \in {"unpack", "failed"}
    /\ UNCHANGED <<parts, interrupts>>

\* extractall, one file after the other; config.ini is written at once
UnpackOpen(n) ==
    /\ step = "unpack"
    /\ parts[n] = "none" /\ \A m \in Names : parts[m] # "cut"
    /\ parts' = [parts EXCEPT ![n] = IF n = "config" THEN "whole" ELSE "cut"]
    /\ UNCHANGED <<step, interrupts>>

UnpackRest(n) ==
    /\ step = "unpack"
    /\ parts[n] = "cut"
    /\ parts' = [parts EXCEPT ![n] = "whole"]
    /\ UNCHANGED <<step, interrupts>>

EndOfArchive ==
    /\ step = "unpack" /\ parts = Unpacked("whole")
    /\ step' = "found"
    /\ UNCHANGED <<parts, interrupts>>

\* The program ends, and the user starts it again.
Interrupt ==
    /\ step \in {"look", "get", "unpack"} /\ interrupts < MaxInterrupts
    /\ step' = "look" /\ interrupts' = interrupts + 1
    /\ UNCHANGED parts

MaybeDownloadModel ==
    \/ Look
    \/ Get
    \/ \E n \in Names : UnpackOpen(n) \/ UnpackRest(n)
    \/ EndOfArchive

\* config.load and read_cp find what they need.
CanLoad == parts = Unpacked("whole")
=============================================================================
