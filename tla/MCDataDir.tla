----------------------------- MODULE MCDataDir -----------------------------
(* DataDir with two datasets, of which only one fits; one job needs both.     *)
EXTENDS DataDir

MCFiles == [a |-> <<"noise">>, b |-> <<"noise", "speech">>]
MCSize == [noise |-> 1, speech |-> 3]
=============================================================================
