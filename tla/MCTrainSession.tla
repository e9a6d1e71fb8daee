-------------------------- MODULE MCTrainSession --------------------------
(* TrainSession with a batch size that grows after the first epoch, and a    *)
(* host with a batch size of its own, which a run without one in its config  *)
(* takes over when it is resumed.                                            *)
EXTENDS TrainSession

MCBatchSchedule == <<<<0, 1>>, <<1, 4>>>>
MCHostBs == [h \in Hosts |-> 2]
MCMetrics == {1, 2}
MCCycle == -1
=============================================================================
