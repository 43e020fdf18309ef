-------------------------- MODULE MCExecutionSession --------------------------
(***************************************************************************)
(* Every cardinality up to two cycles, Counted(0) included, and readings   *)
(* on both sides of zero; long enough a history for two pauses.            *)
(***************************************************************************)
EXTENDS ExecutionSession

SmallCardinalities == {Once, Continuous, 0, 1, 2}
SmallReadings == {-1, 0, 1}
=============================================================================
