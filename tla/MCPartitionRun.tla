--------------------------- MODULE MCPartitionRun ---------------------------
(* A small instance of PartitionRun for TLC.                               *)
EXTENDS PartitionRun
MCMatrixCalls == {0, 2}
=============================================================================
