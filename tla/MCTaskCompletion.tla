-------------------------- MODULE MCTaskCompletion --------------------------
(* An instance of TaskCompletion for TLC. *)
EXTENDS TaskCompletion
=============================================================================
