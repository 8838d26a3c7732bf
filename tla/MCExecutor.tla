----------------------------- MODULE MCExecutor -----------------------------
(***************************************************************************)
(* Executor for TLC.  The task ids are model values given in the .cfg      *)
(* file.                                                                   *)
(***************************************************************************)
EXTENDS Executor
=============================================================================
