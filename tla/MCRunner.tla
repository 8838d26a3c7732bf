------------------------------ MODULE MCRunner ------------------------------
(***************************************************************************)
(* Runner for TLC.  The pids are interchangeable; UserFilesKept is an      *)
(* action property, for which the symmetry is sound.                       *)
(***************************************************************************)
EXTENDS Runner, TLC

PidSymmetry == Permutations(Pids)
=============================================================================
