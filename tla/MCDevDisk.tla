----------------------------- MODULE MCDevDisk ------------------------------
(***************************************************************************)
(* DevDisk for TLC: a drive of two blocks with two contents, one of which  *)
(* is a boot sector that FatFs::mount accepts.                             *)
(***************************************************************************)
EXTENDS DevDisk

MCBpb == {"a"}
=============================================================================
