------------------------------ MODULE MCShell -------------------------------
(***************************************************************************)
(* Shell for TLC: the root on FatFs and a TmpFs at "t"; "tx" is a name     *)
(* that begins like the mount point.                                       *)
(***************************************************************************)
EXTENDS Shell

MCNames  == {"t", "tx"}
MCBegins == {<<"tx", "t">>}
MCPayloads == {<<1>>}

MCKind == [root |-> "fat", tmp |-> "tmp"]
MCBoot == <<[prefix |-> <<>>, fs |-> "root"], [prefix |-> <<"t">>, fs |-> "tmp"]>>
MCSeed == EmptyTree
=============================================================================
