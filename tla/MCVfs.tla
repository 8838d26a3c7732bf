------------------------------- MODULE MCVfs --------------------------------
(***************************************************************************)
(* Vfs for TLC.  The names "t" and "tx" tell a mount point from a name     *)
(* that begins like it.                                                    *)
(***************************************************************************)
EXTENDS Vfs, TLC

CONSTANTS DevA, DevB    \* two instances of DevFs

MCNames  == {"t", "tx"}
MCBegins == {<<"tx", "t">>}
MCPayloads == {<<>>}

\* One file system more than the mount table has room for; it makes no
\* difference which of the two DevFs is which.
MCKind == [f \in {"root", "tmp", DevA, DevB} |->
              CASE f = "root" -> "ram" [] f = "tmp" -> "tmp" [] OTHER -> "dev"]
Alike == Permutations({DevA, DevB})
MCBoot == <<[prefix |-> <<>>, fs |-> "root"], [prefix |-> <<"t">>, fs |-> "tmp"]>>
MCPrefixes == {<<>>, <<"t">>, <<"tx">>, <<"tx", "t">>}

\* A directory with a file in it.
MCSeed == [p \in Paths |-> IF p \in {<<>>, <<"tx">>} THEN DirNode
                           ELSE IF p = <<"tx", "t">> THEN FileNode(<<1>>)
                           ELSE Absent]
=============================================================================
