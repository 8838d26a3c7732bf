------------------------------ MODULE MCFatFs -------------------------------
(***************************************************************************)
(* FatFs for TLC: a disk of a few clusters of two units each.              *)
(***************************************************************************)
EXTENDS FatFs

\* "a" is created as a file and as a directory, "b" in the root and in "a".
MCPaths == {<<>>, <<"a">>, <<"b">>, <<"a", "b">>}
MCNames == {"a", "b"}

\* Names that fit 8.3 come back as they were.
FitShort == [n \in Names |-> n]

\* One unit, and a cluster and a half.
MCPayloads == {<<1>>, <<1, 2, 3>>}
SmallPayloads == {<<1>>}

\* Only "a" is made a directory; "b" and "b" in "a" are files.
OneDir == {<<"a">>}

\* FsInfo as mkfs.fat writes it, and without a free count.
InfoKnown == LastData - Root
InfoUnknown == Unknown

\* A name that does not fit, and the short name it is stored under.
LongNames == {"hello~", "hello-world"}
LongShort == [n \in Names |-> "hello~"]
LongPaths == {<<>>, <<"hello-world">>}
=============================================================================
