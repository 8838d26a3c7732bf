----------------------------- MODULE FileStore ------------------------------
(***************************************************************************)
(* What a writable file system of the kernel promises through the          *)
(* FileSystem trait, with no disk in sight: a tree of directories and      *)
(* files, changed by one operation at a time.  Every operation either does *)
(* what it says, or returns an error and leaves the tree alone; the one    *)
(* exception is a rewrite of an existing file that runs out of space or    *)
(* meets an I/O error, which may have removed the file.                    *)
(***************************************************************************)
EXTENDS Naturals, Sequences

CONSTANTS
    Paths,      \* the absolute paths in play, sequences of names; <<>> is "/"
    Payloads    \* what can be written: sequences of bytes

VARIABLES
    tree,       \* what is at each path
    result      \* outcome of the last operation, "ok" or an error

storeVars == <<tree, result>>

Absent  == [k |-> "absent"]
DirNode == [k |-> "dir"]
FileNode(d) == [k |-> "file", d |-> d]

ParentPath(p) == SubSeq(p, 1, Len(p) - 1)
IsDirIn(t, p) == p = <<>> \/ t[p] = DirNode
HasKids(t, p) == \E q \in Paths : q # <<>> /\ ParentPath(q) = p /\ t[q] # Absent

\* p names something that can be a file: it has a parent directory and is not
\* itself a directory.
FilePlace(p) == p # <<>> /\ IsDirIn(tree, ParentPath(p)) /\ tree[p] # DirNode

\* Nothing has been called yet: the result can be anything.
StoreInit == tree = [p \in Paths |-> IF p = <<>> THEN DirNode ELSE Absent]

Put(p, node) == tree' = [tree EXCEPT ![p] = node] /\ result' = "ok"

Create(p) == FilePlace(p) /\ Put(p, FileNode(<<>>))

Write(p, d) == FilePlace(p) /\ Put(p, FileNode(d))

Append_(p, d) ==
    FilePlace(p) /\ Put(p, FileNode(IF tree[p] = Absent THEN d ELSE tree[p].d \o d))

MkDir(p) ==
    /\ FilePlace(p) /\ tree[p] = Absent
    /\ Put(p, DirNode)

Remove(p) ==
    /\ p # <<>> /\ tree[p] # Absent /\ ~HasKids(tree, p)
    /\ Put(p, Absent)

Fail == result' # "ok" /\ UNCHANGED tree

\* A rewrite that failed half-way: the old file is gone.
FailLosing(p) ==
    /\ FilePlace(p) /\ tree[p] # Absent
    /\ tree' = [tree EXCEPT ![p] = Absent]
    /\ result' # "ok"

StoreNext ==
    \/ \E p \in Paths : Create(p) \/ MkDir(p) \/ Remove(p) \/ FailLosing(p)
    \/ \E p \in Paths, d \in Payloads : Write(p, d) \/ Append_(p, d)
    \/ Fail

StoreSpec == StoreInit /\ [][StoreNext]_storeVars
=============================================================================
