-------------------------------- MODULE Vfs ---------------------------------
(***************************************************************************)
(* The virtual file system (kernel/src/fs/mod.rs): the mount table, the    *)
(* resolution of a path to a mounted file system, and the four kinds of    *)
(* file system behind it: TmpFs (fs/tmp.rs), RamFs (fs/ram.rs), DevFs      *)
(* (fs/dev.rs) and FatFs (fs/fat.rs), the last one reduced to the          *)
(* FileStore contract that module FatFs implements, with its error codes.  *)
(*                                                                         *)
(* A path is the sequence of its names, <<>> being "/": this is what       *)
(* normalize, split_segments and split_parent make of the strings.  String *)
(* prefixes, which resolve works with, are recovered from Begins.          *)
(***************************************************************************)
EXTENDS Integers, Sequences, FiniteSets

CONSTANTS
    Names,      \* the names in play
    Begins,     \* pairs <<n, m>>: n is spelt like m with something after it
    MaxDepth,   \* bound: names in a path
    Payloads,   \* contents the callers write
    MaxLen,     \* bound: length to which a file is appended
    Kind,       \* Kind[f]: "tmp", "ram", "dev" or "fat", for every instance f
    Boot,       \* the mounts made at boot, in order: [prefix, fs] records
    Prefixes,   \* prefixes that are mounted and unmounted later on
    MaxMounts,  \* MAX_MOUNTS (8 in the code)
    Seed,       \* the tree of ram::seed
    DevOk, DevIo    \* names of DevFs: those whose write_file succeeds, disk0

FsIds == DOMAIN Kind
Paths == UNION {[1..n -> Names] : n \in 0..MaxDepth}
DevNodes == DevOk \cup DevIo

Absent  == [k |-> "absent"]
DirNode == [k |-> "dir"]
FileNode(d) == [k |-> "file", d |-> d]
EmptyTree == [p \in Paths |-> IF p = <<>> THEN DirNode ELSE Absent]
Front(p) == SubSeq(p, 1, Len(p) - 1)
Last(p)  == p[Len(p)]

\* A node of a file system, and a tree of them below a root directory.
IsNode(x) ==
    x \in {Absent, DirNode} \/ (x.k = "file" /\ x.d \in Seq(Nat) /\ Len(x.d) <= MaxLen)
Rooted(t) == \A p \in Paths : (p # <<>> /\ t[p] # Absent) => t[Front(p)] = DirNode

\* mount refuses a prefix that is taken, and every mount has a file system of
\* its own (a Box); ram::seed makes a tree.
ASSUME VfsAssumption ==
    /\ Begins \subseteq Names \X Names
    /\ MaxDepth \in Nat /\ MaxLen \in Nat /\ MaxMounts \in Nat
    /\ \A d \in Payloads : d \in Seq(Nat) /\ Len(d) <= MaxLen
    /\ \A f \in FsIds : Kind[f] \in {"tmp", "ram", "dev", "fat"}
    /\ Boot \in Seq([prefix : Paths, fs : FsIds])
    /\ \A i, j \in DOMAIN Boot :
          (Boot[i].prefix = Boot[j].prefix \/ Boot[i].fs = Boot[j].fs) => i = j
    /\ Boot # <<>> /\ Len(Boot) <= MaxMounts
    /\ Prefixes \subseteq Paths
    /\ DOMAIN Seed = Paths /\ Seed[<<>>] = DirNode
    /\ \A p \in Paths : IsNode(Seed[p])
    /\ Rooted(Seed)
    /\ DevNodes \subseteq Names

VARIABLES
    mounts,   \* Vfs::mounts, in the order they were made
    trees,    \* what each file system holds
    last      \* the last operation: the file system it went to, its outcome

vfsVars == <<mounts, trees, last>>

Err(e) == [k |-> "error", why |-> e]
Child(p, n) == Append(p, n)
Kids(t, p) == {q \in Paths : q # <<>> /\ Front(q) = p /\ t[q] # Absent}

-----------------------------------------------------------------------------
(* Looking up (TmpFs walk, RamFs lookup, FatFs lookup): a file on the way  *)
(* is NotADir, a missing name NotFound, whichever comes first.             *)

Walk(t, p) ==
    LET at[i \in 0..Len(p)] ==
            IF i = 0 THEN DirNode
            ELSE LET d == at[i - 1]
                     x == t[SubSeq(p, 1, i)]
                 IN  CASE d.k = "error" -> d
                       [] d.k = "file"  -> Err("NotADir")
                       [] d.k = "dir"   -> IF x = Absent THEN Err("NotFound") ELSE x
    IN  at[Len(p)]

\* What the FileSystem f has at p, seen through read_file and is_dir.  DevFs
\* is flat, and two of its nodes can be read as files.
FsNode(f, p) ==
    IF Kind[f] # "dev" THEN Walk(trees[f], p)
    ELSE IF p = <<>> THEN DirNode
    ELSE IF Len(p) = 1 /\ p[1] \in DevNodes THEN [k |-> "dev"]
    ELSE Err("NotFound")

\* list_dir: the names, or an error.
FsListDir(f, p) ==
    LET x == FsNode(f, p) IN
    CASE Kind[f] = "dev" /\ Len(p) > 1 -> Err("NotFound")
      [] Kind[f] = "dev" /\ Len(p) = 1 -> Err("NotADir")
      [] Kind[f] = "dev" /\ p = <<>>   -> [k |-> "names", names |-> DevNodes]
      [] OTHER -> IF x.k = "error" THEN x
                  ELSE IF x.k = "file" THEN Err("NotADir")
                  ELSE [k |-> "names", names |-> {Last(q) : q \in Kids(trees[f], p)}]

-----------------------------------------------------------------------------
(* Changing.  An operation is create, write, append, mkdir or remove; the  *)
(* trait's default for all of them is Unsupported.                         *)

FileOps == {"create", "write", "append"}

\* A directory of the name is not noticed; a directory is not looked into.
BugOverwritesDir(t, op, p) ==
    CASE op \in FileOps -> "ok"
      [] op = "mkdir"   -> IF t[p] # Absent THEN "Io" ELSE "ok"
      [] op = "remove"  -> IF t[p] = Absent THEN "NotFound"
                           ELSE IF Kids(t, p) # {} THEN "Io" ELSE "ok"
BugRemoveNonEmpty(t, op, p) ==
    CASE op \in FileOps -> IF t[p] = DirNode THEN "IsADir" ELSE "ok"
      [] op = "mkdir"   -> IF t[p] # Absent THEN "Io" ELSE "ok"
      [] op = "remove"  -> IF t[p] = Absent THEN "NotFound" ELSE "ok"

\* Once the parent directory is found.
RefusedInDir(t, op, p) ==
    CASE op \in FileOps -> IF t[p] = DirNode THEN "IsADir" ELSE "ok"
      [] op = "mkdir"   -> IF t[p] # Absent THEN "Io" ELSE "ok"
      [] op = "remove"  -> IF t[p] = Absent THEN "NotFound"
                           ELSE IF Kids(t, p) # {} THEN "Io" ELSE "ok"

\* TmpFs: split_parent fails on "/"; then the parent is walked to.
TmpRefused(t, op, p) ==
    LET d == Walk(t, Front(p)) IN
    IF p = <<>> THEN "Io"
    ELSE IF d.k = "error" THEN d.why
    ELSE IF d.k = "file" THEN "NotADir"
    ELSE RefusedInDir(t, op, p)

\* FatFs: append reads the file first; all but remove ask is_dir of the parent,
\* which does not tell a missing parent from one that is a file.
FatRefused(t, op, p) ==
    LET d == Walk(t, Front(p))
        x == Walk(t, p)
    IN  IF op = "append" /\ x.k = "dir" THEN "IsADir"
        ELSE IF p = <<>> THEN "Io"
        ELSE IF d.k = "error" THEN IF op = "remove" THEN d.why ELSE "NotADir"
        ELSE IF d.k = "file" THEN "NotADir"
        ELSE RefusedInDir(t, op, p)

\* DevFs has write_file only, and ignores what a device makes of the bytes;
\* disk0 wants whole blocks (the payloads are shorter than one) or no bytes.
DevRefused(op, p, d) ==
    IF op # "write" THEN "Unsupported"
    ELSE IF Len(p) # 1 \/ p[1] \notin DevNodes THEN "NotFound"
    ELSE IF p[1] \in DevIo /\ d # <<>> THEN "Io" ELSE "ok"

Refused(f, op, p, d) ==
    CASE Kind[f] = "tmp" -> TmpRefused(trees[f], op, p)
      [] Kind[f] = "fat" -> FatRefused(trees[f], op, p)
      [] Kind[f] = "dev" -> DevRefused(op, p, d)
      [] Kind[f] = "ram" -> "Unsupported"

\* The tree after an operation that succeeds.
After(t, op, p, d) ==
    [t EXCEPT ![p] =
        CASE op = "create" -> FileNode(<<>>)
          [] op = "write"  -> FileNode(d)
          [] op = "append" -> FileNode(IF @ = Absent THEN d ELSE @.d \o d)
          [] op = "mkdir"  -> DirNode
          [] op = "remove" -> Absent]

\* The disk behind FatFs is full: the operation may have removed the file it
\* was to rewrite (module FatFs shows that nothing else happens).
DiskFull(t, op, p) ==
    {t} \cup (IF op \in FileOps /\ t[p].k = "file" THEN {[t EXCEPT ![p] = Absent]}
                                                   ELSE {})

\* The operation op on f, with rel the path below the mount point.
FsOp(f, op, rel, d) ==
    \/ /\ last' = [fs |-> f, res |-> Refused(f, op, rel, d)]
       /\ trees' = IF Refused(f, op, rel, d) = "ok" /\ Kind[f] # "dev"
                   THEN [trees EXCEPT ![f] = After(@, op, rel, d)]
                   ELSE trees
    \/ /\ Kind[f] = "fat" /\ Refused(f, op, rel, d) = "ok" /\ op # "remove"
       /\ last' = [fs |-> f, res |-> "Io"]
       /\ \E t \in DiskFull(trees[f], op, rel) : trees' = [trees EXCEPT ![f] = t]

-----------------------------------------------------------------------------
(* The mount table.                                                        *)

\* abs.starts_with(prefix), as strings.
StartsWith(abs, pre) ==
    /\ Len(abs) >= Len(pre)
    /\ SubSeq(abs, 1, Len(pre) - 1) = Front(pre)
    /\ abs[Len(pre)] = Last(pre) \/ <<abs[Len(pre)], Last(pre)>> \in Begins

\* abs is prefix, or starts with it and goes on with "/".
Under(abs, pre) == StartsWith(abs, pre) /\ abs[Len(pre)] = Last(pre)

\* The root mount replaces any earlier match.
BugResolve(abs) ==
    LET best[i \in 0..Len(mounts)] ==
            IF i = 0 THEN 0
            ELSE LET b == best[i - 1]
                     pre == mounts[i].prefix
                 IN  IF pre = <<>> THEN i
                     ELSE IF Under(abs, pre) /\ (b = 0 \/ Len(mounts[b].prefix) < Len(pre))
                          THEN i ELSE b
    IN  best[Len(mounts)]

\* resolve's loop over the table: the index of the mount, 0 for none.
Resolve(abs) ==
    LET best[i \in 0..Len(mounts)] ==
            IF i = 0 THEN 0
            ELSE LET b == best[i - 1]
                     pre == mounts[i].prefix
                 IN  IF pre = <<>> THEN IF b = 0 THEN i ELSE b
                     ELSE IF Under(abs, pre) /\ (b = 0 \/ Len(mounts[b].prefix) < Len(pre))
                          THEN i ELSE b
    IN  best[Len(mounts)]

\* The path below the mount point.
Rel(i, abs) == SubSeq(abs, Len(mounts[i].prefix) + 1, Len(abs))

MountedAt(pre) == \E i \in DOMAIN mounts : mounts[i].prefix = pre

\* Vfs::read_file, as far as what kind of answer it gives.
NodeAt(abs) ==
    LET i == Resolve(abs) IN
    IF i = 0 THEN Err("NotFound") ELSE FsNode(mounts[i].fs, Rel(i, abs))

IsDir(abs) == MountedAt(abs) \/ NodeAt(abs) = DirNode

\* Only what the file system itself has.
BugListDir(abs) ==
    LET i == Resolve(abs) IN
    IF i = 0 THEN Err("NotFound") ELSE FsListDir(mounts[i].fs, Rel(i, abs))

\* The names in the file system, and the mount points that are its children.
ListDir(abs) ==
    LET i == Resolve(abs)
        here == IF i = 0 THEN Err("NotFound")
                ELSE FsListDir(mounts[i].fs, Rel(i, abs))
        points == {mounts[j].prefix : j \in DOMAIN mounts}
    IN  IF here.k = "error" THEN here
        ELSE [here EXCEPT !.names = @ \cup
                {Last(q) : q \in {x \in points : x # <<>> /\ Front(x) = abs}}]

Init ==
    /\ mounts = Boot
    /\ trees = [f \in FsIds |-> IF Kind[f] = "ram" THEN Seed ELSE EmptyTree]
    /\ last = [fs |-> Boot[Len(Boot)].fs, res |-> "ok"]

Mounted(f) == \E i \in DOMAIN mounts : mounts[i].fs = f

\* A prefix can be taken twice.
BugMount(pre, f) ==
    /\ ~Mounted(f)
    /\ Len(mounts) < MaxMounts
    /\ mounts' = Append(mounts, [prefix |-> pre, fs |-> f])
    /\ UNCHANGED <<trees, last>>

\* mount, with a file system just made: a TmpFs is empty, a FatFs has what is
\* on the disk.  A full table or a taken prefix is an error and changes nothing.
Mount(pre, f) ==
    /\ ~Mounted(f)
    /\ Len(mounts) < MaxMounts /\ ~MountedAt(pre)
    /\ mounts' = Append(mounts, [prefix |-> pre, fs |-> f])
    /\ UNCHANGED <<trees, last>>

\* unmount drops the file system, and with a TmpFs what was in it.
Unmount(pre) ==
    \E i \in DOMAIN mounts :
        /\ mounts[i].prefix = pre
        /\ mounts' = SubSeq(mounts, 1, i - 1) \o SubSeq(mounts, i + 1, Len(mounts))
        /\ trees' = IF Kind[mounts[i].fs] = "tmp"
                    THEN [trees EXCEPT ![mounts[i].fs] = EmptyTree] ELSE trees
        /\ UNCHANGED last

\* create_file, write_file, append_file, create_dir and remove.
Op(op, abs, d) ==
    /\ Resolve(abs) # 0
    /\ LET i == Resolve(abs) IN FsOp(mounts[i].fs, op, Rel(i, abs), d)
    /\ UNCHANGED mounts

Touch(abs) == Op("create", abs, <<>>)
WriteFile(abs, d) == Op("write", abs, d)
AppendFile(abs, d) ==
    /\ NodeAt(abs).k = "file" => Len(NodeAt(abs).d) + Len(d) <= MaxLen
    /\ Op("append", abs, d)
MkDir(abs) == Op("mkdir", abs, <<>>)
Rm(abs)    == Op("remove", abs, <<>>)

Next ==
    \/ \E pre \in Prefixes, f \in FsIds : Mount(pre, f)
    \/ \E pre \in Prefixes : Unmount(pre)
    \/ \E p \in Paths : Touch(p) \/ MkDir(p) \/ Rm(p)
    \/ \E p \in Paths, d \in Payloads : WriteFile(p, d) \/ AppendFile(p, d)

Spec == Init /\ [][Next]_vfsVars

-----------------------------------------------------------------------------
(* Properties.                                                             *)

\* The mount table has one mount for a prefix at most, and the trees are trees
\* of the nodes that the operations put there.
TypeOK ==
    /\ Len(mounts) <= MaxMounts
    /\ \A i, j \in DOMAIN mounts : mounts[i].prefix = mounts[j].prefix => i = j
    /\ \A i \in DOMAIN mounts : mounts[i].prefix \in Paths /\ mounts[i].fs \in FsIds
    /\ \A f \in FsIds, p \in Paths : IsNode(trees[f][p])
    /\ last.fs \in FsIds
    /\ last.res \in {"ok", "NotFound", "NotADir", "IsADir", "Io", "Unsupported"}

\* fs/mod.rs 5-6: resolution is longest-prefix-match on "/"-aligned boundaries,
\* in whatever order the mounts were made and unmade.
ResolvesToLongest ==
    \A abs \in Paths :
        LET fit == {i \in DOMAIN mounts :
                       LET pre == mounts[i].prefix
                       IN  Len(pre) <= Len(abs) /\ SubSeq(abs, 1, Len(pre)) = pre}
        IN  IF fit = {} THEN Resolve(abs) = 0
            ELSE /\ Resolve(abs) \in fit
                 /\ \A i \in fit : Len(mounts[i].prefix) <= Len(mounts[Resolve(abs)].prefix)

\* What `ls` shows is what `cd` and `cat` find: a path can be listed iff is_dir
\* says so, and a name is in the listing iff something is found at it, across
\* mount points, shadowed directories and devices.
ListingIsNamespace ==
    \A p \in Paths :
        /\ IsDir(p) <=> ListDir(p).k = "names"
        /\ (IsDir(p) /\ Len(p) < MaxDepth) =>
              ListDir(p).names =
                {n \in Names : IsDir(Child(p, n)) \/ NodeAt(Child(p, n)).k # "error"}

\* Every node of every file system hangs on a directory: no sequence of
\* operations strands a file below something removed or below a file.
NoStrandedNodes == \A f \in FsIds : Rooted(trees[f])

\* What a caller can find at p.
Seen(p) == LET x == NodeAt(p) IN IF x.k = "error" THEN Absent ELSE x

\* An operation through the mount table changes what is seen at one path at
\* most, whichever file systems the other paths lead to; mounting and
\* unmounting are the only steps that change more.
OneTargetAtATime ==
    [][(mounts' = mounts /\ trees' # trees) =>
          Cardinality({p \in Paths : Seen(p)' # Seen(p)}) <= 1]_vfsVars
=============================================================================
