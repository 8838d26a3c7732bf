------------------------------- MODULE FatFs --------------------------------
(***************************************************************************)
(* The FAT32 write path (kernel/src/fs/fat.rs), down to the single block   *)
(* writes: each step of an operation below is one DRIVE.write_block, so    *)
(* the points between the steps are the points at which a power cut or a   *)
(* failed write can leave the disk.  FatFs keeps no state in memory        *)
(* besides the geometry; all of its state is the disk.                     *)
(*                                                                         *)
(* Abstractions.  A cluster is one sector (sectors_per_cluster = 1) of     *)
(* ClusterUnits units; a unit is both a 32-byte directory slot and the     *)
(* unit in which file contents are counted.  Reads take no step of their   *)
(* own: nothing else writes to the disk during an operation.  The next-    *)
(* free hint of FsInfo is written and never read, and is left out, as are  *)
(* the attribute bits other than ATTR_DIRECTORY and the ".." pointers.     *)
(* The FsError of an operation is "err", whichever it is.  A name stands   *)
(* for all its spellings in upper and lower case: names are compared with  *)
(* eq_ignore_ascii_case.                                                   *)
(***************************************************************************)
EXTENDS Integers, Sequences, FiniteSets

CONSTANTS
    LastData,     \* last cluster with a data area
    LastEntry,    \* last cluster with a FAT entry; the FAT may be longer
    NumFats,      \* num_fats
    ClusterUnits, \* units in a cluster
    Names,        \* names a caller uses
    Short,        \* Short[n]: n after write_short_entry and decode_short_name
    Paths,        \* paths the callers use; <<>> is "/"
    DirPaths,     \* those of Paths at which they make directories
    Payloads,     \* contents the callers write
    Labelled,     \* the disk has a volume label in its root directory
    InfoAtMount,  \* the free count in FsInfo of the disk that is mounted
    MaxUnits,     \* bound: the length to which a file is appended
    MaxFaults     \* bound: block writes that fail

Root     == 2                      \* root_cluster
Clusters == 2..LastEntry
EOC      == LastEntry + 1          \* any entry from EOC_THRESHOLD up
Free     == 0
Unknown  == -1     \* free count 0xFFFFFFFF, or an FsInfo without its signatures

ASSUME FatAssumption ==
    /\ LastData \in Nat /\ LastEntry \in Nat
    /\ Root <= LastData /\ LastData <= LastEntry
    /\ NumFats \in Nat \ {0} /\ ClusterUnits \in Nat \ {0}
    /\ Short \in [Names -> Names]
    /\ \A n \in Names : Short[Short[n]] = Short[n]
    /\ Paths \subseteq Seq(Names) /\ <<>> \in Paths
    /\ DirPaths \subseteq Paths
    /\ Payloads \subseteq Seq(Nat)
    /\ Labelled \in BOOLEAN
    /\ InfoAtMount \in {LastData - Root, Unknown}
    /\ MaxUnits \in Nat /\ MaxFaults \in Nat

VARIABLES
    fat,      \* the FAT copies: fat[i][c]
    data,     \* the data area: data[c][u]
    freeInfo, \* FsInfo's free-cluster count
    pc,       \* "idle", or the phase of the operation
    op,       \* the operation: what it decided before its first write
    cl, nxt,  \* cluster at hand; its successor, read before it was freed
    copy,     \* FAT copy that write_fat_entry writes next
    head,     \* head of the chain under construction
    tail,     \* prev in allocate_chain, chain_cluster in add_dir_entry
    cnt,      \* clusters freed, allocated or filled so far in this phase
    growing,  \* allocating on behalf of add_dir_entry
    result,   \* outcome of the last operation
    faults,   \* block writes that have failed
    view,     \* history: what every path read as, when the last operation returned
    orphans,  \* history: the leaked clusters at that point
    bad,      \* history: targets of operations that were cut off and not redone
    reused    \* history: clusters have been allocated for others since then

diskVars == <<fat, data, freeInfo>>
regVars  == <<cl, nxt, copy, head, tail, cnt, growing>>
histVars == <<view, orphans, bad, reused>>
vars     == <<diskVars, pc, op, regVars, result, faults, histVars>>

-----------------------------------------------------------------------------
(* Reading.                                                                *)

End  == [k |-> "end"]      \* first byte 0x00; also a zero unit of a file
Del  == [k |-> "del"]      \* first byte 0xE5
Skip == [k |-> "skip"]     \* ".", "..", volume label, long-name entry
Byte(b) == [k |-> "byte", b |-> b]
Entry(n, d, c, s) ==
    [k |-> "entry", name |-> n, dir |-> d, cluster |-> c, size |-> s]
Error(e) == [k |-> "error", why |-> e]

Zeros == [u \in 1..ClusterUnits |-> End]

IsCluster(c) == c \in Clusters

\* The clusters read_chain visits: it follows FAT copy 0 and stops at an
\* end-of-chain mark, and also at a free entry.  A chain that runs into itself
\* is followed until it has repeated itself (ChainsAcyclic says that none does);
\* it is not HasEnd, and the loop over it never ends.
Chain(start) ==
    LET Extend(s) ==
            IF s = <<>> \/ ~IsCluster(fat[1][s[Len(s)]]) THEN s
            ELSE Append(s, fat[1][s[Len(s)]])
        walk[i \in 0..LastData] ==
            IF i = 0 THEN IF IsCluster(start) THEN <<start>> ELSE <<>>
                     ELSE LET s == walk[i - 1] IN Extend(s)
    IN  walk[LastData]

HasEnd(start) ==
    LET ch == Chain(start) IN ch # <<>> => ~IsCluster(fat[1][ch[Len(ch)]])

\* read_chain: the units of those clusters, one after the other.
UnitsOf(ch) ==
    [j \in 1..(Len(ch) * ClusterUnits) |->
        data[ch[(j - 1) \div ClusterUnits + 1]][((j - 1) % ClusterUnits) + 1]]
ReadChain(start) == UnitsOf(Chain(start))

\* Index of the first unit of s that is in hits, or Len(s) + 1.
FirstIndex(s, hits) ==
    CHOOSE j \in 1..(Len(s) + 1) :
        /\ j <= Len(s) => s[j] \in hits
        /\ \A i \in 1..(j - 1) : s[i] \notin hits

IsEntry(u) == u.k = "entry"
FreeSlots == {End, Del}

\* The entries of a directory, by slot number: 0x00 ends it, deleted entries,
\* labels, long names and the dot entries are passed over.
Listed(s) == [j \in {i \in 1..(FirstIndex(s, {End}) - 1) : IsEntry(s[i])} |-> s[j]]
ReadDir(start) == Listed(ReadChain(start))

\* find_in_dir: the first entry of that name.
FirstNamed(d, n) ==
    LET hits == {j \in DOMAIN d : d[j].name = n}
    IN  IF hits = {} THEN Error("NotFound")
        ELSE d[CHOOSE j \in hits : \A i \in hits : j <= i]
FindInDir(start, n) == FirstNamed(ReadDir(start), n)

\* lookup: name by name from the root.
Descend(d, n) ==
    IF d.k = "error" THEN d
    ELSE IF ~d.dir THEN Error("NotADir")
    ELSE FindInDir(d.cluster, n)
Lookup(p) ==
    LET at[i \in 0..Len(p)] ==
            IF i = 0 THEN Entry(<<>>, TRUE, Root, 0) ELSE Descend(at[i - 1], p[i])
    IN  at[Len(p)]

IsDir(p) == LET e == Lookup(p) IN e.k = "entry" /\ e.dir

\* read_file of an entry that is a file: truncated to the size in the entry.
Truncated(s, n) ==
    [j \in 1..(IF n <= Len(s) THEN n ELSE Len(s)) |->
        IF s[j].k = "byte" THEN s[j].b ELSE 0]
FileBytes(e) ==
    IF e.size = 0 \/ ~IsCluster(e.cluster) THEN <<>>
    ELSE Truncated(ReadChain(e.cluster), e.size)

\* What a caller of read_file and is_dir finds at p.
NodeOf(e) ==
    IF e.k = "error" THEN [k |-> "absent"]
    ELSE IF e.dir THEN [k |-> "dir"]
    ELSE [k |-> "file", d |-> FileBytes(e)]
NodeAt(p) == NodeOf(Lookup(p))

View == [p \in Paths |-> NodeAt(p)]

RangeOf(s) == {s[i] : i \in DOMAIN s}

\* The entries on the disk: those of the root and of the directories in it
\* (callers use no path longer than two names).
LiveEntries ==
    LET top == RangeOf(ReadDir(Root))
    IN  top \cup UNION {RangeOf(ReadDir(e.cluster)) : e \in {x \in top : x.dir}}

Owned == RangeOf(Chain(Root))
            \cup UNION {RangeOf(Chain(e.cluster)) : e \in LiveEntries}

\* Allocated, and reachable from no directory entry.
Orphans == {c \in 2..LastData : fat[1][c] # Free} \ Owned

-----------------------------------------------------------------------------
(* The parts of an operation.                                              *)

Parent(p) == SubSeq(p, 1, Len(p) - 1)      \* split_parent
Last(p)   == p[Len(p)]

NoOp == [path |-> <<>>, parent |-> 0, free |-> 0, del |-> FALSE,
         payload |-> <<>>, need |-> 0, mkdir |-> FALSE, add |-> FALSE]

(* An operator named Bug... is a mutant of the definition that follows it: *)
(* no action uses it.                                                      *)

BugClustersPlusOne(n) == n \div ClusterUnits + 1

\* data.len().div_ceil(cluster_bytes)
ClustersFor(n) == (n + ClusterUnits - 1) \div ClusterUnits

\* The phases, in the order of the code; those with nothing to do are skipped.
AfterDelete(o) == IF o.need > 0 THEN "mark" ELSE IF o.add THEN "add" ELSE "done"
\* The old entry is not deleted.
BugAfterFree(o) == AfterDelete(o)
AfterFree(o)   == IF o.del THEN "delete" ELSE AfterDelete(o)
FirstPhase(o)  == IF IsCluster(o.free) THEN "free" ELSE AfterFree(o)

Start(o) ==
    /\ op' = o
    /\ pc' = FirstPhase(o)
    /\ cl' = o.free
    /\ nxt' = 0 /\ copy' = 1 /\ head' = 0 /\ tail' = 0 /\ cnt' = 0
    /\ growing' = FALSE
    /\ UNCHANGED <<diskVars, result, faults, histVars>>

\* An operation comes back to its caller.
Return(r) ==
    /\ result' = r
    /\ pc' = "idle" /\ op' = NoOp
    /\ cl' = 0 /\ nxt' = 0 /\ copy' = 1 /\ head' = 0 /\ tail' = 0 /\ cnt' = 0
    /\ growing' = FALSE
    /\ view' = View /\ orphans' = Orphans
    /\ bad' = IF r = "ok" THEN bad \ {op.path} ELSE bad
    /\ reused' = (reused /\ bad' # {})
    /\ UNCHANGED <<diskVars, faults>>

\* An early return, before anything is written.
Reject ==
    /\ result' = "err"
    /\ UNCHANGED <<diskVars, pc, op, regVars, faults, histVars>>

\* update_fsinfo: the count is clamped at zero, and left alone if it is Unknown.
UpdateFsinfo(delta) ==
    freeInfo' = IF freeInfo = Unknown THEN freeInfo
                ELSE IF freeInfo + delta < 0 THEN 0 ELSE freeInfo + delta

\* find_free_cluster: the first zero entry of FAT copy 0, over all of the
\* entries the FAT has room for; EOC when there is none.
FindFreeCluster ==
    IF \E c \in Clusters : fat[1][c] = Free
    THEN CHOOSE c \in Clusters :
            fat[1][c] = Free /\ \A d \in 2..(c - 1) : fat[1][d] # Free
    ELSE EOC

-----------------------------------------------------------------------------
(* The operations, up to their first write.                                *)

\* create_file; an existing file goes through truncate_file.
CreateFile(p) ==
    /\ pc = "idle"
    /\ IF p = <<>> THEN Reject
       ELSE IF ~IsDir(Parent(p)) THEN Reject
       ELSE LET par == Lookup(Parent(p)).cluster
                old == FindInDir(par, Last(p))
                new == [NoOp EXCEPT !.path = p, !.parent = par, !.add = TRUE]
            IN  IF old.k = "error" THEN Start(new)
                ELSE IF old.dir THEN Reject
                ELSE Start([new EXCEPT !.free = old.cluster, !.del = TRUE])

\* write_file: the old chain is freed and the old entry deleted before the
\* new chain is allocated.
BeginWrite(p, d) ==
    IF p = <<>> THEN Reject
    ELSE IF ~IsDir(Parent(p)) THEN Reject
    ELSE LET par == Lookup(Parent(p)).cluster
             old == FindInDir(par, Last(p))
             new == [NoOp EXCEPT !.path = p, !.parent = par, !.payload = d,
                                 !.need = ClustersFor(Len(d)), !.add = TRUE]
         IN  IF old.k = "error" THEN Start(new)
             ELSE IF old.dir THEN Reject
             ELSE Start([new EXCEPT !.free = old.cluster, !.del = TRUE])

WriteFile(p, d) == pc = "idle" /\ BeginWrite(p, d)

\* append_file: read, extend, write_file.
AppendFile(p, d) ==
    /\ pc = "idle"
    /\ LET e == Lookup(p) IN
         IF e.k = "error"
         THEN IF e.why = "NotFound" THEN BeginWrite(p, d) ELSE Reject
         ELSE IF e.dir THEN Reject
         ELSE /\ Len(FileBytes(e) \o d) <= MaxUnits
              /\ BeginWrite(p, FileBytes(e) \o d)

CreateDir(p) ==
    /\ pc = "idle"
    /\ IF p = <<>> THEN Reject
       ELSE IF ~IsDir(Parent(p)) THEN Reject
       ELSE LET par == Lookup(Parent(p)).cluster IN
            IF FindInDir(par, Last(p)).k # "error" THEN Reject
            ELSE Start([NoOp EXCEPT !.path = p, !.parent = par, !.need = 1,
                                    !.mkdir = TRUE, !.add = TRUE])

Remove(p) ==
    /\ pc = "idle"
    /\ IF p = <<>> THEN Reject
       ELSE LET d == Lookup(Parent(p)) IN
            IF d.k = "error" THEN Reject
            ELSE IF ~d.dir THEN Reject
            ELSE LET e == FindInDir(d.cluster, Last(p)) IN
                 IF e.k = "error" THEN Reject
                 ELSE IF e.dir /\ DOMAIN ReadDir(e.cluster) # {} THEN Reject
                 ELSE Start([NoOp EXCEPT !.path = p, !.parent = d.cluster,
                                         !.free = e.cluster, !.del = TRUE])

-----------------------------------------------------------------------------
(* free_chain and delete_dir_entry.                                        *)

\* Only the first cluster of the chain is freed.
BugFreeHeadOnly ==
    /\ pc = "free"
    /\ fat' = [fat EXCEPT ![copy][cl] = Free]
    /\ IF copy < NumFats THEN copy' = copy + 1 /\ UNCHANGED <<cl, cnt, pc>>
       ELSE copy' = 1 /\ cnt' = 1 /\ cl' = 0 /\ pc' = "freeinfo"
    /\ UNCHANGED <<data, freeInfo, op, nxt, head, tail, growing, result, faults,
                   histVars>>

\* One write of write_fat_entry(cl, 0); the successor was read before.
FreeWrite ==
    /\ pc = "free"
    /\ LET next == IF copy = 1 THEN fat[1][cl] ELSE nxt IN
         /\ fat' = [fat EXCEPT ![copy][cl] = Free]
         /\ IF copy < NumFats
            THEN /\ copy' = copy + 1 /\ nxt' = next
                 /\ UNCHANGED <<cl, cnt, pc>>
            ELSE /\ copy' = 1 /\ nxt' = 0
                 /\ cnt' = cnt + 1
                 /\ cl' = IF IsCluster(next) THEN next ELSE 0
                 /\ pc' = IF IsCluster(next) THEN "free" ELSE "freeinfo"
    /\ UNCHANGED <<data, freeInfo, op, head, tail, growing, result, faults,
                   histVars>>

\* update_fsinfo(freed, 0).  Its error is ignored: ok says whether the write
\* went through.
FreeInfo(ok) ==
    /\ pc = "freeinfo"
    /\ IF ok THEN UpdateFsinfo(cnt) /\ UNCHANGED faults
             ELSE faults' = faults + 1 /\ UNCHANGED freeInfo
    /\ cnt' = 0
    /\ pc' = AfterFree(op)
    /\ UNCHANGED <<fat, data, op, cl, nxt, copy, head, tail, growing, result,
                   histVars>>

\* Slot j of the directory that starts at start, counting along its chain.
SetSlot(start, j, u) ==
    data' = [data EXCEPT ![Chain(start)[(j - 1) \div ClusterUnits + 1]]
                                       [((j - 1) % ClusterUnits) + 1] = u]

\* The name is not compared.
BugDeleteFirstEntry ==
    /\ pc = "delete"
    /\ LET s == ReadChain(op.parent)
           hits == {End} \cup {u \in RangeOf(s) : IsEntry(u)}
           j == FirstIndex(s, hits)
       IN  /\ j <= Len(s)
           /\ IF s[j] = End THEN UNCHANGED data ELSE SetSlot(op.parent, j, Del)
    /\ pc' = AfterDelete(op)
    /\ UNCHANGED <<fat, freeInfo, op, regVars, result, faults, histVars>>

\* delete_dir_entry stops at the first 0x00 or at the first entry of the name;
\* at the end of the chain it is NotFound.
DeleteDirEntry ==
    /\ pc = "delete"
    /\ LET s == ReadChain(op.parent)
           hits == {End} \cup
                   {u \in RangeOf(s) : IsEntry(u) /\ u.name = Last(op.path)}
           j == FirstIndex(s, hits)
       IN  IF j <= Len(s)
           THEN /\ IF s[j] = End THEN UNCHANGED data ELSE SetSlot(op.parent, j, Del)
                /\ pc' = AfterDelete(op)
                /\ UNCHANGED <<fat, freeInfo, op, regVars, result, faults, histVars>>
           ELSE HasEnd(op.parent) /\ Return("err")

-----------------------------------------------------------------------------
(* allocate_chain, and the same four steps in add_dir_entry when it grows  *)
(* the directory.                                                          *)

\* A directory that cannot grow is searched again instead of giving up.
BugNoSpaceRetries ==
    /\ pc = "mark" /\ copy = 1
    /\ FindFreeCluster = EOC
    /\ IF growing
       THEN /\ pc' = "add" /\ growing' = FALSE /\ tail' = 0
            /\ UNCHANGED <<diskVars, op, cl, nxt, copy, head, cnt, result,
                           faults, histVars>>
       ELSE Return("err")

NoSpace ==
    /\ pc = "mark" /\ copy = 1
    /\ FindFreeCluster = EOC
    /\ Return("err")

\* Only FAT copy 0 is written.
BugMarkUnmirrored ==
    /\ pc = "mark"
    /\ FindFreeCluster # EOC
    /\ fat' = [fat EXCEPT ![1][FindFreeCluster] = EOC]
    /\ cl' = FindFreeCluster
    /\ pc' = "zero"
    /\ UNCHANGED <<data, freeInfo, op, nxt, copy, head, tail, cnt, growing,
                   result, faults, histVars>>

\* One write of write_fat_entry(c, EOC).
MarkEoc ==
    /\ pc = "mark"
    /\ LET c == IF copy = 1 THEN FindFreeCluster ELSE cl IN
         /\ IsCluster(c)
         /\ fat' = [fat EXCEPT ![copy][c] = EOC]
         /\ cl' = c
    /\ IF copy < NumFats THEN copy' = copy + 1 /\ UNCHANGED pc
                         ELSE copy' = 1 /\ pc' = "zero"
    /\ reused' = (reused \/ bad \ {op.path} # {})
    /\ UNCHANGED <<data, freeInfo, op, nxt, head, tail, cnt, growing, result,
                   faults, view, orphans, bad>>

\* The new cluster becomes the end of the chain.
Linked ==
    /\ tail' = cl
    /\ cnt' = cnt + 1
    /\ pc' = IF growing \/ cnt + 1 = op.need THEN "allocinfo" ELSE "mark"

\* The new cluster keeps what it held.
BugNoZero ==
    /\ pc = "zero" /\ cl <= LastData
    /\ IF tail = 0 THEN head' = cl /\ Linked
                   ELSE pc' = "link" /\ UNCHANGED <<head, tail, cnt>>
    /\ UNCHANGED <<diskVars, op, cl, nxt, copy, growing, result, faults,
                   histVars>>

ZeroCluster ==
    /\ pc = "zero" /\ cl <= LastData
    /\ data' = [data EXCEPT ![cl] = Zeros]
    /\ IF tail = 0 THEN head' = cl /\ Linked
                   ELSE pc' = "link" /\ UNCHANGED <<head, tail, cnt>>
    /\ UNCHANGED <<fat, freeInfo, op, cl, nxt, copy, growing, result, faults,
                   histVars>>

\* The cluster has a FAT entry and no data: the block device answers
\* OutOfRange and the cluster stays marked.
ZeroOutOfRange ==
    /\ pc = "zero" /\ cl > LastData
    /\ Return("err")

\* The loop over the FAT copies runs once too often; prev is linked
\* to the head of the chain and not to the new cluster.
BugLinkOneCopyMore ==
    /\ pc = "link"
    /\ fat' = [fat EXCEPT ![copy][tail] = cl]
    /\ IF copy <= NumFats THEN copy' = copy + 1 /\ UNCHANGED <<tail, cnt, pc>>
                          ELSE copy' = 1 /\ Linked
    /\ UNCHANGED <<data, freeInfo, op, cl, nxt, head, growing, result, faults,
                   histVars>>
BugLinkToHead ==
    /\ pc = "link"
    /\ fat' = [fat EXCEPT ![copy][tail] = head]
    /\ IF copy < NumFats THEN copy' = copy + 1 /\ UNCHANGED <<tail, cnt, pc>>
                         ELSE copy' = 1 /\ Linked
    /\ UNCHANGED <<data, freeInfo, op, cl, nxt, head, growing, result, faults,
                   histVars>>

\* One write of write_fat_entry(prev, c).
LinkWrite ==
    /\ pc = "link"
    /\ fat' = [fat EXCEPT ![copy][tail] = cl]
    /\ IF copy < NumFats THEN copy' = copy + 1 /\ UNCHANGED <<tail, cnt, pc>>
                         ELSE copy' = 1 /\ Linked
    /\ UNCHANGED <<data, freeInfo, op, cl, nxt, head, growing, result, faults,
                   histVars>>

\* One cluster is deducted, however many were allocated.
BugInfoMinusOne(ok) ==
    /\ pc = "allocinfo"
    /\ IF ok THEN UpdateFsinfo(-1) /\ UNCHANGED faults
             ELSE faults' = faults + 1 /\ UNCHANGED freeInfo
    /\ cnt' = 0 /\ tail' = 0
    /\ cl' = IF growing THEN 0 ELSE head
    /\ pc' = IF growing THEN "add" ELSE "data"
    /\ growing' = FALSE
    /\ UNCHANGED <<fat, data, op, nxt, copy, head, result, histVars>>

\* The entry is added before the contents are written.
BugAddBeforeData(ok) ==
    /\ pc = "allocinfo"
    /\ IF ok THEN UpdateFsinfo(-cnt) /\ UNCHANGED faults
             ELSE faults' = faults + 1 /\ UNCHANGED freeInfo
    /\ cnt' = 0 /\ tail' = 0 /\ cl' = 0
    /\ pc' = "add"
    /\ growing' = FALSE
    /\ UNCHANGED <<fat, data, op, nxt, copy, head, result, histVars>>

\* update_fsinfo(-count, last), its error ignored; then write_chain, or back
\* to the slot search of add_dir_entry.
AllocInfo(ok) ==
    /\ pc = "allocinfo"
    /\ IF ok THEN UpdateFsinfo(-cnt) /\ UNCHANGED faults
             ELSE faults' = faults + 1 /\ UNCHANGED freeInfo
    /\ cnt' = 0 /\ tail' = 0
    /\ cl' = IF growing THEN 0 ELSE head
    /\ pc' = IF growing THEN "add" ELSE "data"
    /\ growing' = FALSE
    /\ UNCHANGED <<fat, data, op, nxt, copy, head, result, histVars>>

-----------------------------------------------------------------------------
(* write_chain and add_dir_entry.                                          *)

\* Every cluster gets the beginning of the payload.
BugChunkNoOffset ==
    [u \in 1..ClusterUnits |->
        IF op.mkdir THEN IF u <= 2 THEN Skip ELSE End
        ELSE IF u <= Len(op.payload) THEN Byte(op.payload[u]) ELSE End]

\* The cnt-th cluster's worth of the payload, padded with zeros; for a new
\* directory the cluster with its "." and "..".
Chunk ==
    [u \in 1..ClusterUnits |->
        IF op.mkdir THEN IF u <= 2 THEN Skip ELSE End
        ELSE LET j == cnt * ClusterUnits + u
             IN  IF j <= Len(op.payload) THEN Byte(op.payload[j]) ELSE End]

WriteCluster ==
    /\ pc = "data"
    /\ data' = [data EXCEPT ![cl] = Chunk]
    /\ IF (cnt + 1) * ClusterUnits >= Len(op.payload)
       THEN cnt' = 0 /\ cl' = 0 /\ pc' = "add"
       ELSE cnt' = cnt + 1 /\ cl' = fat[1][cl] /\ UNCHANGED pc
    /\ UNCHANGED <<fat, freeInfo, op, nxt, copy, head, tail, growing, result,
                   faults, histVars>>

\* The first slot that is free or deleted takes the entry.
AddDirEntry ==
    /\ pc = "add"
    /\ LET s == ReadChain(op.parent)
           j == FirstIndex(s, FreeSlots)
       IN  /\ j <= Len(s)
           /\ SetSlot(op.parent, j, Entry(Short[Last(op.path)], op.mkdir, head,
                                          Len(op.payload)))
    /\ pc' = "done"
    /\ UNCHANGED <<fat, freeInfo, op, regVars, result, faults, histVars>>

\* No free slot: append a cluster to the directory.
GrowDir ==
    /\ pc = "add"
    /\ LET ch == Chain(op.parent)
           s == ReadChain(op.parent)
       IN  /\ FirstIndex(s, FreeSlots) > Len(s) /\ HasEnd(op.parent)
           /\ tail' = ch[Len(ch)]
    /\ growing' = TRUE
    /\ pc' = "mark"
    /\ UNCHANGED <<diskVars, op, cl, nxt, copy, head, cnt, result, faults,
                   histVars>>

Done == pc = "done" /\ Return("ok")

-----------------------------------------------------------------------------
\* A block write fails, or the power goes, before that write reaches the disk:
\* `?` abandons the operation where it stands.  "done": the last write did
\* reach the disk and was reported as failed.
Fault ==
    /\ faults < MaxFaults
    /\ pc \in {"free", "delete", "mark", "zero", "link", "data", "add", "done"}
    /\ pc' = "failed"
    /\ faults' = faults + 1
    /\ bad' = bad \cup {op.path}
    /\ UNCHANGED <<diskVars, op, regVars, result, view, orphans, reused>>

\* The kernel goes on with the disk as it is: after a failed write in the same
\* session, after a power cut when it has booted again (nothing is checked or
\* repaired by FatFs::mount).
Resume == pc = "failed" /\ Return("err")

Init ==
    /\ fat = [i \in 1..NumFats |->
                [c \in Clusters |-> IF c = Root THEN EOC ELSE Free]]
    /\ data = [c \in 2..LastData |->
                 IF c = Root /\ Labelled THEN [Zeros EXCEPT ![1] = Skip] ELSE Zeros]
    /\ freeInfo = InfoAtMount
    /\ pc = "idle" /\ op = NoOp
    /\ cl = 0 /\ nxt = 0 /\ copy = 1 /\ head = 0 /\ tail = 0 /\ cnt = 0
    /\ growing = FALSE
    /\ result = "ok" /\ faults = 0
    /\ view = View /\ orphans = {} /\ bad = {} /\ reused = FALSE

\* p is below a target that was cut off, or is such a target and clusters it
\* may still name have been given to others.
Below(q, p) == Len(q) < Len(p) /\ SubSeq(p, 1, Len(q)) = q
Tainted(p) == (p \in bad /\ reused) \/ \E q \in bad : Below(q, p)

\* An operation on a tainted path can free or overwrite clusters of others, up
\* to a chain that loops.  docs/flow10.md 96 leaves such a disk to a later
\* milestone: nothing is claimed from there on.
Beyond(p) ==
    /\ pc \in {"idle", "beyond"} /\ Tainted(p)
    /\ pc' = "beyond"
    /\ UNCHANGED <<diskVars, op, regVars, result, faults, histVars>>

Call ==
    \/ \E p \in Paths : Beyond(p)
    \/ \E p \in {q \in Paths : ~Tainted(q)} :
          \/ CreateFile(p) \/ Remove(p) \/ (p \in DirPaths /\ CreateDir(p))
          \/ \E d \in Payloads : WriteFile(p, d) \/ AppendFile(p, d)

InfoWrites(ok) == FreeInfo(ok) \/ AllocInfo(ok)

Step ==
    \/ FreeWrite \/ DeleteDirEntry
    \/ NoSpace \/ MarkEoc \/ ZeroCluster \/ ZeroOutOfRange \/ LinkWrite
    \/ WriteCluster \/ AddDirEntry \/ GrowDir \/ Done \/ Resume
    \/ InfoWrites(TRUE)

Next == Call \/ Step \/ Fault \/ (faults < MaxFaults /\ InfoWrites(FALSE))

\* ENABLED Step, spelt out: an operation under way has a step to take, unless it
\* reads a directory whose chain has no end and finds no slot there to stop at.
CanStep ==
    /\ pc \notin {"idle", "beyond"}
    /\ pc = "mark" => copy = 1 \/ IsCluster(cl)
    /\ pc = "delete" => HasEnd(op.parent) \/ \E u \in RangeOf(ReadChain(op.parent)) :
                            u = End \/ (IsEntry(u) /\ u.name = Last(op.path))
    /\ pc = "add" => HasEnd(op.parent)
                        \/ FreeSlots \cap RangeOf(ReadChain(op.parent)) # {}

\* Weak fairness of Step, WF_vars(Step), with CanStep for its ENABLED: the
\* operations run on the one CPU and a step that can be taken is taken; nobody
\* need call one.
Fairness == []<>~CanStep \/ []<><<Step>>_vars

Spec == Init /\ [][Next]_vars /\ Fairness

-----------------------------------------------------------------------------
(* Properties.                                                             *)

\* The kinds of unit on the disk, the phases and the registers.
TypeOK ==
    /\ fat \in [1..NumFats -> [Clusters -> {Free} \cup Clusters \cup {EOC}]]
    /\ DOMAIN data = 2..LastData
    /\ \A c \in 2..LastData : /\ DOMAIN data[c] = 1..ClusterUnits
                              /\ \A u \in 1..ClusterUnits : data[c][u].k \in
                                    {"end", "del", "skip", "byte", "entry"}
    /\ freeInfo \in Nat \cup {Unknown}
    /\ pc \in {"idle", "free", "freeinfo", "delete", "mark", "zero", "link",
               "allocinfo", "data", "add", "done", "failed", "beyond"}
    /\ {cl, nxt, head, tail} \subseteq {0, EOC} \cup Clusters
    /\ copy \in 1..NumFats /\ cnt \in Nat /\ growing \in BOOLEAN
    /\ faults \in 0..MaxFaults /\ bad \subseteq Paths /\ reused \in BOOLEAN

\* FatFs implements the abstract store: whatever the block writes do in
\* between, each operation that returns has done what FileStore says, on
\* every path, the full disk included.
Store == INSTANCE FileStore WITH tree <- view
StoreSpec == Store!StoreSpec

\* fat.rs 8-9: every FAT mutation is mirrored.  While no write_fat_entry is
\* under way the copies differ at most where a fault cut one off, one entry per
\* fault.
FatsMirrored ==
    LET differ == {c \in Clusters : \E i \in 1..NumFats : fat[i][c] # fat[1][c]}
    IN  Cardinality(differ) <= faults + (IF pc = "idle" THEN 0 ELSE 1)

\* Paths that no fault has damaged: neither the target of an operation that was
\* cut off (and not redone since) nor below one.
Trusted(p) == \A q \in bad : p # q /\ ~Below(q, p)
TrustedEntries ==
    {e \in {<<p, Lookup(p)>> : p \in {q \in Paths \ {<<>>} : Trusted(q)}} :
        e[2].k = "entry"}

\* The chains of entries share no cluster with each other or with root.
Disjoint(entries, root) ==
    \A e1 \in entries :
        LET mine == RangeOf(Chain(e1[2].cluster)) IN
            /\ mine \cap root = {}
            /\ \A e2 \in entries :
                  e1 # e2 => mine \cap RangeOf(Chain(e2[2].cluster)) = {}

\* No two files or directories share a cluster, and none has a free cluster
\* handed out again while an entry still points to it: at every point of every
\* operation, and among the undamaged ones also after a fault.
NoCrossLinks == pc # "beyond" => Disjoint(TrustedEntries, RangeOf(Chain(Root)))

\* No chain that can be followed from a directory entry runs into itself, at
\* any point: read_chain and free_chain have no other reason to end.
ChainsAcyclic ==
    \A h \in {Root} \cup {e.cluster : e \in LiveEntries} :
        LET ch == Chain(h) IN \A i, j \in DOMAIN ch : ch[i] = ch[j] => i = j

\* Between operations every entry's chain is allocated, ends in an end-of-
\* chain mark, and has the length that the entry's size calls for.
ChainsComplete ==
    pc = "idle" =>
        \A e \in LiveEntries :
            LET ch == Chain(e.cluster) IN
                /\ ch # <<>> => fat[1][ch[Len(ch)]] = EOC
                /\ ~e.dir => /\ Len(ch) * ClusterUnits >= e.size
                             /\ (Len(ch) - 1) * ClusterUnits < e.size
                /\ e.dir => ch # <<>>

\* At every point of an operation, hence wherever a fault stops it, all the
\* paths except its target read as they did before it began; and so they do
\* when the kernel goes on after the fault, for every undamaged path, while the
\* freed clusters that the damaged one still names are given to others.  An
\* operation that is repeated before that mends its target.
DamageConfined ==
    pc # "beyond" =>
        \A p \in Paths : (p # op.path /\ Trusted(p)) => NodeAt(p) = view[p]

\* What an operation leaves at its own target.
NewNode ==
    IF ~op.add THEN [k |-> "absent"]
    ELSE IF op.mkdir THEN [k |-> "dir"] ELSE [k |-> "file", d |-> op.payload]

\* The directory entry is written last: a target that had no chain to free is
\* seen as it was, as absent or as complete, never half written; and an
\* operation that returns Ok has done what it was asked, also after a fault.
EntryPublishedLast ==
    /\ (pc \notin {"idle", "beyond"} /\ ~IsCluster(op.free)) =>
          NodeAt(op.path) \in {view[op.path], [k |-> "absent"], NewNode}
    /\ pc = "done" => NodeAt(op.path) = NewNode

\* Directory slots only, and nothing from the end marker on.
EmptyFrom(s, end) ==
    \A j \in DOMAIN s : s[j].k # "byte" /\ (j >= end => s[j] = End)
IsDirectory(s) == EmptyFrom(s, FirstIndex(s, {End}))

\* In the chain of a directory nothing lives behind the end marker, and there
\* is nothing in it but directory slots: add_dir_entry takes the first slot
\* and a cluster is zeroed before it is linked in.
DirectoriesWellFormed ==
    \A h \in {Root} \cup {e[2].cluster : e \in {x \in TrustedEntries : x[2].dir}} :
        IsDirectory(ReadChain(h))

\* An operation that succeeds leaks no cluster.
NoLeakOnSuccess == [][pc = "done" => Orphans \subseteq orphans]_vars

FreeData == {c \in 2..LastData : fat[1][c] = Free}

\* FsInfo never claims fewer free clusters than there are, and is too high by
\* leaked clusters only (as long as its own writes succeed, and unless the count
\* was unknown from the beginning).
FsInfoBounds ==
    (pc = "idle" /\ faults = 0 /\ freeInfo # Unknown) =>
        /\ Cardinality(FreeData) <= freeInfo
        /\ freeInfo <= Cardinality(FreeData) + Cardinality(Orphans)

\* Every operation that has begun to write returns: none of its loops goes on
\* for ever, also after faults.  (The reads before the first write end because
\* chains do, ChainsAcyclic.)
OperationsReturn == []<>(pc \in {"idle", "beyond"})

\* fat.rs 10-11: "updated on every allocate_chain / free_chain so the
\* free-cluster summary stays consistent".
FsInfoExact ==
    (pc = "idle" /\ faults = 0 /\ freeInfo # Unknown) => freeInfo = Cardinality(FreeData)

\* fat.rs 14-16: the shell "only emit[s] names that already fit 8.3"; with
\* such names a directory never has two entries of one name.
NamesUnique ==
    \A h \in {Root} \cup {e.cluster : e \in {x \in LiveEntries : x.dir}} :
        LET d == ReadDir(h)
        IN  \A i, j \in DOMAIN d : d[i].name = d[j].name => i = j
=============================================================================
