------------------------------ MODULE DevDisk -------------------------------
(***************************************************************************)
(* The callers of the ATA driver: mount_root (kernel/src/fs/mod.rs), which *)
(* probes the data disk and reads its first block to decide what to mount  *)
(* at "/"; /dev/disk0 (kernel/src/fs/dev.rs), which moves any number of    *)
(* whole blocks one by one; and, once it is mounted, the FAT driver with   *)
(* its single blocks.  DRIVE's lock is held for all of a transfer.         *)
(***************************************************************************)
EXTENDS Ata, Sequences

CONSTANTS
    Bpb,         \* the contents of block 0 that FatFs::mount accepts
    MaxBlocks    \* bound: blocks in one transfer

ASSUME DevDiskAssumption == MaxBlocks \in Nat

VARIABLES
    boot,        \* "init", "mount", "up": where mount_root is
    root,        \* what is mounted at "/"
    xfer,        \* the transfer of /dev/disk0 under way, or NoXfer
    asked,       \* it has asked the driver for its next block
    moved,       \* blocks it has moved
    buf,         \* the blocks it has read
    outcome,     \* how the last one ended
    before       \* history: the blocks, and those still owed, when it began

nodeVars == <<xfer, asked, moved, buf, outcome, before>>
vars     == <<ataVars, boot, root, nodeVars>>

NoXfer == [op |-> "none", lba |-> 0, data |-> <<>>]
NoBefore == [medium |-> <<>>, owed |-> {}]

Sized(S, n) == UNION {[1..k -> S] : k \in 0..n}
Xfers == [op : {"read"}, lba : 0..Sectors, data : Sized({NoVal}, MaxBlocks)]
            \cup [op : {"write"}, lba : 0..Sectors, data : Sized(Values, MaxBlocks)]

Owed == {w.lba : w \in BlockOwed}

-----------------------------------------------------------------------------
(* mount_root.                                                             *)

BootProbe ==
    /\ boot = "off" /\ boot' = "init"
    /\ CallInit
    /\ UNCHANGED <<root, nodeVars>>

\* init has answered: FatFs::mount reads block 0, or the root is a RamFs.
BootProbed ==
    /\ boot = "init" /\ pc = "idle"
    /\ IF result.res = "ready"
       THEN /\ CallBlock([NoCall EXCEPT !.op = "read"])
            /\ boot' = "mount" /\ UNCHANGED root
       ELSE boot' = "up" /\ root' = "ram" /\ UNCHANGED ataVars
    /\ UNCHANGED nodeVars

\* FatFs::mount has its answer and checks what the block says.
BootMounted ==
    /\ boot = "mount" /\ pc = "idle"
    /\ boot' = "up"
    /\ root' = IF result.res = "ok" /\ result.val \in Bpb THEN "fat" ELSE "ram"
    /\ UNCHANGED <<ataVars, nodeVars>>

-----------------------------------------------------------------------------
(* /dev/disk0.                                                             *)

\* A call of read or write: an empty buffer is done at once, an offset or a
\* length that is no multiple of a block is refused.
NodeCall(x, aligned) ==
    /\ boot = "up" /\ pc = "idle" /\ xfer = NoXfer
    /\ IF x.data = <<>> \/ ~aligned
       THEN /\ outcome' = IF x.data = <<>> THEN "ok" ELSE "Io"
            /\ UNCHANGED <<xfer, before>>
       ELSE /\ xfer' = x
            /\ before' = [medium |-> medium, owed |-> Owed]
            /\ UNCHANGED outcome
    /\ UNCHANGED <<ataVars, boot, root, asked, moved, buf>>

More == xfer # NoXfer /\ moved < Len(xfer.data)

\* The offset within the transfer is left out: each block goes to the first.
BugNodeAsk ==
    /\ More /\ ~asked
    /\ CallBlock([op |-> xfer.op, lba |-> xfer.lba,
                  val |-> IF xfer.op = "write" THEN xfer.data[moved + 1] ELSE NoVal])
    /\ asked' = TRUE
    /\ UNCHANGED <<boot, root, xfer, moved, buf, outcome, before>>

NodeAsk ==
    /\ More /\ ~asked
    /\ CallBlock([op |-> xfer.op, lba |-> xfer.lba + moved,
                  val |-> IF xfer.op = "write" THEN xfer.data[moved + 1] ELSE NoVal])
    /\ asked' = TRUE
    /\ UNCHANGED <<boot, root, xfer, moved, buf, outcome, before>>

\* The lock is released; what the history says of the transfer is dropped.
NodeEnd(r) ==
    /\ xfer' = NoXfer /\ outcome' = r
    /\ asked' = FALSE /\ moved' = 0 /\ buf' = <<>> /\ before' = NoBefore

\* The driver has answered: on to the next block, or `?`.
NodeTake ==
    /\ More /\ asked /\ pc = "idle"
    /\ IF result.res = "ok"
       THEN /\ moved' = moved + 1
            /\ buf' = IF xfer.op = "read" THEN Append(buf, result.val) ELSE buf
            /\ asked' = FALSE
            /\ UNCHANGED <<xfer, outcome, before>>
       ELSE NodeEnd("Io")
    /\ UNCHANGED <<ataVars, boot, root>>

\* All blocks are done.
NodeDone ==
    /\ xfer # NoXfer /\ moved = Len(xfer.data)
    /\ NodeEnd("ok")
    /\ UNCHANGED <<ataVars, boot, root>>

-----------------------------------------------------------------------------
\* FatFs reads or writes one block.
FatCall(c) ==
    /\ root = "fat" /\ xfer = NoXfer
    /\ CallBlock(c)
    /\ UNCHANGED <<boot, root, nodeVars>>

Init ==
    /\ AtaInit
    /\ boot = "off" /\ root = "none"
    /\ xfer = NoXfer /\ asked = FALSE /\ moved = 0 /\ buf = <<>>
    /\ outcome = "none" /\ before = NoBefore

Driver == DriverStep /\ UNCHANGED <<boot, root, nodeVars>>
Drive  == DriveStep /\ UNCHANGED <<boot, root, nodeVars>>
CpuStep ==
    BootProbe \/ BootProbed \/ BootMounted \/ NodeAsk \/ NodeTake \/ NodeDone \/ Driver

Next ==
    \/ CpuStep \/ Drive
    \/ \E c \in Calls : FatCall(c)
    \/ \E x \in Xfers, aligned \in BOOLEAN : NodeCall(x, aligned)

\* What the CPU has begun it goes on with; nothing is assumed of the drive.
Spec == Init /\ [][Next]_vars /\ WF_vars(CpuStep)

-----------------------------------------------------------------------------
(* Properties.                                                             *)

TypeOK ==
    /\ AtaTypeOK
    /\ boot \in {"off", "init", "mount", "up"} /\ root \in {"none", "fat", "ram"}
    /\ xfer \in Xfers \cup {NoXfer} /\ asked \in BOOLEAN
    /\ moved \in 0..MaxBlocks /\ Len(buf) <= moved
    /\ outcome \in {"none", "ok", "Io"}

\* At every point of a transfer of /dev/disk0, hence also where an error, the
\* end of the disk or a reset cuts it off, the blocks it has counted are
\* transferred, the next one is as before or as it will be, and the rest of
\* the disk is untouched (apart from a write that timed out earlier, and as
\* long as the driver and the drive agree which command is being served).
TransferIsPrefix ==
    (xfer # NoXfer /\ ~astray) =>
        \A l \in Lbas \ before.owed :
            LET i == l - xfer.lba + 1
                old == before.medium[l]
                new == IF i \in DOMAIN xfer.data /\ xfer.op = "write"
                       THEN xfer.data[i] ELSE old
            IN  /\ medium[l] \in (IF i <= moved THEN {new} ELSE
                                  IF i = moved + 1 THEN {old, new} ELSE {old})
                /\ i \in DOMAIN buf => buf[i] = medium[l]

\* The boot and every call come to an end, even if the drive never answers:
\* all loops of the driver are bounded.
CallsReturn ==
    (boot # "up" \/ xfer # NoXfer \/ pc # "idle")
        ~> (boot = "up" /\ xfer = NoXfer /\ pc = "idle")
=============================================================================
