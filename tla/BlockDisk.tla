----------------------------- MODULE BlockDisk ------------------------------
(***************************************************************************)
(* What the BlockDevice trait (kernel/src/block.rs) promises to its one    *)
(* caller at a time: read_block returns what the block holds, write_block  *)
(* returns Ok when the block holds what was given, and nothing else        *)
(* changes.  A call may fail; a write that failed may have happened, and a *)
(* write that timed out may still happen later.                            *)
(***************************************************************************)
EXTENDS Naturals

CONSTANTS
    Blocks,     \* addresses of the disk
    Asks,       \* requests a caller can make; NoAsk when there is none
    NoAsk

VARIABLES
    blocks,     \* what each block holds
    ask,        \* the request under way
    owed,       \* the writes that timed out and may still happen
    answer,     \* outcome of the last request: [res |-> ..., val |-> ...]
    lost        \* the promise no longer stands (the detailed model says when)

diskVars == <<blocks, ask, owed, answer, lost>>

DiskInit == ask = NoAsk /\ owed = {} /\ answer.res # "ok" /\ lost = FALSE

Request ==
    /\ ask = NoAsk
    /\ ask' \in Asks
    /\ UNCHANGED <<blocks, owed, answer>>

Put(w) == blocks' = [blocks EXCEPT ![w.lba] = w.val]

\* The block is written at some point during the request.
Perform ==
    /\ ask # NoAsk /\ ask.op = "write" /\ ask.lba \in Blocks
    /\ Put(ask)
    /\ UNCHANGED <<ask, owed, answer>>

\* A write that timed out reaches the disk after all, or never will.
Settle ==
    /\ \E w \in owed : UNCHANGED blocks \/ Put(w)
    /\ owed' = {}
    /\ UNCHANGED <<ask, answer>>

\* Ok: the block holds what was given, or is given as what it holds.
Succeed ==
    /\ ask # NoAsk /\ ask.lba \in Blocks
    /\ IF ask.op = "write" THEN blocks[ask.lba] = ask.val
                           ELSE answer'.val = blocks[ask.lba]
    /\ answer'.res = "ok"
    /\ ask' = NoAsk
    /\ UNCHANGED <<blocks, owed>>

\* Refused on the spot.
Reject ==
    /\ ask = NoAsk
    /\ answer'.res # "ok"
    /\ UNCHANGED <<blocks, ask, owed>>

Refuse ==
    /\ ask # NoAsk
    /\ answer'.res # "ok"
    /\ ask' = NoAsk
    /\ owed' \in {owed, {ask}}
    /\ owed' # owed => ask.op = "write" /\ answer'.res = "Timeout"
    /\ UNCHANGED blocks

DiskNext == lost \/ Request \/ Perform \/ Settle \/ Succeed \/ Reject \/ Refuse

DiskSpec == DiskInit /\ [][DiskNext]_diskVars
=============================================================================
