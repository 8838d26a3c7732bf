-------------------------------- MODULE Ata ---------------------------------
(***************************************************************************)
(* The polled ATA driver (kernel/src/ata.rs) and the drive behind it, as   *)
(* two processes that meet in the status register: the drive works while   *)
(* the driver polls, for at most POLL_LIMIT rounds, and goes on working    *)
(* when the driver has given up.                                           *)
(*                                                                         *)
(* Abstractions.  A block is one value, and its 256 words move in one step *)
(* (nothing else touches the data port).  ERR and DF are one bit.  The     *)
(* four status reads of delay_400ns let BSY appear after a command, which  *)
(* is why BSY is set in the step that writes the command.  There is no     *)
(* such delay after the last word of a write: that the drive is busy by    *)
(* the time of the next status read is assumed (it is in QEMU, where the   *)
(* port write does the work).  Every caller passes a buffer of one block,  *)
(* so the tests of its length are left out.                                *)
(*                                                                         *)
(* The drive is external.  A command written while it is busy or has data  *)
(* pending is ignored or starts afresh, and words moved against the        *)
(* direction it is waiting for are lost; the ATA standard leaves both      *)
(* open, and emulators ignore the command.                                 *)
(***************************************************************************)
EXTENDS Integers

CONSTANTS
    Sectors,     \* blocks of the drive
    Values,      \* contents of a block
    PollLimit    \* POLL_LIMIT

ASSUME AtaAssumption ==
    /\ Sectors \in Nat \ {0} /\ PollLimit \in Nat \ {0} /\ Values # {}

VARIABLES
    kind,        \* what is attached: "ata", "absent", "foreign" (no ATA disk)
    medium,      \* the blocks of the drive
    status,      \* the status register, as the set of its bits
    job,         \* the command the drive works on
    pc, call,    \* where the driver is, and in which call
    polls,       \* rounds of the polling loop so far
    sectors,     \* AtaDrive::sectors
    initialised, \* INITIALISED
    result,      \* outcome of the last call
    astray       \* history: wait_drq of a read or write has timed out

driveVars  == <<kind, medium, status, job>>
driverVars == <<pc, call, polls, sectors, initialised, result, astray>>
ataVars    == <<driveVars, driverVars>>

Lbas   == 0..(Sectors - 1)
NoVal  == "no value"
NoCall == [op |-> "none", lba |-> 0, val |-> NoVal]
NoJob  == NoCall
Calls  == [op : {"read"}, lba : 0..Sectors, val : {NoVal}]
             \cup [op : {"write"}, lba : 0..Sectors, val : Values]

-----------------------------------------------------------------------------
(* The drive.                                                              *)

Busy    == "BSY" \in status
Pending == "DRQ" \in status
Failed  == "ERR" \in status

Bits(b) == {"RDY"} \cup b

\* The data phase begins: a sector to be read, or room for one to be written.
DriveReady ==
    /\ Busy /\ job.op # "flush"
    /\ status' = Bits({"DRQ"})
    /\ job' = IF job.op = "read" THEN [job EXCEPT !.val = medium[job.lba]] ELSE job
    /\ UNCHANGED <<kind, medium, driverVars>>

\* The sector received is on the disk.
DriveCommit ==
    /\ Busy /\ job.op = "flush"
    /\ medium' = [medium EXCEPT ![job.lba] = job.val]
    /\ status' = Bits({}) /\ job' = NoJob
    /\ UNCHANGED <<kind, driverVars>>

\* The command fails; a sector being written may have been written all the
\* same.
DriveFail ==
    /\ Busy
    /\ status' = Bits({"ERR"}) /\ job' = NoJob
    /\ \/ UNCHANGED medium
       \/ job.op = "flush" /\ medium' = [medium EXCEPT ![job.lba] = job.val]
    /\ UNCHANGED <<kind, driverVars>>

DriveStep == DriveReady \/ DriveCommit \/ DriveFail

\* The drive receives a command.
Command(c) ==
    IF kind = "absent" THEN UNCHANGED <<status, job>>
    ELSE \/ status' = Bits({"BSY"}) /\ job' = c
         \/ (Busy \/ Pending) /\ UNCHANGED <<status, job>>

-----------------------------------------------------------------------------
(* The driver.                                                             *)

(* An operator named Bug... is a mutant of the definition that follows it: *)
(* no action uses it.                                                      *)

Answer(r, v) == [res |-> r, val |-> v]

Return(r, v) ==
    /\ result' = Answer(r, v)
    /\ pc' = "idle" /\ call' = NoCall /\ polls' = 0
    /\ astray' = (astray \/ (pc = "drq" /\ r = "Timeout" /\ call.op # "identify"))

Goto(l) == pc' = l /\ polls' = 0 /\ UNCHANGED <<call, result, astray>>

\* One round too many; the limit is forgotten.
BugPollOneMore ==
    IF polls = PollLimit THEN Return("Timeout", NoVal)
    ELSE polls' = polls + 1 /\ UNCHANGED <<pc, call, result, astray>>
BugPollForever == UNCHANGED <<pc, call, polls, result, astray>>

\* Another round of the loop, or Err(Timeout).
PollAgain ==
    IF polls + 1 = PollLimit THEN Return("Timeout", NoVal)
    ELSE polls' = polls + 1 /\ UNCHANGED <<pc, call, result, astray>>

\* The error bit is not looked at.
BugWaitIgnoresError(next) ==
    /\ IF Busy THEN PollAgain ELSE next
    /\ UNCHANGED <<driveVars, sectors, initialised>>

\* One round of wait_not_busy; next is what follows its Ok.
WaitNotBusy(next) ==
    /\ IF Busy THEN PollAgain
       ELSE IF Failed THEN Return("DriveError", NoVal)
       ELSE next
    /\ UNCHANGED <<driveVars, sectors, initialised>>

\* read_block and write_block up to their first poll.
CallBlock(c) ==
    /\ pc = "idle"
    /\ IF c.lba >= sectors
       THEN Return("OutOfRange", NoVal)
       ELSE pc' = "ready" /\ call' = c /\ UNCHANGED <<polls, result, astray>>
    /\ UNCHANGED <<driveVars, sectors, initialised>>

\* init: identify runs until it has succeeded once.  Its Ok(()) is "ready".
CallInit ==
    /\ pc = "idle"
    /\ IF initialised THEN Return("ready", NoVal)
       ELSE /\ pc' = "issue" /\ call' = [NoCall EXCEPT !.op = "identify"]
            /\ UNCHANGED <<polls, result, astray>>
    /\ UNCHANGED <<driveVars, sectors, initialised>>

PollReady == pc = "ready" /\ WaitNotBusy(Goto("issue"))

\* select_lba28, or the registers of identify, and the command.
Issue ==
    /\ pc = "issue"
    /\ Command(call)
    /\ Goto(IF call.op = "identify" THEN "probe" ELSE "drq")
    /\ UNCHANGED <<kind, medium, sectors, initialised>>

\* identify: a status of zero means that nobody is there.
Probe ==
    /\ pc = "probe"
    /\ IF status = {} THEN Return("DriveError", NoVal) ELSE Goto("sign")
    /\ UNCHANGED <<driveVars, sectors, initialised>>

\* identify: wait_not_busy, then the signature that only a disk leaves zero.
PollSignature ==
    /\ pc = "sign"
    /\ WaitNotBusy(IF kind = "foreign" THEN Return("DriveError", NoVal)
                                       ELSE Goto("drq"))

\* One round of wait_drq.
PollDrq ==
    /\ pc = "drq"
    /\ IF ~Busy /\ Failed THEN Return("DriveError", NoVal)
       ELSE IF ~Busy /\ Pending THEN Goto("move")
       ELSE PollAgain
    /\ UNCHANGED <<driveVars, sectors, initialised>>

\* The 256 words of IDENTIFY, and INITIALISED.
MoveIdentity ==
    /\ pc = "move" /\ call.op = "identify"
    /\ Return("ready", NoVal) /\ status' = Bits({}) /\ job' = NoJob
    /\ sectors' = Sectors /\ initialised' = TRUE
    /\ UNCHANGED <<kind, medium>>

\* The 256 words of a sector to be read; the data port yields nothing of use
\* when the drive is waiting for data itself.
MoveIn ==
    /\ pc = "move" /\ call.op = "read"
    /\ IF job.op = "write"
       THEN (\E v \in Values : Return("ok", v)) /\ UNCHANGED <<status, job>>
       ELSE Return("ok", job.val) /\ status' = Bits({}) /\ job' = NoJob
    /\ UNCHANGED <<kind, medium, sectors, initialised>>

\* write_block returns with the last word, without waiting for the drive.
BugNoFinalWait ==
    /\ pc = "move" /\ call.op = "write"
    /\ IF job.op = "write"
       THEN job' = [job EXCEPT !.op = "flush", !.val = call.val]
               /\ status' = Bits({"BSY"})
       ELSE UNCHANGED <<status, job>>
    /\ Return("ok", NoVal)
    /\ UNCHANGED <<kind, medium, sectors, initialised>>

\* The 256 words of a sector to be written; the drive is busy with the last.
MoveOut ==
    /\ pc = "move" /\ call.op = "write"
    /\ IF job.op = "write"
       THEN job' = [job EXCEPT !.op = "flush", !.val = call.val]
               /\ status' = Bits({"BSY"})
       ELSE UNCHANGED <<status, job>>
    /\ Goto("flush")
    /\ UNCHANGED <<kind, medium, sectors, initialised>>

PollFlushed == pc = "flush" /\ WaitNotBusy(Return("ok", NoVal))

DriverStep ==
    PollReady \/ Issue \/ Probe \/ PollSignature \/ PollDrq
        \/ MoveIdentity \/ MoveIn \/ MoveOut \/ PollFlushed

-----------------------------------------------------------------------------
\* The machine is switched on; nothing has been probed.
AtaInit ==
    /\ kind \in {"ata", "absent", "foreign"}
    /\ medium \in [Lbas -> Values]
    /\ status = (IF kind = "absent" THEN {} ELSE Bits({})) /\ job = NoJob
    /\ pc = "idle" /\ call = NoCall /\ polls = 0
    /\ sectors = 0 /\ initialised = FALSE
    /\ result = Answer("none", NoVal) /\ astray = FALSE

\* DRIVE.lock(): one caller at a time.
Caller == CallInit \/ \E c \in Calls : CallBlock(c)

AtaNext == Caller \/ DriverStep \/ DriveStep

AtaSpec == AtaInit /\ [][AtaNext]_ataVars

-----------------------------------------------------------------------------
(* Properties.                                                             *)

AtaTypeOK ==
    /\ kind \in {"ata", "absent", "foreign"}
    /\ medium \in [Lbas -> Values]
    /\ status \subseteq {"RDY", "BSY", "DRQ", "ERR"}
    /\ job.op \in {"none", "identify", "read", "write", "flush"}
    /\ pc \in {"idle", "ready", "issue", "probe", "sign", "drq", "move", "flush"}
    /\ call \in Calls \cup {NoCall, [NoCall EXCEPT !.op = "identify"]}
    /\ polls \in 0..(PollLimit - 1)
    /\ sectors \in {0, Sectors} /\ (initialised <=> sectors = Sectors)
    /\ initialised \in BOOLEAN /\ astray \in BOOLEAN

\* The driver implements BlockDisk until a wait_drq has timed out: a late
\* answer, a failing drive, a missing one and a timeout in either
\* wait_not_busy never make read_block or write_block lie.
BlockAsk == IF call.op \in {"read", "write"} THEN call ELSE NoCall
BlockOwed == IF job.op = "flush" /\ pc # "flush"
             THEN {[op |-> "write", lba |-> job.lba, val |-> job.val]} ELSE {}
Disk == INSTANCE BlockDisk WITH Blocks <- Lbas, Asks <- Calls, NoAsk <- NoCall,
            blocks <- medium, ask <- BlockAsk, owed <- BlockOwed,
            answer <- result, lost <- astray
BlockSpec == Disk!DiskSpec

\* Fail-stop: once the drive of a running system has set ERR, wait_not_busy
\* turns every later call away before its command is issued, so the error
\* stays, nothing succeeds and no block changes until the machine is reset.
FailStop ==
    [][(initialised /\ Failed) =>
            /\ Failed' /\ medium' = medium
            /\ (pc # "idle" /\ pc' = "idle") => result'.res # "ok"]_ataVars

\* block.rs 23-24: "Read a single 512-byte block at `lba` into `buf`".
ReadsTheBlockAsked ==
    [][(pc = "move" /\ call.op = "read" /\ result'.res = "ok")
            => result'.val = medium[call.lba]]_ataVars
=============================================================================
