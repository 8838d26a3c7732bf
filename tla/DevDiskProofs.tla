--------------------------- MODULE DevDiskProofs ----------------------------
(***************************************************************************)
(* Proofs about the ATA driver, the drive behind it and its callers, for a *)
(* drive of any size, any POLL_LIMIT and transfers of any length.  First   *)
(* the driver by itself, whoever calls it: what the drive can be working   *)
(* on at each place of the driver, that an error stops everything, and     *)
(* that the driver implements BlockDisk.  Then the same for the whole      *)
(* system, and that a transfer of /dev/disk0 is at every moment a prefix   *)
(* of what was asked.                                                      *)
(***************************************************************************)
EXTENDS DevDisk, TLAPS

-----------------------------------------------------------------------------
(* The driver and the drive.                                               *)

\* The requests a caller may make: read_block and write_block accept any lba.
Requests == [op : {"read"}, lba : Nat, val : {NoVal}]
               \cup [op : {"write"}, lba : Nat, val : Values]

\* A step of the driver for some caller, or of the drive.
AtaStep ==
    \/ CallInit \/ \E c \in Requests : CallBlock(c)
    \/ DriverStep \/ DriveStep

\* The drive has a command while BSY is set, and a sector to write only then;
\* BSY, DRQ and ERR exclude each other.
DriveInv ==
    /\ job \in [op : {"none", "identify", "read", "write", "flush"},
                lba : Lbas, val : Values \cup {NoVal}]
    /\ Busy => ~Pending /\ ~Failed /\ job.op # "none"
    /\ Pending => ~Failed
    /\ Failed => job.op = "none"
    /\ job.op = "flush" => Busy /\ job.val \in Values
    /\ kind = "absent" => status = {}

\* What the place in the driver says about the call and the drive.
PhaseInv ==
    /\ pc = "idle" <=> call = NoCall
    /\ pc \in {"probe", "sign"} => call.op = "identify"
    /\ pc = "ready" => call.op # "identify"
    /\ pc = "flush" => call.op = "write"
    /\ call.op = "identify" => ~initialised
    /\ call.op \in {"read", "write"} => initialised /\ call.lba \in Lbas
    /\ initialised => kind # "absent"
    /\ ~initialised => job.op \in {"none", "identify"}
    /\ pc = "issue" /\ initialised => ~Busy /\ ~Failed
    /\ pc = "move" => Pending

\* The drive serves the call the driver is in.
Serving == job.op = call.op /\ job.lba = call.lba

\* Until a wait_drq has timed out, the drive never works for a call that is
\* over, except that it may still be writing the sector of one.
InStepInv ==
    (initialised /\ ~astray) =>
        /\ pc \in {"idle", "ready", "issue"} => job.op \in {"none", "flush"} /\ ~Pending
        /\ pc \in {"drq", "move"} => Failed \/ (Serving /\ (Busy \/ Pending))
        /\ (Pending /\ call.op = "read") => job.val = medium[call.lba]
        /\ pc = "flush" =>
              \/ Busy /\ job.op = "flush" /\ job.lba = call.lba /\ job.val = call.val
              \/ Failed
              \/ ~Busy /\ ~Pending /\ job.op = "none" /\ medium[call.lba] = call.val

AtaInv == AtaTypeOK /\ DriveInv /\ PhaseInv /\ InStepInv

-----------------------------------------------------------------------------
(* The inductive invariant.                                                *)

\* The bits of the status register the model ever shows.
LEMMA BitFacts ==
    /\ Bits({}) = {"RDY"} /\ Bits({"BSY"}) = {"RDY", "BSY"}
    /\ Bits({"DRQ"}) = {"RDY", "DRQ"} /\ Bits({"ERR"}) = {"RDY", "ERR"}
BY DEF Bits

\* The parts of a call.
LEMMA CallFacts ==
    ASSUME AtaTypeOK
    PROVE  /\ call.op \in {"none", "identify", "read", "write"}
           /\ call.lba \in 0..Sectors /\ call.val \in Values \cup {NoVal}
           /\ call.op = "write" => call.val \in Values
           /\ call.op = "none" => call = NoCall
           /\ call \in [op : {"none", "identify", "read", "write"},
                        lba : 0..Sectors, val : Values \cup {NoVal}]
           /\ NoCall = [op |-> "none", lba |-> 0, val |-> NoVal]
           /\ 0 \in Lbas
BY AtaAssumption DEF AtaTypeOK, Calls, NoCall, Lbas

\* A call that returns at once, from the idle driver.
LEMMA ReturnStays ==
    ASSUME astray \in BOOLEAN, pc = "idle", NEW r, NEW v, Return(r, v)
    PROVE  /\ pc' = "idle" /\ call' = NoCall /\ polls' = 0 /\ astray' = astray
           /\ result' = Answer(r, v)
<1>1. pc' = "idle" /\ call' = NoCall /\ polls' = 0 /\ result' = Answer(r, v)
    BY DEF Return
<1>2. astray' = astray
    BY DEF Return
<1> QED BY <1>1, <1>2

\* The machine has been switched on.
LEMMA AtaInitInv == AtaInit => AtaInv
<1> SUFFICES ASSUME AtaInit PROVE AtaInv
    OBVIOUS
<1> USE AtaAssumption DEF AtaInit, NoJob
<1>1. AtaTypeOK
    <2>1. initialised \in BOOLEAN /\ astray \in BOOLEAN
        BY Zenon
    <2> QED BY <2>1 DEF AtaTypeOK, NoCall, Bits
<1>2. ~Busy /\ ~Pending /\ ~Failed
    BY DEF Busy, Pending, Failed, Bits
<1>3. DriveInv
    BY <1>2 DEF DriveInv, NoCall, Lbas
<1>4. PhaseInv /\ InStepInv
    BY DEF PhaseInv, InStepInv, NoCall
<1> QED BY <1>1, <1>3, <1>4 DEF AtaInv

\* The calls: a request enters the driver only within the sectors that
\* identify has reported.
LEMMA CallInv ==
    ASSUME AtaInv, CallInit \/ \E c \in Requests : CallBlock(c)
    PROVE  AtaInv'
<1> USE AtaAssumption DEF AtaInv, driveVars
<1>1. pc = "idle" /\ call = NoCall /\ UNCHANGED <<driveVars, sectors, initialised>>
    BY DEF CallInit, CallBlock, PhaseInv
<1>2. UNCHANGED <<Busy, Pending, Failed>>
    BY <1>1 DEF Busy, Pending, Failed
<1>3. DriveInv'
    BY <1>1, <1>2 DEF DriveInv
<1>4. CASE /\ pc' = "idle" /\ call' = NoCall /\ polls' = 0 /\ astray' = astray
    <2>1. AtaTypeOK'
        BY <1>1, <1>4 DEF AtaTypeOK
    <2>2. PhaseInv' /\ InStepInv'
        BY <1>1, <1>2, <1>4 DEF PhaseInv, InStepInv, NoCall
    <2> QED BY <1>3, <2>1, <2>2
<1>5. CASE CallInit
    <2>1. CASE initialised
        <3>1. Return("ready", NoVal)
            BY <1>5, <2>1 DEF CallInit
        <3> QED BY <1>1, <1>4, <3>1, ReturnStays DEF AtaTypeOK
    <2>2. CASE ~initialised
        <3>1. /\ pc' = "issue" /\ call' = [NoCall EXCEPT !.op = "identify"]
              /\ UNCHANGED <<polls, result, astray>>
            BY <1>5, <2>2 DEF CallInit
        <3>2. AtaTypeOK'
            BY <1>1, <3>1 DEF AtaTypeOK
        <3>3. PhaseInv' /\ InStepInv'
            BY <1>1, <1>2, <2>2, <3>1 DEF PhaseInv, InStepInv, NoCall
        <3> QED BY <1>3, <3>2, <3>3
    <2> QED BY <2>1, <2>2
<1>6. ASSUME NEW c \in Requests, CallBlock(c)
      PROVE  AtaInv'
    <2>1. CASE c.lba >= sectors
        <3>1. Return("OutOfRange", NoVal)
            BY <1>6, <2>1 DEF CallBlock
        <3> QED BY <1>1, <1>4, <3>1, ReturnStays DEF AtaTypeOK
    <2>2. CASE ~(c.lba >= sectors)
        <3>1. pc' = "ready" /\ call' = c /\ UNCHANGED <<polls, result, astray>>
            BY <1>6, <2>2 DEF CallBlock
        <3>2. /\ c.lba \in Nat /\ c.lba < sectors /\ sectors = Sectors
              /\ initialised /\ c.op \in {"read", "write"}
            BY <1>6, <2>2 DEF AtaTypeOK, Requests
        <3>3. c \in Calls /\ c.lba \in Lbas /\ c # NoCall
            BY <3>2 DEF Calls, Requests, Lbas, NoCall
        <3>4. AtaTypeOK'
            BY <1>1, <3>1, <3>3 DEF AtaTypeOK
        <3>5. PhaseInv' /\ InStepInv'
            BY <1>1, <1>2, <3>1, <3>2, <3>3 DEF PhaseInv, InStepInv
        <3> QED BY <1>3, <3>4, <3>5
    <2> QED BY <2>1, <2>2
<1> QED BY <1>5, <1>6

\* The drive on its own.
LEMMA DriveStepInv ==
    ASSUME AtaInv, DriveStep
    PROVE  AtaInv'
<1> USE AtaAssumption DEF AtaInv, driverVars, NoJob
<1>1. Busy /\ ~Pending /\ ~Failed /\ UNCHANGED <<kind, driverVars>> /\ kind # "absent"
    BY DEF DriveStep, DriveReady, DriveCommit, DriveFail, DriveInv, Busy
<1>2. CASE DriveReady
    <2>1. /\ ~Busy' /\ Pending' /\ ~Failed' /\ medium' = medium
          /\ status' = {"RDY", "DRQ"} /\ job.op # "flush"
        BY <1>2, BitFacts DEF DriveReady, Busy, Pending, Failed
    <2>2. /\ job'.op = job.op /\ job'.lba = job.lba
          /\ (job.op = "read" => job'.val = medium[job.lba])
          /\ job' \in [op : {"none", "identify", "read", "write", "flush"},
                       lba : Lbas, val : Values \cup {NoVal}]
        BY <1>2 DEF DriveReady, DriveInv, AtaTypeOK
    <2>3. AtaTypeOK' /\ DriveInv'
        BY <1>1, <2>1, <2>2 DEF AtaTypeOK, DriveInv
    <2>4. PhaseInv'
        BY <1>1, <2>1, <2>2 DEF PhaseInv
    <2>5. InStepInv'
        <3> SUFFICES ASSUME initialised, ~astray
                     PROVE  /\ pc \in {"drq", "move"} /\ Serving
                            /\ call.op = "read" => job.val' = medium[call.lba]
            BY <1>1, <2>1, <2>2 DEF InStepInv, Serving
        <3>1. pc \in {"drq", "move"}
            BY <1>1, <2>1 DEF InStepInv, DriveInv, PhaseInv, AtaTypeOK
        <3>2. Serving
            BY <1>1, <3>1 DEF InStepInv
        <3> QED BY <2>2, <3>1, <3>2 DEF Serving
    <2> QED BY <2>3, <2>4, <2>5
<1>3. CASE DriveCommit \/ DriveFail
    <2>1. /\ ~Busy' /\ ~Pending' /\ job' = NoCall
          /\ status' \in {{"RDY"}, {"RDY", "ERR"}}
        BY <1>3, BitFacts DEF DriveCommit, DriveFail, Busy, Pending
    <2>2. \/ medium' = medium /\ (job.op = "flush" => Failed')
          \/ job.op = "flush" /\ medium' = [medium EXCEPT ![job.lba] = job.val]
        BY <1>3, BitFacts DEF DriveCommit, DriveFail, Failed
    <2>3. AtaTypeOK' /\ DriveInv'
        BY <1>1, <2>1, <2>2 DEF AtaTypeOK, DriveInv, NoCall, Lbas
    <2>4. PhaseInv'
        BY <1>1, <2>1 DEF PhaseInv, NoCall
    <2>5. job.op # "flush" => Failed'
        BY <1>3, BitFacts DEF DriveCommit, DriveFail, Failed
    <2>6. InStepInv'
        <3> SUFFICES ASSUME initialised, ~astray
                     PROVE  /\ pc \in {"drq", "move"} => Failed'
                            /\ pc = "flush" =>
                                  Failed' \/ medium'[call.lba] = call.val
            BY <1>1, <2>1 DEF InStepInv, NoCall
        <3>1. pc \in {"drq", "move"} => Failed'
            BY <1>1, <2>5, CallFacts DEF InStepInv, Serving
        <3>2. ASSUME pc = "flush", ~Failed'
              PROVE  medium'[call.lba] = call.val
            <4>1. job.op = "flush" /\ job.lba = call.lba /\ job.val = call.val
                BY <1>1, <3>2 DEF InStepInv
            <4>2. medium' = [medium EXCEPT ![job.lba] = job.val]
                BY <2>2, <3>2, <4>1
            <4> QED BY <4>1, <4>2 DEF DriveInv, AtaTypeOK
        <3> QED BY <3>1, <3>2
    <2> QED BY <2>3, <2>4, <2>6
<1> QED BY <1>2, <1>3 DEF DriveStep

\* Nothing happens to the drive while the driver reads its status.
Looks == UNCHANGED <<driveVars, sectors, initialised>>

\* The end of a call, from whatever place: the drive is left with no command
\* or with a sector to write, unless a wait_drq has timed out.
LEMMA ReturnInv ==
    ASSUME AtaInv, Looks, NEW r, NEW v, Return(r, v),
           \/ ~initialised \/ (pc = "drq" /\ r = "Timeout")
           \/ astray \/ (job.op \in {"none", "flush"} /\ ~Pending)
    PROVE  AtaInv'
<1> USE AtaAssumption DEF AtaInv, Looks, driveVars
<1>1. /\ pc' = "idle" /\ call' = NoCall /\ polls' = 0
      /\ astray' = (astray \/ (pc = "drq" /\ r = "Timeout" /\ call.op # "identify"))
    BY DEF Return
<1>2. astray' \in BOOLEAN
    BY <1>1
<1>3. UNCHANGED <<Busy, Pending, Failed>>
    BY DEF Busy, Pending, Failed
<1>4. AtaTypeOK' /\ DriveInv'
    BY <1>1, <1>2, <1>3 DEF AtaTypeOK, DriveInv
<1>5. PhaseInv'
    BY <1>1, <1>3 DEF PhaseInv, NoCall
<1>6. InStepInv'
    <2> SUFFICES ASSUME initialised, ~astray'
                 PROVE  job.op \in {"none", "flush"} /\ ~Pending
        BY <1>1, <1>3 DEF InStepInv, NoCall
    <2>1. call.op # "identify"
        BY DEF PhaseInv
    <2> QED BY <1>1, <2>1
<1> QED BY <1>4, <1>5, <1>6

\* Another round of a loop; only wait_drq may give up with a command pending.
LEMMA PollAgainInv ==
    ASSUME AtaInv, Looks, PollAgain, pc = "drq" \/ Busy, pc # "idle"
    PROVE  AtaInv'
<1> USE AtaAssumption DEF AtaInv, Looks, driveVars
<1>1. CASE polls + 1 = PollLimit
    <2>1. Return("Timeout", NoVal)
        BY <1>1 DEF PollAgain
    <2>2. \/ ~initialised \/ pc = "drq"
          \/ astray \/ (job.op \in {"none", "flush"} /\ ~Pending)
        <3> SUFFICES ASSUME initialised, ~astray, pc # "drq"
                     PROVE  job.op \in {"none", "flush"} /\ ~Pending
            OBVIOUS
        <3>1. Busy /\ ~Pending /\ ~Failed
            BY DEF DriveInv
        <3>2. pc \in {"ready", "issue", "flush"}
            BY <3>1 DEF AtaTypeOK, PhaseInv
        <3> QED BY <3>1, <3>2 DEF InStepInv
    <2> HIDE DEF AtaInv, Looks
    <2> QED BY <2>1, <2>2, ReturnInv
<1>2. CASE polls + 1 # PollLimit
    <2>1. polls' = polls + 1 /\ UNCHANGED <<pc, call, result, astray>>
        BY <1>2 DEF PollAgain
    <2>2. AtaTypeOK'
        BY <1>2, <2>1 DEF AtaTypeOK
    <2>3. UNCHANGED <<Busy, Pending, Failed, Serving>>
        BY <2>1 DEF Busy, Pending, Failed, Serving
    <2>4. DriveInv' /\ PhaseInv' /\ InStepInv'
        BY <2>1, <2>3 DEF DriveInv, PhaseInv, InStepInv
    <2> QED BY <2>2, <2>4
<1> QED BY <1>1, <1>2

\* On to the next place in the driver.
LEMMA GotoInv ==
    ASSUME AtaInv, Looks, NEW l, Goto(l),
           \/ pc = "ready" /\ l = "issue" /\ ~Busy /\ ~Failed
           \/ pc = "probe" /\ l = "sign"
           \/ pc = "sign" /\ l = "drq"
           \/ pc = "drq" /\ l = "move" /\ Pending
    PROVE  AtaInv'
<1> USE AtaAssumption DEF AtaInv, Looks, driveVars, Goto
<1>1. UNCHANGED <<Busy, Pending, Failed, Serving>>
    BY DEF Busy, Pending, Failed, Serving
<1>2. AtaTypeOK' /\ DriveInv'
    BY <1>1 DEF AtaTypeOK, DriveInv
<1>3. PhaseInv'
    BY <1>1 DEF PhaseInv
<1>4. InStepInv'
    BY <1>1 DEF InStepInv, PhaseInv
<1> QED BY <1>2, <1>3, <1>4

\* The polling loops and the look for a drive.
LEMMA PollInv ==
    ASSUME AtaInv, PollReady \/ Probe \/ PollSignature \/ PollDrq \/ PollFlushed
    PROVE  AtaInv'
<1>0. Looks /\ pc # "idle"
    BY DEF PollReady, Probe, PollSignature, PollDrq, PollFlushed, WaitNotBusy, Looks
<1>1. ASSUME NEW r, Return(r, NoVal), ~Pending, job.op = "none"
      PROVE  AtaInv'
    BY <1>0, <1>1, ReturnInv
<1>2. ASSUME NEW r, Return(r, NoVal), Failed
      PROVE  AtaInv'
    BY <1>1, <1>2 DEF AtaInv, DriveInv
<1>3. ASSUME NEW r, Return(r, NoVal), call.op = "identify"
      PROVE  AtaInv'
    <2>1. ~initialised
        BY <1>3 DEF AtaInv, PhaseInv
    <2> QED BY <1>0, <1>3, <2>1, ReturnInv
<1>4. CASE PollReady
    BY <1>0, <1>2, <1>4, PollAgainInv, GotoInv DEF PollReady, WaitNotBusy
<1>5. CASE Probe
    <2>1. call.op = "identify"
        BY <1>5 DEF AtaInv, PhaseInv, Probe
    <2> QED BY <1>0, <1>3, <1>5, <2>1, GotoInv DEF Probe
<1>6. CASE PollSignature
    <2>1. call.op = "identify"
        BY <1>6 DEF AtaInv, PhaseInv, PollSignature
    <2> QED BY <1>0, <1>3, <1>6, <2>1, PollAgainInv, GotoInv
            DEF PollSignature, WaitNotBusy
<1>7. CASE PollDrq
    BY <1>0, <1>2, <1>7, PollAgainInv, GotoInv DEF PollDrq
<1>8. CASE PollFlushed
    <2>1. CASE Busy \/ Failed
        BY <1>0, <1>2, <1>8, <2>1, PollAgainInv DEF PollFlushed, WaitNotBusy
    <2>2. CASE ~Busy /\ ~Failed
        <3>1. Return("ok", NoVal) /\ pc = "flush"
            BY <1>8, <2>2 DEF PollFlushed, WaitNotBusy
        <3>2. \/ ~initialised \/ astray \/ (job.op = "none" /\ ~Pending)
            <4> SUFFICES ASSUME initialised, ~astray
                         PROVE  job.op = "none" /\ ~Pending
                OBVIOUS
            <4> QED BY <2>2, <3>1 DEF AtaInv, InStepInv
        <3> QED BY <1>0, <3>1, <3>2, ReturnInv
    <2> QED BY <2>1, <2>2
<1> QED BY <1>4, <1>5, <1>6, <1>7, <1>8

\* The command: from here on the drive works for this call, as it was idle,
\* unless an earlier wait_drq has timed out or this is IDENTIFY.
LEMMA IssueInv ==
    ASSUME AtaInv, Issue
    PROVE  AtaInv'
<1> USE AtaAssumption DEF AtaInv
<1>1. /\ pc = "issue" /\ pc' = (IF call.op = "identify" THEN "probe" ELSE "drq")
      /\ polls' = 0 /\ UNCHANGED <<call, result, astray, kind, medium, sectors, initialised>>
      /\ Command(call)
    BY DEF Issue, Goto
<1>c. /\ call \in [op : {"identify", "read", "write"}, lba : Lbas,
                   val : Values \cup {NoVal}]
      /\ (~initialised => call.op = "identify")
      /\ (call.op = "identify" => ~initialised)
    <2>1. call.op # "none" /\ call # NoCall
        BY <1>1, CallFacts DEF PhaseInv
    <2>2. call.op = "identify" => call.lba = 0
        BY <2>1 DEF AtaTypeOK, Calls, NoCall
    <2> QED BY <2>1, <2>2, CallFacts DEF PhaseInv
<1>2. CASE UNCHANGED <<status, job>> /\ (initialised => Pending)
    <2>1. UNCHANGED <<Busy, Pending, Failed, Serving>>
        BY <1>1, <1>2 DEF Busy, Pending, Failed, Serving
    <2>2. AtaTypeOK' /\ DriveInv'
        BY <1>1, <1>2, <2>1 DEF AtaTypeOK, DriveInv
    <2>3. PhaseInv'
        BY <1>1, <1>2, <2>1 DEF PhaseInv
    <2>4. InStepInv'
        BY <1>1, <1>2, <2>1 DEF InStepInv
    <2> QED BY <2>2, <2>3, <2>4
<1>3. CASE status' = Bits({"BSY"}) /\ job' = call /\ kind # "absent"
    <2>1. Busy' /\ ~Pending' /\ ~Failed' /\ status' = {"RDY", "BSY"}
        BY <1>3, BitFacts DEF Busy, Pending, Failed
    <2>2. AtaTypeOK' /\ DriveInv'
        BY <1>1, <1>3, <1>c, <2>1 DEF AtaTypeOK, DriveInv
    <2>3. PhaseInv'
        BY <1>1, <1>3, <1>c, <2>1 DEF PhaseInv
    <2>4. InStepInv'
        BY <1>1, <1>3, <1>c, <2>1 DEF InStepInv, Serving
    <2> QED BY <2>2, <2>3, <2>4
<1>4. initialised => ~Busy /\ kind # "absent"
    BY <1>1 DEF PhaseInv
<1> QED BY <1>1, <1>2, <1>3, <1>4 DEF Command

\* The 256 words.
LEMMA MoveInv ==
    ASSUME AtaInv, MoveIdentity \/ MoveIn \/ MoveOut
    PROVE  AtaInv'
<1> USE AtaAssumption DEF AtaInv, NoJob
<1>1. pc = "move" /\ Pending /\ ~Busy /\ ~Failed /\ job.op # "flush"
      /\ UNCHANGED <<kind, medium>> /\ kind # "absent"
    BY DEF MoveIdentity, MoveIn, MoveOut, PhaseInv, DriveInv, Pending
<1>2. ASSUME NEW r, NEW v, Return(r, v), sectors' = sectors \/ sectors' = Sectors,
             initialised' \in BOOLEAN, initialised' <=> sectors' = Sectors,
             \/ status' = Bits({}) /\ job' = NoCall
             \/ UNCHANGED <<status, job, initialised>> /\ (initialised => astray)
      PROVE  AtaInv'
    <2>1. /\ pc' = "idle" /\ call' = NoCall /\ polls' = 0
          /\ (astray => astray') /\ astray' \in BOOLEAN
        BY <1>2 DEF Return, AtaTypeOK
    <2>2. CASE status' = Bits({}) /\ job' = NoCall
        <3>1. ~Busy' /\ ~Pending' /\ ~Failed' /\ status' = {"RDY"}
            BY <2>2, BitFacts DEF Busy, Pending, Failed
        <3>2. AtaTypeOK' /\ DriveInv'
            BY <1>1, <1>2, <2>1, <2>2, <3>1, CallFacts DEF AtaTypeOK, DriveInv
        <3>3. PhaseInv' /\ InStepInv'
            BY <1>1, <2>1, <2>2, <3>1 DEF PhaseInv, InStepInv, NoCall
        <3> QED BY <3>2, <3>3
    <2>3. CASE UNCHANGED <<status, job, initialised>> /\ (initialised => astray)
        <3>1. UNCHANGED <<Busy, Pending, Failed>>
            BY <2>3 DEF Busy, Pending, Failed
        <3>2. AtaTypeOK' /\ DriveInv'
            BY <1>1, <1>2, <2>1, <2>3, <3>1 DEF AtaTypeOK, DriveInv
        <3>3. PhaseInv' /\ InStepInv'
            BY <1>1, <2>1, <2>3, <3>1 DEF PhaseInv, InStepInv, NoCall
        <3> QED BY <3>2, <3>3
    <2> QED BY <1>2, <2>2, <2>3
<1>3. CASE MoveIdentity
    <2>1. Return("ready", NoVal) /\ status' = Bits({}) /\ job' = NoCall
          /\ sectors' = Sectors /\ initialised' = TRUE
        BY <1>3 DEF MoveIdentity
    <2> QED BY <1>2, <2>1
<1>4. CASE MoveIn
    <2>0. call.op = "read" /\ UNCHANGED <<sectors, initialised>>
        BY <1>4 DEF MoveIn
    <2>1. CASE job.op = "write"
        <3>1. PICK v \in Values : Return("ok", v) /\ UNCHANGED <<status, job>>
            BY <1>4, <2>1 DEF MoveIn
        <3>2. initialised => astray
            BY <1>1, <2>0, <2>1 DEF InStepInv, Serving
        <3> QED BY <1>2, <2>0, <3>1, <3>2 DEF AtaTypeOK
    <2>2. CASE job.op # "write"
        <3>1. Return("ok", job.val) /\ status' = Bits({}) /\ job' = NoCall
            BY <1>4, <2>2 DEF MoveIn
        <3> QED BY <1>2, <2>0, <3>1 DEF AtaTypeOK
    <2> QED BY <2>1, <2>2
<1>5. CASE MoveOut
    <2>0. /\ call.op = "write" /\ pc' = "flush" /\ polls' = 0
          /\ UNCHANGED <<call, result, astray, sectors, initialised>>
          /\ initialised /\ call.val \in Values
        BY <1>5, CallFacts DEF MoveOut, Goto, PhaseInv
    <2>1. CASE job.op = "write"
        <3>1. /\ job' = [job EXCEPT !.op = "flush", !.val = call.val]
              /\ status' = Bits({"BSY"})
            BY <1>5, <2>1 DEF MoveOut
        <3>2. Busy' /\ ~Pending' /\ ~Failed' /\ status' = {"RDY", "BSY"}
            BY <3>1, BitFacts DEF Busy, Pending, Failed
        <3>3. /\ job'.op = "flush" /\ job'.lba = job.lba /\ job'.val = call.val
              /\ job' \in [op : {"none", "identify", "read", "write", "flush"},
                           lba : Lbas, val : Values \cup {NoVal}]
            BY <2>0, <3>1 DEF DriveInv
        <3>4. AtaTypeOK' /\ DriveInv'
            BY <1>1, <2>0, <3>2, <3>3 DEF AtaTypeOK, DriveInv
        <3>5. PhaseInv'
            BY <1>1, <2>0, <3>2 DEF PhaseInv
        <3>6. InStepInv'
            BY <1>1, <2>0, <3>2, <3>3 DEF InStepInv, Serving
        <3> QED BY <3>4, <3>5, <3>6
    <2>2. CASE job.op # "write"
        <3>1. UNCHANGED <<status, job>>
            BY <1>5, <2>2 DEF MoveOut
        <3>2. astray
            BY <1>1, <2>0, <2>2 DEF InStepInv, Serving
        <3>3. UNCHANGED <<Busy, Pending, Failed>>
            BY <3>1 DEF Busy, Pending, Failed
        <3>4. AtaTypeOK' /\ DriveInv'
            BY <1>1, <2>0, <3>1, <3>3 DEF AtaTypeOK, DriveInv
        <3>5. PhaseInv' /\ InStepInv'
            BY <1>1, <2>0, <3>1, <3>2, <3>3 DEF PhaseInv, InStepInv
        <3> QED BY <3>4, <3>5
    <2> QED BY <2>1, <2>2
<1> QED BY <1>3, <1>4, <1>5

\* Every step of a caller, of the driver and of the drive.
LEMMA AtaStepInv ==
    ASSUME AtaInv, [AtaStep]_ataVars
    PROVE  AtaInv'
<1>1. CASE UNCHANGED ataVars
    <2>1. UNCHANGED <<Busy, Pending, Failed, Serving>>
        BY <1>1 DEF ataVars, driveVars, driverVars, Busy, Pending, Failed, Serving
    <2> QED BY <1>1, <2>1 DEF ataVars, driveVars, driverVars, AtaInv, AtaTypeOK,
                              DriveInv, PhaseInv, InStepInv
<1>2. CASE AtaStep
    BY <1>2, CallInv, DriveStepInv, PollInv, IssueInv, MoveInv DEF AtaStep, DriverStep
<1> QED BY <1>1, <1>2

-----------------------------------------------------------------------------
(* Fail-stop.                                                              *)

\* With ERR set the drive does nothing, and the driver gets no further than
\* the poll it is in: not to a command, nor to the data.
LEMMA FailStopStep ==
    ASSUME AtaInv, [AtaStep]_ataVars, initialised, Failed
    PROVE  /\ Failed' /\ medium' = medium
           /\ (pc # "idle" /\ pc' = "idle") => result'.res # "ok"
<1> USE DEF AtaInv, driveVars
<1>0. ~Busy /\ ~Pending /\ pc \notin {"issue", "move"}
    BY DEF DriveInv, PhaseInv
<1>1. CASE UNCHANGED ataVars
    BY <1>1 DEF ataVars, Failed, driverVars
<1>2. CASE CallInit \/ \E c \in Requests : CallBlock(c)
    <2>1. pc = "idle" /\ UNCHANGED <<status, medium>>
        BY <1>2 DEF CallInit, CallBlock
    <2> QED BY <2>1 DEF Failed
<1>3. CASE DriveStep
    BY <1>0, <1>3 DEF DriveStep, DriveReady, DriveCommit, DriveFail
<1>4. CASE Issue \/ MoveIdentity \/ MoveIn \/ MoveOut
    BY <1>0, <1>4 DEF Issue, MoveIdentity, MoveIn, MoveOut
<1>5. CASE PollReady \/ Probe \/ PollSignature \/ PollDrq \/ PollFlushed
    <2>1. UNCHANGED <<status, medium>>
        BY <1>5 DEF PollReady, Probe, PollSignature, PollDrq, PollFlushed, WaitNotBusy
    <2>2. pc \notin {"probe", "sign"}
        BY DEF PhaseInv
    <2>3. Return("DriveError", NoVal)
        BY <1>0, <1>5, <2>2
        DEF PollReady, Probe, PollSignature, PollDrq, PollFlushed, WaitNotBusy
    <2>4. result'.res = "DriveError"
        BY <2>3 DEF Return, Answer
    <2> QED BY <2>1, <2>4 DEF Failed
<1> QED BY <1>1, <1>2, <1>3, <1>4, <1>5 DEF AtaStep, DriverStep

-----------------------------------------------------------------------------
(* The driver implements BlockDisk.                                        *)

\* The request under way and the write still owed, place by place.
LEMMA AskFacts ==
    ASSUME AtaInv
    PROVE  /\ call.op \in {"read", "write"} => BlockAsk = call /\ call # NoCall
           /\ call.op \in {"none", "identify"} => BlockAsk = NoCall
           /\ pc = "flush" \/ ~Busy => BlockOwed = {}
BY CallFacts DEF AtaInv, BlockAsk, BlockOwed, DriveInv, NoCall

\* A call that fails without having moved data leaves what was owed.
LEMMA FailedCall ==
    ASSUME AtaInv, AtaInv', medium' = medium, BlockOwed' = BlockOwed,
           NEW r, NEW v, r # "ok", Return(r, v)
    PROVE  Disk!DiskNext
<1>1. result'.res = r /\ call' = NoCall
    BY DEF Return, Answer
<1>2. BlockAsk' = NoCall
    BY <1>1 DEF BlockAsk, NoCall
<1>3. CASE call.op \in {"read", "write"}
    <2>1. BlockAsk # NoCall
        BY <1>3, AskFacts
    <2> QED BY <1>1, <1>2, <2>1 DEF Disk!DiskNext, Disk!Refuse
<1>4. CASE call.op \in {"none", "identify"}
    <2>1. BlockAsk = NoCall
        BY <1>4, AskFacts
    <2> QED BY <1>1, <1>2, <2>1 DEF Disk!DiskNext, Disk!Reject
<1> QED BY <1>3, <1>4, CallFacts DEF AtaInv

\* A step that changes nothing BlockDisk knows of.
LEMMA Unseen ==
    ASSUME UNCHANGED <<medium, call, result, astray>>, BlockOwed' = BlockOwed
    PROVE  UNCHANGED Disk!diskVars
BY DEF Disk!diskVars, BlockAsk

\* The calls.
LEMMA CallDisk ==
    ASSUME AtaInv, AtaInv', CallInit \/ \E c \in Requests : CallBlock(c)
    PROVE  [Disk!DiskNext]_(Disk!diskVars)
<1>1. /\ pc = "idle" /\ pc' # "flush" /\ UNCHANGED <<medium, job>>
      /\ call = NoCall
    BY DEF CallInit, CallBlock, Return, AtaInv, PhaseInv, driveVars
<1>2. BlockOwed' = BlockOwed
    BY <1>1 DEF BlockOwed
<1>3. CASE CallInit
    <2>1. CASE initialised
        <3>1. Return("ready", NoVal)
            BY <1>3, <2>1 DEF CallInit
        <3> QED BY <1>1, <1>2, <3>1, FailedCall
    <2>2. CASE ~initialised
        <3>1. call' = [NoCall EXCEPT !.op = "identify"] /\ UNCHANGED <<result, astray>>
            BY <1>3, <2>2 DEF CallInit
        <3>2. BlockAsk' = NoCall /\ BlockAsk = NoCall
            BY <1>1, <3>1 DEF BlockAsk, NoCall
        <3> QED BY <1>1, <1>2, <3>1, <3>2 DEF Disk!diskVars
    <2> QED BY <2>1, <2>2
<1>4. ASSUME NEW c \in Requests, CallBlock(c)
      PROVE  [Disk!DiskNext]_(Disk!diskVars)
    <2>1. CASE c.lba >= sectors
        <3>1. Return("OutOfRange", NoVal)
            BY <1>4, <2>1 DEF CallBlock
        <3> QED BY <1>1, <1>2, <3>1, FailedCall
    <2>2. CASE ~(c.lba >= sectors)
        <3>1. call' = c /\ UNCHANGED result
            BY <1>4, <2>2 DEF CallBlock
        <3>2. BlockAsk' = c /\ BlockAsk = NoCall /\ c \in Calls
            <4>1. c.op \in {"read", "write"}
                BY <1>4 DEF Requests
            <4> QED BY <1>1, <3>1, <4>1 DEF BlockAsk, NoCall, AtaInv, AtaTypeOK
        <3> QED BY <1>1, <1>2, <3>1, <3>2 DEF Disk!DiskNext, Disk!Request
    <2> QED BY <2>1, <2>2
<1> QED BY <1>3, <1>4

\* The drive puts a block on the disk: the one of the call that waits for it,
\* or one that is owed.
LEMMA DriveDisk ==
    ASSUME AtaInv, ~astray, DriveStep
    PROVE  [Disk!DiskNext]_(Disk!diskVars)
<1> USE DEF driverVars
<1>1. UNCHANGED <<pc, call, result, astray>> /\ BlockAsk' = BlockAsk /\ Busy
    BY DEF DriveStep, DriveReady, DriveCommit, DriveFail, BlockAsk
<1>2. CASE job.op # "flush"
    <2>1. medium' = medium /\ job'.op # "flush"
        BY <1>2 DEF DriveStep, DriveReady, DriveCommit, DriveFail, NoJob, NoCall,
                    AtaInv, DriveInv
    <2>2. BlockOwed' = BlockOwed
        BY <1>2, <2>1 DEF BlockOwed
    <2> QED BY <1>1, <2>1, <2>2, Unseen
<1>3. CASE job.op = "flush"
    <2> DEFINE w == [op |-> "write", lba |-> job.lba, val |-> job.val]
    <2>1. /\ medium' = medium \/ medium' = [medium EXCEPT ![w.lba] = w.val]
          /\ BlockOwed' = {}
        BY <1>3 DEF DriveStep, DriveReady, DriveCommit, DriveFail, NoJob, NoCall,
                    BlockOwed
    <2>2. CASE pc = "flush"
        <3>1. BlockOwed = {}
            BY <2>2 DEF BlockOwed
        <3>2. CASE medium' = medium
            BY <1>1, <2>1, <3>1, <3>2, Unseen
        <3>3. CASE medium' = [medium EXCEPT ![w.lba] = w.val]
            <4>1. call.op = "write" /\ initialised /\ call.lba \in Lbas
                BY <2>2 DEF AtaInv, PhaseInv
            <4>2. job.lba = call.lba /\ job.val = call.val
                BY <1>1, <2>2, <4>1 DEF AtaInv, InStepInv, DriveInv
            <4>3. BlockAsk = call /\ call # NoCall
                BY <4>1, AskFacts
            <4> QED BY <1>1, <2>1, <3>1, <3>3, <4>1, <4>2, <4>3
                    DEF Disk!DiskNext, Disk!Perform, Disk!Put
        <3> QED BY <2>1, <3>2, <3>3
    <2>3. CASE pc # "flush"
        <3>1. BlockOwed = {w}
            BY <1>3, <2>3 DEF BlockOwed
        <3> QED BY <1>1, <2>1, <3>1 DEF Disk!DiskNext, Disk!Settle, Disk!Put
    <2> QED BY <2>2, <2>3
<1> QED BY <1>2, <1>3

\* The steps of the driver before the data have moved.
LEMMA PollDisk ==
    ASSUME AtaInv, AtaInv', ~astray, astray \in BOOLEAN,
           PollReady \/ Probe \/ PollSignature \/ PollDrq \/ Issue
    PROVE  [Disk!DiskNext]_(Disk!diskVars)
<1>1. pc # "flush" /\ pc' # "flush" /\ medium' = medium
    BY DEF PollReady, Probe, PollSignature, PollDrq, Issue, WaitNotBusy, PollAgain,
           Goto, Return, driveVars
<1>2. BlockOwed' = BlockOwed
    <2>1. CASE Issue
        <3>1. job.op # "flush" /\ call.op # "flush"
            BY <2>1, CallFacts DEF AtaInv, DriveInv, PhaseInv, Issue
        <3>2. job' \in {job, call}
            BY <2>1 DEF Issue, Command
        <3> QED BY <3>1, <3>2 DEF BlockOwed
    <2>2. CASE ~Issue
        BY <1>1, <2>2 DEF PollReady, Probe, PollSignature, PollDrq, WaitNotBusy,
                          driveVars, BlockOwed
    <2> QED BY <2>1, <2>2
<1>3. \/ UNCHANGED <<call, result, astray>>
      \/ \E r \in {"Timeout", "DriveError"} : Return(r, NoVal)
    BY DEF PollReady, Probe, PollSignature, PollDrq, Issue, WaitNotBusy, PollAgain,
           Goto
<1> QED BY <1>1, <1>2, <1>3, Unseen, FailedCall

\* The data, and the wait for the sector to be written.
LEMMA MoveDisk ==
    ASSUME AtaInv, AtaInv', ~astray, astray \in BOOLEAN,
           MoveIdentity \/ MoveIn \/ MoveOut \/ PollFlushed
    PROVE  [Disk!DiskNext]_(Disk!diskVars)
<1> USE DEF AtaInv
<1>0. medium' = medium
    BY DEF MoveIdentity, MoveIn, MoveOut, PollFlushed, WaitNotBusy, driveVars
<1>1. CASE MoveIdentity
    <2>1. BlockOwed' = {} /\ BlockOwed = {}
        BY <1>1 DEF MoveIdentity, BlockOwed, NoJob, NoCall, PhaseInv, DriveInv
    <2>2. Return("ready", NoVal)
        BY <1>1 DEF MoveIdentity
    <2> QED BY <1>0, <2>1, <2>2, FailedCall
<1>2. CASE MoveIn
    <2>1. /\ pc = "move" /\ call.op = "read" /\ initialised /\ call.lba \in Lbas
          /\ Pending /\ ~Failed /\ ~Busy
        BY <1>2 DEF MoveIn, PhaseInv, DriveInv
    <2>2. job.op = "read" /\ job.val = medium[call.lba]
        BY <2>1 DEF InStepInv, Serving
    <2>3. Return("ok", job.val) /\ job' = NoJob
        BY <1>2, <2>2 DEF MoveIn
    <2>4. BlockOwed' = {} /\ BlockOwed = {}
        BY <2>2, <2>3 DEF BlockOwed, NoJob, NoCall
    <2>5. BlockAsk = call /\ call # NoCall /\ BlockAsk' = NoCall
        BY <2>1, <2>3, AskFacts DEF Return, BlockAsk, NoCall
    <2>6. result'.res = "ok" /\ result'.val = medium[call.lba]
        BY <2>2, <2>3 DEF Return, Answer
    <2> QED BY <1>0, <2>1, <2>4, <2>5, <2>6 DEF Disk!DiskNext, Disk!Succeed
<1>3. CASE MoveOut
    <2>1. /\ pc' = "flush" /\ job.op # "flush"
          /\ UNCHANGED <<call, result, astray>>
        BY <1>3 DEF MoveOut, Goto, PhaseInv, DriveInv
    <2>2. BlockOwed' = {} /\ BlockOwed = {}
        BY <2>1 DEF BlockOwed
    <2> QED BY <1>0, <2>1, <2>2, Unseen
<1>4. CASE PollFlushed
    <2>0. /\ pc = "flush" /\ call.op = "write" /\ initialised /\ call.lba \in Lbas
          /\ UNCHANGED <<status, job>> /\ BlockOwed = {}
        BY <1>4 DEF PollFlushed, WaitNotBusy, PhaseInv, driveVars, BlockOwed
    <2>1. BlockAsk = call /\ call # NoCall
        BY <2>0, AskFacts
    <2>2. CASE Busy /\ polls + 1 = PollLimit
        <3>1. Return("Timeout", NoVal)
            BY <1>4, <2>2 DEF PollFlushed, WaitNotBusy, PollAgain
        <3>2. /\ result'.res = "Timeout" /\ BlockAsk' = NoCall /\ pc' = "idle"
            BY <3>1 DEF Return, Answer, BlockAsk, NoCall
        <3>3. job.op = "flush" /\ job.lba = call.lba /\ job.val = call.val
            BY <2>0, <2>2 DEF InStepInv, DriveInv
        <3>4. call = [op |-> "write", lba |-> job.lba, val |-> job.val]
            BY <2>0, <3>3, CallFacts
        <3>5. BlockOwed' = {call}
            BY <2>0, <3>2, <3>3, <3>4 DEF BlockOwed
        <3> QED BY <1>0, <2>0, <2>1, <3>2, <3>5 DEF Disk!DiskNext, Disk!Refuse
    <2>3. CASE Busy /\ polls + 1 # PollLimit
        <3>1. UNCHANGED <<pc, call, result, astray>>
            BY <1>4, <2>3 DEF PollFlushed, WaitNotBusy, PollAgain
        <3>2. BlockOwed' = BlockOwed
            BY <2>0, <3>1 DEF BlockOwed
        <3> QED BY <1>0, <3>1, <3>2, Unseen
    <2>4. CASE ~Busy
        <3>1. BlockOwed' = {}
            BY <2>0, <2>4 DEF BlockOwed, DriveInv
        <3>2. CASE Failed
            <4>1. Return("DriveError", NoVal)
                BY <1>4, <2>4, <3>2 DEF PollFlushed, WaitNotBusy
            <4> QED BY <1>0, <2>0, <3>1, <4>1, FailedCall
        <3>3. CASE ~Failed
            <4>1. Return("ok", NoVal)
                BY <1>4, <2>4, <3>3 DEF PollFlushed, WaitNotBusy
            <4>2. result'.res = "ok" /\ BlockAsk' = NoCall
                BY <4>1 DEF Return, Answer, BlockAsk, NoCall
            <4>3. medium[call.lba] = call.val
                BY <2>0, <2>4, <3>3 DEF InStepInv
            <4> QED BY <1>0, <2>0, <2>1, <3>1, <4>2, <4>3
                    DEF Disk!DiskNext, Disk!Succeed
        <3> QED BY <3>2, <3>3
    <2> QED BY <2>2, <2>3, <2>4
<1> QED BY <1>1, <1>2, <1>3, <1>4

\* A step of the driver or of the drive is a step of BlockDisk or leaves its
\* variables alone.
LEMMA DiskStep ==
    ASSUME AtaInv, AtaInv', [AtaStep]_ataVars
    PROVE  [Disk!DiskNext]_(Disk!diskVars)
<1>1. CASE astray
    BY <1>1 DEF Disk!DiskNext
<1>2. CASE UNCHANGED ataVars
    BY <1>2, Unseen DEF ataVars, driveVars, driverVars, BlockOwed
<1>3. CASE ~astray /\ AtaStep
    <2>1. astray \in BOOLEAN
        BY DEF AtaInv, AtaTypeOK
    <2> QED BY <1>3, <2>1, CallDisk, DriveDisk, PollDisk, MoveDisk
            DEF AtaStep, DriverStep
<1> QED BY <1>1, <1>2, <1>3

-----------------------------------------------------------------------------
(* The whole system.                                                       *)

Contents == Values \cup {NoVal}

\* The block that the transfer asks the driver for next.
Wanted == [op |-> xfer.op, lba |-> xfer.lba + moved,
           val |-> IF xfer.op = "write" THEN xfer.data[moved + 1] ELSE NoVal]

\* A sector the drive is still writing was owed before the transfer began, or
\* is the one the transfer is at.
JobLeft ==
    job.op = "flush" =>
        \/ job.lba \in before.owed
        \/ xfer.op = "write" /\ job.lba = Wanted.lba /\ job.val = Wanted.val
              /\ moved < Len(xfer.data)

\* Ok means done, and that the drive has nothing left to write.
DoneInv ==
    (asked /\ pc = "idle" /\ result.res = "ok") =>
        /\ job.op # "flush" /\ Wanted.lba \in Lbas
        /\ IF xfer.op = "write" THEN medium[Wanted.lba] = Wanted.val
                                ELSE result.val = medium[Wanted.lba]

XferInv ==
    /\ boot = "up" /\ moved <= Len(xfer.data)
    /\ buf \in Seq(Contents) /\ Len(buf) = IF xfer.op = "read" THEN moved ELSE 0
    /\ before.medium = [l \in Lbas |-> before.medium[l]]
    /\ asked => moved < Len(xfer.data)
    /\ ~asked => pc = "idle"
    /\ pc # "idle" => call = Wanted
    /\ ~astray => JobLeft /\ DoneInv

NodeInv ==
    /\ result.val \in Contents
    /\ xfer = NoXfer => asked = FALSE /\ moved = 0 /\ buf = <<>>
    /\ xfer # NoXfer => XferInv

IndInv == TypeOK /\ AtaInv /\ NodeInv /\ TransferIsPrefix

-----------------------------------------------------------------------------
(* The driver as its callers see it.                                       *)

\* What one step of the driver or the drive can do to a caller's world.
LEMMA StepEffect ==
    ASSUME AtaInv, result.val \in Contents, DriverStep \/ DriveStep
    PROVE  /\ result'.val \in Contents
           /\ astray => astray'
           /\ \/ UNCHANGED <<pc, call, result>>
              \/ pc # "idle" /\ pc' # "idle" /\ UNCHANGED <<call, result>>
              \/ pc # "idle" /\ pc' = "idle"
           /\ \/ medium' = medium
              \/ job.op = "flush" /\ medium' = [medium EXCEPT ![job.lba] = job.val]
<1> USE DEF AtaInv
<1>1. CASE DriveStep
    <2>1. UNCHANGED <<pc, call, result, astray>>
        BY <1>1 DEF DriveStep, DriveReady, DriveCommit, DriveFail, driverVars
    <2>2. \/ medium' = medium
          \/ job.op = "flush" /\ medium' = [medium EXCEPT ![job.lba] = job.val]
        BY <1>1 DEF DriveStep, DriveReady, DriveCommit, DriveFail
    <2> QED BY <2>1, <2>2
<1>2. CASE DriverStep
    <2>1. pc # "idle" /\ medium' = medium
        BY <1>2 DEF DriverStep, PollReady, Issue, Probe, PollSignature, PollDrq,
                    MoveIdentity, MoveIn, MoveOut, PollFlushed, WaitNotBusy, driveVars
    <2>2. \/ UNCHANGED <<call, result, astray>>
             /\ (pc' = pc \/ pc' \in {"issue", "probe", "drq", "sign", "move", "flush"})
          \/ \E r \in {"ready", "ok", "Timeout", "DriveError"}, v \in Contents :
                Return(r, v)
        <3>1. job.val \in Contents
            BY DEF DriveInv, Contents
        <3> QED BY <1>2, <3>1
                DEF DriverStep, PollReady, Issue, Probe, PollSignature, PollDrq,
                    MoveIdentity, MoveIn, MoveOut, PollFlushed, WaitNotBusy,
                    PollAgain, Goto, Contents
    <2>3. ASSUME NEW r, NEW v \in Contents, Return(r, v)
          PROVE  pc' = "idle" /\ result'.val \in Contents /\ (astray => astray')
        BY <2>3 DEF Return, Answer
    <2> QED BY <2>1, <2>2, <2>3
<1> QED BY <1>1, <1>2

\* A sector to be written comes from the call of write_block that is at it.
LEMMA FlushEffect ==
    ASSUME AtaInv, ~astray, DriverStep \/ DriveStep, job'.op = "flush"
    PROVE  \/ job' = job
           \/ /\ pc # "idle" /\ call.op = "write"
              /\ job'.lba = call.lba /\ job'.val = call.val
<1> USE DEF AtaInv, driveVars
<1>1. CASE MoveOut
    <2>1. pc = "move" /\ call.op = "write" /\ initialised /\ ~Failed
        BY <1>1 DEF MoveOut, PhaseInv, DriveInv
    <2>2. job.op = "write" /\ job.lba = call.lba
        BY <2>1 DEF InStepInv, Serving, PhaseInv
    <2>3. job' = [job EXCEPT !.op = "flush", !.val = call.val]
        BY <1>1, <2>2 DEF MoveOut
    <2> QED BY <2>1, <2>2, <2>3 DEF DriveInv
<1>2. CASE Issue
    BY <1>2, CallFacts DEF Issue, Command
<1>3. CASE MoveIdentity \/ MoveIn
    BY <1>3 DEF MoveIdentity, MoveIn, NoJob, NoCall
<1>4. CASE PollReady \/ Probe \/ PollSignature \/ PollDrq \/ PollFlushed
    BY <1>4 DEF PollReady, Probe, PollSignature, PollDrq, PollFlushed, WaitNotBusy
<1>5. CASE DriveStep
    BY <1>5 DEF DriveStep, DriveReady, DriveCommit, DriveFail, NoJob, NoCall, DriveInv
<1> QED BY <1>1, <1>2, <1>3, <1>4, <1>5 DEF DriverStep

\* Ok from the driver: the block has been read or is on the disk.
LEMMA OkEffect ==
    ASSUME AtaInv, ~astray, DriverStep, pc' = "idle", result'.res = "ok"
    PROVE  /\ job'.op # "flush" /\ call.lba \in Lbas
           /\ IF call.op = "write" THEN medium'[call.lba] = call.val
                                   ELSE result'.val = medium'[call.lba]
<1> USE DEF AtaInv, driveVars
<1>1. CASE MoveIn
    <2>1. /\ pc = "move" /\ call.op = "read" /\ initialised /\ ~Failed /\ Pending
          /\ call.lba \in Lbas
        BY <1>1 DEF MoveIn, PhaseInv, DriveInv
    <2>2. job.op = "read" /\ job.val = medium[call.lba]
        BY <2>1 DEF InStepInv, Serving, PhaseInv
    <2>3. Return("ok", job.val) /\ job' = NoJob /\ medium' = medium
        BY <1>1, <2>2 DEF MoveIn
    <2> QED BY <2>1, <2>2, <2>3 DEF Return, Answer, NoJob, NoCall
<1>2. CASE PollFlushed
    <2>1. /\ pc = "flush" /\ call.op = "write" /\ initialised /\ call.lba \in Lbas
          /\ UNCHANGED <<medium, job>>
        BY <1>2 DEF PollFlushed, WaitNotBusy, PhaseInv
    <2>2. ~Busy /\ ~Failed
        BY <1>2, <2>1 DEF PollFlushed, WaitNotBusy, PollAgain, Return, Answer
    <2> QED BY <2>1, <2>2 DEF InStepInv
<1>3. CASE MoveIdentity
    BY <1>3 DEF MoveIdentity, Return, Answer
<1>4. CASE PollReady \/ Probe \/ PollSignature \/ PollDrq \/ Issue \/ MoveOut
    <2>1. pc # "idle"
        BY <1>4 DEF PollReady, Probe, PollSignature, PollDrq, Issue, MoveOut
    <2>2. pc' # "idle" \/ \E r \in {"Timeout", "DriveError"} : Return(r, NoVal)
        BY <1>4, <2>1 DEF PollReady, Probe, PollSignature, PollDrq, Issue, MoveOut,
                          WaitNotBusy, PollAgain, Goto
    <2> QED BY <2>2 DEF Return, Answer
<1> QED BY <1>1, <1>2, <1>3, <1>4 DEF DriverStep

-----------------------------------------------------------------------------
(* The callers.                                                            *)

\* The parts of a transfer.
LEMMA XferFacts ==
    ASSUME NEW x \in Xfers
    PROVE  /\ x.op \in {"read", "write"} /\ x.lba \in 0..Sectors /\ x # NoXfer
           /\ x.data \in Seq(Contents) /\ Len(x.data) \in 0..MaxBlocks
           /\ DOMAIN x.data = 1..Len(x.data)
           /\ x.op = "write" => \A i \in DOMAIN x.data : x.data[i] \in Values
<1> USE AtaAssumption, DevDiskAssumption
<1>1. /\ x.op \in {"read", "write"} /\ x.lba \in 0..Sectors
      /\ x.op = "read" => x.data \in Sized({NoVal}, MaxBlocks)
      /\ x.op = "write" => x.data \in Sized(Values, MaxBlocks)
    BY DEF Xfers
<1>2. ASSUME NEW S, NEW d \in Sized(S, MaxBlocks), S \subseteq Contents
      PROVE  /\ d \in Seq(Contents) /\ Len(d) \in 0..MaxBlocks
             /\ DOMAIN d = 1..Len(d) /\ \A i \in DOMAIN d : d[i] \in S
    <2>1. PICK k \in 0..MaxBlocks : d \in [1..k -> S]
        BY <1>2 DEF Sized
    <2>2. k \in Nat /\ d \in Seq(Contents) /\ Len(d) = k
        BY <1>2, <2>1
    <2> QED BY <2>1, <2>2
<1>3. {NoVal} \subseteq Contents /\ Values \subseteq Contents
    BY DEF Contents
<1>4. x # NoXfer
    BY <1>1 DEF NoXfer
<1> QED BY <1>1, <1>2, <1>3, <1>4

\* The block asked for is a request that the driver takes.
LEMMA WantedFacts ==
    ASSUME TypeOK, xfer # NoXfer, moved < Len(xfer.data)
    PROVE  /\ Wanted \in Requests /\ Wanted.op = xfer.op
           /\ Wanted.lba = xfer.lba + moved /\ Wanted.lba \in Nat
           /\ Wanted.val = IF xfer.op = "write" THEN xfer.data[moved + 1] ELSE NoVal
           /\ moved \in Nat /\ xfer \in Xfers /\ moved + 1 \in DOMAIN xfer.data
<1>1. xfer \in Xfers /\ moved \in Nat
    BY DevDiskAssumption DEF TypeOK
<1>2. moved + 1 \in DOMAIN xfer.data /\ xfer.lba + moved \in Nat
    BY <1>1, XferFacts, AtaAssumption
<1>3. xfer.op = "write" => xfer.data[moved + 1] \in Values
    BY <1>1, <1>2, XferFacts
<1> QED BY <1>1, <1>2, <1>3, XferFacts DEF Wanted, Requests

\* Whoever calls, it is a step of the first part.
LEMMA IsAtaStep ==
    ASSUME TypeOK, NodeInv, [Next]_vars
    PROVE  [AtaStep]_ataVars
<1>1. CASE BootProbe
    BY <1>1 DEF BootProbe, AtaStep
<1>2. CASE BootProbed
    <2>1. [NoCall EXCEPT !.op = "read"] \in Requests
        BY DEF NoCall, Requests
    <2> QED BY <1>2, <2>1 DEF BootProbed, AtaStep
<1>3. CASE BootMounted \/ NodeTake \/ NodeDone
    BY <1>3 DEF BootMounted, NodeTake, NodeDone
<1>4. CASE NodeAsk
    <2>1. xfer # NoXfer /\ moved < Len(xfer.data) /\ CallBlock(Wanted)
        BY <1>4 DEF NodeAsk, More, Wanted
    <2> QED BY <2>1, WantedFacts DEF AtaStep
<1>5. CASE Driver \/ Drive
    BY <1>5 DEF Driver, Drive, AtaStep
<1>6. ASSUME NEW c \in Calls, FatCall(c)
      PROVE  AtaStep
    <2>1. c \in Requests
        BY AtaAssumption DEF Calls, Requests
    <2> QED BY <1>6, <2>1 DEF FatCall, AtaStep
<1>7. ASSUME NEW x \in Xfers, NEW aligned \in BOOLEAN, NodeCall(x, aligned)
      PROVE  UNCHANGED ataVars
    BY <1>7 DEF NodeCall
<1>8. CASE UNCHANGED vars
    BY <1>8 DEF vars
<1> QED BY <1>1, <1>2, <1>3, <1>4, <1>5, <1>6, <1>7, <1>8 DEF Next, CpuStep

\* TransferIsPrefix for one block of the disk.
Rightly(l) ==
    LET i == l - xfer.lba + 1
        old == before.medium[l]
        new == IF i \in DOMAIN xfer.data /\ xfer.op = "write" THEN xfer.data[i] ELSE old
    IN  /\ medium[l] \in (IF i <= moved THEN {new} ELSE
                          IF i = moved + 1 THEN {old, new} ELSE {old})
        /\ i \in DOMAIN buf => buf[i] = medium[l]

\* A step of the driver or of the drive, in the middle of a transfer: a sector
\* that reaches the disk is the one the transfer is at.
LEMMA TransferStep ==
    ASSUME IndInv, DriverStep \/ DriveStep, UNCHANGED <<boot, root, nodeVars>>,
           xfer # NoXfer, result'.val \in Contents
    PROVE  XferInv' /\ TransferIsPrefix'
<1> USE DEF IndInv, nodeVars
<1>0. XferInv /\ xfer \in Xfers /\ moved \in Nat /\ UNCHANGED Wanted
    BY DevDiskAssumption DEF NodeInv, TypeOK, Wanted
<1>e. /\ astray => astray'
      /\ \/ UNCHANGED <<pc, call, result>>
         \/ pc # "idle" /\ pc' # "idle" /\ UNCHANGED <<call, result>>
         \/ pc # "idle" /\ pc' = "idle"
      /\ \/ medium' = medium
         \/ job.op = "flush" /\ medium' = [medium EXCEPT ![job.lba] = job.val]
    BY StepEffect DEF NodeInv
<1>1. /\ asked => moved < Len(xfer.data)
      /\ ~asked => pc' = "idle"
      /\ pc' # "idle" => call' = Wanted
    <2>1. ~asked => ~DriverStep
        <3> SUFFICES ASSUME pc = "idle", DriverStep PROVE FALSE
            BY <1>0 DEF XferInv
        <3> QED BY DEF DriverStep, PollReady, Issue, Probe, PollSignature, PollDrq,
                       MoveIdentity, MoveIn, MoveOut, PollFlushed
    <2> QED BY <1>0, <1>e, <2>1 DEF XferInv
<1>2. ASSUME ~astray' PROVE JobLeft'
    <2> SUFFICES ASSUME job'.op = "flush"
                 PROVE  \/ job'.lba \in before.owed
                        \/ /\ xfer.op = "write" /\ job'.lba = Wanted.lba
                           /\ job'.val = Wanted.val /\ moved < Len(xfer.data)
        BY <1>0 DEF JobLeft
    <2>1. CASE job' = job
        BY <1>0, <1>e, <1>2, <2>1 DEF XferInv, JobLeft
    <2>2. CASE /\ pc # "idle" /\ call.op = "write"
               /\ job'.lba = call.lba /\ job'.val = call.val
        <3>1. call = Wanted /\ moved < Len(xfer.data)
            BY <1>0, <2>2 DEF XferInv
        <3> QED BY <2>2, <3>1, WantedFacts
    <2> QED BY <1>e, <1>2, <2>1, <2>2, FlushEffect
<1>3. ASSUME ~astray' PROVE DoneInv'
    <2> SUFFICES ASSUME asked, pc' = "idle", result'.res = "ok"
                 PROVE  /\ job'.op # "flush" /\ Wanted.lba \in Lbas
                        /\ IF xfer.op = "write" THEN medium'[Wanted.lba] = Wanted.val
                                                ELSE result'.val = medium'[Wanted.lba]
        BY <1>0 DEF DoneInv
    <2>0. ~astray
        BY <1>e, <1>3
    <2>1. CASE DriverStep
        <3>1. pc # "idle"
            BY <2>1 DEF DriverStep, PollReady, Issue, Probe, PollSignature, PollDrq,
                        MoveIdentity, MoveIn, MoveOut, PollFlushed
        <3>2. call = Wanted /\ call.op = xfer.op
            BY <1>0, <3>1, WantedFacts DEF XferInv
        <3> QED BY <2>0, <2>1, <3>2, OkEffect
    <2>2. CASE DriveStep
        <3>1. UNCHANGED <<pc, result>>
            BY <2>2 DEF DriveStep, DriveReady, DriveCommit, DriveFail, driverVars
        <3>2. job.op # "flush" /\ medium' = medium
            BY <1>0, <1>e, <2>0, <3>1 DEF XferInv, DoneInv
        <3>3. job'.op # "flush"
            BY <2>0, <2>2, <3>1, <3>2, FlushEffect
        <3> QED BY <1>0, <2>0, <3>1, <3>2, <3>3 DEF XferInv, DoneInv
    <2> QED BY <2>1, <2>2
<1>4. XferInv'
    BY <1>0, <1>1, <1>2, <1>3 DEF XferInv
<1>5. TransferIsPrefix'
    <2> SUFFICES ASSUME ~astray', NEW l \in Lbas \ before.owed
                 PROVE  Rightly(l)'
        BY DEF TransferIsPrefix, Rightly
    <2>1. ~astray /\ Rightly(l)
        BY <1>e DEF TransferIsPrefix, Rightly
    <2>2. CASE medium'[l] = medium[l]
        BY <2>1, <2>2 DEF Rightly
    <2>3. CASE /\ job.op = "flush" /\ medium' = [medium EXCEPT ![job.lba] = job.val]
               /\ job.lba = l
        <3>1. /\ xfer.op = "write" /\ l = Wanted.lba /\ job.val = Wanted.val
              /\ moved < Len(xfer.data)
            BY <1>0, <2>1, <2>3 DEF XferInv, JobLeft
        <3>2. /\ l = xfer.lba + moved /\ job.val = xfer.data[moved + 1]
              /\ moved + 1 \in DOMAIN xfer.data
            BY <3>1, WantedFacts
        <3>3. l - xfer.lba + 1 = moved + 1 /\ ~(moved + 1 <= moved)
            BY <1>0, <3>2, XferFacts, AtaAssumption
        <3>4. medium'[l] = xfer.data[moved + 1]
            BY <2>3, <3>2 DEF AtaInv, AtaTypeOK
        <3>5. buf' = <<>>
            BY <1>0, <3>1 DEF XferInv
        <3> QED BY <3>1, <3>2, <3>3, <3>4, <3>5 DEF Rightly
    <2> QED BY <1>e, <2>2, <2>3 DEF AtaInv, AtaTypeOK
<1> QED BY <1>4, <1>5

\* read_block and write_block up to their first poll, for any caller.
LEMMA CallEffect ==
    ASSUME AtaInv, result.val \in Contents, CallInit \/ \E c \in Requests : CallBlock(c)
    PROVE  /\ result'.val \in Contents /\ UNCHANGED <<medium, job, astray>>
           /\ pc = "idle"
<1>1. pc = "idle" /\ UNCHANGED <<medium, job>>
    BY DEF CallInit, CallBlock, driveVars
<1>2. \/ UNCHANGED <<result, astray>>
      \/ \E r \in {"ready", "OutOfRange"} : Return(r, NoVal)
    BY DEF CallInit, CallBlock
<1>3. astray \in BOOLEAN
    BY DEF AtaInv, AtaTypeOK
<1>4. ASSUME NEW r, Return(r, NoVal)
      PROVE  result'.val \in Contents /\ astray' = astray
    BY <1>1, <1>3, <1>4, ReturnStays DEF Answer, Contents
<1> QED BY <1>1, <1>2, <1>4

\* The transfer asks for its next block.
LEMMA NodeAskStep ==
    ASSUME IndInv, AtaInv', NodeAsk
    PROVE  IndInv'
<1> USE DEF IndInv
<1>1. /\ xfer # NoXfer /\ moved < Len(xfer.data) /\ asked = FALSE /\ asked' = TRUE
      /\ CallBlock(Wanted) /\ UNCHANGED <<boot, root, xfer, moved, buf, outcome, before>>
    BY DEF NodeAsk, More, Wanted, TypeOK
<1>2. Wanted \in Requests /\ XferInv /\ UNCHANGED Wanted
    BY <1>1, WantedFacts DEF NodeInv, Wanted
<1>3. result'.val \in Contents /\ UNCHANGED <<medium, job, astray>> /\ pc = "idle"
    BY <1>1, <1>2, CallEffect DEF NodeInv
<1>4. \/ pc' = "idle" /\ result'.res = "OutOfRange"
      \/ pc' # "idle" /\ call' = Wanted
    BY <1>1 DEF CallBlock, Return, Answer
<1>5. XferInv'
    BY <1>1, <1>2, <1>3, <1>4 DEF XferInv, JobLeft, DoneInv
<1>6. TypeOK'
    BY <1>1 DEF TypeOK, AtaInv
<1>7. TransferIsPrefix'
    BY <1>1, <1>3 DEF TransferIsPrefix
<1> QED BY <1>1, <1>3, <1>5, <1>6, <1>7 DEF NodeInv

\* The end of a transfer.
LEMMA NodeEndStep ==
    ASSUME IndInv, AtaInv', UNCHANGED <<ataVars, boot, root>>,
           NEW r \in {"ok", "Io"}, NodeEnd(r)
    PROVE  IndInv'
<1> USE DEF IndInv, ataVars, driverVars, driveVars
<1>1. TypeOK'
    <2>1. asked' \in BOOLEAN
        BY Zenon DEF NodeEnd
    <2>2. moved' \in 0..MaxBlocks /\ Len(buf') <= moved'
        BY DevDiskAssumption DEF NodeEnd
    <2> QED BY <2>1, <2>2 DEF TypeOK, NodeEnd, AtaInv
<1>2. NodeInv' /\ TransferIsPrefix'
    BY DEF NodeInv, NodeEnd, TransferIsPrefix
<1> QED BY <1>1, <1>2

\* The transfer takes the driver's answer.
LEMMA NodeTakeStep ==
    ASSUME IndInv, AtaInv', NodeTake
    PROVE  IndInv'
<1> USE DEF IndInv, ataVars, driverVars, driveVars
<1>1. /\ xfer # NoXfer /\ moved < Len(xfer.data) /\ asked /\ pc = "idle"
      /\ UNCHANGED <<ataVars, boot, root>>
    BY DEF NodeTake, More
<1>2. CASE result.res # "ok"
    <2>1. NodeEnd("Io")
        BY <1>2 DEF NodeTake
    <2> QED BY <1>1, <2>1, NodeEndStep
<1>3. CASE result.res = "ok"
    <2>1. /\ moved' = moved + 1 /\ asked' = FALSE
          /\ buf' = IF xfer.op = "read" THEN Append(buf, result.val) ELSE buf
          /\ UNCHANGED <<xfer, outcome, before>>
        BY <1>3 DEF NodeTake
    <2>2. /\ XferInv /\ xfer \in Xfers /\ moved \in Nat /\ moved + 1 \in DOMAIN xfer.data
          /\ Wanted.lba = xfer.lba + moved
          /\ Wanted.val = IF xfer.op = "write" THEN xfer.data[moved + 1] ELSE NoVal
        BY <1>1, WantedFacts DEF NodeInv
    <2>3. /\ Len(xfer.data) \in 0..MaxBlocks /\ xfer.lba \in Nat
          /\ xfer.op \in {"read", "write"}
        BY <2>2, XferFacts, AtaAssumption
    <2>4. /\ buf' \in Seq(Contents)
          /\ Len(buf') = IF xfer.op = "read" THEN moved' ELSE 0
          /\ \A i \in DOMAIN buf' : \/ i \in DOMAIN buf /\ buf'[i] = buf[i]
                                    \/ i = moved + 1 /\ buf'[i] = result.val
                                          /\ xfer.op = "read"
        BY <2>1, <2>2 DEF XferInv, NodeInv
    <2>5. TypeOK'
        <3>1. moved' \in 0..MaxBlocks /\ Len(buf') <= moved'
            BY <1>1, <2>1, <2>2, <2>3, <2>4, DevDiskAssumption
        <3>2. asked' \in BOOLEAN
            BY <2>1, Zenon
        <3> QED BY <1>1, <2>1, <3>1, <3>2 DEF TypeOK, AtaInv
    <2>6. ~astray => /\ job.op # "flush" /\ Wanted.lba \in Lbas
                     /\ IF xfer.op = "write" THEN medium[Wanted.lba] = Wanted.val
                                             ELSE result.val = medium[Wanted.lba]
        BY <1>1, <1>3, <2>2 DEF XferInv, DoneInv
    <2>7. XferInv'
        <3>1. ~astray => JobLeft' /\ DoneInv'
            BY <1>1, <2>1, <2>6 DEF JobLeft, DoneInv
        <3>2. moved' <= Len(xfer.data)
            BY <1>1, <2>1, <2>2, <2>3
        <3> QED BY <1>1, <2>1, <2>2, <2>4, <3>1, <3>2 DEF XferInv
    <2>8. TransferIsPrefix'
        <3> SUFFICES ASSUME ~astray, NEW l \in Lbas \ before.owed
                     PROVE  Rightly(l)'
            BY <1>1, <2>1 DEF TransferIsPrefix, Rightly
        <3> DEFINE i == l - xfer.lba + 1
        <3>0. Rightly(l) /\ l \in Nat /\ i \in Int
            <4>1. Rightly(l)
                BY <1>1 DEF TransferIsPrefix, Rightly
            <4>2. l \in Nat /\ i \in Int
                BY <2>3, AtaAssumption DEF Lbas
            <4> QED BY <4>1, <4>2
        <3>1. CASE i = moved + 1
            <4>1. l = Wanted.lba
                BY <2>2, <2>3, <3>0, <3>1
            <4>2. /\ xfer.op = "write" => medium[l] = xfer.data[i]
                  /\ xfer.op = "read" => medium[l] = before.medium[l]
                                            /\ result.val = medium[l]
                BY <2>2, <2>6, <3>0, <3>1, <4>1 DEF Rightly
            <4>3. ~(i \in DOMAIN buf) /\ i <= moved'
                BY <2>1, <2>2, <3>1 DEF XferInv
            <4> QED BY <1>1, <2>1, <2>2, <2>3, <2>4, <3>1, <4>2, <4>3 DEF Rightly
        <3>2. CASE i # moved + 1
            <4>1. /\ i <= moved' <=> i <= moved
                  /\ (i = moved' + 1 => ~(i <= moved) /\ ~(i <= moved'))
                BY <2>1, <2>2, <3>0, <3>2
            <4>2. i \in DOMAIN buf' => i \in DOMAIN buf /\ buf'[i] = buf[i]
                BY <2>4, <3>2
            <4> QED BY <1>1, <2>1, <3>0, <3>2, <4>1, <4>2 DEF Rightly
        <3> QED BY <3>1, <3>2
    <2> QED BY <1>1, <2>1, <2>5, <2>7, <2>8 DEF NodeInv
<1> QED BY <1>2, <1>3

\* A new transfer: nothing of it has been done, and what the drive is still
\* writing is what is owed.
LEMMA NodeCallStep ==
    ASSUME IndInv, AtaInv', NEW x \in Xfers, NEW aligned \in BOOLEAN,
           NodeCall(x, aligned)
    PROVE  IndInv'
<1> USE DEF IndInv, ataVars, driverVars, driveVars
<1>1. /\ boot = "up" /\ pc = "idle" /\ xfer = NoXfer
      /\ asked = FALSE /\ moved = 0 /\ buf = <<>>
      /\ UNCHANGED <<ataVars, boot, root, asked, moved, buf>>
    BY DEF NodeCall, NodeInv
<1>2. CASE x.data = <<>> \/ ~aligned
    <2>1. UNCHANGED <<xfer, before>> /\ outcome' \in {"ok", "Io"}
        BY <1>2 DEF NodeCall
    <2> QED BY <1>1, <2>1 DEF TypeOK, AtaInv, NodeInv, TransferIsPrefix
<1>3. CASE ~(x.data = <<>> \/ ~aligned)
    <2>1. /\ xfer' = x /\ before' = [medium |-> medium, owed |-> Owed]
          /\ UNCHANGED outcome
        BY <1>3 DEF NodeCall
    <2>2. TypeOK'
        BY <1>1, <2>1 DEF TypeOK, AtaInv
    <2>3. /\ xfer' # NoXfer /\ Len(x.data) \in Nat /\ before'.medium = medium
          /\ before'.owed = Owed /\ x.lba \in Nat
        BY <2>1, XferFacts, DevDiskAssumption, AtaAssumption
    <2>4. job.op = "flush" => job.lba \in Owed
        BY <1>1 DEF Owed, BlockOwed
    <2>5. medium = [l \in Lbas |-> medium[l]]
        BY DEF AtaInv, AtaTypeOK
    <2>6. XferInv'
        <3>1. buf' \in Seq(Contents) /\ Len(buf') = 0 /\ moved' = 0
            BY <1>1
        <3>2. JobLeft' /\ DoneInv'
            BY <1>1, <2>3, <2>4 DEF JobLeft, DoneInv
        <3>3. before'.medium = [l \in Lbas |-> before'.medium[l]]
            BY <2>3, <2>5
        <3> QED BY <1>1, <2>1, <2>3, <3>1, <3>2, <3>3 DEF XferInv
    <2>7. TransferIsPrefix'
        <3> SUFFICES ASSUME NEW l \in Lbas \ before'.owed
                     PROVE  Rightly(l)'
            BY DEF TransferIsPrefix, Rightly
        <3>1. /\ medium'[l] = before'.medium[l] /\ DOMAIN buf' = {}
              /\ DOMAIN x.data = 1..Len(x.data)
            BY <1>1, <2>3, XferFacts
        <3>2. l - x.lba + 1 <= 0 => l - x.lba + 1 \notin DOMAIN x.data
            BY <2>3, <3>1, AtaAssumption DEF Lbas
        <3> QED BY <1>1, <2>1, <3>1, <3>2 DEF Rightly
    <2> QED BY <1>1, <2>2, <2>3, <2>6, <2>7 DEF NodeInv
<1> QED BY <1>2, <1>3

\* mount_root, and the single blocks of the FAT driver: no transfer is under
\* way.
LEMMA OtherCallers ==
    ASSUME IndInv, AtaInv',
           BootProbe \/ BootProbed \/ BootMounted \/ \E c \in Calls : FatCall(c)
    PROVE  IndInv'
<1> USE DEF IndInv, ataVars, driverVars, driveVars, nodeVars
<1>1. xfer = NoXfer /\ UNCHANGED nodeVars
    BY DEF BootProbe, BootProbed, BootMounted, FatCall, NodeInv, XferInv
<1>2. boot' \in {"off", "init", "mount", "up"} /\ root' \in {"none", "fat", "ram"}
    BY DEF BootProbe, BootProbed, BootMounted, FatCall, TypeOK
<1>3. TypeOK'
    BY <1>1, <1>2 DEF TypeOK, AtaInv
<1>4. result'.val \in Contents
    <2>1. CASE UNCHANGED ataVars
        BY <2>1 DEF NodeInv
    <2>2. CASE CallInit \/ \E c \in Requests : CallBlock(c)
        BY <2>2, CallEffect DEF NodeInv
    <2>3. [NoCall EXCEPT !.op = "read"] \in Requests /\ Calls \subseteq Requests
        BY AtaAssumption DEF NoCall, Requests, Calls
    <2> QED BY <2>1, <2>2, <2>3 DEF BootProbe, BootProbed, BootMounted, FatCall
<1>5. NodeInv' /\ TransferIsPrefix'
    BY <1>1, <1>4 DEF NodeInv, TransferIsPrefix
<1> QED BY <1>3, <1>5

\* The driver and the drive.
LEMMA MachineStep ==
    ASSUME IndInv, AtaInv', Driver \/ Drive
    PROVE  IndInv'
<1> USE DEF IndInv, nodeVars
<1>1. (DriverStep \/ DriveStep) /\ UNCHANGED <<boot, root, nodeVars>>
    BY DEF Driver, Drive
<1>2. result'.val \in Contents
    BY <1>1, StepEffect DEF NodeInv
<1>3. TypeOK'
    BY <1>1 DEF TypeOK, AtaInv
<1>4. CASE xfer = NoXfer
    BY <1>1, <1>2, <1>3, <1>4 DEF NodeInv, TransferIsPrefix
<1>5. CASE xfer # NoXfer
    <2>1. XferInv' /\ TransferIsPrefix'
        BY <1>1, <1>2, <1>5, TransferStep
    <2> QED BY <1>1, <1>2, <1>3, <1>5, <2>1 DEF NodeInv
<1> QED BY <1>4, <1>5

\* The system before mount_root.
LEMMA InitInv == Init => IndInv
<1> SUFFICES ASSUME Init PROVE IndInv
    OBVIOUS
<1> USE DEF Init
<1>1. AtaInv /\ AtaTypeOK
    BY AtaInitInv DEF AtaInv
<1>2. TypeOK
    <2>1. asked \in BOOLEAN
        BY Zenon
    <2>2. moved \in 0..MaxBlocks /\ Len(buf) <= moved
        BY DevDiskAssumption
    <2> QED BY <1>1, <2>1, <2>2 DEF TypeOK
<1>3. NodeInv /\ TransferIsPrefix
    BY DEF NodeInv, TransferIsPrefix, AtaInit, Answer, Contents
<1> QED BY <1>1, <1>2, <1>3 DEF IndInv

\* Every step, whoever takes it.
LEMMA NextInv ==
    ASSUME IndInv, [Next]_vars
    PROVE  IndInv' /\ [AtaStep]_ataVars
<1>1. [AtaStep]_ataVars
    BY IsAtaStep DEF IndInv
<1>2. AtaInv'
    BY <1>1, AtaStepInv DEF IndInv
<1>3. CASE UNCHANGED vars
    <2>1. UNCHANGED <<ataVars, nodeVars, boot, root, Wanted>>
        BY <1>3 DEF vars, nodeVars, Wanted
    <2> QED BY <1>1, <1>2, <2>1
            DEF IndInv, TypeOK, NodeInv, XferInv, JobLeft, DoneInv, TransferIsPrefix,
                nodeVars, ataVars, driverVars, driveVars, AtaInv
<1>4. CASE NodeDone
    BY <1>1, <1>2, <1>4, NodeEndStep DEF NodeDone
<1>5. CASE Next /\ ~NodeDone
    BY <1>1, <1>2, <1>5, NodeAskStep, NodeTakeStep, NodeCallStep, OtherCallers,
       MachineStep DEF Next, CpuStep
<1> QED BY <1>1, <1>3, <1>4, <1>5

-----------------------------------------------------------------------------
\* The invariant holds throughout, whatever the drive does and when.
THEOREM Inductive == Spec => []IndInv
<1>1. Init => IndInv
    BY InitInv
<1>2. IndInv /\ [Next]_vars => IndInv'
    BY NextInv
<1> QED BY <1>1, <1>2, PTL DEF Spec

\* The variables of the driver, of the drive and of a transfer keep their
\* types: no loop exceeds POLL_LIMIT rounds and no call leaves the disk.
THEOREM DevDiskTyped == Spec => []TypeOK
<1>1. IndInv => TypeOK
    BY DEF IndInv
<1> QED BY <1>1, Inductive, PTL

\* A transfer of /dev/disk0 is a prefix of what was asked at every moment,
\* through errors, timeouts and late answers of the drive.
THEOREM TransfersArePrefixes == Spec => []TransferIsPrefix
<1>1. IndInv => TransferIsPrefix
    BY DEF IndInv
<1> QED BY <1>1, Inductive, PTL

\* After an error the driver touches nothing and reports no success.
THEOREM ErrorsStopTheDrive == Spec => FailStop
<1>1. IndInv /\ [Next]_vars =>
        [(initialised /\ Failed) =>
            /\ Failed' /\ medium' = medium
            /\ (pc # "idle" /\ pc' = "idle") => result'.res # "ok"]_ataVars
    BY NextInv, FailStopStep DEF IndInv
<1> QED BY <1>1, Inductive, PTL DEF Spec, FailStop

\* The driver implements BlockDisk under every caller: initial states map to
\* initial states, each step to a step of BlockDisk or to none.
THEOREM DriverIsBlockDisk == Spec => BlockSpec
<1>1. Init => Disk!DiskInit
    <2> SUFFICES ASSUME Init PROVE Disk!DiskInit
        OBVIOUS
    <2>1. call = NoCall /\ job = NoCall /\ result.res = "none" /\ astray = FALSE
        BY DEF Init, AtaInit, Answer, NoJob
    <2>2. BlockAsk = NoCall /\ BlockOwed = {}
        BY <2>1 DEF BlockAsk, BlockOwed, NoCall
    <2> QED BY <2>1, <2>2 DEF Disk!DiskInit
<1>2. IndInv /\ IndInv' /\ [Next]_vars => [Disk!DiskNext]_(Disk!diskVars)
    BY NextInv, DiskStep DEF IndInv
<1> QED BY <1>1, <1>2, Inductive, PTL DEF Spec, BlockSpec, Disk!DiskSpec
=============================================================================
