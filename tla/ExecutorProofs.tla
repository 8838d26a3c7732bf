--------------------------- MODULE ExecutorProofs ---------------------------
(***************************************************************************)
(* Proofs about Executor, for every capacity of the two queues and every   *)
(* finite set of yielding tasks: the executor keeps its types, it never    *)
(* sleeps while there is work, no wake-up of the shell is lost, and the    *)
(* keys reach it as through a FIFO that may refuse some.                   *)
(***************************************************************************)
EXTENDS Executor, FiniteSetTheorems, TLAPS

Booting == pc \in {"spawn", "panic"}

\* What the program counter says about the task being polled.
PcInv ==
    /\ pc \in ShellPcs <=> cur = Shell
    /\ pc = "yield" <=> cur \in Yielders
    /\ pc = "yield" => ~Queued(cur)
    /\ halted => pc = "pop" /\ taskQueue = <<>>

\* The ids the executor can still meet are among S, and S fits the run queue.
Fits(S) ==
    /\ Cardinality(S) <= QCap /\ Shell \in S
    /\ tasks \subseteq S
    /\ \A i \in DOMAIN taskQueue : taskQueue[i] \in S

\* spawn pushes one id per task, and panics rather than leave one out; so an
\* executor that runs has room for every task it was given at once.
SpawnInv ==
    /\ Booting => ~scanInit /\ waker = NoTask /\ lost = {}
    /\ pc = "spawn" => /\ Len(taskQueue) = Cardinality(tasks)
                       /\ \A t \in tasks : Queued(t)
                       /\ \A i \in DOMAIN taskQueue : taskQueue[i] \in tasks
    /\ ~Booting => Shell \in tasks /\ cur \in tasks \cup {NoTask}
                     /\ \E S \in SUBSET TaskIds : Fits(S)

\* Only the shell's id can be in the run queue twice: a yielder wakes itself
\* once per poll, and it is polled only after its id has been popped.
NoDuplicates(q) ==
    \A i, j \in DOMAIN q : q[i] = q[j] /\ q[i] # Shell => i = j

\* Between register and the second pop the shell is either still registered
\* or already queued by the interrupt that took the registration.
ArmedInv == pc = "second" => waker = Shell \/ Queued(Shell)

IndInv ==
    /\ TypeOK
    /\ PcInv
    /\ SpawnInv
    /\ NoDuplicates(taskQueue)
    /\ ArmedInv
    /\ ShellWillBePolled
    /\ ShellNeverLost
-----------------------------------------------------------------------------
(* Facts about the queues.                                                 *)

\* A full run queue holds the shell's id: the others fit only once each.
LEMMA FullQueueHoldsShell ==
    ASSUME NEW S \in SUBSET TaskIds, Shell \in S, Cardinality(S) <= QCap,
           NEW q \in Seq(TaskIds), \A i \in DOMAIN q : q[i] \in S,
           NoDuplicates(q), Len(q) >= QCap
    PROVE  \E i \in DOMAIN q : q[i] = Shell
<1> SUFFICES ASSUME \A i \in DOMAIN q : q[i] # Shell
             PROVE  FALSE
    OBVIOUS
<1> DEFINE Y == S \ {Shell}
<1>1. IsFiniteSet(S) /\ QCap \in Nat
    <2>1. IsFiniteSet(TaskIds)
        BY ExecutorAssumption, FS_AddElement DEF TaskIds
    <2> QED BY <2>1, ExecutorAssumption, FS_Subset
<1>2. IsFiniteSet(Y) /\ Cardinality(Y) = Cardinality(S) - 1
      /\ Cardinality(Y) \in Nat /\ Cardinality(S) \in Nat
    BY <1>1, FS_RemoveElement, FS_CardinalityType
<1>3. IsFiniteSet(1..Len(q)) /\ Cardinality(1..Len(q)) = Len(q)
    <2>1. \A n \in Nat : IsFiniteSet(1..n) /\ Cardinality(1..n) = n
        BY FS_Interval
    <2>2. Len(q) \in Nat
        OBVIOUS
    <2> QED BY <2>1, <2>2
<1>4. q \in [1..Len(q) -> Y]
    OBVIOUS
<1>5. Cardinality(Y) < Cardinality(1..Len(q))
    <2>1. Len(q) \in Nat
        OBVIOUS
    <2> QED BY <1>1, <1>2, <1>3, <2>1
<1>6. \E x, y \in 1..Len(q) : x # y /\ q[x] = q[y]
    <2> HIDE DEF Y
    <2> QED BY <1>2, <1>3, <1>4, <1>5, FS_PigeonHole
<1> QED BY <1>6 DEF NoDuplicates

\* What wake_task does to the run queue: it stays within its capacity and
\* free of duplicates, nothing leaves it, only t can enter it, and t is in it
\* afterwards unless the push was dropped, which never happens to the shell.
LEMMA WakeTaskEffect ==
    ASSUME TypeOK, NoDuplicates(taskQueue),
           NEW S \in SUBSET TaskIds, Fits(S),
           NEW t \in S, t = Shell \/ ~Queued(t),
           WakeTask(t)
    PROVE  /\ taskQueue' \in Seq(TaskIds)
           /\ Len(taskQueue') <= QCap
           /\ NoDuplicates(taskQueue')
           /\ \A i \in DOMAIN taskQueue' : taskQueue'[i] \in S
           /\ \A u : Queued(u) => Queued(u)'
           /\ \A u : Queued(u)' => Queued(u) \/ u = t
           /\ lost' \in {lost, lost \cup {t}}
           /\ Queued(t)' \/ t \in lost'
           /\ t = Shell => Queued(Shell)' /\ lost' = lost
<1>1. QCap \in Nat /\ taskQueue \in Seq(TaskIds) /\ Len(taskQueue) <= QCap
    BY ExecutorAssumption DEF TypeOK
<1>2. CASE Len(taskQueue) < QCap
    <2>1. taskQueue' = Append(taskQueue, t) /\ lost' = lost
        BY <1>1, <1>2 DEF WakeTask, Push
    <2>2. \A i \in DOMAIN taskQueue' :
            taskQueue'[i] = IF i \in DOMAIN taskQueue THEN taskQueue[i] ELSE t
        BY <1>1, <2>1
    <2>3. DOMAIN taskQueue' = 1..(Len(taskQueue) + 1)
          /\ DOMAIN taskQueue = 1..Len(taskQueue)
          /\ Len(taskQueue') = Len(taskQueue) + 1 /\ Len(taskQueue) \in Nat
        BY <1>1, <2>1
    <2>4. NoDuplicates(taskQueue')
        BY <2>2, <2>3 DEF NoDuplicates, Queued
    <2>5. \A u : Queued(u) => Queued(u)'
        BY <2>2, <2>3 DEF Queued
    <2>6. \A u : Queued(u)' => Queued(u) \/ u = t
        BY <2>2, <2>3 DEF Queued
    <2>7. Queued(t)' /\ \A i \in DOMAIN taskQueue' : taskQueue'[i] \in S
        BY <2>2, <2>3 DEF Queued, Fits
    <2> QED BY <1>1, <1>2, <2>1, <2>3, <2>4, <2>5, <2>6, <2>7
<1>3. CASE ~(Len(taskQueue) < QCap)
    <2>1. taskQueue' = taskQueue /\ lost' \in {lost, lost \cup {t}}
          /\ (Queued(t) => lost' = lost) /\ (Queued(t) \/ t \in lost')
        BY <1>3 DEF WakeTask, Push
    <2>2. Queued(Shell)
        BY <1>1, <1>3, FullQueueHoldsShell DEF Queued, Fits
    <2> QED BY <1>1, <2>1, <2>2 DEF Queued, Fits
<1> QED BY <1>2, <1>3

\* What popping the run queue leaves behind.
LEMMA PopEffect ==
    ASSUME NEW q \in Seq(TaskIds), q # <<>>, NoDuplicates(q)
    PROVE  /\ Head(q) \in TaskIds
           /\ Tail(q) \in Seq(TaskIds) /\ Len(Tail(q)) = Len(q) - 1
           /\ NoDuplicates(Tail(q))
           /\ \A i \in DOMAIN q :
                 q[i] = Head(q) \/ \E j \in DOMAIN Tail(q) : Tail(q)[j] = q[i]
           /\ Head(q) # Shell => \A j \in DOMAIN Tail(q) : Tail(q)[j] # Head(q)
<1>1. Len(q) \in Nat /\ Len(q) > 0 /\ DOMAIN q = 1..Len(q)
      /\ DOMAIN Tail(q) = 1..(Len(q) - 1) /\ Head(q) = q[1]
    OBVIOUS
<1>2. \A j \in DOMAIN Tail(q) : Tail(q)[j] = q[j + 1]
    OBVIOUS
<1>3. NoDuplicates(Tail(q))
    BY <1>1, <1>2 DEF NoDuplicates
<1>4. \A i \in DOMAIN q :
        q[i] = Head(q) \/ \E j \in DOMAIN Tail(q) : Tail(q)[j] = q[i]
    <2> SUFFICES ASSUME NEW i \in DOMAIN q, i # 1
                 PROVE  i - 1 \in DOMAIN Tail(q) /\ Tail(q)[i - 1] = q[i]
        BY <1>1
    <2> QED BY <1>1, <1>2
<1>5. Head(q) # Shell => \A j \in DOMAIN Tail(q) : Tail(q)[j] # Head(q)
    <2> SUFFICES ASSUME Head(q) # Shell, NEW j \in DOMAIN Tail(q),
                        Tail(q)[j] = Head(q)
                 PROVE  FALSE
        OBVIOUS
    <2>1. j + 1 \in DOMAIN q /\ 1 \in DOMAIN q /\ j + 1 # 1
        BY <1>1
    <2> QED BY <2>1, <1>1, <1>2 DEF NoDuplicates
<1> QED BY <1>1, <1>3, <1>4, <1>5
-----------------------------------------------------------------------------
(* The inductive invariant.                                                *)

\* The executor of Executor::new, before the first spawn, with interrupts on.
LEMMA InitInd == Init => IndInv
<1> SUFFICES ASSUME Init PROVE IndInv
    OBVIOUS
<1> USE ExecutorAssumption DEF Init
<1>1. TypeOK
    <2>1. /\ taskQueue \in Seq(TaskIds) /\ Len(taskQueue) <= QCap
          /\ scanQueue \in Seq(Nat) /\ Len(scanQueue) <= SCap
          /\ typed \in Nat /\ kbd \in Seq(Nat) /\ consumed \in Seq(Nat)
        OBVIOUS
    <2>2. /\ iflag \in BOOLEAN /\ halted \in BOOLEAN /\ scanInit \in BOOLEAN
          /\ pc \in Pcs /\ cur \in TaskIds \cup {NoTask}
          /\ tasks \subseteq TaskIds /\ wakerCache \subseteq tasks
          /\ lost \subseteq TaskIds /\ waker \in {NoTask, Shell}
        BY Zenon DEF Pcs
    <2> QED BY <2>1, <2>2 DEF TypeOK
<1>2. PcInv
    BY DEF PcInv, ShellPcs, TaskIds
<1>3. SpawnInv
    BY FS_EmptySet DEF SpawnInv, Booting
<1>4. NoDuplicates(taskQueue) /\ ArmedInv /\ ShellWillBePolled /\ ShellNeverLost
    BY DEF NoDuplicates, ArmedInv, ShellWillBePolled, ShellNeverLost
<1> QED BY <1>1, <1>2, <1>3, <1>4 DEF IndInv

\* spawn keeps one id per task in the run queue; the expect that panics on a
\* full queue stops the machine with nothing lost.
LEMMA SpawnInd ==
    ASSUME IndInv, NEW t \in TaskIds, Spawn(t) \/ SpawnPanic(t)
    PROVE  IndInv'
<1> USE ExecutorAssumption DEF IndInv, execVars, keyVars, cpuVars, envVars,
                               histVars
<1>0. pc = "spawn" /\ ~halted /\ t \notin tasks /\ tasks' = tasks \cup {t}
    BY DEF Spawn, SpawnPanic, At
<1>1. IsFiniteSet(tasks) /\ Cardinality(tasks \cup {t}) = Cardinality(tasks) + 1
    <2>1. IsFiniteSet(TaskIds)
        BY FS_AddElement DEF TaskIds
    <2>2. IsFiniteSet(tasks)
        BY <2>1, FS_Subset DEF TypeOK
    <2> QED BY <1>0, <2>2, FS_AddElement
<1>2. CASE Spawn(t)
    <2>1. TypeOK'
        BY <1>2 DEF Spawn, At, TypeOK
    <2>2. /\ DOMAIN taskQueue' = 1..(Len(taskQueue) + 1)
          /\ DOMAIN taskQueue = 1..Len(taskQueue) /\ Len(taskQueue) \in Nat
          /\ \A i \in DOMAIN taskQueue' :
               taskQueue'[i] = IF i \in DOMAIN taskQueue THEN taskQueue[i] ELSE t
        BY <1>2 DEF Spawn, TypeOK
    <2>3. ~Queued(t)
        BY <1>0 DEF SpawnInv, Queued
    <2>4. NoDuplicates(taskQueue')
        BY <2>2, <2>3 DEF NoDuplicates, Queued
    <2>5. PcInv'
        BY <1>0, <1>2 DEF PcInv, Spawn, At, ShellPcs, TaskIds
    <2>6. SpawnInv'
        <3>1. Len(taskQueue') = Cardinality(tasks')
            BY <1>0, <1>1, <1>2, <2>2 DEF SpawnInv, Spawn, TypeOK
        <3>2. \A u \in tasks' : Queued(u)'
            <4> SUFFICES ASSUME NEW u \in tasks'
                         PROVE  \E i \in DOMAIN taskQueue' : taskQueue'[i] = u
                BY DEF Queued
            <4>1. CASE u = t
                BY <2>2, <4>1
            <4>2. CASE u \in tasks
                <5>1. PICK i \in DOMAIN taskQueue : taskQueue[i] = u
                    BY <1>0, <4>2 DEF SpawnInv, Queued
                <5> QED BY <2>2, <5>1
            <4> QED BY <1>0, <4>1, <4>2
        <3>3. \A i \in DOMAIN taskQueue' : taskQueue'[i] \in tasks'
            BY <1>0, <2>2 DEF SpawnInv
        <3>4. Booting /\ Booting' /\ UNCHANGED <<scanInit, waker, lost>>
            BY <1>0, <1>2 DEF Spawn, Booting
        <3> QED BY <3>1, <3>2, <3>3, <3>4 DEF SpawnInv
    <2> QED BY <1>0, <1>2, <2>1, <2>4, <2>5, <2>6
            DEF Spawn, ArmedInv, ShellWillBePolled, ShellNeverLost
<1>3. CASE SpawnPanic(t)
    <2>1. TypeOK'
        BY <1>3 DEF SpawnPanic, At, TypeOK, Pcs
    <2> QED BY <1>0, <1>3, <2>1
            DEF SpawnPanic, PcInv, SpawnInv, Booting, ArmedInv, ShellPcs, TaskIds,
                ShellWillBePolled, ShellNeverLost, Queued
<1> QED BY <1>2, <1>3

\* run starts with every spawned task queued, so with the shell queued.
LEMMA RunInd ==
    ASSUME IndInv, Run
    PROVE  IndInv'
<1> USE ExecutorAssumption
    DEF IndInv, Run, At, execVars, keyVars, cpuVars, envVars, histVars
<1>1. TypeOK'
    BY DEF TypeOK, Pcs
<1>2. Shell \in tasks /\ Queued(Shell) /\ cur = NoTask /\ Fits(tasks)
    BY DEF SpawnInv, TypeOK, TaskIds, PcInv, Fits, ShellPcs
<1>3. Queued(Shell)'
    BY <1>2 DEF Queued
<1>4. SpawnInv'
    BY <1>2 DEF SpawnInv, Booting, Fits, TypeOK
<1> QED BY <1>1, <1>2, <1>3, <1>4
        DEF PcInv, SpawnInv, Booting, ArmedInv, ShellPcs, TaskIds,
            ShellWillBePolled, ShellNeverLost, Queued

\* run_ready_tasks pops an id and polls its task: the shell leaves the queue
\* only to be polled, and a popped yielder is not queued a second time.
LEMMA PopTaskInd ==
    ASSUME IndInv, PopTask
    PROVE  IndInv'
<1> USE ExecutorAssumption
    DEF IndInv, At, execVars, keyVars, cpuVars, envVars, histVars
<1>0. /\ pc = "pop" /\ ~halted /\ cur = NoTask /\ ~Booting
      /\ taskQueue \in Seq(TaskIds) /\ taskQueue # <<>>
      /\ taskQueue' = Tail(taskQueue)
      /\ UNCHANGED <<tasks, keyVars, cpuVars, envVars, histVars>>
    BY DEF PopTask, PcInv, TypeOK, TaskIds, ShellPcs, Booting
<1>t. PICK t : t = Head(taskQueue)
    OBVIOUS
<1>1. /\ t \in TaskIds
      /\ taskQueue' \in Seq(TaskIds) /\ Len(taskQueue') = Len(taskQueue) - 1
      /\ NoDuplicates(taskQueue')
      /\ \A u : Queued(u) => u = t \/ Queued(u)'
      /\ \A u : Queued(u)' => Queued(u)
      /\ t # Shell => ~Queued(t)'
    <2>1. NoDuplicates(taskQueue)
        OBVIOUS
    <2> HIDE DEF IndInv, NoDuplicates
    <2>2. /\ t \in TaskIds
          /\ taskQueue' \in Seq(TaskIds) /\ Len(taskQueue') = Len(taskQueue) - 1
          /\ NoDuplicates(taskQueue')
          /\ \A i \in DOMAIN taskQueue : taskQueue[i] = t
                \/ \E j \in DOMAIN taskQueue' : taskQueue'[j] = taskQueue[i]
          /\ t # Shell => \A j \in DOMAIN taskQueue' : taskQueue'[j] # t
        BY <1>0, <1>t, <2>1, PopEffect
    <2>3. \A j \in DOMAIN taskQueue' :
            j + 1 \in DOMAIN taskQueue /\ taskQueue'[j] = taskQueue[j + 1]
        BY <1>0
    <2> QED BY <2>2, <2>3 DEF Queued
<1>2. Shell \in tasks
    BY <1>0 DEF SpawnInv
<1>3. /\ t \in tasks =>
            /\ cur' = t
            /\ wakerCache' = wakerCache \cup {t}
            /\ t # Shell => pc' = "yield"
            /\ t = Shell => pc' \in {"new", "first"}
      /\ t \notin tasks => cur' = cur /\ wakerCache' = wakerCache /\ pc' = pc
    BY <1>t DEF PopTask
<1>4. TypeOK'
    BY <1>0, <1>1, <1>3 DEF TypeOK, Pcs, ShellPcs
<1>5. PcInv'
    BY <1>0, <1>1, <1>2, <1>3 DEF PcInv, ShellPcs, TaskIds
<1>6. ~Booting'
    BY <1>0, <1>3 DEF Booting
<1>7. SpawnInv'
    <2>1. PICK S \in SUBSET TaskIds : Fits(S)
        BY <1>0 DEF SpawnInv
    <2>2. Fits(S)'
        BY <1>0, <1>1, <2>1 DEF Fits, Queued
    <2>3. cur' \in tasks' \cup {NoTask}
        BY <1>0, <1>3
    <2> QED BY <1>0, <1>2, <1>6, <2>2, <2>3 DEF SpawnInv, Booting
<1>8. ArmedInv'
    BY <1>0, <1>3 DEF ArmedInv
<1>9. ShellWillBePolled'
    <2>1. CASE t = Shell
        BY <1>2, <1>3, <2>1 DEF ShellWillBePolled
    <2>2. CASE t # Shell
        BY <1>0, <1>1, <1>6, <2>2 DEF ShellWillBePolled, Booting
    <2> QED BY <2>1, <2>2
<1> QED BY <1>0, <1>1, <1>4, <1>5, <1>7, <1>8, <1>9 DEF ShellNeverLost

\* The steps of the CPU that leave the run queue alone.
LEMMA LocalStepsInd ==
    ASSUME IndInv, PopEmpty \/ Disable \/ SleepIfIdle \/ ShellStep
    PROVE  IndInv'
<1> USE ExecutorAssumption
    DEF IndInv, At, execVars, keyVars, cpuVars, envVars, histVars
<1>0. UNCHANGED <<taskQueue, tasks, wakerCache, typed, kbd, lost>>
    BY DEF PopEmpty, Disable, SleepIfIdle, ShellStep, StreamNew, PollNextFirst,
           Register, PollNextSecond, TakeWaker, HandleKey, PrintDone
<1>1. ~Booting /\ ~Booting' /\ SpawnInv' /\ NoDuplicates(taskQueue') /\ ShellNeverLost'
    <2>1. ~Booting /\ ~Booting' /\ cur' \in {cur, NoTask}
        BY DEF PopEmpty, Disable, SleepIfIdle, ShellStep, StreamNew, Booting,
               PollNextFirst, Register, PollNextSecond, TakeWaker, HandleKey,
               PrintDone
    <2> QED BY <1>0, <2>1 DEF SpawnInv, ShellNeverLost, Booting, Fits
<1>q. \A u : Queued(u)' <=> Queued(u)
    BY <1>0 DEF Queued
<1>2. CASE PopEmpty \/ Disable \/ SleepIfIdle
    <2>0. UNCHANGED <<keyVars, cur, consumed>> /\ pc \notin ShellPcs
          /\ pc' \in {"disable", "check", "pop"} /\ pc # "yield"
        BY <1>2 DEF PopEmpty, Disable, SleepIfIdle, ShellPcs
    <2>h. /\ (halted' => pc' = "pop" /\ taskQueue' = <<>>)
          /\ iflag' \in BOOLEAN /\ halted' \in BOOLEAN
        <3>1. CASE PopEmpty
            BY <3>1 DEF PopEmpty, TypeOK
        <3>2. CASE Disable
            BY <3>2 DEF Disable, TypeOK
        <3>3. CASE SleepIfIdle
            BY <1>0, <3>3 DEF SleepIfIdle
        <3> QED BY <1>2, <3>1, <3>2, <3>3
    <2>1. TypeOK'
        BY <1>0, <2>0, <2>h DEF TypeOK, Pcs
    <2>2. PcInv' /\ ArmedInv'
        BY <2>0, <2>h DEF PcInv, ArmedInv, ShellPcs
    <2>3. ShellWillBePolled'
        BY <1>1, <1>q, <2>0 DEF ShellWillBePolled, Booting
    <2> QED BY <1>1, <2>1, <2>2, <2>3
<1>3. CASE ShellStep
    <2>0. /\ pc \in ShellPcs /\ cur = Shell /\ ~halted /\ halted' = halted
        BY <1>3 DEF ShellStep, StreamNew, PollNextFirst, Register, PollNextSecond,
               TakeWaker, HandleKey, PrintDone, ShellPcs, PcInv
    <2>1. CASE PollNextSecond /\ scanQueue = <<>>
        <3>1. /\ pc = "second" /\ pc' = "pop" /\ cur' = NoTask
              /\ UNCHANGED <<keyVars, cpuVars, consumed>>
            BY <2>1 DEF PollNextSecond
        <3>2. TypeOK'
            BY <1>0, <3>1 DEF TypeOK, Pcs
        <3>3. PcInv' /\ ArmedInv'
            BY <2>0, <3>1 DEF PcInv, ArmedInv, ShellPcs, TaskIds
        <3>4. ShellWillBePolled'
            BY <1>q, <2>1, <3>1 DEF ShellWillBePolled, ArmedInv
        <3> QED BY <1>1, <3>2, <3>3, <3>4
    <2>2. CASE ~(PollNextSecond /\ scanQueue = <<>>)
        <3>1. pc' \in ShellPcs /\ cur' = Shell /\ waker' \in {NoTask, Shell}
              /\ (pc' = "second" => waker' = Shell)
              /\ scanInit' \in BOOLEAN /\ iflag' \in BOOLEAN
            BY <1>3, <2>0, <2>2
            DEF ShellStep, StreamNew, PollNextFirst, Register, PollNextSecond,
                TakeWaker, HandleKey, PrintDone, ShellPcs, TypeOK
        <3>2. /\ scanQueue' \in Seq(Nat) /\ Len(scanQueue') <= SCap
              /\ consumed' \in Seq(Nat)
            <4>1. CASE UNCHANGED <<scanQueue, consumed>>
                BY <4>1 DEF TypeOK
            <4>2. CASE /\ scanQueue # <<>> /\ scanQueue' = Tail(scanQueue)
                       /\ consumed' = Append(consumed, Head(scanQueue))
                BY <4>2 DEF TypeOK
            <4> QED BY <1>3, <4>1, <4>2
                    DEF ShellStep, StreamNew, PollNextFirst, Register,
                        PollNextSecond, TakeWaker, HandleKey, PrintDone
        <3>3. TypeOK'
            BY <1>0, <2>0, <3>1, <3>2 DEF TypeOK, Pcs, TaskIds
        <3>4. PcInv' /\ ArmedInv' /\ ShellWillBePolled'
            BY <2>0, <3>1 DEF PcInv, ArmedInv, ShellPcs, ShellWillBePolled, TaskIds
        <3> QED BY <1>1, <3>3, <3>4
    <2> QED BY <2>1, <2>2
<1> QED BY <1>2, <1>3

\* A poll that wakes itself through wake_task or completes: the push may be
\* dropped, but not at the cost of the shell.
LEMMA PollYielderInd ==
    ASSUME IndInv, NEW wakes \in BOOLEAN, NEW ready \in BOOLEAN,
           PollYielder(wakes, ready)
    PROVE  IndInv'
<1> USE ExecutorAssumption
    DEF IndInv, At, execVars, keyVars, cpuVars, envVars, histVars
<1>0. /\ pc = "yield" /\ ~halted /\ cur \in Yielders /\ ~Queued(cur) /\ ~Booting
      /\ cur' = NoTask /\ pc' = "pop"
      /\ UNCHANGED <<keyVars, cpuVars, envVars, consumed>>
    BY DEF PollYielder, PcInv, Booting
<1>1. Shell \in tasks /\ cur \in tasks
    BY <1>0 DEF SpawnInv
<1>s. PICK S \in SUBSET TaskIds : Fits(S)
    BY <1>0 DEF SpawnInv
<1>2. /\ taskQueue' \in Seq(TaskIds) /\ Len(taskQueue') <= QCap
      /\ NoDuplicates(taskQueue')
      /\ \A i \in DOMAIN taskQueue' : taskQueue'[i] \in S
      /\ \A u : Queued(u) => Queued(u)'
      /\ lost' \in {lost, lost \cup {cur}}
    <2>1. CASE wakes
        <3>1. cur \in S
            BY <1>1, <1>s DEF Fits
        <3> QED BY <1>0, <1>s, <2>1, <3>1, WakeTaskEffect DEF PollYielder
    <2>2. CASE ~wakes
        BY <1>s, <2>2 DEF PollYielder, TypeOK, Queued, Fits
    <2> QED BY <2>1, <2>2
<1>3. tasks' \in {tasks, tasks \ {cur}} /\ wakerCache' \subseteq tasks'
    BY DEF PollYielder, TypeOK
<1>4. TypeOK'
    BY <1>0, <1>2, <1>3 DEF TypeOK, Pcs, TaskIds
<1>5. PcInv' /\ ArmedInv' /\ ShellNeverLost'
    BY <1>0, <1>2 DEF PcInv, ArmedInv, ShellPcs, TaskIds, ShellNeverLost
<1>6. SpawnInv'
    <2>1. Fits(S)'
        BY <1>s, <1>2, <1>3 DEF Fits
    <2> QED BY <1>0, <1>1, <1>3, <2>1 DEF SpawnInv, Booting
<1>7. ShellWillBePolled'
    BY <1>0, <1>2 DEF ShellWillBePolled, Booting
<1> QED BY <1>2, <1>4, <1>5, <1>6, <1>7

\* The interrupts may come at any point where IF is set.
LEMMA KeyboardHandlerInd ==
    ASSUME IndInv, KeyboardHandler
    PROVE  IndInv'
<1> USE ExecutorAssumption
    DEF IndInv, execVars, keyVars, cpuVars, envVars, histVars
<1>0. /\ pc # "panic" /\ kbd # <<>> /\ kbd' = Tail(kbd) /\ halted' = FALSE
      /\ AddScancode(Head(kbd))
      /\ UNCHANGED <<tasks, wakerCache, pc, cur, iflag, typed, consumed>>
    BY DEF KeyboardHandler
<1>1. Head(kbd) \in Nat /\ kbd' \in Seq(Nat)
    BY <1>0 DEF TypeOK
<1>2. CASE ~scanInit
    <2>1. UNCHANGED <<keyVars, taskQueue, lost>>
        BY <1>0, <1>2 DEF AddScancode
    <2>2. TypeOK'
        BY <1>0, <1>1, <2>1 DEF TypeOK
    <2> QED BY <1>0, <2>1, <2>2
            DEF PcInv, SpawnInv, Booting, ArmedInv, ShellWillBePolled,
                ShellNeverLost, Queued, Fits
<1>3. CASE scanInit
    <2>0. ~Booting /\ Shell \in tasks /\ cur \in tasks \cup {NoTask}
        BY <1>3 DEF SpawnInv
    <2>s. PICK S \in SUBSET TaskIds : Fits(S)
        BY <2>0 DEF SpawnInv
    <2>1. /\ scanQueue' = Push(scanQueue, SCap, Head(kbd))
          /\ waker' = NoTask /\ scanInit' = scanInit
          /\ WakeRegistered
        BY <1>0, <1>3 DEF AddScancode, WakeRegistered
    <2>2. scanQueue' \in Seq(Nat) /\ Len(scanQueue') <= SCap
        BY <1>1, <2>1 DEF Push, TypeOK
    <2>3. /\ taskQueue' \in Seq(TaskIds) /\ Len(taskQueue') <= QCap
          /\ NoDuplicates(taskQueue')
          /\ \A i \in DOMAIN taskQueue' : taskQueue'[i] \in S
          /\ \A u : Queued(u) => Queued(u)'
          /\ \A u : Queued(u)' => Queued(u) \/ u = Shell
          /\ lost' = lost
          /\ waker = Shell => Queued(Shell)'
        <3>1. CASE waker = NoTask
            BY <2>1, <2>s, <3>1 DEF WakeRegistered, TypeOK, Queued, TaskIds, Fits
        <3>2. CASE waker = Shell
            <4>1. WakeTask(Shell) /\ Shell \in S
                BY <2>1, <2>s, <3>2 DEF WakeRegistered, TaskIds, Fits
            <4> QED BY <2>s, <4>1, WakeTaskEffect
        <3> QED BY <3>1, <3>2 DEF TypeOK
    <2>4. TypeOK'
        BY <1>0, <1>1, <2>1, <2>2, <2>3 DEF TypeOK
    <2>5. PcInv'
        BY <1>0, <2>3 DEF PcInv
    <2>6. SpawnInv'
        <3>1. Fits(S)'
            BY <1>0, <2>s, <2>3 DEF Fits
        <3> QED BY <1>0, <2>0, <3>1 DEF SpawnInv, Booting
    <2>7. ArmedInv' /\ ShellWillBePolled' /\ ShellNeverLost'
        BY <1>0, <2>0, <2>3 DEF ArmedInv, ShellWillBePolled, ShellNeverLost, Booting
    <2> QED BY <2>3, <2>4, <2>5, <2>6, <2>7
<1> QED BY <1>2, <1>3 DEF TypeOK

\* A timer tick, a key press and a stutter touch none of the queues.
LEMMA OtherStepsInd ==
    ASSUME IndInv, TimerHandler \/ TypeKey \/ UNCHANGED vars
    PROVE  IndInv'
<1> USE ExecutorAssumption
    DEF IndInv, vars, execVars, keyVars, cpuVars, envVars, histVars
<1>1. /\ UNCHANGED <<execVars, keyVars, iflag, histVars>>
      /\ halted' \in BOOLEAN /\ (halted' => halted)
    <2>1. CASE TimerHandler
        BY <2>1 DEF TimerHandler
    <2>2. CASE TypeKey \/ UNCHANGED vars
        BY <2>2 DEF TypeKey, TypeOK
    <2> QED BY <2>1, <2>2
<1>2. typed' \in Nat /\ kbd' \in Seq(Nat)
    <2>1. CASE TypeKey
        BY <2>1 DEF TypeKey, TypeOK
    <2>2. CASE TimerHandler \/ UNCHANGED vars
        BY <2>2 DEF TimerHandler, TypeOK
    <2> QED BY <2>1, <2>2
<1>3. TypeOK'
    BY <1>1, <1>2 DEF TypeOK
<1>4. PcInv'
    BY <1>1 DEF PcInv, Queued
<1>5. SpawnInv' /\ ArmedInv' /\ ShellWillBePolled' /\ ShellNeverLost'
    BY <1>1 DEF SpawnInv, Booting, ArmedInv, ShellWillBePolled, ShellNeverLost,
                Queued, Fits
<1> QED BY <1>1, <1>3, <1>4, <1>5

\* Every step of the CPU, of an interrupt handler and of the user.
LEMMA NextInd == IndInv /\ [Next]_vars => IndInv'
<1> SUFFICES ASSUME IndInv, [Next]_vars PROVE IndInv'
    OBVIOUS
<1>1. CASE \E t \in TaskIds : Spawn(t) \/ SpawnPanic(t)
    BY <1>1, SpawnInd
<1>2. CASE Run
    BY <1>2, RunInd
<1>3. CASE PopTask
    BY <1>3, PopTaskInd
<1>4. CASE PopEmpty \/ Disable \/ SleepIfIdle \/ ShellStep
    BY <1>4, LocalStepsInd
<1>5. CASE \E wakes, ready \in BOOLEAN : PollYielder(wakes, ready)
    BY <1>5, PollYielderInd
<1>6. CASE KeyboardHandler
    BY <1>6, KeyboardHandlerInd
<1>7. CASE TimerHandler \/ TypeKey \/ UNCHANGED vars
    BY <1>7, OtherStepsInd
<1> QED BY <1>1, <1>2, <1>3, <1>4, <1>5, <1>6, <1>7 DEF Next, CpuStep

\* A halted CPU has nothing to do: it is at the top of the loop, the run
\* queue is empty, so the shell is registered and knows of every scancode.
LEMMA IndInvImplies == IndInv => NoSleepWithWork
<1> SUFFICES ASSUME IndInv, halted PROVE taskQueue = <<>> /\ scanQueue = <<>>
    BY DEF NoSleepWithWork
<1>1. pc = "pop" /\ taskQueue = <<>>
    BY DEF IndInv, PcInv
<1>2. cur # Shell
    BY <1>1 DEF IndInv, PcInv, ShellPcs
<1>3. ~Queued(Shell)
    BY <1>1 DEF Queued
<1> QED BY <1>1, <1>2, <1>3 DEF IndInv, ShellWillBePolled

\* A yielder leaves the rotation with its last poll only: spawn queues it, a
\* pop makes it the current task, and its poll either queues it again, drops
\* the wake-up on a full queue or has completed.
LEMMA RotationStep ==
    ASSUME IndInv, YieldersInRotation, [Next]_vars
    PROVE  YieldersInRotation'
<1> USE ExecutorAssumption
    DEF IndInv, At, execVars, keyVars, cpuVars, envVars, histVars
<1> SUFFICES ASSUME NEW u \in tasks', u \in Yielders, pc' # "panic"
             PROVE  Queued(u)' \/ cur' = u \/ u \in lost'
    BY DEF YieldersInRotation
<1>1. ASSUME NEW t \in TaskIds, Spawn(t)
      PROVE  Queued(u)' \/ cur' = u \/ u \in lost'
    <2>1. taskQueue \in Seq(TaskIds) /\ taskQueue' = Append(taskQueue, t)
          /\ tasks' = tasks \cup {t} /\ pc = "spawn"
        BY <1>1 DEF Spawn, TypeOK
    <2>2. \A i \in DOMAIN taskQueue :
            i \in DOMAIN taskQueue' /\ taskQueue'[i] = taskQueue[i]
        BY <2>1
    <2>3. taskQueue'[Len(taskQueue) + 1] = t
          /\ Len(taskQueue) + 1 \in DOMAIN taskQueue'
        BY <2>1
    <2> QED BY <2>1, <2>2, <2>3 DEF SpawnInv, Queued
<1>2. ASSUME NEW t \in TaskIds, SpawnPanic(t)
      PROVE  FALSE
    BY <1>2 DEF SpawnPanic
<1>3. CASE PopTask
    <2>1. /\ pc = "pop" /\ cur = NoTask /\ UNCHANGED <<tasks, lost>>
          /\ taskQueue \in Seq(TaskIds) /\ taskQueue # <<>>
          /\ taskQueue' = Tail(taskQueue)
          /\ (Head(taskQueue) \in tasks => cur' = Head(taskQueue))
        BY <1>3 DEF PopTask, PcInv, TypeOK, TaskIds, ShellPcs
    <2>2. \A i \in DOMAIN taskQueue : taskQueue[i] = Head(taskQueue)
            \/ \E j \in DOMAIN taskQueue' : taskQueue'[j] = taskQueue[i]
        BY <2>1, PopEffect
    <2>3. u \in tasks /\ (Queued(u) \/ u \in lost)
        BY <2>1 DEF YieldersInRotation
    <2> QED BY <2>1, <2>2, <2>3 DEF Queued
<1>4. ASSUME NEW wakes \in BOOLEAN, NEW ready \in BOOLEAN,
             PollYielder(wakes, ready)
      PROVE  Queued(u)' \/ cur' = u \/ u \in lost'
    <2>1. /\ pc = "yield" /\ cur \in Yielders /\ ~Queued(cur) /\ ~Booting
          /\ wakes \/ ready
          /\ (ready => tasks' = tasks \ {cur})
          /\ (~ready => tasks' = tasks)
        BY <1>4 DEF PollYielder, PcInv, Booting
    <2>2. u \in tasks /\ (Queued(u) \/ cur = u \/ u \in lost)
        BY <2>1 DEF YieldersInRotation
    <2>3. CASE wakes
        <3>1. PICK S \in SUBSET TaskIds : Fits(S)
            BY <2>1 DEF SpawnInv
        <3>2. PICK t : t = cur
            OBVIOUS
        <3>3. TypeOK /\ NoDuplicates(taskQueue) /\ ~Queued(t) /\ t \in S
              /\ WakeTask(t)
            BY <1>4, <2>1, <2>3, <3>1, <3>2 DEF SpawnInv, Fits, PollYielder
        <3>4. /\ \A v : Queued(v) => Queued(v)'
              /\ lost' \in {lost, lost \cup {t}}
              /\ Queued(t)' \/ t \in lost'
            BY <3>1, <3>3, WakeTaskEffect
        <3> QED BY <2>2, <3>2, <3>4
    <2>4. CASE ~wakes
        BY <1>4, <2>1, <2>2, <2>4 DEF PollYielder, Queued
    <2> QED BY <2>3, <2>4
<1>5. CASE KeyboardHandler
    <2>1. /\ UNCHANGED <<tasks, cur, pc>>
          /\ (\A v : Queued(v) => Queued(v)') /\ lost \subseteq lost'
        <3>1. CASE ~scanInit \/ waker = NoTask
            BY <1>5, <3>1 DEF KeyboardHandler, AddScancode, WakeRegistered, Queued
        <3>2. CASE scanInit /\ waker = Shell
            <4>1. ~Booting /\ WakeTask(Shell) /\ UNCHANGED <<tasks, cur, pc>>
                BY <1>5, <3>2
                DEF KeyboardHandler, AddScancode, WakeRegistered, SpawnInv, TaskIds
            <4>2. PICK S \in SUBSET TaskIds : Fits(S)
                BY <4>1 DEF SpawnInv
            <4>3. Shell \in S
                BY <4>2 DEF Fits
            <4>4. (\A v : Queued(v) => Queued(v)') /\ lost' = lost
                BY <4>1, <4>2, <4>3, WakeTaskEffect
            <4> QED BY <4>1, <4>4
        <3> QED BY <3>1, <3>2 DEF TypeOK
    <2> QED BY <2>1 DEF YieldersInRotation
<1>6. CASE \/ Run \/ PopEmpty \/ Disable \/ SleepIfIdle \/ ShellStep
           \/ TimerHandler \/ TypeKey \/ UNCHANGED vars
    <2>1. UNCHANGED <<tasks, taskQueue, lost>> /\ pc # "panic"
          /\ (cur' = cur \/ cur = Shell)
        BY <1>6 DEF Run, PopEmpty, Disable, SleepIfIdle, ShellStep, StreamNew,
                    PollNextFirst, Register, PollNextSecond, TakeWaker, HandleKey,
                    PrintDone, TimerHandler, TypeKey, vars, PcInv, ShellPcs
    <2> QED BY <2>1 DEF YieldersInRotation, Queued
<1> QED BY <1>1, <1>2, <1>3, <1>4, <1>5, <1>6 DEF Next, CpuStep

-----------------------------------------------------------------------------
\* The invariant holds throughout the run of the kernel: one case per handler
\* and per step of run, spawn and poll_next.
THEOREM Inductive == Spec => []IndInv
<1>1. Init => IndInv
    BY InitInd
<1>2. IndInv /\ [Next]_vars => IndInv'
    BY NextInd
<1> QED BY <1>1, <1>2, PTL DEF Spec

\* Every variable of the executor keeps its type; in particular the run queue
\* and the scancode queue stay within their capacities.
THEOREM TypeCorrect == Spec => []TypeOK
<1>1. IndInv => TypeOK
    BY DEF IndInv
<1> QED BY <1>1, Inductive, PTL

\* The CPU never executes hlt, and never stays in it, with a task to run or a
\* scancode to read.
THEOREM NeverSleepsWithWork == Spec => []NoSleepWithWork
<1>1. IndInv => NoSleepWithWork
    BY IndInvImplies
<1> QED BY <1>1, Inductive, PTL

\* No interleaving of the handlers with poll_next leaves the shell out of the
\* run queue and out of the AtomicWaker with a scancode waiting.
THEOREM ShellAlwaysScheduled == Spec => []ShellWillBePolled
<1>1. IndInv => ShellWillBePolled
    BY DEF IndInv
<1> QED BY <1>1, Inductive, PTL

\* The wake-ups that wake_task drops on a full run queue are never the shell's.
THEOREM ShellWakeNeverDropped == Spec => []ShellNeverLost
<1>1. IndInv => ShellNeverLost
    BY DEF IndInv
<1> QED BY <1>1, Inductive, PTL

\* run_ready_tasks forgets no task but one that has completed or whose
\* wake-up a full run queue dropped.
THEOREM NoYielderForgotten == Spec => []YieldersInRotation
<1>1. Init => YieldersInRotation
    BY DEF Init, YieldersInRotation
<1>2. IndInv /\ YieldersInRotation /\ [Next]_vars => YieldersInRotation'
    BY RotationStep
<1> QED BY <1>1, <1>2, Inductive, PTL DEF Spec
-----------------------------------------------------------------------------
(* The path of a key: the keys stay in the order they were typed, and each *)
(* step of the handlers, of the executor and of the shell is a step of     *)
(* LossyFifo or leaves its variables alone.                                *)

\* Keys that have left the controller.
Offered == typed - Len(kbd)

Increasing(q) == \A i, j \in DOMAIN q : i < j => q[i] < q[j]
Below(p, q) == \A i \in DOMAIN p, j \in DOMAIN q : p[i] < q[j]
UpTo(q, n) == \A i \in DOMAIN q : q[i] <= n

\* The controller holds the last keys typed, one by one; what has left it
\* comes before them, and SCANCODE_QUEUE is empty until it exists.
KeyInv ==
    /\ typed <= MaxKeys /\ Len(kbd) <= typed
    /\ \A i \in DOMAIN kbd : kbd[i] = Offered + i
    /\ UpTo(scanQueue, Offered) /\ UpTo(consumed, Offered)
    /\ Increasing(scanQueue) /\ Increasing(consumed)
    /\ Below(consumed, scanQueue)
    /\ ~scanInit => scanQueue = <<>>

-----------------------------------------------------------------------------
(* The three operations on a queue of keys.                                *)

\* Appending a key above all others.
LEMMA AppendKey ==
    ASSUME NEW q \in Seq(Nat), NEW x \in Nat, Increasing(q),
           \A i \in DOMAIN q : q[i] < x
    PROVE  /\ Append(q, x) \in Seq(Nat) /\ Increasing(Append(q, x))
           /\ UpTo(Append(q, x), x)
           /\ \A i \in DOMAIN Append(q, x) :
                 IF i \in DOMAIN q THEN Append(q, x)[i] = q[i]
                                   ELSE Append(q, x)[i] = x
<1> DEFINE r == Append(q, x)
<1>1. r \in Seq(Nat) /\ DOMAIN r = 1..(Len(q) + 1) /\ DOMAIN q = 1..Len(q)
      /\ Len(q) \in Nat
    OBVIOUS
<1>2. \A i \in DOMAIN r : r[i] = IF i \in DOMAIN q THEN q[i] ELSE x
    OBVIOUS
<1>3. \A i \in DOMAIN q : q[i] \in Nat
    OBVIOUS
<1> HIDE DEF r
<1>4. Increasing(r)
    BY <1>1, <1>2, <1>3 DEF Increasing
<1>5. UpTo(r, x)
    BY <1>1, <1>2, <1>3 DEF UpTo
<1> QED BY <1>1, <1>2, <1>4, <1>5 DEF r

\* Taking the oldest key out.
LEMMA TakeKey ==
    ASSUME NEW q \in Seq(Nat), q # <<>>, Increasing(q)
    PROVE  /\ Head(q) \in Nat /\ Tail(q) \in Seq(Nat)
           /\ Len(q) > 0 /\ Len(Tail(q)) = Len(q) - 1
           /\ Head(q) = q[1] /\ 1 \in DOMAIN q
           /\ Increasing(Tail(q))
           /\ \A i \in DOMAIN Tail(q) :
                 /\ i + 1 \in DOMAIN q /\ Tail(q)[i] = q[i + 1]
                 /\ Head(q) < Tail(q)[i]
<1> DEFINE r == Tail(q)
<1>1. /\ r \in Seq(Nat) /\ DOMAIN r = 1..(Len(q) - 1) /\ DOMAIN q = 1..Len(q)
      /\ Len(q) \in Nat /\ Len(q) > 0 /\ Len(r) = Len(q) - 1
      /\ Head(q) = q[1]
    OBVIOUS
<1>2. \A i \in DOMAIN r : r[i] = q[i + 1]
    OBVIOUS
<1>3. \A i \in DOMAIN q : q[i] \in Nat
    OBVIOUS
<1> HIDE DEF r
<1>4. \A i \in DOMAIN r : i \in Nat /\ i + 1 \in DOMAIN q /\ i + 1 > 1
    BY <1>1, SMTT(30)
<1>5. Increasing(r)
    BY <1>2, <1>4 DEF Increasing
<1>6. 1 \in DOMAIN q
    BY <1>1
<1>7. \A i \in DOMAIN r : q[1] < r[i]
    BY <1>2, <1>4, <1>6 DEF Increasing
<1> QED BY <1>1, <1>2, <1>3, <1>4, <1>5, <1>6, <1>7 DEF r

\* Two queues of which one comes before the other, as one sequence.
LEMMA JoinKeys ==
    ASSUME NEW p \in Seq(Nat), NEW q \in Seq(Nat),
           Increasing(p), Increasing(q), Below(p, q)
    PROVE  /\ p \o q \in Seq(Nat) /\ Increasing(p \o q)
           /\ \A i \in DOMAIN (p \o q) :
                 \/ \E j \in DOMAIN p : (p \o q)[i] = p[j]
                 \/ \E j \in DOMAIN q : (p \o q)[i] = q[j]
<1> DEFINE r == p \o q
<1>1. /\ r \in Seq(Nat) /\ DOMAIN r = 1..(Len(p) + Len(q))
      /\ DOMAIN p = 1..Len(p) /\ DOMAIN q = 1..Len(q)
      /\ Len(p) \in Nat /\ Len(q) \in Nat
    OBVIOUS
<1>2. \A i \in DOMAIN r : r[i] = IF i <= Len(p) THEN p[i] ELSE q[i - Len(p)]
    OBVIOUS
<1> HIDE DEF r
<1>3. \A i \in DOMAIN r : \/ i <= Len(p) /\ i \in DOMAIN p /\ r[i] = p[i]
                          \/ i > Len(p) /\ i - Len(p) \in DOMAIN q
                                /\ r[i] = q[i - Len(p)]
    BY <1>1, <1>2
<1>4. Increasing(r)
    <2> SUFFICES ASSUME NEW i \in DOMAIN r, NEW j \in DOMAIN r, i < j
                 PROVE  r[i] < r[j]
        BY DEF Increasing
    <2>1. i \in Nat /\ j \in Nat
        BY <1>1
    <2>2. CASE j <= Len(p)
        <3>1. i \in DOMAIN p /\ j \in DOMAIN p /\ r[i] = p[i] /\ r[j] = p[j]
            BY <1>1, <1>2, <2>1, <2>2
        <3> QED BY <3>1 DEF Increasing
    <2>3. CASE i <= Len(p) /\ j > Len(p)
        <3>1. i \in DOMAIN p /\ j - Len(p) \in DOMAIN q
            BY <1>1, <2>1, <2>3, SMTT(30)
        <3>2. r[i] = p[i] /\ r[j] = q[j - Len(p)]
            BY <1>1, <1>2, <2>1, <2>3
        <3> QED BY <3>1, <3>2 DEF Below
    <2>4. CASE i > Len(p)
        <3>0. j > Len(p) /\ i - Len(p) < j - Len(p)
            BY <1>1, <2>1, <2>4
        <3>1. i - Len(p) \in DOMAIN q /\ j - Len(p) \in DOMAIN q
            BY <1>1, <2>1, <2>4, <3>0, SMTT(30)
        <3>2. r[i] = q[i - Len(p)] /\ r[j] = q[j - Len(p)]
            BY <1>1, <1>2, <2>1, <2>4
        <3> QED BY <3>0, <3>1, <3>2 DEF Increasing
    <2> QED BY <1>1, <2>1, <2>2, <2>3, <2>4
<1> QED BY <1>1, <1>3, <1>4 DEF r
-----------------------------------------------------------------------------
(* The invariant, and LossyFifo step by step.                              *)

\* A step of poll_next that takes the oldest scancode, or leaves the keys alone.
Takes ==
    /\ scanQueue # <<>>
    /\ scanQueue' = Tail(scanQueue)
    /\ consumed' = Append(consumed, Head(scanQueue))

\* What each step does to a key, one of five things.
LEMMA KeySteps ==
    ASSUME TypeOK, [Next]_vars
    PROVE  \/ UNCHANGED <<scanInit, scanQueue, consumed, typed, kbd>>
           \/ Takes /\ UNCHANGED <<scanInit, typed, kbd>>
           \/ scanInit' = TRUE /\ UNCHANGED <<scanQueue, consumed, typed, kbd>>
           \/ TypeKey /\ UNCHANGED <<scanInit, scanQueue, consumed>>
           \/ /\ kbd # <<>> /\ kbd' = Tail(kbd)
              /\ scanQueue' = IF scanInit THEN Push(scanQueue, SCap, Head(kbd))
                                          ELSE scanQueue
              /\ UNCHANGED <<scanInit, consumed, typed>>
<1> USE DEF execVars, keyVars, cpuVars, envVars, histVars
<1>1. CASE TypeKey
    BY <1>1 DEF TypeKey
<1>2. CASE KeyboardHandler
    BY <1>2 DEF KeyboardHandler, AddScancode, TypeOK
<1>3. CASE StreamNew
    BY <1>3 DEF StreamNew
<1>4. CASE PollNextFirst
    BY <1>4 DEF PollNextFirst, Takes
<1>5. CASE PollNextSecond
    BY <1>5 DEF PollNextSecond, Takes
<1>6. ASSUME NEW t \in TaskIds, Spawn(t) \/ SpawnPanic(t)
      PROVE  UNCHANGED <<scanInit, scanQueue, consumed, typed, kbd>>
    BY <1>6 DEF Spawn, SpawnPanic
<1>7. ASSUME NEW wakes \in BOOLEAN, NEW ready \in BOOLEAN,
             PollYielder(wakes, ready)
      PROVE  UNCHANGED <<scanInit, scanQueue, consumed, typed, kbd>>
    BY <1>7 DEF PollYielder
<1>8. CASE \/ Run \/ PopTask \/ PopEmpty \/ Disable \/ SleepIfIdle \/ TimerHandler
           \/ Register \/ TakeWaker \/ HandleKey \/ PrintDone \/ UNCHANGED vars
    BY <1>8 DEF Run, PopTask, PopEmpty, Disable, SleepIfIdle, TimerHandler,
                Register, TakeWaker, HandleKey, PrintDone, vars
<1> QED BY <1>1, <1>2, <1>3, <1>4, <1>5, <1>6, <1>7, <1>8
        DEF Next, CpuStep, ShellStep

\* A key leaves the controller: it is the next one in the order of typing, and
\* the rest still are the last ones typed.
LEMMA OfferKey ==
    ASSUME TypeOK, KeyInv, kbd # <<>>, kbd' = Tail(kbd), typed' = typed
    PROVE  /\ Head(kbd) = Offered + 1 /\ Offered' = Offered + 1
           /\ Offered \in Nat /\ Offered < MaxKeys
           /\ Len(kbd') <= typed'
           /\ \A i \in DOMAIN kbd' : kbd'[i] = Offered' + i
<1>1. typed \in Nat /\ kbd \in Seq(Nat)
    BY DEF TypeOK
<1>2. /\ Len(kbd) \in Nat /\ Len(kbd) > 0 /\ Len(kbd') = Len(kbd) - 1
      /\ Head(kbd) = kbd[1] /\ 1 \in DOMAIN kbd
      /\ \A i \in DOMAIN kbd' : i \in Nat /\ i + 1 \in DOMAIN kbd
                                   /\ kbd'[i] = kbd[i + 1]
    BY <1>1
<1>3. Offered' = Offered + 1 /\ Offered \in Nat
    BY <1>1, <1>2 DEF KeyInv, Offered
<1>4. Offered < MaxKeys
    BY <1>1, <1>2, ExecutorAssumption DEF KeyInv, Offered
<1>5. \A i \in DOMAIN kbd' : kbd'[i] = Offered' + i
    <2> SUFFICES ASSUME NEW i \in DOMAIN kbd' PROVE kbd'[i] = Offered' + i
        OBVIOUS
    <2>1. kbd'[i] = Offered + (i + 1) /\ i \in Nat
        BY <1>2 DEF KeyInv
    <2> QED BY <1>3, <2>1
<1>6. Head(kbd) = Offered + 1
    BY <1>2 DEF KeyInv
<1> QED BY <1>1, <1>2, <1>3, <1>4, <1>5, <1>6 DEF KeyInv

\* One case for each thing that can happen to a key.
LEMMA KeyInvStep ==
    ASSUME TypeOK, KeyInv, [Next]_vars
    PROVE  KeyInv'
<1>0. /\ scanQueue \in Seq(Nat) /\ consumed \in Seq(Nat) /\ kbd \in Seq(Nat)
      /\ typed \in Nat /\ MaxKeys \in Nat /\ Offered \in Nat
    BY ExecutorAssumption DEF TypeOK, KeyInv, Offered
<1>1. CASE UNCHANGED <<scanInit, scanQueue, consumed, typed, kbd>>
    BY <1>1 DEF KeyInv, Offered, UpTo, Increasing, Below
<1>2. CASE Takes /\ UNCHANGED <<scanInit, typed, kbd>>
    <2> DEFINE x == Head(scanQueue)
    <2>1. /\ x \in Nat /\ x = scanQueue[1] /\ 1 \in DOMAIN scanQueue
          /\ Increasing(scanQueue')
          /\ \A i \in DOMAIN scanQueue' :
                /\ i + 1 \in DOMAIN scanQueue
                /\ scanQueue'[i] = scanQueue[i + 1]
                /\ x < scanQueue'[i]
        BY <1>0, <1>2, TakeKey DEF Takes, KeyInv
    <2>2. \A i \in DOMAIN consumed : consumed[i] < x
        BY <2>1 DEF KeyInv, Below
    <2>3. /\ Increasing(consumed')
          /\ \A i \in DOMAIN consumed' :
                IF i \in DOMAIN consumed THEN consumed'[i] = consumed[i]
                                         ELSE consumed'[i] = x
        <3> HIDE DEF x
        <3>1. consumed' = Append(consumed, x) /\ Increasing(consumed)
            BY <1>2 DEF Takes, x, KeyInv
        <3> QED BY <1>0, <2>1, <2>2, <3>1, AppendKey
    <2>4. Offered' = Offered /\ x <= Offered
        BY <1>2, <2>1 DEF Offered, KeyInv, UpTo
    <2>5. UpTo(scanQueue', Offered') /\ UpTo(consumed', Offered')
        BY <2>1, <2>3, <2>4 DEF KeyInv, UpTo
    <2>6. Below(consumed', scanQueue')
        BY <2>1, <2>3 DEF KeyInv, Below
    <2>7. scanInit'
        BY <1>2 DEF Takes, KeyInv
    <2> QED BY <1>2, <2>1, <2>3, <2>4, <2>5, <2>6, <2>7 DEF KeyInv
<1>3. CASE scanInit' = TRUE /\ UNCHANGED <<scanQueue, consumed, typed, kbd>>
    BY <1>3 DEF KeyInv, Offered, UpTo, Increasing, Below
<1>4. CASE TypeKey /\ UNCHANGED <<scanInit, scanQueue, consumed>>
    <2>1. typed' = typed + 1 /\ kbd' = Append(kbd, typed + 1) /\ typed < MaxKeys
        BY <1>4 DEF TypeKey
    <2>2. /\ Len(kbd') = Len(kbd) + 1 /\ Len(kbd) \in Nat
          /\ \A i \in DOMAIN kbd' :
               \/ i \in DOMAIN kbd /\ kbd'[i] = kbd[i]
               \/ i = Len(kbd) + 1 /\ kbd'[i] = typed + 1
        BY <1>0, <2>1
    <2>3. Offered' = Offered
        BY <1>0, <2>1, <2>2 DEF Offered
    <2>4. \A i \in DOMAIN kbd' : kbd'[i] = Offered' + i
        <3>1. Offered + (Len(kbd) + 1) = typed + 1
            BY <1>0, <2>2 DEF Offered
        <3> QED BY <2>2, <2>3, <3>1 DEF KeyInv
    <2>5. typed' <= MaxKeys /\ Len(kbd') <= typed'
        BY <1>0, <2>1, <2>2 DEF KeyInv
    <2> QED BY <1>4, <2>3, <2>4, <2>5 DEF KeyInv, UpTo, Increasing, Below
<1>5. CASE /\ kbd # <<>> /\ kbd' = Tail(kbd)
           /\ scanQueue' = IF scanInit THEN Push(scanQueue, SCap, Head(kbd))
                                       ELSE scanQueue
           /\ UNCHANGED <<scanInit, consumed, typed>>
    <2>1. /\ Head(kbd) = Offered + 1 /\ Offered' = Offered + 1
          /\ Len(kbd') <= typed'
          /\ \A i \in DOMAIN kbd' : kbd'[i] = Offered' + i
        BY <1>5, OfferKey
    <2>2. /\ \A i \in DOMAIN scanQueue : scanQueue[i] \in Nat
          /\ \A i \in DOMAIN consumed : consumed[i] \in Nat
        BY <1>0
    <2>3. UpTo(consumed', Offered') /\ Increasing(consumed')
        BY <1>0, <1>5, <2>1, <2>2 DEF KeyInv, UpTo, Increasing
    <2>4. CASE scanQueue' = scanQueue
        <3>1. UpTo(scanQueue', Offered') /\ Increasing(scanQueue')
              /\ Below(consumed', scanQueue')
            BY <1>0, <1>5, <2>1, <2>2, <2>4, SMTT(30) DEF KeyInv, UpTo, Increasing, Below
        <3> QED BY <1>5, <2>1, <2>3, <2>4, <3>1 DEF KeyInv
    <2>5. CASE scanInit /\ scanQueue' = Append(scanQueue, Offered + 1)
        <3>1. \A i \in DOMAIN scanQueue : scanQueue[i] < Offered + 1
            BY <1>0, <2>2 DEF KeyInv, UpTo
        <3>2. \A i \in DOMAIN consumed : consumed[i] < Offered + 1
            BY <1>0, <2>2 DEF KeyInv, UpTo
        <3>3. /\ Increasing(scanQueue') /\ UpTo(scanQueue', Offered + 1)
              /\ \A i \in DOMAIN scanQueue' :
                    IF i \in DOMAIN scanQueue THEN scanQueue'[i] = scanQueue[i]
                                              ELSE scanQueue'[i] = Offered + 1
            BY <1>0, <2>5, <3>1, AppendKey DEF KeyInv
        <3>4. Below(consumed', scanQueue')
            BY <1>5, <3>2, <3>3 DEF KeyInv, Below
        <3> QED BY <1>5, <2>1, <2>3, <2>5, <3>3, <3>4 DEF KeyInv
    <2> QED BY <1>5, <2>1, <2>4, <2>5 DEF Push
<1> QED BY <1>1, <1>2, <1>3, <1>4, <1>5, KeySteps

\* The three stretches of the path follow each other.
LEMMA KeyInvOrder == TypeOK /\ KeyInv => KeysInOrder
<1> SUFFICES ASSUME TypeOK, KeyInv PROVE KeysInOrder
    OBVIOUS
<1>0. /\ scanQueue \in Seq(Nat) /\ consumed \in Seq(Nat) /\ kbd \in Seq(Nat)
      /\ Offered \in Nat
    BY DEF TypeOK, KeyInv, Offered
<1> DEFINE r == consumed \o scanQueue
<1>1. /\ r \in Seq(Nat) /\ Increasing(r)
      /\ \A i \in DOMAIN r : \/ \E j \in DOMAIN consumed : r[i] = consumed[j]
                             \/ \E j \in DOMAIN scanQueue : r[i] = scanQueue[j]
    BY <1>0, JoinKeys DEF KeyInv
<1> HIDE DEF r
<1>2. \A i \in DOMAIN kbd : i \in Nat /\ i > 0 /\ kbd[i] = Offered + i
    BY <1>0 DEF KeyInv
<1>3. Increasing(kbd)
    BY <1>0, <1>2 DEF Increasing
<1>4. \A i \in DOMAIN r : r[i] \in Nat /\ r[i] <= Offered
    BY <1>1 DEF KeyInv, UpTo
<1>5. Below(r, kbd)
    BY <1>0, <1>2, <1>4 DEF Below
<1>6. Increasing(r \o kbd)
    BY <1>0, <1>1, <1>3, <1>5, JoinKeys
<1> QED BY <1>6 DEF KeysInOrder, Increasing, r

\* The invariant in every reachable state.
LEMMA KeysInductive == Spec => [](TypeOK /\ KeyInv)
<1>1. Init => KeyInv
    BY ExecutorAssumption DEF Init, KeyInv, Offered, UpTo, Increasing, Below
<1>2. TypeOK /\ KeyInv /\ [Next]_vars => KeyInv'
    BY KeyInvStep
<1> QED BY <1>1, <1>2, TypeCorrect, PTL DEF Spec

\* No interrupt, no full queue and no order of pops and pushes makes two keys
\* change places, or the shell see one twice.
THEOREM KeysStayInOrder == Spec => []KeysInOrder
<1>1. TypeOK /\ KeyInv => KeysInOrder
    BY KeyInvOrder
<1> QED BY <1>1, KeysInductive, PTL

-----------------------------------------------------------------------------
\* A step of the kernel is a step of the FIFO or none of its business.
LEMMA FifoStep ==
    ASSUME TypeOK, KeyInv, [Next]_vars
    PROVE  [Fifo!FifoNext]_(Fifo!fifoVars)
<1> USE DEF Fifo!FifoNext, Fifo!fifoVars
<1>0. /\ scanQueue \in Seq(Nat) /\ kbd \in Seq(Nat) /\ typed \in Nat
      /\ Len(scanQueue) <= SCap /\ SCap \in Nat
    BY ExecutorAssumption DEF TypeOK
<1>1. CASE UNCHANGED <<scanInit, scanQueue, consumed, typed, kbd>>
    BY <1>1
<1>2. CASE Takes /\ UNCHANGED <<scanInit, typed, kbd>>
    BY <1>2 DEF Takes, Fifo!Deliver
<1>3. CASE scanInit' = TRUE /\ UNCHANGED <<scanQueue, consumed, typed, kbd>>
    BY <1>3 DEF Fifo!Open, TypeOK
<1>4. CASE TypeKey /\ UNCHANGED <<scanInit, scanQueue, consumed>>
    <2>1. typed' - Len(kbd') = typed - Len(kbd)
        BY <1>0, <1>4 DEF TypeKey
    <2> QED BY <1>4, <2>1
<1>5. CASE /\ kbd # <<>> /\ kbd' = Tail(kbd)
           /\ scanQueue' = IF scanInit THEN Push(scanQueue, SCap, Head(kbd))
                                       ELSE scanQueue
           /\ UNCHANGED <<scanInit, consumed, typed>>
    <2>1. /\ Head(kbd) = Offered + 1 /\ Offered' = Offered + 1
          /\ Offered < MaxKeys
        BY <1>5, OfferKey
    <2>2. CASE scanInit /\ Len(scanQueue) < SCap
        BY <1>5, <2>1, <2>2 DEF Fifo!Accept, Push, Offered
    <2>3. CASE ~(scanInit /\ Len(scanQueue) < SCap)
        <3>1. ~scanInit \/ Len(scanQueue) = SCap
            BY <1>0, <2>3
        <3>2. scanQueue' = scanQueue
            BY <1>5, <2>3 DEF Push
        <3> QED BY <1>5, <2>1, <3>1, <3>2 DEF Fifo!Drop, Offered
    <2> QED BY <2>2, <2>3
<1> QED BY <1>1, <1>2, <1>3, <1>4, <1>5, KeySteps

\* The keyboard path implements the safety part of LossyFifo: a key is lost
\* only at the producer's end, and only while SCANCODE_QUEUE does not exist
\* or is full; what has been accepted is delivered in order, once.
THEOREM KeysPassAFifo ==
    Spec => Fifo!FifoInit /\ [][Fifo!FifoNext]_(Fifo!fifoVars)
<1>1. Init => Fifo!FifoInit
    <2> SUFFICES ASSUME Init PROVE Fifo!FifoInit
        OBVIOUS
    <2>1. typed - Len(kbd) = 0
        <3>1. Len(kbd) = 0 /\ typed = 0
            BY DEF Init
        <3> QED BY <3>1
    <2>2. scanInit = FALSE /\ scanQueue = <<>> /\ consumed = <<>>
        BY DEF Init
    <2> QED BY <2>1, <2>2 DEF Fifo!FifoInit
<1>2. TypeOK /\ KeyInv /\ [Next]_vars => [Fifo!FifoNext]_(Fifo!fifoVars)
    BY FifoStep
<1> QED BY <1>1, <1>2, KeysInductive, PTL DEF Spec
=============================================================================
