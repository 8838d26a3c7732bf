------------------------------ MODULE Executor ------------------------------
(***************************************************************************)
(* The waker-driven async executor (kernel/src/task/executor.rs), the      *)
(* keyboard stream it serves (kernel/src/task/keyboard.rs) and the timer   *)
(* and keyboard interrupt handlers (kernel/src/interrupts.rs) that cut     *)
(* into it.                                                                *)
(*                                                                         *)
(* There is one CPU.  An interrupt handler runs through an interrupt gate, *)
(* with IF = 0, so it is one atomic step; every other step below can be    *)
(* followed by an interrupt as long as IF = 1.  The steps of the CPU are   *)
(* cut wherever the code touches a structure that a handler also touches:  *)
(* the run queue, the scancode queue, the AtomicWaker, IF itself.          *)
(*                                                                         *)
(* Keys are numbered in the order they are typed, so that losing one and   *)
(* reordering two are different things.                                    *)
(***************************************************************************)
EXTENDS Integers, Sequences, FiniteSets

CONSTANTS
    QCap,       \* capacity of Executor::task_queue (100 in the code)
    SCap,       \* capacity of SCANCODE_QUEUE (100 in the code)
    Shell,      \* the id of the shell_loop task
    Yielders,   \* ids of tasks that wake themselves before they return Pending
    NoTask,     \* an empty AtomicWaker; no task being polled
    MaxKeys     \* bound: how many scancodes the user types

ASSUME ExecutorAssumption ==
    /\ QCap \in Nat \ {0}
    /\ SCap \in Nat \ {0}
    /\ MaxKeys \in Nat
    /\ IsFiniteSet(Yielders)
    /\ Shell \notin Yielders
    /\ NoTask \notin Yielders \cup {Shell}

TaskIds == Yielders \cup {Shell}

VARIABLES
    tasks,      \* Executor::tasks, the ids of the live tasks
    taskQueue,  \* Executor::task_queue
    wakerCache, \* Executor::waker_cache, ids with a cached waker
    scanInit,   \* SCANCODE_QUEUE has been initialised
    scanQueue,  \* SCANCODE_QUEUE
    waker,      \* WAKER, the AtomicWaker: the id it would wake, or NoTask
    iflag,      \* RFLAGS.IF
    halted,     \* the CPU sits in hlt
    pc, cur,    \* where the CPU is, and the task it polls
    typed,      \* number of scancodes the user has typed
    kbd,        \* scancodes in the 8042 keyboard controller
    consumed,   \* history: scancodes the shell has taken, in order
    lost        \* history: tasks whose wake-up a full run queue dropped

execVars == <<tasks, taskQueue, wakerCache, pc, cur>>
keyVars  == <<scanInit, scanQueue, waker>>
cpuVars  == <<iflag, halted>>
envVars  == <<typed, kbd>>
histVars == <<consumed, lost>>
vars     == <<execVars, keyVars, cpuVars, envVars, histVars>>

\* The places in shell_loop's poll: every one of them is followed by another
\* look at the scancode queue before the poll can return Pending.
ShellPcs == {"new", "first", "register", "second", "take", "handle", "print"}
Pcs == ShellPcs \cup {"spawn", "panic", "pop", "yield", "disable", "check"}

Init ==
    /\ tasks = {} /\ taskQueue = <<>> /\ wakerCache = {}
    /\ scanInit = FALSE /\ scanQueue = <<>> /\ waker = NoTask
    /\ iflag = TRUE /\ halted = FALSE        \* interrupts::init ends in sti
    /\ pc = "spawn" /\ cur = NoTask
    /\ typed = 0 /\ kbd = <<>>
    /\ consumed = <<>> /\ lost = {}

\* The CPU is at p and not in hlt.
At(p) == pc = p /\ ~halted

Queued(t) == \E i \in DOMAIN taskQueue : taskQueue[i] = t

-----------------------------------------------------------------------------
(* The parts the steps below are made of.                                  *)

(* An operator named Bug... is a mutant of the definition that follows it: *)
(* no action uses it.                                                      *)

\* Capacity one too large, one too small; evict the oldest instead of failing.
BugPushOneMore(q, cap, x) == IF Len(q) <= cap THEN Append(q, x) ELSE q
BugPushOneLess(q, cap, x) == IF Len(q) + 1 < cap THEN Append(q, x) ELSE q
BugPushEvicts(q, cap, x) ==
    IF Len(q) < cap THEN Append(q, x) ELSE Append(Tail(q), x)

\* crossbeam's ArrayQueue::push: Err, and nothing stored, when full.
Push(q, cap, x) == IF Len(q) < cap THEN Append(q, x) ELSE q

\* TaskWaker::wake_task: the push is best effort, its Err is ignored.
WakeTask(t) ==
    LET q == Push(taskQueue, QCap, t) IN
    /\ taskQueue' = q
    /\ lost' = IF q = taskQueue /\ ~Queued(t) THEN lost \cup {t} ELSE lost

\* AtomicWaker::wake: take whatever is registered and wake it.
WakeRegistered ==
    /\ waker' = NoTask
    /\ IF waker = NoTask THEN UNCHANGED <<taskQueue, lost>>
                         ELSE WakeTask(waker)

\* add_scancode: nothing at all before ScancodeStream::new has run.
AddScancode(s) ==
    IF scanInit
    THEN /\ scanQueue' = Push(scanQueue, SCap, s)
         /\ WakeRegistered
         /\ UNCHANGED <<scanInit>>
    ELSE UNCHANGED <<keyVars, taskQueue, lost>>

-----------------------------------------------------------------------------
(* The environment and the interrupt handlers.                             *)

TypeKey ==
    /\ typed < MaxKeys
    /\ typed' = typed + 1
    /\ kbd' = Append(kbd, typed + 1)
    /\ UNCHANGED <<execVars, keyVars, cpuVars, histVars>>

KeyboardHandler ==
    /\ iflag /\ pc # "panic"
    /\ kbd # <<>>
    /\ kbd' = Tail(kbd)
    /\ AddScancode(Head(kbd))
    /\ halted' = FALSE
    /\ UNCHANGED <<tasks, wakerCache, pc, cur, iflag, typed, consumed>>

\* The tick counter is never read by the kernel: what a tick does to the
\* executor is to end a hlt.
TimerHandler ==
    /\ iflag /\ pc # "panic"
    /\ halted' = FALSE
    /\ UNCHANGED <<execVars, keyVars, iflag, envVars, histVars>>

-----------------------------------------------------------------------------
(* Executor::spawn and Executor::run.                                      *)

Spawn(t) ==
    /\ At("spawn") /\ t \notin tasks
    /\ Len(taskQueue) < QCap
    /\ tasks' = tasks \cup {t}
    /\ taskQueue' = Append(taskQueue, t)
    /\ UNCHANGED <<wakerCache, pc, cur, keyVars, cpuVars, envVars, histVars>>

\* The Err of the push is ignored.
BugSpawnIgnoresFull(t) ==
    /\ At("spawn") /\ t \notin tasks
    /\ Len(taskQueue) = QCap
    /\ tasks' = tasks \cup {t}
    /\ UNCHANGED <<taskQueue, wakerCache, pc, cur, keyVars, cpuVars, envVars,
                   histVars>>

\* "task queue full": the task is already in the map when expect panics.
SpawnPanic(t) ==
    /\ At("spawn") /\ t \notin tasks
    /\ Len(taskQueue) = QCap
    /\ tasks' = tasks \cup {t}
    /\ pc' = "panic"
    /\ UNCHANGED <<taskQueue, wakerCache, cur, keyVars, cpuVars, envVars,
                   histVars>>

\* run is called once all the tasks the kernel wants have been spawned: the
\* shell and any others.
Run ==
    /\ At("spawn") /\ Shell \in tasks
    /\ pc' = "pop"
    /\ UNCHANGED <<tasks, taskQueue, wakerCache, cur, keyVars, cpuVars,
                   envVars, histVars>>

\* The run queue served last in, first out.
BugPopNewest ==
    /\ At("pop") /\ taskQueue # <<>>
    /\ taskQueue' = SubSeq(taskQueue, 1, Len(taskQueue) - 1)
    /\ LET t == taskQueue[Len(taskQueue)] IN
         IF t \in tasks
         THEN /\ cur' = t
              /\ wakerCache' = wakerCache \cup {t}
              /\ pc' = CASE t # Shell -> "yield"
                         [] t = Shell /\ ~scanInit -> "new"
                         [] OTHER -> "first"
         ELSE UNCHANGED <<cur, wakerCache, pc>>
    /\ UNCHANGED <<tasks, keyVars, cpuVars, envVars, histVars>>

\* The while-let of run_ready_tasks up to the call of poll.  The id of a task
\* that has finished is skipped.
PopTask ==
    /\ At("pop") /\ taskQueue # <<>>
    /\ taskQueue' = Tail(taskQueue)
    /\ LET t == Head(taskQueue) IN
         IF t \in tasks
         THEN /\ cur' = t
              /\ wakerCache' = wakerCache \cup {t}
              /\ pc' = CASE t # Shell -> "yield"
                         [] t = Shell /\ ~scanInit -> "new"
                         [] OTHER -> "first"
         ELSE UNCHANGED <<cur, wakerCache, pc>>
    /\ UNCHANGED <<tasks, keyVars, cpuVars, envVars, histVars>>

PopEmpty ==
    /\ At("pop") /\ taskQueue = <<>>
    /\ pc' = "disable"
    /\ UNCHANGED <<tasks, taskQueue, wakerCache, cur, keyVars, cpuVars,
                   envVars, histVars>>

\* sleep_if_idle, interrupts::disable().
Disable ==
    /\ At("disable")
    /\ iflag' = FALSE
    /\ pc' = "check"
    /\ UNCHANGED <<tasks, taskQueue, wakerCache, cur, keyVars, halted,
                   envVars, histVars>>

\* hlt without the double check.
BugSleepUnchecked ==
    /\ At("check")
    /\ iflag' = TRUE
    /\ halted' = TRUE
    /\ pc' = "pop"
    /\ UNCHANGED <<tasks, taskQueue, wakerCache, cur, keyVars, envVars,
                   histVars>>

\* sleep_if_idle after the cli: the look at the queue cannot be interrupted,
\* and sti; hlt lets no interrupt in between its two instructions.
SleepIfIdle ==
    /\ At("check")
    /\ iflag' = TRUE
    /\ halted' = (taskQueue = <<>>)
    /\ pc' = "pop"
    /\ UNCHANGED <<tasks, taskQueue, wakerCache, cur, keyVars, envVars,
                   histVars>>

-----------------------------------------------------------------------------
(* The polls.                                                              *)

\* poll of a task other than the shell: it wakes itself and returns Pending,
\* or returns Ready (having woken itself or not), whereupon the executor
\* forgets it; an id it left in the run queue is then stale.
PollYielder(wakes, ready) ==
    /\ At("yield")
    /\ wakes \/ ready
    /\ IF wakes THEN WakeTask(cur) ELSE UNCHANGED <<taskQueue, lost>>
    /\ IF ready THEN /\ tasks' = tasks \ {cur}
                     /\ wakerCache' = wakerCache \ {cur}
                ELSE UNCHANGED <<tasks, wakerCache>>
    /\ cur' = NoTask
    /\ pc' = "pop"
    /\ UNCHANGED <<keyVars, cpuVars, envVars, consumed>>

\* First poll of shell_loop: ScancodeStream::new.
StreamNew ==
    /\ At("new")
    /\ scanInit' = TRUE
    /\ pc' = "first"
    /\ UNCHANGED <<tasks, taskQueue, wakerCache, cur, scanQueue, waker,
                   cpuVars, envVars, histVars>>

\* The scancode is read but left in the queue.
BugPeekFirst ==
    /\ At("first")
    /\ IF scanQueue # <<>>
       THEN consumed' = Append(consumed, Head(scanQueue)) /\ pc' = "handle"
       ELSE pc' = "register" /\ UNCHANGED consumed
    /\ UNCHANGED <<tasks, taskQueue, wakerCache, cur, keyVars, cpuVars,
                   envVars, lost>>

\* poll_next: the fast path.
PollNextFirst ==
    /\ At("first")
    /\ IF scanQueue # <<>>
       THEN /\ consumed' = Append(consumed, Head(scanQueue))
            /\ scanQueue' = Tail(scanQueue)
            /\ pc' = "handle"
       ELSE /\ pc' = "register"
            /\ UNCHANGED <<consumed, scanQueue>>
    /\ UNCHANGED <<tasks, taskQueue, wakerCache, cur, scanInit, waker,
                   cpuVars, envVars, lost>>

Register ==
    /\ At("register")
    /\ waker' = Shell
    /\ pc' = "second"
    /\ UNCHANGED <<tasks, taskQueue, wakerCache, cur, scanInit, scanQueue,
                   cpuVars, envVars, histVars>>

\* Pending straight after register, without a second look at the queue.
BugNoSecondPop ==
    /\ At("second")
    /\ pc' = "pop" /\ cur' = NoTask
    /\ UNCHANGED <<tasks, taskQueue, wakerCache, keyVars, cpuVars, envVars,
                   histVars>>

\* The second pop; on None poll_next and the whole poll return Pending.
PollNextSecond ==
    /\ At("second")
    /\ IF scanQueue # <<>>
       THEN /\ consumed' = Append(consumed, Head(scanQueue))
            /\ scanQueue' = Tail(scanQueue)
            /\ pc' = "take"
            /\ UNCHANGED cur
       ELSE /\ pc' = "pop" /\ cur' = NoTask
            /\ UNCHANGED <<consumed, scanQueue>>
    /\ UNCHANGED <<tasks, taskQueue, wakerCache, scanInit, waker, cpuVars,
                   envVars, lost>>

TakeWaker ==
    /\ At("take")
    /\ waker' = NoTask
    /\ pc' = "handle"
    /\ UNCHANGED <<tasks, taskQueue, wakerCache, cur, scanInit, scanQueue,
                   cpuVars, envVars, histVars>>

\* The body of shell_loop for one key: it may print, which is done inside
\* without_interrupts, and then asks the stream for the next key.
HandleKey ==
    /\ At("handle")
    /\ \/ pc' = "first" /\ UNCHANGED iflag
       \/ pc' = "print" /\ iflag' = FALSE
    /\ UNCHANGED <<tasks, taskQueue, wakerCache, cur, keyVars, halted,
                   envVars, histVars>>

PrintDone ==
    /\ At("print")
    /\ iflag' = TRUE
    /\ pc' = "handle"
    /\ UNCHANGED <<tasks, taskQueue, wakerCache, cur, keyVars, halted,
                   envVars, histVars>>

-----------------------------------------------------------------------------
ShellStep == StreamNew \/ PollNextFirst \/ Register \/ PollNextSecond
                \/ TakeWaker \/ HandleKey \/ PrintDone

CpuStep ==
    \/ \E t \in TaskIds : Spawn(t) \/ SpawnPanic(t)
    \/ Run \/ PopTask \/ PopEmpty \/ Disable \/ SleepIfIdle
    \/ \E wakes, ready \in BOOLEAN : PollYielder(wakes, ready)
    \/ ShellStep

Next == CpuStep \/ KeyboardHandler \/ TimerHandler \/ TypeKey

\* Fairness.  The CPU executes unless it is halted; a raised keyboard
\* interrupt stays pending in the PIC until IF is set, and IF is set again
\* and again, not for good: strong fairness.  The user need not type, and the
\* timer need not tick.
Fairness ==
    /\ WF_vars(CpuStep)
    /\ SF_vars(KeyboardHandler)

\* Every key is handled in finitely many prints.  This is not part of Spec: a
\* behaviour in which one poll of the shell goes on for ever stands for what
\* endless keys do, which MaxKeys rules out.
KeysAreHandled == SF_vars(HandleKey /\ pc' = "first")

Spec == Init /\ [][Next]_vars /\ Fairness

-----------------------------------------------------------------------------
(* Properties.                                                             *)

TypeOK ==
    /\ tasks \subseteq TaskIds
    /\ taskQueue \in Seq(TaskIds) /\ Len(taskQueue) <= QCap
    /\ wakerCache \subseteq tasks
    /\ scanInit \in BOOLEAN
    /\ scanQueue \in Seq(Nat) /\ Len(scanQueue) <= SCap
    /\ waker \in {NoTask, Shell}
    /\ iflag \in BOOLEAN /\ halted \in BOOLEAN
    /\ pc \in Pcs /\ cur \in TaskIds \cup {NoTask}
    /\ typed \in Nat /\ kbd \in Seq(Nat)
    /\ consumed \in Seq(Nat) /\ lost \subseteq TaskIds

\* The CPU never sleeps while there is work: no task id in the run queue, and
\* no scancode waiting (sleep_if_idle's double check, executor.rs 65-73, and
\* poll_next's register-then-pop-again, keyboard.rs 51-59).
NoSleepWithWork == halted => taskQueue = <<>> /\ scanQueue = <<>>

\* No wake-up of the shell is ever lost: whenever the shell is not being
\* polled it is in the run queue, or else it is registered with the
\* AtomicWaker and there is no scancode it has not been told about.
ShellWillBePolled ==
    pc \notin {"spawn", "panic"} =>
        \/ cur = Shell
        \/ Queued(Shell)
        \/ waker = Shell /\ scanQueue = <<>>

\* wake_task ignores a full run queue, but that never costs the shell its
\* turn: a queue that is full without the shell's id in it cannot arise.
ShellNeverLost == Shell \notin lost

\* A task that is waiting for nothing but its turn (a yielder) leaves the
\* rotation only when a full run queue dropped its wake-up.
YieldersInRotation ==
    \A t \in tasks \cap Yielders :
        pc # "panic" => Queued(t) \/ cur = t \/ t \in lost

\* The keys pass in order and at most once, from the controller through the
\* scancode queue to the shell.
KeysInOrder ==
    LET s == consumed \o scanQueue \o kbd IN
        \A i, j \in DOMAIN s : i < j => s[i] < s[j]

\* The keyboard path implements the lossy FIFO: a key is dropped only before
\* ScancodeStream::new or when SCANCODE_QUEUE is full, and every key that
\* was accepted reaches the shell, whatever the other tasks do, if the shell is
\* done with each in finite time.
Fifo == INSTANCE LossyFifo WITH
            Cap <- SCap, open <- scanInit, buf <- scanQueue, out <- consumed,
            next <- typed - Len(kbd)
FifoSpec ==
    /\ Fifo!FifoInit /\ [][Fifo!FifoNext]_(Fifo!fifoVars)
    /\ KeysAreHandled => Fifo!Delivers

\* No task starves another by waking itself: as long as the polls of the shell
\* come to an end, a live yielder whose wake-up was not dropped is polled again
\* and again, whatever the others do (run_ready_tasks serves the ids in FIFO
\* order).  The premise is more than shell_loop promises: while there is always
\* another scancode its poll does not return Pending, and nothing else runs.
RotationIsFair ==
    []<>(cur # Shell) =>
        \A t \in Yielders :
            []<>(cur = t \/ t \notin tasks \/ t \in lost \/ pc = "panic")
=============================================================================
