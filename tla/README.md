# A TLA+ model of Willo

Willo is a `no_std` hobby kernel for x86_64: one CPU, a cooperative async
executor, interrupts for the timer and the keyboard, a VFS over FAT32, tmpfs,
ramfs and devfs, a framebuffer console with scrollback, and a shell. This
directory models the parts of it that keep state and can go wrong in an order
no integration test tries, checks them with TLC on small instances and proves
all of their safety properties with TLAPS for all sizes.

`PROJECT.json` maps every definition to the source lines it translates, names
the runs, and lists the hazards the properties are aimed at. In each module an
operator named `Bug...` is a mutant of the definition behind it, used by no
action: it shows that the property it belongs to can be violated.

## 1. Inventory

| Part | State | Operations | Hard because |
| --- | --- | --- | --- |
| Executor (`task/executor.rs`, `task/mod.rs`) | `tasks`, `task_queue` (ArrayQueue, 100), `waker_cache` | `spawn`, `run_ready_tasks`, `sleep_if_idle`, `wake_task` | interrupts push to the run queue between any two steps; a full queue drops the wake-up; hlt must not miss one |
| Keyboard stream (`task/keyboard.rs`) | `SCANCODE_QUEUE` (100), `WAKER` | `add_scancode` (interrupt), `ScancodeStream::new`, `poll_next`, `route_rawkey` | register and re-check against the interrupt; best-effort push |
| Interrupts (`interrupts.rs`) | IF flag, PIC, tick counter | timer and keyboard handlers; exception handlers | they run between any two instructions with IF set |
| Shell (`shell.rs`) | `cwd`, the VFS, the input line | `execute_line` and its commands, `shell_loop` | paths are normalised by name, directories vanish under the working directory |
| VFS (`fs/mod.rs`) | mount table (at most 8) | `mount`, `unmount`, `resolve`, `list_dir`, `is_dir`, five writing operations | shadowing, prefixes that are spelt alike, order of mounting |
| TmpFs, RamFs, DevFs (`fs/tmp.rs`, `ram.rs`, `dev.rs`) | a tree; a constant tree; none | the `FileSystem` trait | must agree with FatFs on what an operation means |
| FatFs (`fs/fat.rs`) | the disk: FAT copies, data clusters, FsInfo | create, write, append, mkdir, remove | each operation is a series of block writes, any of which can be the last |
| Framebuffer (`framebuffer.rs`) | ring, current line, `scroll_back`, cursor, pixels | `write_char`, `clear`, `scroll_up/down/end` | three views of the same text kept in step; two limits rounded differently |
| ATA driver (`ata.rs`, `block.rs`) | drive registers, sector count, `INITIALISED` | `init`/`identify`, `read_block`, `write_block` | polling with a limit while the drive works on, answers that come late, an error bit that stays |
| Disk node and root mount (`fs/dev.rs`, `mount_root`) | offset within a transfer, what is mounted at `/` | `read_at`/`write_at` on `/dev/disk0`, `mount_root` | a transfer of several blocks can be cut off between any two |
| Serial, GDT, page tables, heap, boot | set up once | - | - |
| Host runner (`src/main.rs`) | image files in the temporary directory | builds, reuses and deletes images, starts QEMU | several processes at a time, one shared image, runs that fail or are killed |

How they interact: `kernel_main` mounts the file systems, spawns `shell_loop`
and calls `Executor::run`. A key press raises the keyboard interrupt, whose
handler pushes the scancode and wakes the registered task through its waker,
which pushes the task's id on the run queue shared with the executor. The
shell polls the stream, runs a command against the VFS, which calls one file
system, and prints to the framebuffer inside `without_interrupts`. FatFs,
`/dev/disk0` and `mount_root` call the global `DRIVE`, one at a time under its
lock. The host runner starts the kernel in QEMU with the disk it has built.

What makes each part correct:

- executor and stream: the CPU never sleeps on work; the shell's wake-up is
  never lost; no task starves; keys arrive once and in order;
- FatFs: an operation that returns did what the trait promises, on every path;
  a fault in the middle harms nothing but the operation's target, also when
  the kernel goes on from there;
- ATA driver: a block read is the block asked for, a write reported as done is
  done, a failed drive stays failed, every call returns;
- runner: a guest gets complete images, and persistent files persist;
- VFS and shell: longest prefix on segment boundaries; listings agree with
  lookups; an operation changes one path; nothing is stranded;
- framebuffer: the cursor stays in the framebuffer, the live screen is the
  newest lines, a frozen one is a window on the history, no text is lost.

## 2. Modules

**Executor** models the executor, the stream and the two interrupt handlers.
A step is what runs between two points at which an interrupt can be taken and
matters: `PopTask`, the steps of `poll_next` (`PollNextFirst`, `Register`,
`PollNextSecond`, `TakeWaker`), `PollYielder` for any other task (it wakes
itself, finishes, or both), `PopEmpty`, `Disable` and `SleepIfIdle`. The
handlers are enabled when `iflag` is set; `sti; hlt` is one step because the
instruction after `sti` is still shielded. Scancodes are numbered in the order
they are typed. The queues (`ArrayQueue`), `AtomicWaker` and the keyboard
controller are external and modelled from their use.

**LossyFifo** is the abstract specification of the keyboard path: a bounded
FIFO that may drop a key only when full or not yet open, and delivers the rest.
`Executor` implements it (`FifoSpec`), delivery included as long as the shell is
done with each key in finite time (`KeysAreHandled`).

**FatFs** models the write path of FAT32, one step per block write. Reads take
no step: nothing else writes during an operation. A cluster is one sector of a
few units; a unit stands for a directory slot and for a piece of file content.
The disk that is mounted may or may not have a volume label in its root
(`Labelled`), and its FsInfo may be without signatures or without a known count
(`InfoAtMount`): `update_fsinfo` then leaves it alone. Callers make directories
at `DirPaths` only. A name stands for its spellings in either case.
`Fault` ends an operation before any of its writes or after the last one, which
is both a failed `write_block` and a power cut. Then `Resume` lets the kernel go
on with the disk as it is. `bad` remembers the targets that were cut off and
have not been redone successfully; the properties are about all other paths
("trusted" ones), which must be as they were. A target in `bad` may name
clusters that are free. As long as none has been allocated since (`reused`) it
can be used and retried like any other; afterwards an operation on it can free
or overwrite clusters of others, and `Beyond` ends the behaviour there
(`docs/flow10.md` 96 leaves such a disk to a later milestone).

**FileStore** is the abstract specification of a writable file system: a tree
changed by one operation at a time. The one liberty it gives is that a rewrite
that fails may have removed the old file. `FatFs` implements it, with the tree
being what every path read as when the last operation returned (`StoreSpec`);
the TmpFs of `Vfs` implements it as well (`TmpStoreSpec`).

**Ata** models `ata.rs` and the drive as two processes that meet in the status
register: `PollReady`, `Issue`, `PollDrq`, `MoveIn`, `MoveOut`, `PollFlushed`
and the steps of `identify` on one side, one step per read of the status
register; `DriveReady`, `DriveCommit` and `DriveFail` on the other, at any time
or never. The drive is external; where the ATA standard leaves open what it
does (a command while data is pending), the model allows what real drives do.
**BlockDisk** is the abstract specification, the contract of the trait
`BlockDevice`. `Ata` implements it (`BlockSpec`) until a `wait_drq` has timed
out, from where on driver and drive may disagree which command is being served
(`astray`). **DevDisk** composes the driver with its callers: the probe and the
mount of `mount_root`, the transfers of `/dev/disk0`, and single calls as FatFs
makes them.

**Runner** models the host runner: processes that build, reuse, hand over and
delete image files, each file operation a step, the two removals at the end
included, which may fail without anybody noticing. An image is kept apart from the
path to it, because a path can be removed and created anew under a process that
still writes the old file.

**Vfs** models the mount table over the four kinds of file system; a path is
the sequence of its names and `Begins` says which name is spelt like the
beginning of another, which is what `resolve`'s comparison of strings can
confuse. FatFs appears here reduced to its contract, with its own error codes
and the possibility of a full disk. **Shell** extends it by `normalize`, the
working directory and the commands.

**Framebuffer** models `FrameBufferWriter` as functions on the record of its
fields, with positions counted in glyphs. `Rows` and `LiveRows` are the two
ways in which the code derives the number of rows from the height.

**MC...** modules give the constants their values. The proofs are in
**ExecutorProofs**, **DevDiskProofs** (driver and callers), **RunnerProofs**,
**FramebufferProofs**, **VfsProofs** (VFS and shell), **FatTreeProofs** and
**FatFsProofs** (which extends it); **Induction** has the lemmas on loops that the
last four use.

## 3. Runs

| Run | Bounds | Shows |
| --- | --- | --- |
| `exec_tasks` | run queue of 3 with the shell and up to three yielders, scancode queue of 2, 5 keys | the yielders may finish, which leaves the shell alone as in the shipped kernel, and the spawn of a third one panics: `NoSleepWithWork`, `ShellWillBePolled`, `ShellNeverLost`, `YieldersInRotation`, `KeysInOrder`, `RotationIsFair` (with the premise that the polls of the shell end) and the refinement `FifoSpec`. The run queue has no slack, and the keys overfill the scancode queue before, during and after the first poll. Deadlock is allowed: a panic stops the machine |
| `fat_ops` | 4 data clusters and a FAT with one entry more, 2 units per cluster, 3 paths, files up to 3 units | all operations in all orders, the disk running full: `StoreSpec`, `ChainsAcyclic`, `ChainsComplete`, `FsInfoBounds`, `NoLeakOnSuccess` |
| `fat_fault` | 3 clusters, one of them the root with two free slots; files of one cluster, so that two files or a directory and a file have chains at a time; no label, no known free count; two faults | faults at any two block writes, the kernel going on after each: `FatsMirrored`, `NoCrossLinks`, `DamageConfined`, `EntryPublishedLast`, `DirectoriesWellFormed`, `OperationsReturn`. Deadlock is checked: a step that an operation cannot take would be found |
| `disk` | 2 blocks, 2 contents, 2 polls, transfers of up to 2 blocks at any address, the one past the end included; a disk, another device or nothing attached | `BlockSpec`, `FailStop`, `TransferIsPrefix`, `CallsReturn` |
| `runner` | two processes at a time, four in all, all settings of PERSIST, KEEP_DISK and VBOX | `SomethingToMount` and `UserFilesKept`, whatever fails or is killed. Deadlock is allowed: the processes end |
| `vfs_mounts` | root, tmp and two interchangeable devices file systems (symmetry); prefixes `/`, `/t`, `/tx`, `/tx/t`; a table of 3 mounts, so that the fourth finds it full; depth 2 | `ResolvesToLongest`, `ListingIsNamespace`, `OneTargetAtATime` under every order of mounting and unmounting |
| `shell_commands` | FAT root and tmp at `/t`; arguments of two segments, `.` and `..` included | `NoStrandedNodes`, `CwdLostOnlyByItsRemoval`, `TmpStoreSpec` |
| `fb_wide` | 2 rows, ring of 3, lines that fit, 8 characters | `RowsAreLines`, `RingKeepsOutput` while the ring overflows |
| `fb_narrow` | 2 or 3 rows, 2 columns, lines of 3, carriage returns, 7 characters | `CursorOnScreen`, `ScrollClamped`, `FrozenOnHistory` where lines wrap |

Why the bounds are enough to be interesting: every queue, ring, disk and mount
table is small enough to be full in the run; the FAT's smallest interesting
file (two clusters, the second half full), the directory that grows, the
longer FAT, and the prefix that is spelt like another name all occur; a fault
hits the retry of an operation that a fault had cut off; the drive answers
before, at and after the poll limit; every action fires. One pass of a polling
loop more or less makes no difference to the driver, so a limit of 2 stands for
100,000.

Three runs exhibit a disagreement between the code and its documentation:

- `fat_fsinfo`: FsInfo is not updated when an allocation runs out of space
  half-way, against "updated on every `allocate_chain`" (`fat.rs` 10-11);
  `FsInfoBounds` says how far off it can be.
- `fat_names`: the shell does pass names that do not fit 8.3 (against `fat.rs`
  15-16), and a second `touch` of one makes a duplicate entry.
- `disk_late`: a read times out in `wait_drq`, the drive delivers its sector
  afterwards, and the next `read_block` returns it as its own (against
  `block.rs` 23), because the wait before a command does not look at DRQ.

Limits that the properties state as they are, and a reader may want to know:
the ring's lines wrap at `MAX_LINE_LEN` and the screen's at its width (hence the
condition of `RowsAreLines`, against `framebuffer.rs` 33-34); a persistent disk
whose build was cut off is reused by every later run, and two persistent runs
at a time can replace each other's disk (`SomethingToMount`, `UserFilesKept`);
with a run queue as full of tasks as `spawn` allows, a yielding task whose wake-up
finds the shell queued twice is forgotten (`lost`; never the shell itself); the
poll of the shell does not return while there is another scancode, and no other
task runs until then (premise of `RotationIsFair`); after a failed write FsInfo's
count can be off by any amount; the first error a drive reports ends its use
until a reset (`FailStop`).

## 4. Fairness

`Executor` assumes weak fairness of the CPU (it executes unless halted) and
strong fairness of the keyboard handler (a raised interrupt stays pending in
the PIC; IF is set again and again but not for good). The user need not type and
the timer need not tick. `MaxKeys` bounds the keys of a behaviour, which by itself
would be an assumption that the user stops typing. Therefore that the shell is
ever done with a key is not assumed: a behaviour in which one of its polls goes
on for ever stands for endless keys, too. `RotationIsFair` has the end of these
polls as its premise (without it TLC finds the starved yielder), and the delivery
part of `FifoSpec` has `KeysAreHandled`, strong fairness of the last print of a key.

`FatFs` assumes weak fairness of the steps of an operation: they run on the one
CPU, and calling an operation is up to the callers. TLC cannot evaluate
`ENABLED Step` in reasonable time, so `Fairness` is `WF_vars(Step)` with
`CanStep` in its place, which says from the state when a step is possible: always within an
operation, except where the code would go round a directory's chain that has no
end (`HasEnd`). An operation that gets stuck or goes round its loops for ever
violates `OperationsReturn`; getting stuck is a deadlock, too, and both
`fat_fault` and `fat_ops` check that. The chains that are read before the first
write end by `ChainsAcyclic`. `DevDisk` assumes weak fairness of the CPU's
steps within a call that has begun, and nothing of the drive: `CallsReturn`
holds although it may stay silent for ever. `Vfs`, `Shell`, `Framebuffer` and
`Runner` have safety properties only.

## 5. Proofs

Every theorem holds for all values of the constants that satisfy the named
assumption of its module; the runs evaluate these assumptions on their
instances. An invariant theorem is proved from an inductive invariant, with one
lemma per action; what the invariant says beyond the property, and why, follows.

**Executor** (`ExecutorAssumption`: queues of any positive capacity, any finite
set of yielders). `ExecutorProofs` proves `TypeOK`, `NoSleepWithWork`,
`ShellWillBePolled`, `ShellNeverLost` and `YieldersInRotation`. The inductive
invariant adds

- `PcInv`: which task is polled at which place; a yielder being polled is not
  queued; a halted CPU has an empty run queue;
- `SpawnInv`: the tasks of an executor, and the shell is among them once it
  runs, all fit in the run queue at once (`Fits`), because `spawn` would have
  panicked otherwise;
- `NoDuplicates`: only the shell's id can be in the run queue twice, as a
  yielder wakes itself at most once per poll;
- `ArmedInv`: between `register` and the second pop the shell is registered or
  has been queued by the interrupt that took the registration.

The step that needs an argument is the dropped wake-up: by the pigeonhole
principle a full run queue without duplicates other than the shell's holds the
shell's id (`FullQueueHoldsShell`), so the push that is dropped was not needed.

**Keyboard stream.** `ExecutorProofs` also proves `KeysInOrder` and that every step is
a step of `LossyFifo` or leaves its variables alone (`KeysPassAFifo`: the safety
part of `FifoSpec`). `KeyInv` cuts the path of a key in three (controller,
`SCANCODE_QUEUE`, shell), each increasing and each below the next; the keys in
the controller are exactly the last ones typed, which is why a new key is above
all of them.

**ATA driver.** `DevDiskProofs` (`AtaAssumption`,
`DevDiskAssumption`: any number of sectors, any poll limit, any length of a
transfer) proves `TypeOK`, `TransferIsPrefix`, `FailStop` and the refinement
`BlockSpec`. `AtaInv` says what the drive can be at for each place of the driver:

- `DriveInv`: BSY, DRQ and ERR exclude each other, and a drive that has set ERR
  or has no command is not working;
- `PhaseInv`: which call is at which place; a command is issued only to a drive
  that is neither busy nor in error, and the data are moved only with DRQ set;
- `InStepInv`: until a `wait_drq` has timed out, the drive serves the call the
  driver is in, or still writes the sector of one that gave up. Without it the
  data of one call could be taken for those of another, which is what does
  happen once `astray` holds.

The refinement maps the steps up to the data to stutters, the data of a read and
the landing of a sector to the steps of `BlockDisk`, and the sector still in the
drive to the write that `BlockDisk` owes; each action has one lemma. `XferInv`
adds for `/dev/disk0` that the call in the driver is the block the transfer is at
(`Wanted`) and that `Ok` means the drive has nothing left to write (`DoneInv`): a
block is counted only then, so that the counted ones are a prefix.

**Host runner** (`RunnerAssumption`: any number of starts, any finite set of
pids). `RunnerProofs` proves `SomethingToMount` and `UserFilesKept`. The parts of
the invariant: a name or a process knows only images that exist, and there are no
more of them than processes past `create_new` (`UseInv`, the counting argument
by which a fresh image can always be found); a process past `create_disk_image`
has its boot image until it removes it, before the data disk; the disk of a run
without `WILLO_PERSIST` is known to nobody else (`PrivateInv`); while no two runs
with `WILLO_PERSIST` have met there is one at most, and it builds only where there
is no disk (`SharedInv`).

**Framebuffer** (`FramebufferAssumption`: any size of screen, line and ring, the
ring at least as long as the screen is high). `FramebufferProofs` proves

- `TypeOK`, `CursorOnScreen` and `ScrollClamped`, whose conjunction is inductive.
  Each method takes a good writer to a good writer; `push_current_to_ring` is the
  interesting one, since a ring that drops a line must not become shorter than
  what `scroll_back` counts on;
- `FrozenOnHistory`, with the strengthening that the ring is the end of the log
  (`EndOf`): what a redraw takes from the ring is in the log at a place that later
  lines do not move;
- `RingKeepsOutput`, with `Kept`: the text is what has left the ring, then the
  ring's lines joined, then the current line, and nothing has left before the ring
  is full. Joining is a loop (`Flat`); what it makes of a line more at the end or
  one less at the front is proved with `Induction`, described under VFS;
- `RowsAreLines`, under the two hypotheses of the run `fb_wide`, that no carriage
  return is written and a line is at most as long as the screen is wide. The
  property is false without either: the row then wraps where the line does not.

**VFS** (`VfsAssumption`: any names, depth, file systems, devices and mount table
that starts with distinct prefixes over distinct file systems, as `mount_root`'s
does; the seed of the RAM disk is a tree). `VfsProofs` proves `TypeOK`,
`NoStrandedNodes`, `ResolvesToLongest`, `ListingIsNamespace` and
`OneTargetAtATime`. `Resolve` and `Walk` are loops, written as recursive functions
on `0..n`. The induction rule of the library takes an operator, which the
provers cannot instantiate; `Induction` states it for a *set* of numbers instead
(`UpTo`, from the least element of a set of numbers, `LeastNumber`) and derives
that such a function exists and is unique (`Iteration`, `SameIteration`). With it

- `WalkIsLookup`: in a tree whose nodes hang on directories, the walk along the
  names ends at the node the tree has at the path, or in an error if there is none;
- `ResolveLongest`: one pass over the table in any order finds the longest prefix,
  since what has been chosen after `i` rounds is the longest among the first `i`.
  `FitsNames` shows that the comparison of strings with its test for `/` is the
  comparison of names.

The inductive invariant is that the mounts have distinct prefixes and distinct
file systems, and that every tree is typed and rooted. Rootedness is needed for
`WalkIsLookup`, hence for every property that speaks of what is seen; distinct
file systems are needed for `OneTargetAtATime`, where a file system mounted twice
would show one change in two places.

**Shell** (`ShellAssumption`: nothing is mounted deeper than one name, as in
`mount_root`; the theorems on the VFS do not use it). `VfsProofs` also proves
`NoStrandedNodes`, `CwdLostOnlyByItsRemoval`
and the refinement `TmpStoreSpec` for the commands. A command is one operation of
`Vfs` or a `cd`, so the invariant is that of `VfsProofs` with the mounts of
`mount_root` and a path for the working directory. An operation that goes to
another file system, or is refused, is a `Fail` of `FileStore`; one that succeeds
has found the parent directory (`NotRefused`), which is the guard of the abstract
operation. A directory can be lost only by the `remove` that resolves to it
(`SeenAtOne`, `OnlyRemoveTakes`), hence empty; its parent resolves to the same file
system (`ParentTarget`) and is not touched. The assumption on the depth of mounts
is needed: a directory with a mount point below it looks empty to its own file
system, and `rm` of it would succeed.

**FatFs** (`FatAssumption`: a disk of any size, a FAT that may be longer than the
data area, any number of copies, any size of cluster, any names, paths, payloads
and number of faults). Two modules prove every safety property of the two runs.

`FatTreeProofs` proves three inductive invariants, with a lemma per action.

- `DiskInv`: types, and which registers go with which phase: what `Start` decided
  about the operation (`Sound`), and that the clusters counted while a chain is
  being built are the ones from `head` to `tail` (`Building`). It gives `TypeOK`.
- `MirrorInv`: outside of the entry being written the copies differ in one entry
  per fault at most; behind it the copies already written agree with the new
  value. It gives `FatsMirrored`.
- `TreeInv`: no loop in the FAT and at most one predecessor per cluster (`FatOK`);
  a function `T` from paths to first clusters, the undamaged directories, and a
  set `X` of damaged entries, such that every entry on the disk is in a directory
  of `T`, in `T` itself if it is an undamaged directory, and in `X` only if it is on
  one of the paths that were cut off (`Tree`, `Damage`); every undamaged entry has a
  chain of its own of the length its size asks for (`Owners`). `ClearInv`, `MakeInv`
  and `DoneInv` say how far the operation is: what has been freed belongs to an
  entry that is in `X` by then, what has been allocated is attached to nothing
  (`Loose`), the data written so far are the payload (`Filled`).

`T` and `X` are quantified in the invariant rather than defined: a directory tree
is not a function of the disk that the provers can unfold, but every action says
how its `T` and `X` come from the ones before (most leave them alone, `Joins` and
`Drops` for an entry that comes or goes). This is where the order of the writes
matters: an entry is added when its chain is complete, and a cluster is linked to
a directory when it has been zeroed.

`FatFsProofs` derives from these `ChainsAcyclic`, `DirectoriesWellFormed`,
`NoCrossLinks` and `NamesUnique`, and adds

- `HistInv`: every path but the target and the damaged ones reads as it did when
  the last operation returned. The lookup of a path is a walk through directories,
  and a step that keeps the chains and slots of all directories but one slot keeps
  every walk that does not meet this slot (`StayLooks`). It gives `DamageConfined`
  and `EntryPublishedLast`, and with no fault the refinement `StoreSpec`: the steps
  in between are stutters, the one that returns is the operation of `FileStore`;
- `LeakInv`: the allocated clusters are in use by an entry or by the operation
  (`Busy`), or were orphans before; FsInfo with what it is still owed (`Credit`) is
  between the number of free clusters and of those not in use, if it was known when
  the disk was mounted (`Tally`). It gives
  `FsInfoBounds` and `NoLeakOnSuccess`.

Hypotheses of single theorems, which hold in the runs that check the property:

- `NamesFit`: names fit 8.3, as `fat.rs` 14-16 expects of its callers. Without it a
  directory can get two entries of one name (run `fat_names`), which breaks the
  tree; `NamesStayUnique` shows that this is the only way to get them. The types
  and the copies of the FAT do not need it.
- `MaxFaults = 0` for `StoreSpec`, `ChainsComplete`, `FsInfoBounds` and
  `NoLeakOnSuccess`, which speak of operations that were not cut off. The other
  theorems are about any number of faults.
- `PathsClosed` for `StoreSpec`: the parents of the paths considered are considered.
- `ShortPaths` for `NoLeakOnSuccess`: paths have two names at most, since the
  property counts as owned what entries of the first two levels lead to.

Chains, listings and lookups are loops, written as recursive functions; what they
compute is proved with the lemmas of `Induction`, on sets of lengths.

Only model-checked:

- liveness, which the provers do not support: `RotationIsFair`,
  `OperationsReturn`, `CallsReturn`, the delivery part of `FifoSpec`;
- the three runs that exhibit a disagreement.

## 6. Not modelled

- Operations on a path whose clusters were reused after a fault: FatFs itself
  promises nothing there.
- The composition of `FatFs` with `Ata`: `FatFs` takes a block device that does
  or does not perform a write, which is what `BlockDisk` promises; it does not
  follow a write that timed out and happens during a later operation, nor a
  drive that has gone astray.
- Details that no run can tell apart: characters of more than one byte (the ring's
  line is cut at `MAX_LINE_LEN` bytes, the model counts characters), the check of
  `buf.len()` in the driver (its callers pass one block), and a drive that raises
  BSY some time after the last data word instead of with it, as QEMU's does (the
  driver polls at once and would take the write for done).
- The line editor of `shell_loop` (a string with push and pop, used by one task;
  it echoes a backspace as BS, space, BS, which the framebuffer draws as glyphs)
  and the keyboard decoder, an external crate.
- The exception handlers: they stop or resume the machine and touch no kernel
  state.
- Serial output, GDT, paging, heap: set-up code with no protocol;
  `SimpleExecutor`, which nothing uses.

## 7. Plan

Done, in this order: executor and stream with proofs; FatFs with its contract;
VFS and shell; framebuffer with proofs; the ATA driver with its contract and its
callers; FatFs beyond a failed write; the host runner; proofs for the driver, the
runner, the keyboard stream, the framebuffer, the VFS and the shell; proofs for
FatFs. Left: the composition of `FatFs` with `Ata`, where a write that has timed
out lands during a later operation.
