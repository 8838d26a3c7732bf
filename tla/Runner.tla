------------------------------- MODULE Runner -------------------------------
(***************************************************************************)
(* The host runner (src/main.rs): cargo starts one process per kernel or   *)
(* test, several of them at a time, each of which builds a boot image and  *)
(* a data disk in the temporary directory, gives both to QEMU and deletes  *)
(* them.  With WILLO_PERSIST all of them share one data disk, which is     *)
(* built only if it is not there.                                          *)
(*                                                                         *)
(* Abstractions.  A data image is a number, apart from the path to it:     *)
(* a path can be unlinked and created anew while another process still     *)
(* writes the old file.  An image is "partial" until build_data_disk has   *)
(* reached its end.  The command line of QEMU, fsck.fat (it only reads and *)
(* reports), the .vdi files (nobody reads them here) and the exit status   *)
(* are left out.                                                           *)
(***************************************************************************)
EXTENDS Naturals, FiniteSets

CONSTANTS
    Pids,        \* process ids; one can be given to a later process again
    MaxStarts    \* bound: processes started

VARIABLES
    starts,      \* processes started so far
    proc,        \* the process of each pid
    boot,        \* the boot image of each pid
    path,        \* data images by name: the image, or None
    image,       \* what each data image holds
    user,        \* the images in which a guest's user has created files
    overlap,     \* history: two runs with WILLO_PERSIST met
    broken       \* history: one of them ended in the middle of build_data_disk

vars == <<starts, proc, boot, path, image, user, overlap, broken>>

None   == 0
Images == 1..MaxStarts
Sticky == "willo-persist-data.img"

ASSUME RunnerAssumption ==
    MaxStarts \in Nat /\ IsFiniteSet(Pids) /\ Sticky \notin Pids

Envs   == [persist : BOOLEAN, keep : BOOLEAN, vbox : BOOLEAN]
Gone   == [pc |-> "gone", env |-> [persist |-> FALSE, keep |-> FALSE, vbox |-> FALSE],
           img |-> None]

Live(p) == proc[p].pc # "gone"
Data(p) == IF proc[p].env.persist THEN Sticky ELSE p

Init ==
    /\ starts = 0 /\ proc = [p \in Pids |-> Gone]
    /\ boot = [p \in Pids |-> "absent"]
    /\ path = [f \in Pids \cup {Sticky} |-> None]
    /\ image = [i \in Images |-> "absent"] /\ user = {}
    /\ overlap = FALSE /\ broken = FALSE

-----------------------------------------------------------------------------
At(p, l) == proc[p].pc = l
Goto(p, l) == proc' = [proc EXCEPT ![p].pc = l] /\ UNCHANGED broken
Exit(p) ==
    /\ proc' = [proc EXCEPT ![p] = Gone]
    /\ broken' = (broken \/ (At(p, "format") /\ proc[p].env.persist))

\* An operator named Bug... is a mutant of the definition that follows it: no
\* action uses it.

\* cargo starts the runner with a kernel that exists.
Start(p, env) ==
    /\ ~Live(p) /\ starts < MaxStarts
    /\ starts' = starts + 1
    /\ proc' = [proc EXCEPT ![p] = [pc |-> "boot", env |-> env, img |-> None]]
    /\ overlap' = (overlap \/ (env.persist /\ \E q \in Pids \ {p} : proc[q].env.persist))
    /\ UNCHANGED <<boot, path, image, user, broken>>

\* create_disk_image, or exit(1) with whatever it has left there.
BuildBoot(p) ==
    /\ At(p, "boot")
    /\ \/ Goto(p, "choose") /\ boot' = [boot EXCEPT ![p] = "built"]
       \/ Exit(p) /\ boot' \in {boot, [boot EXCEPT ![p] = "partial"]}
    /\ UNCHANGED <<starts, path, image, user, overlap>>

\* A private disk, too, is built only if it is not there.
BugBuildIfAbsent(p) ==
    /\ At(p, "choose")
    /\ Goto(p, IF path[Data(p)] = None THEN "unlink" ELSE "launch")
    /\ UNCHANGED <<starts, boot, path, image, user, overlap>>

\* if !persist || !data.exists()
ChooseData(p) ==
    /\ At(p, "choose")
    /\ Goto(p, IF ~proc[p].env.persist \/ path[Data(p)] = None THEN "unlink" ELSE "launch")
    /\ UNCHANGED <<starts, boot, path, image, user, overlap>>

\* build_data_disk: remove_file, whose error is ignored.
UnlinkData(p) ==
    /\ At(p, "unlink")
    /\ Goto(p, "create")
    /\ path' \in {path, [path EXCEPT ![Data(p)] = None]}
    /\ UNCHANGED <<starts, boot, image, user, overlap>>

\* create_new: an error if somebody else has been faster, and for reasons of
\* the host's own.
CreateData(p) ==
    /\ At(p, "create")
    /\ \/ LET i == CHOOSE j \in Images : image[j] = "absent"
          IN  /\ path[Data(p)] = None
              /\ proc' = [proc EXCEPT ![p].pc = "format", ![p].img = i]
              /\ path' = [path EXCEPT ![Data(p)] = i]
              /\ image' = [image EXCEPT ![i] = "partial"] /\ UNCHANGED broken
       \/ Exit(p) /\ UNCHANGED <<path, image>>
    /\ UNCHANGED <<starts, boot, user, overlap>>

\* set_len, format_volume, the seed files and unmount: all of them, or `?`.
FormatData(p) ==
    /\ At(p, "format")
    /\ \/ Goto(p, "launch") /\ image' = [image EXCEPT ![proc[p].img] = "seeded"]
       \/ Exit(p) /\ UNCHANGED image
    /\ UNCHANGED <<starts, boot, path, user, overlap>>

\* run_vbox_mode: both conversions only read the images, and it exits whether
\* they succeed or not.
VBox(p) ==
    /\ At(p, "launch") /\ proc[p].env.vbox
    /\ Exit(p)
    /\ UNCHANGED <<starts, boot, path, image, user, overlap>>

\* if !keep_disk
CleanUp(p) == IF proc[p].env.keep THEN Exit(p) ELSE Goto(p, "remove")

\* QEMU opens what the path names now, or cannot be spawned or started.
Launch(p) ==
    /\ At(p, "launch") /\ ~proc[p].env.vbox
    /\ \/ /\ path[Data(p)] # None
          /\ proc' = [proc EXCEPT ![p].pc = "guest", ![p].img = path[Data(p)]]
          /\ UNCHANGED broken
       \/ CleanUp(p)
    /\ UNCHANGED <<starts, boot, path, image, user, overlap>>

\* The guest has mounted the disk and its user creates a file (external).
GuestWrites(p) ==
    /\ At(p, "guest") /\ image[proc[p].img] = "seeded"
    /\ user' = user \cup {proc[p].img}
    /\ UNCHANGED <<starts, proc, boot, path, image, overlap, broken>>

\* QEMU has ended, with whatever status.
Finish(p) ==
    /\ At(p, "guest")
    /\ CleanUp(p)
    /\ UNCHANGED <<starts, boot, path, image, user, overlap>>

\* Both images are deleted, whosever the data disk is.
BugRemoveBoot(p) ==
    /\ At(p, "remove")
    /\ boot' = [boot EXCEPT ![p] = "absent"]
    /\ path' = [path EXCEPT ![Data(p)] = None]
    /\ Exit(p)
    /\ UNCHANGED <<starts, image, user, overlap>>

\* The boot image is deleted, if it can be; a persistent data disk is not.
RemoveBoot(p) ==
    /\ At(p, "remove")
    /\ boot' \in {boot, [boot EXCEPT ![p] = "absent"]}
    /\ IF proc[p].env.persist THEN Exit(p) ELSE Goto(p, "removedata")
    /\ UNCHANGED <<starts, path, image, user, overlap>>

\* Then the data disk, if it can be.
RemoveData(p) ==
    /\ At(p, "removedata")
    /\ path' \in {path, [path EXCEPT ![p] = None]}
    /\ Exit(p)
    /\ UNCHANGED <<starts, boot, image, user, overlap>>

\* Ctrl-C or the end of the session: runner and QEMU go together (external).
Killed(p) ==
    /\ Live(p)
    /\ Exit(p)
    /\ UNCHANGED <<starts, boot, path, image, user, overlap>>

Next == \E p \in Pids :
    \/ \E env \in Envs : Start(p, env)
    \/ BuildBoot(p) \/ ChooseData(p) \/ UnlinkData(p) \/ CreateData(p) \/ FormatData(p)
    \/ VBox(p) \/ Launch(p) \/ GuestWrites(p) \/ Finish(p)
    \/ RemoveBoot(p) \/ RemoveData(p) \/ Killed(p)

Spec == Init /\ [][Next]_vars

-----------------------------------------------------------------------------
(* Properties.                                                             *)

\* Every guest gets a boot image and a data disk that are complete, so that it
\* has something to mount, and without WILLO_PERSIST a disk of its own,
\* whatever earlier processes of the same pid have left behind and whatever
\* others do at the same time.  The persistent disk has two exceptions: a
\* build that ended half-way leaves a file that every later run reuses, and a
\* run can meet the disk that another one is building.
SomethingToMount ==
    \A p \in Pids : At(p, "guest") =>
        LET i == proc[p].img
        IN  /\ boot[p] = "built"
            /\ image[i] = "seeded" \/ (proc[p].env.persist /\ (broken \/ overlap))
            /\ ~proc[p].env.persist =>
                   path[p] = i /\ \A q \in Pids \ {p} : proc[q].img # i

\* Files created on the persistent disk survive: once a guest has written to
\* it no run replaces or deletes it, wherever runs fail, are killed or run
\* beside it without WILLO_PERSIST.  Two runs with WILLO_PERSIST at a time are
\* excepted: one may have found no disk before the other built it, and then
\* builds its own in its place.
UserFilesKept ==
    [][(path[Sticky] \in user /\ ~overlap) => path'[Sticky] = path[Sticky]]_vars
=============================================================================
