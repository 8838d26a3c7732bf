------------------------------- MODULE Shell --------------------------------
(***************************************************************************)
(* The commands of the shell that have an effect (kernel/src/shell.rs) on  *)
(* the file systems that fs::mount_root mounts, and the path               *)
(* normalisation they share (fs::normalize).  `ls`, `cat`, `pwd` and the   *)
(* rest only print; what `ls` and `cat` would print is Vfs's ListDir and   *)
(* NodeAt.                                                                 *)
(***************************************************************************)
EXTENDS Vfs

CONSTANTS
    Tmp,        \* the file system mounted at /tmp
    MaxArg      \* bound: names and dots in an argument

\* mount_root mounts nothing deeper than /tmp, /dev and /ram.
ASSUME ShellAssumption ==
    /\ Tmp \in FsIds /\ Kind[Tmp] = "tmp" /\ MaxArg \in Nat
    /\ \A i \in DOMAIN Boot : Len(Boot[i].prefix) <= 1

VARIABLE cwd    \* Shell::cwd, a path

vars == <<vfsVars, cwd>>

\* An argument as typed: absolute or not, and its segments.
Segs == Names \cup {".", ".."}
Args == [abs : BOOLEAN, segs : UNION {[1..n -> Segs] : n \in 0..MaxArg}]

\* Vec::pop: nothing happens to an empty stack.
Pop(stack) == IF stack = <<>> THEN <<>> ELSE Front(stack)

\* normalize: "." and ".." are resolved on the names alone, whether or not
\* anything exists there.
Normalize(dir, arg) ==
    LET stack[i \in 0..Len(arg.segs)] ==
            IF i = 0 THEN IF arg.abs THEN <<>> ELSE dir
            ELSE LET s == stack[i - 1] IN
                 CASE arg.segs[i] = "."  -> s
                   [] arg.segs[i] = ".." -> Pop(s)
                   [] OTHER -> Append(s, arg.segs[i])
    IN  stack[Len(arg.segs)]

\* The paths an argument can stand for, within the bound.
Targets == {Normalize(cwd, arg) : arg \in Args} \cap Paths

\* cmd_cd; `cd` alone is `cd /`.
Cd(p) ==
    /\ IsDir(p)
    /\ cwd' = p
    /\ UNCHANGED vfsVars

CmdTouch(p)    == Touch(p) /\ UNCHANGED cwd
CmdMkdir(p)    == MkDir(p) /\ UNCHANGED cwd
CmdRm(p)       == Rm(p) /\ UNCHANGED cwd
CmdWrite(p, d) == WriteFile(p, d) /\ UNCHANGED cwd

ShellInit == Init /\ cwd = <<>>

ExecuteLine ==
    \E p \in Targets :
        \/ Cd(p) \/ CmdTouch(p) \/ CmdMkdir(p) \/ CmdRm(p)
        \/ \E d \in Payloads : CmdWrite(p, d)

ShellSpec == ShellInit /\ [][ExecuteLine]_vars

-----------------------------------------------------------------------------
(* Properties.                                                             *)

\* TmpFs behind the mount table keeps FileStore's promise, whatever the shell
\* does to the other file systems in between; an operation on another one is,
\* for this one, an error that changes nothing.
Store == INSTANCE FileStore WITH
    tree <- trees[Tmp],
    result <- IF last.fs = Tmp THEN last.res ELSE "elsewhere"
TmpStoreSpec == Store!StoreSpec

\* The working directory can disappear under the shell, but only by an `rm` of
\* that directory itself, while it is empty and not a mount point: its parent
\* is still there, so that `cd ..` leads out of it.
CwdLostOnlyByItsRemoval ==
    [][(IsDir(cwd) /\ cwd' = cwd /\ ~IsDir(cwd)') =>
          /\ cwd # <<>> /\ ~MountedAt(cwd)
          /\ ListDir(cwd).names = {}
          /\ IsDir(Front(cwd))']_vars
=============================================================================
