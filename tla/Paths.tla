-------------------------------- MODULE Paths --------------------------------
(***************************************************************************)
(* Path names (syscall.c resolve_normalize_path, chdir, getcwd; fs/vfs.c   *)
(* mounts): the working directory of a process, the mount table, which     *)
(* file system a path leads to, and the mount that a descriptor keeps.     *)
(*                                                                         *)
(* A path is its sequence of components, and whether its text ends in a    *)
(* slash.  Mount points are matched as text: PrefixOf holds the pairs of   *)
(* names of which one is the beginning of the other.                       *)
(***************************************************************************)
EXTENDS Integers, Sequences, FiniteSets, SequencesExt

CONSTANTS Names,           \* names of directories
          PrefixOf,        \* <<a, b>>: the text of a is a beginning of b's
          MountPoints,     \* directories that get mounted upon, as sequences of names
          FileSystems,
          VFS_MAX_MOUNTS,
          PathFds,         \* descriptors that are opened and closed
          MaxDepth         \* bound on the components of a path

ASSUME PathsAssumption ==
    /\ {".", ".."} \cap Names = {}
    /\ PrefixOf \subseteq {p \in Names \X Names : p[1] # p[2]}
    /\ \A a, b, c \in Names :
         <<a, b>> \in PrefixOf /\ <<b, c>> \in PrefixOf => <<a, c>> \in PrefixOf
    /\ MountPoints \subseteq Seq(Names)
    /\ VFS_MAX_MOUNTS \in Nat \ {0} /\ MaxDepth \in Nat

VARIABLES mounts,     \* the mount table: it only grows
          fd_mount,   \* descriptor -> index of its mount (fs_idx), or 0
          fd_fs,      \* history: descriptor -> the file system it was opened on
          cwd,        \* the working directory
          walked      \* history: where the same steps lead one by one

pathVars == <<mounts, fd_mount, fd_fs, cwd, walked>>

Components == Names \cup {".", ".."}
Inputs     == UNION {[1 .. n -> Components] : n \in 0 .. MaxDepth}
Root       == [comps |-> <<>>, slash |-> FALSE]

-----------------------------------------------------------------------------
(* resolve_normalize_path: one step for each component of the path, in a   *)
(* buffer.  Dropping the last component leaves the slash before it.        *)

\* Fault: the root's parent is not the root.
NormalStep_RootUp(out, comp) ==
    CASE comp = "."  -> out
      [] comp = ".." -> [comps |-> IF Len(out.comps) < 2 THEN out.comps ELSE Front(out.comps),
                         slash |-> TRUE]
      [] OTHER       -> [comps |-> Append(out.comps, comp), slash |-> FALSE]
NormalStep(out, comp) ==
    CASE comp = "."  -> out
      [] comp = ".." -> IF out.comps = <<>> THEN out
                        ELSE [comps |-> Front(out.comps), slash |-> Len(out.comps) > 1]
      [] OTHER       -> [comps |-> Append(out.comps, comp), slash |-> FALSE]

Normalize(comps) ==
    LET out[k \in 0 .. Len(comps)] == IF k = 0 THEN Root ELSE NormalStep(out[k - 1], comps[k])
    IN out[Len(comps)]

\* An absolute path starts at the root, a relative one where the process is.
ResolvePath(absolute, input) ==
    Normalize(IF absolute THEN input ELSE cwd.comps \o input)

-----------------------------------------------------------------------------
\* strncmp(path, mountpoint, strlen(mountpoint)) == 0
Matches(point, path) ==
    LET n == Len(point) IN
    \/ point = <<>>
    \/ /\ n <= Len(path)
       /\ Front(point) = SubSeq(path, 1, n - 1)
       /\ Last(point) = path[n] \/ <<Last(point), path[n]>> \in PrefixOf

\* Of two mount points that match, the one with the longer text.
LongerText(m1, m2) ==
    \/ Len(m1) > Len(m2)
    \/ Len(m1) = Len(m2) /\ m1 # m2 /\ <<Last(m2), Last(m1)>> \in PrefixOf

\* vfs_find_mount: the first of the longest matches.  Fault: the first match.
FindMount_First(path) ==
    {i \in DOMAIN mounts :
        /\ mounts[i].active /\ Matches(mounts[i].point, path)
        /\ \A j \in 1 .. i - 1 : ~(mounts[j].active /\ Matches(mounts[j].point, path))}
FindMount(path) ==
    {i \in DOMAIN mounts :
        /\ mounts[i].active /\ Matches(mounts[i].point, path)
        /\ \A j \in DOMAIN mounts : mounts[j].active /\ Matches(mounts[j].point, path) =>
            /\ ~LongerText(mounts[j].point, mounts[i].point)
            /\ mounts[j].point = mounts[i].point => i <= j}

-----------------------------------------------------------------------------
PathInit ==
    /\ mounts = <<>>
    /\ fd_mount = [f \in PathFds |-> 0]
    /\ fd_fs = [f \in PathFds |-> "none"]
    /\ cwd = Root
    /\ walked = <<>>

\* vfs_mount: an entry is never used twice.  The mount point is not looked
\* at, so that a second mount on it stays hidden behind the first.
Mount(point, fs) ==
    /\ Len(mounts) < VFS_MAX_MOUNTS
    /\ mounts' = Append(mounts, [point |-> point, fs |-> fs, active |-> TRUE])
    /\ UNCHANGED <<fd_mount, fd_fs, cwd, walked>>

\* vfs_umount: the first active entry for the mount point.  Fault: the entry
\* is given up, and the later ones move down.
FirstActive(point) ==
    {i \in DOMAIN mounts : /\ mounts[i].active /\ mounts[i].point = point
                           /\ \A j \in 1 .. i - 1 : ~(mounts[j].active /\ mounts[j].point = point)}
Umount_Compacts(point) ==
    /\ \E i \in FirstActive(point) : mounts' = RemoveAt(mounts, i)
    /\ UNCHANGED <<fd_mount, fd_fs, cwd, walked>>
Umount(point) ==
    /\ \E i \in FirstActive(point) : mounts' = [mounts EXCEPT ![i].active = FALSE]
    /\ UNCHANGED <<fd_mount, fd_fs, cwd, walked>>

\* vfs_open keeps the index of the mount in the descriptor.
OpenPath(f, absolute, input) ==
    /\ fd_mount[f] = 0
    /\ \E i \in FindMount(ResolvePath(absolute, input).comps) :
        /\ fd_mount' = [fd_mount EXCEPT ![f] = i]
        /\ fd_fs' = [fd_fs EXCEPT ![f] = mounts[i].fs]
    /\ UNCHANGED <<mounts, cwd, walked>>
ClosePath(f) ==
    /\ fd_mount[f] # 0
    /\ fd_mount' = [fd_mount EXCEPT ![f] = 0]
    /\ fd_fs' = [fd_fs EXCEPT ![f] = "none"]
    /\ UNCHANGED <<mounts, cwd, walked>>

\* sys_chdir to a directory of some mounted file system.  The history walks
\* there: each "..", step by step, leads to the parent of the place reached.
Step(at, comp) == IF comp = "." THEN at
                  ELSE IF comp # ".." THEN at \o <<comp>>
                  ELSE SubSeq(at, 1, Len(at) - 1)
Walk(from, comps) ==
    LET at[k \in 0 .. Len(comps)] == IF k = 0 THEN from ELSE Step(at[k - 1], comps[k])
    IN at[Len(comps)]
Chdir(absolute, input) ==
    LET path == ResolvePath(absolute, input)
    IN  /\ FindMount(path.comps) # {} /\ Len(path.comps) <= MaxDepth
        /\ cwd' = path
        /\ walked' = Walk(IF absolute THEN <<>> ELSE walked, input)
    /\ UNCHANGED <<mounts, fd_mount, fd_fs>>

PathNext ==
    \/ \E p \in MountPoints, fs \in FileSystems : Mount(p, fs)
    \/ \E p \in MountPoints : Umount(p)
    \/ \E f \in PathFds :
        \/ \E absolute \in BOOLEAN, input \in Inputs : OpenPath(f, absolute, input)
        \/ ClosePath(f)
    \/ \E absolute \in BOOLEAN, input \in Inputs : Chdir(absolute, input)

PathSpec == PathInit /\ [][PathNext]_pathVars

-----------------------------------------------------------------------------
\* The working directory is where walking there would have led, so that it
\* is absolute and free of dots (resolve_normalize_path); the root is its own
\* parent.
CwdIsWhereWalked == cwd.comps = walked

\* A descriptor stays on the file system it was opened on, whatever is
\* mounted or unmounted meanwhile (vfs_umount, vfs_fd_t.fs_idx).
FdKeepsFileSystem ==
    \A f \in PathFds : fd_mount[f] # 0 =>
        fd_mount[f] \in DOMAIN mounts /\ mounts[fd_mount[f]].fs = fd_fs[f]

\* vfs_find_mount finds the deepest active mount that contains the path, or
\* one at the same depth or deeper whose text happens to begin the path.
MountIsNearest ==
    \A path \in UNION {[1 .. n -> Names] : n \in 0 .. MaxDepth} :
        LET around == {i \in DOMAIN mounts : mounts[i].active /\ IsPrefix(mounts[i].point, path)}
            found  == FindMount(path)
        IN  /\ around # {} => found # {}
            /\ \A f \in found :
                /\ \A i \in around : Len(mounts[i].point) <= Len(mounts[f].point)
                /\ f \in around
                   \/ <<Last(mounts[f].point), path[Len(mounts[f].point)]>> \in PrefixOf

\* A path leads where its names say: along the walk of chdir, to the nearest
\* mount, and by a descriptor to the file system it was opened on
\* (resolve_normalize_path, vfs_find_mount, vfs_umount).
PathsRight == CwdIsWhereWalked /\ FdKeepsFileSystem /\ MountIsNearest
=============================================================================
