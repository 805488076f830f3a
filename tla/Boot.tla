--------------------------------- MODULE Boot ---------------------------------
(***************************************************************************)
(* From the boot loader to the first program: the command line             *)
(* (kernel/bootargs.c), the root file system and /etc/fstab                *)
(* (kernel/rootfs.c), and the programs that kernel_main tries to start     *)
(* (kernel/kernel.c).                                                      *)
(*                                                                         *)
(* A command line is a sequence of <<key, value>>, a flag having the value *)
(* "".  A file system driver keeps the partition it works on in one global *)
(* variable, however many times it is mounted; it is set by every attempt  *)
(* to mount, also by one that fails.                                       *)
(***************************************************************************)
EXTENDS Integers, Sequences, FiniteSets

CONSTANTS DeviceLba,       \* device name -> first sector of the partition
          ROOT_LBA,        \* BLUEYOS_ROOT_PARTITION_LBA
          BOOT_MAX_MOUNTS, \* VFS_MAX_MOUNTS
          CommandLines, Contents, Fstabs, Runnable
             \* what the boot loader passes, what is on the disk (sector ->
             \* file system), /etc/fstab (sequences of <<device, point,
             \* type>>), and the sets of programs that can be started

ASSUME BootAssumption ==
    /\ \A d \in DOMAIN DeviceLba : d # "" /\ DeviceLba[d] \in Nat
    /\ Fstabs \subseteq Seq(STRING \X STRING \X STRING)
    /\ ROOT_LBA \in Nat \ {0} /\ BOOT_MAX_MOUNTS \in Nat
    /\ "/dev/hda2" \in DOMAIN DeviceLba /\ DeviceLba["/dev/hda2"] = ROOT_LBA

VARIABLES phase,       \* how far kernel_main has come
          cmdline, content, fstab, runnable,   \* the inputs
          config,      \* rootfs_config_t: [device, fs, lba, probe, diskless]
          mounted,     \* mount table: [point, fs, lba]
          driver_lba,  \* file system -> the sector its driver works from
          swap_lba,    \* where swap is active, or 0
          running      \* <<"program", path>> or <<"shell">>, <<>> before

bootVars == <<phase, cmdline, content, fstab, runnable, config, mounted, driver_lba,
              swap_lba, running>>

DiskTypes == {"biscuitfs", "fat16"}
KnownTypes == DiskTypes \cup {"procfs", "devfs"}
Diskless(device) == device \in {"none", "diskless"}

\* boot_args_get_value: the first token with that key and a value.
ValueOf(key, default) ==
    LET at == {i \in DOMAIN cmdline : cmdline[i][1] = key /\ cmdline[i][2] # ""} IN
    IF at = {} THEN default ELSE cmdline[CHOOSE i \in at : \A j \in at : i <= j][2]

\* rootfs_canonical_fs_name
Canonical(fs) == IF fs = "blueyfs" THEN "biscuitfs" ELSE fs

\* rootfs_config_init
DefaultConfig == [device |-> "/dev/hda2", fs |-> "biscuitfs", lba |-> ROOT_LBA,
                  probe |-> TRUE, diskless |-> FALSE]

BootInit ==
    /\ phase = "args"
    /\ cmdline \in CommandLines /\ content \in Contents /\ fstab \in Fstabs
    /\ runnable \in Runnable
    /\ config = DefaultConfig
    /\ mounted = <<>>
    /\ driver_lba = [fs \in DiskTypes |-> 0]
    /\ swap_lba = 0
    /\ running = <<>>

Inputs == <<cmdline, content, fstab, runnable>>

\* boot_args_init and rootfs_apply_boot_args.  An unknown device leaves the
\* default one's sector.
ReadArgs ==
    /\ phase = "args" /\ phase' = "root"
    /\ LET device == ValueOf("root", config.device)
           fs     == ValueOf("rootfstype", "") IN
       config' = [device |-> device,
                  fs |-> IF fs = "" THEN config.fs ELSE Canonical(fs),
                  lba |-> IF ~Diskless(device) /\ device \in DOMAIN DeviceLba
                          THEN DeviceLba[device] ELSE config.lba,
                  probe |-> fs = "",
                  diskless |-> Diskless(device)]
    /\ UNCHANGED <<Inputs, mounted, driver_lba, swap_lba, running>>

-----------------------------------------------------------------------------
\* vfs_mount on a system [mounted, driver, ok].
MountOn(s, point, fs, lba) ==
    LET good == \/ fs \in KnownTypes \ DiskTypes
                \/ lba \in DOMAIN content /\ content[lba] = fs IN
    IF Len(s.mounted) >= BOOT_MAX_MOUNTS \/ fs \notin KnownTypes THEN [s EXCEPT !.ok = FALSE]
    ELSE [s EXCEPT !.driver = [d \in DiskTypes |-> IF d = fs THEN lba ELSE @[d]],
                   !.ok = good,
                   !.mounted = IF good THEN Append(@, [point |-> point, fs |-> fs, lba |-> lba])
                               ELSE @]

\* The first of a sequence of <<type, sector>> that can be mounted as root.
\* Fault: all of them.
FirstOf_All(s, tries) ==
    LET after[i \in 0 .. Len(tries)] ==
            IF i = 0 THEN [s EXCEPT !.ok = FALSE]
            ELSE LET m == MountOn(after[i - 1], "/", tries[i][1], tries[i][2])
                 IN [m EXCEPT !.ok = after[i - 1].ok \/ m.ok]
    IN after[Len(tries)]
FirstOf(s, tries) ==
    LET after[i \in 0 .. Len(tries)] ==
            IF i = 0 THEN [s EXCEPT !.ok = FALSE]
            ELSE IF after[i - 1].ok THEN after[i - 1]
            ELSE MountOn(after[i - 1], "/", tries[i][1], tries[i][2])
    IN after[Len(tries)]

\* What rootfs_mount_config tries.  A whole disk without a file system is
\* taken for one with partitions.  Fault: the type asked for is only the
\* first to be tried.
Attempts_Probe(c) ==
    <<<<c.fs, c.lba>>, <<"biscuitfs", c.lba>>, <<"fat16", c.lba>>>>
Attempts(c) ==
    IF ~c.probe THEN <<<<Canonical(c.fs), c.lba>>>>
    ELSE <<<<"biscuitfs", c.lba>>, <<"fat16", c.lba>>>>
         \o (IF c.lba = 0
             THEN <<<<"biscuitfs", DeviceLba["/dev/hda2"]>>, <<"fat16", DeviceLba["/dev/hda2"]>>>>
             ELSE <<>>)

System == [mounted |-> mounted, driver |-> driver_lba, ok |-> TRUE]
SystemBecomes(s) == mounted' = s.mounted /\ driver_lba' = s.driver

\* /dev, the ATA driver and, if a disk is there, rootfs_mount_config.
\* Without a disk to mount it succeeds and mounts nothing.
MountRoot(disk) ==
    /\ phase = "root"
    /\ LET dev == MountOn(System, "/dev", "devfs", 0)
           root == FirstOf(dev, Attempts(config)) IN
       IF ~disk THEN SystemBecomes(dev) /\ phase' = "proc"
       ELSE IF config.diskless THEN SystemBecomes(dev) /\ phase' = "fstab"
       ELSE SystemBecomes(root) /\ phase' = (IF root.ok THEN "fstab" ELSE "proc")
    /\ UNCHANGED <<Inputs, config, swap_lba, running>>

\* rootfs_parse_fstab_line, after /proc was mounted.  swap_init first turns
\* off what was on.
FstabLine(s, line) ==
    IF line[2] = "/" \/ line[1] \notin DOMAIN DeviceLba THEN s
    ELSE LET lba == DeviceLba[line[1]] IN
         IF line[3] = "swap"
         THEN [s EXCEPT !.swap = IF lba \in DOMAIN content /\ content[lba] = "swap"
                                 THEN lba ELSE 0]
         ELSE LET m == MountOn([mounted |-> s.mounted, driver |-> s.driver, ok |-> TRUE],
                             line[2], Canonical(line[3]), lba)
              IN [s EXCEPT !.mounted = m.mounted, !.driver = m.driver]

AfterLines(s, lines) ==
    LET after[i \in 0 .. Len(lines)] ==
            IF i = 0 THEN s ELSE FstabLine(after[i - 1], lines[i])
    IN after[Len(lines)]

\* rootfs_apply_fstab
ApplyFstab ==
    /\ phase = "fstab" /\ phase' = "start"
    /\ LET proc == MountOn(System, "/proc", "procfs", 0)
           lines == IF \E i \in DOMAIN mounted : mounted[i].point = "/" THEN fstab ELSE <<>>
           end == AfterLines([mounted |-> proc.mounted, driver |-> proc.driver,
                              swap |-> swap_lba], lines)
       IN SystemBecomes(end) /\ swap_lba' = end.swap
    /\ UNCHANGED <<Inputs, config, running>>
NoFstab ==
    /\ phase = "proc" /\ phase' = "start"
    /\ SystemBecomes(MountOn(System, "/proc", "procfs", 0))
    /\ UNCHANGED <<Inputs, config, swap_lba, running>>

\* kernel_bootstrap_first_user, and the kernel's shell when nothing starts.
\* Fault: the second fallback is forgotten.
Candidates_One == <<ValueOf("init", "/sbin/init"), "/bin/init">>
Candidates == <<ValueOf("init", "/sbin/init"), "/bin/init", "/bin/bash">>
StartFirst ==
    /\ phase = "start" /\ phase' = "up"
    /\ LET able == {i \in DOMAIN Candidates :
                        /\ Candidates[i] \in runnable
                        /\ \E m \in DOMAIN mounted : mounted[m].point = "/"}
       IN running' = IF able = {} THEN <<"shell">>
                     ELSE <<"program", Candidates[CHOOSE i \in able : \A j \in able : i <= j]>>
    /\ UNCHANGED <<Inputs, config, mounted, driver_lba, swap_lba>>

BootNext ==
    \/ ReadArgs
    \/ \E disk \in BOOLEAN : MountRoot(disk)
    \/ ApplyFstab \/ NoFstab
    \/ StartFirst

BootSpec == BootInit /\ [][BootNext]_bootVars

-----------------------------------------------------------------------------
RootMounts == {mounted[i] : i \in {j \in DOMAIN mounted : mounted[j].point = "/"}}

\* The root file system is of the type that the command line asks for, and
\* comes from the device it names: from no other, unless a whole disk is
\* asked for that has partitions.
RootAsAsked ==
    \A m \in RootMounts :
        /\ ValueOf("rootfstype", "") # "" => m.fs = Canonical(ValueOf("rootfstype", ""))
        /\ ValueOf("root", "") \in DOMAIN DeviceLba =>
             \/ m.lba = DeviceLba[ValueOf("root", "")]
             \/ /\ DeviceLba[ValueOf("root", "")] = 0 /\ m.lba = ROOT_LBA
                /\ ValueOf("rootfstype", "") = ""

\* The kernel's own shell is the last resort: it runs only when there is no
\* root, or none of the three programs on it can be started.
ShellLast ==
    running = <<"shell">> =>
        RootMounts = {} \/ {ValueOf("init", "/sbin/init"), "/bin/init", "/bin/bash"}
                           \cap runnable = {}

\* README.md: "the kernel reads /etc/fstab after mounting root to enable swap
\* and any additional simple mounts": the mounts before stay what they are,
\* each file system's driver working on the partition it was mounted from.
MountsIntact ==
    \A i \in DOMAIN mounted :
        mounted[i].fs \in DiskTypes => driver_lba[mounted[i].fs] = mounted[i].lba

\* The root is the one asked for, its mounts stay what they were, and the
\* kernel's shell is the last resort (rootfs_mount_config,
\* kernel_bootstrap_first_user).
BootSound == RootAsAsked /\ MountsIntact /\ ShellLast
=============================================================================
