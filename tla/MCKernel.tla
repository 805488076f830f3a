------------------------------ MODULE MCKernel ------------------------------
(* The inside of the kernel: user memory, the heap, modules, the boot, the   *)
(* clock, and the journal.  In one behaviour one part moves; the others      *)
(* stand where they start.                                                   *)
EXTENDS UserMemory, Heap, Modules, Boot, Rtc, Journal, TLC

CONSTANTS b1, b2, v1, v2, torn

VARIABLE part

\* Programs: a static one, and one with an interpreter.
FixedImage  == [segments |-> <<<<4, 4>>>>, interp |-> <<>>]
LinkedImage == [segments |-> <<<<4, 4>>>>, interp |-> <<<<6, 6>>>>]
UserImages  == {FixedImage, LinkedImage}

\* Module files: a plain one, and what may be the matter with others.
Text   == [alloc |-> TRUE, align |-> 4, size |-> 6, bits |-> TRUE, inFile |-> TRUE]
Values == [alloc |-> TRUE, align |-> 8, size |-> 5, bits |-> TRUE, inFile |-> TRUE]
Bss    == [alloc |-> TRUE, align |-> 4, size |-> 4, bits |-> FALSE, inFile |-> FALSE]
Debug  == [alloc |-> FALSE, align |-> 1, size |-> 3, bits |-> TRUE, inFile |-> TRUE]
Plain  == [name |-> "a", path |-> "a", size |-> "fits", header |-> TRUE,
           sections |-> <<Text, Debug, Values, Bss>>,
           rels |-> <<[type |-> "rel", target |-> 1, at |-> 1, name |-> ""]>>, init |-> "ok"]
ModuleFiles ==
    {Plain,
     [Plain EXCEPT !.name = "", !.path = "b", !.init = "none"],
     [Plain EXCEPT !.name = "c", !.init = "fails"],
     [Plain EXCEPT !.name = "ata"],
     [Plain EXCEPT !.name = "d", !.rels[1].name = "kprintf"],
     [Plain EXCEPT !.name = "d", !.rels[1].type = "rela"],
     [Plain EXCEPT !.name = "d", !.rels[1].at = 3],
     [Plain EXCEPT !.name = "d", !.rels[1].target = 2, !.rels[1].at = 9],
     [Plain EXCEPT !.header = FALSE],
     [Plain EXCEPT !.size = "large"],
     [Plain EXCEPT !.size = "empty"],
     [Plain EXCEPT !.sections[1].inFile = FALSE]}
Exports == <<"kheap_alloc", "kprintf">>
Drivers == <<"keyboard", "ata">>

\* Disks, command lines and fstabs.
Devices == [d \in {"/dev/hda", "/dev/hda1", "/dev/hda2", "/dev/hda3", "none"} |->
              CASE d = "/dev/hda1" -> 1 [] d = "/dev/hda2" -> 2 [] d = "/dev/hda3" -> 3
                [] OTHER -> 0]
Lines ==
    {<<>>, <<<<"root", "/dev/hda2">>, <<"rootfstype", "blueyfs">>>>,
     <<<<"root", "">>, <<"root", "/dev/hda">>, <<"init", "/bin/sh">>>>,
     <<<<"root", "none">>>>, <<<<"root", "/dev/sdb">>, <<"safe", "">>>>,
     <<<<"root", "/dev/hda1">>, <<"rootfstype", "fat16">>>>,
     <<<<"root", "/dev/hda2">>, <<"rootfstype", "ext2">>>>}
Disks ==
    {[l \in 0 .. 3 |-> CASE l = 0 -> zero [] l = 1 -> one [] l = 2 -> two [] OTHER -> "swap"] :
       zero \in {"", "fat16"}, one \in {"", "fat16"}, two \in {"", "biscuitfs", "fat16"}}
SwapLine == <<"/dev/hda3", "none", "swap">>
Tables ==
    {<<>>, <<<<"/dev/hda2", "/", "blueyfs">>, SwapLine>>,
     <<SwapLine, <<"/dev/hda2", "none", "swap">>, <<"/dev/hdb", "/mnt", "fat16">>>>,
     <<<<"none", "/proc2", "procfs">>, <<"none", "/dev2", "devfs">>, <<"none", "/dev3", "devfs">>>>}
Shells == {{}, {"/sbin/init"}, {"/bin/init"}, {"/bin/bash"}, {"/bin/sh", "/bin/bash"}}

\* Chips that count in BCD or binary, to 12 or 24 hours.
AllFormats == [bcd : BOOLEAN, h24 : BOOLEAN]
SomeYears  == {1970, 1972, 1999, 2000, 2023, 2024, 2068}

KernelVars == <<memVars, heapVars, modVars, bootVars, rtcVars, vars, part>>

KernelInit ==
    /\ MemoryInit /\ HeapInit /\ ModulesInit /\ BootInit /\ RtcInit /\ Init
    /\ part \in {"memory", "heap", "modules", "boot", "clock", "journal"}
    /\ part # "boot" =>
         cmdline = <<>> /\ fstab = <<>> /\ runnable = {} /\ \A l \in 0 .. 2 : content[l] = ""
    /\ part # "clock" => now = 0
    /\ part # "journal" => \A b \in Blocks : home[b] = v1

MemoryMoves == /\ part = "memory" /\ MemoryNext
               /\ UNCHANGED <<heapVars, modVars, bootVars, rtcVars, vars, part>>
HeapMoves == /\ part = "heap" /\ HeapNext
             /\ UNCHANGED <<memVars, modVars, bootVars, rtcVars, vars, part>>
ModulesMove == /\ part = "modules" /\ ModulesNext
               /\ UNCHANGED <<memVars, heapVars, bootVars, rtcVars, vars, part>>
BootMoves == /\ part = "boot" /\ BootNext
             /\ UNCHANGED <<memVars, heapVars, modVars, rtcVars, vars, part>>
ClockMoves == /\ part = "clock" /\ RtcNext
              /\ UNCHANGED <<memVars, heapVars, modVars, bootVars, vars, part>>
JournalMoves == /\ part = "journal" /\ Next
                /\ UNCHANGED <<memVars, heapVars, modVars, bootVars, rtcVars, part>>

\* Booting ends, time is bounded, and the other parts may have nothing to do.
Rest == UNCHANGED KernelVars

KernelNext == MemoryMoves \/ HeapMoves \/ ModulesMove \/ BootMoves \/ ClockMoves
                \/ JournalMoves \/ Rest

Kernel == KernelInit /\ [][KernelNext]_KernelVars
=============================================================================
