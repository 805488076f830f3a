----------------------------- MODULE MCStorage -----------------------------
(* What is kept on disks: BiscuitFS, the images that mkfs makes, and swap.   *)
(* In one behaviour one part moves; the others stand where they start.       *)
(* BiscuitFS has two workloads: open files that are written and unlinked,    *)
(* and a tree of directories that power failures hit.                        *)
EXTENDS BlueyFS, Mkfs, Swap

CONSTANTS a, b

VARIABLE part

Symmetry == Permutations(Names)

FileCalls == {"open", "create", "close", "addref", "seek", "write", "unlink"}
TreeCalls == {"create", "close", "symlink", "link", "mkdir", "unlink"}

FilesFS == INSTANCE BlueyFS WITH MaxOffset <- 1, MaxOutages <- 0, Calls <- FileCalls
TreeFS  == INSTANCE BlueyFS WITH Calls <- TreeCalls

Item(n, t)         == [name |-> n, to |-> t, link |-> FALSE, inside |-> TRUE]
LinkTo(n, t, into) == [name |-> n, to |-> t, link |-> TRUE, inside |-> into]

\* A tree with a bin of its own, long files, a link to a directory, one that
\* leaves the tree, and a device; no tree; and one that contains itself.
Sysroot == [kids |-> [top |-> <<Item("bin", "bin"), Item("lib", "lib"), LinkTo("usr", "lib", TRUE),
                                LinkTo("out", "lib", FALSE), Item("dev", "device")>>,
                      bin |-> <<Item("sh", "long"), Item("init", "short")>>,
                      lib |-> <<Item("c", "short"), Item("m", "short"), Item("x", "short")>>],
            length |-> [long |-> 6, short |-> 1, rescue |-> 2],
            root |-> "top", init |-> "rescue", fstab |-> "short"]
Minimal == [Sysroot EXCEPT !.root = "none", !.fstab = "none"]
Looping == [Sysroot EXCEPT !.kids = [top |-> <<LinkTo("self", "top", TRUE)>>]]
Trees   == {Sysroot, Minimal, Looping}

StorageVars == <<vars, mkfsVars, swapVars, part>>

StorageInit ==
    /\ MkfsInit /\ SwapInit
    /\ part \in {"files", "tree", "mkfs", "swap"}
    /\ part # "mkfs" => host = Minimal
    /\ IF part = "files" THEN FilesFS!Init ELSE TreeFS!Init

FilesMove == part = "files" /\ FilesFS!Next /\ UNCHANGED <<mkfsVars, swapVars, part>>
\* One open file is enough for the tree.
TreeMoves == /\ part = "tree" /\ TreeFS!Next
             /\ \A f \in Fds \ {1} : fds'[f] = FreeFd
             /\ UNCHANGED <<mkfsVars, swapVars, part>>
MkfsMoves == part = "mkfs" /\ MkfsNext /\ UNCHANGED <<vars, swapVars, part>>
SwapMoves == part = "swap" /\ SwapNext /\ UNCHANGED <<vars, mkfsVars, part>>

\* The program ends, and swap may be full.
Rest == part \in {"mkfs", "swap"} /\ UNCHANGED StorageVars

StorageNext == FilesMove \/ TreeMoves \/ MkfsMoves \/ SwapMoves \/ Rest

Storage == StorageInit /\ [][StorageNext]_StorageVars

(* Where no file is written, no operation and no power failure leaves a data
   block marked that nothing points to (free_block, alloc_block). *)
BlocksReturned == part # "files" => NoLeakedBlock
=============================================================================
