----------------------------- MODULE Descriptors -----------------------------
(***************************************************************************)
(* File descriptors (fs/vfs.c): the descriptor table of every process, the *)
(* open-file slots of the file systems behind it, pipes, and the counts    *)
(* that tie them together across open, dup, close, fork and exit.          *)
(*                                                                         *)
(* Two file systems stand for two kinds: "biscuit" counts the descriptors  *)
(* of a slot (addref, as FAT does too), "devfs" does not (as procfs).      *)
(* What a pipe carries is abstracted to its amount, the order of its bytes *)
(* left out.  A read that must wait sleeps and runs again from the start.  *)
(***************************************************************************)
EXTENDS Integers, FiniteSets, FiniteSetsExt

CONSTANTS Procs,      \* processes
          InitProc,       \* the one that is alive at the start
          MAX_OPEN,   \* VFS_MAX_OPEN
          FIRST_FD,   \* the lowest descriptor that open gives (3)
          NSlots,     \* open-file slots of a file system
          Nodes,      \* files
          MAX_PIPES, PIPE_BUF_SIZE,
          Backends    \* file systems mounted in this instance

ASSUME DescriptorsAssumption ==
    /\ IsFiniteSet(Procs) /\ InitProc \in Procs
    /\ {MAX_OPEN, NSlots, MAX_PIPES, PIPE_BUF_SIZE} \subseteq Nat \ {0}
    /\ FIRST_FD \in 0 .. MAX_OPEN - 1
    /\ Backends \subseteq {"biscuit", "devfs"}

VARIABLES fd_table, \* process -> descriptor -> vfs_fd_t
          alive,    \* processes that have not exited
          slots,    \* open-file slots of the file systems
          pipe_pool,
          reading,  \* process -> the descriptor of the read it sleeps in, or -1
          stranded  \* history: slots opened for a process without a free descriptor

descVars == <<fd_table, alive, slots, pipe_pool, reading, stranded>>

Fds       == 0 .. MAX_OPEN - 1
Slots     == Backends \X (1 .. NSlots)
Pipes     == 1 .. MAX_PIPES
PipeEnds  == {"pipe_read", "pipe_write"}
Counted   == {"biscuit"}    \* file systems with an addref callback

FreeEntry == [kind |-> "free", id |-> 0, path |-> "none"]
FreeSlot  == [refs |-> 0, node |-> "none"]
FreePipe  == [readers |-> 0, writers |-> 0, count |-> 0, used |-> FALSE]

DescInit ==
    /\ fd_table = [p \in Procs |-> [f \in Fds |-> FreeEntry]]
    /\ alive = {InitProc}
    /\ slots = [s \in Slots |-> FreeSlot]
    /\ pipe_pool = [i \in Pipes |-> FreePipe]
    /\ reading = [p \in Procs |-> -1]
    /\ stranded = {}

Running(p) == p \in alive /\ reading[p] = -1
IsOpen(p, f) == fd_table[p][f].kind # "free"

\* vfs_alloc_fd, and the search of F_DUPFD from any lower bound.
FreeFrom(p, low) == {f \in Fds : f >= low /\ ~IsOpen(p, f)}
CanAlloc(p) == FreeFrom(p, FIRST_FD) # {}
AllocFd(p)  == Min(FreeFrom(p, FIRST_FD))

Descriptors(table, F, kind, id) ==
    Cardinality({f \in F : table[f].kind = kind /\ table[f].id = id})

-----------------------------------------------------------------------------
(* The counts, when descriptors F of a table are added or go away.  A slot *)
(* with no count is freed by the first close; unused pipes are kept reset. *)

SlotsPlus(table, F) ==
    [s \in Slots |-> IF s[1] \in Counted /\ slots[s].refs > 0
        THEN [slots[s] EXCEPT !.refs = @ + Descriptors(table, F, s[1], s[2])]
        ELSE slots[s]]

\* Fault: the last close leaves the slot.
SlotsMinus_OneTooFew(table, F) ==
    [s \in Slots |-> [slots[s] EXCEPT
        !.refs = IF @ > 1 THEN Max({1, @ - Descriptors(table, F, s[1], s[2])}) ELSE @]]
\* Fault: the first close frees the slot.
SlotsMinus_AtOnce(table, F) ==
    [s \in Slots |-> IF Descriptors(table, F, s[1], s[2]) = 0 THEN slots[s] ELSE FreeSlot]
SlotsMinus(table, F) ==
    [s \in Slots |-> LET n == Descriptors(table, F, s[1], s[2]) IN
        IF n = 0 THEN slots[s]
        ELSE IF s[1] \in Counted /\ slots[s].refs > n
        THEN [slots[s] EXCEPT !.refs = @ - n]
        ELSE FreeSlot]

\* Fault: a new descriptor of a write end is not counted.
PipesPlus_ReadersOnly(table, F) ==
    [i \in Pipes |-> [pipe_pool[i] EXCEPT
        !.readers = @ + Descriptors(table, F, "pipe_read", i)]]
PipesPlus(table, F) ==
    [i \in Pipes |-> [pipe_pool[i] EXCEPT
        !.readers = @ + Descriptors(table, F, "pipe_read", i),
        !.writers = @ + Descriptors(table, F, "pipe_write", i)]]

PipesMinus(table, F) ==
    [i \in Pipes |->
        LET p == [pipe_pool[i] EXCEPT
                    !.readers = Max({0, @ - Descriptors(table, F, "pipe_read", i)}),
                    !.writers = Max({0, @ - Descriptors(table, F, "pipe_write", i)})]
        IN  IF p.readers = 0 /\ p.writers = 0 THEN FreePipe ELSE p]

-----------------------------------------------------------------------------
\* vfs_open of a file: the file system gives a slot, then the table a
\* descriptor.  Without one the call fails and the slot stays taken.
OpenFile(p, b, node) ==
    /\ Running(p)
    /\ \E s \in Slots :
        /\ s = <<b, Min({i \in 1 .. NSlots : slots[<<b, i>>].refs = 0})>>
        /\ slots' = [slots EXCEPT ![s] = [refs |-> 1, node |-> node]]
        /\ IF CanAlloc(p)
           THEN /\ fd_table' = [fd_table EXCEPT ![p][AllocFd(p)] =
                                    [kind |-> b, id |-> s[2], path |-> node]]
                /\ UNCHANGED stranded
           ELSE stranded' = stranded \cup {s} /\ UNCHANGED fd_table
    /\ UNCHANGED <<alive, pipe_pool, reading>>

HasSlot(b) == \E i \in 1 .. NSlots : slots[<<b, i>>].refs = 0

\* A terminal, the event channel or a directory: nothing behind the descriptor.
OpenPlain(p) ==
    /\ Running(p) /\ CanAlloc(p)
    /\ fd_table' = [fd_table EXCEPT ![p][AllocFd(p)] = [FreeEntry EXCEPT !.kind = "plain"]]
    /\ UNCHANGED <<alive, slots, pipe_pool, reading, stranded>>

\* vfs_dup, and vfs_dup_above with the lower bound low.
DupTo(p, old, new) ==
    /\ fd_table' = [fd_table EXCEPT ![p][new] = fd_table[p][old]]
    /\ slots' = SlotsPlus(fd_table[p], {old})
    /\ pipe_pool' = PipesPlus(fd_table[p], {old})
    /\ UNCHANGED <<alive, reading, stranded>>
Dup(p, old, low) ==
    /\ Running(p) /\ IsOpen(p, old)
    /\ FreeFrom(p, low) # {}
    /\ DupTo(p, old, Min(FreeFrom(p, low)))

Close(p, f) ==
    /\ Running(p) /\ IsOpen(p, f)
    /\ slots' = SlotsMinus(fd_table[p], {f})
    /\ pipe_pool' = PipesMinus(fd_table[p], {f})
    /\ fd_table' = [fd_table EXCEPT ![p][f] = FreeEntry]
    /\ UNCHANGED <<alive, reading, stranded>>

\* vfs_dup2 onto a free descriptor; onto an open one it closes that first.
Dup2(p, old, new) ==
    /\ Running(p) /\ IsOpen(p, old) /\ old # new
    /\ LET table == fd_table[p]
           gone  == {new} \cap {f \in Fds : IsOpen(p, f)}
           sl    == SlotsMinus(table, gone)
           pp    == PipesMinus(table, gone)
       IN  /\ slots' = [s \in Slots |->
                IF s[1] \in Counted /\ sl[s].refs > 0
                THEN [sl[s] EXCEPT !.refs = @ + Descriptors(table, {old}, s[1], s[2])] ELSE sl[s]]
           /\ pipe_pool' = [i \in Pipes |-> [pp[i] EXCEPT
                !.readers = @ + Descriptors(table, {old}, "pipe_read", i),
                !.writers = @ + Descriptors(table, {old}, "pipe_write", i)]]
           /\ fd_table' = [fd_table EXCEPT ![p][new] = table[old]]
    /\ UNCHANGED <<alive, reading, stranded>>

\* vfs_pipe: with fewer than two free descriptors it undoes what it has done.
PipeEntry(kind, i) == [kind |-> kind, id |-> i, path |-> "none"]
MakePipe(p) ==
    /\ Running(p)
    /\ Cardinality(FreeFrom(p, FIRST_FD)) >= 2
    /\ \E i \in Pipes :
        /\ ~pipe_pool[i].used /\ \A j \in 1 .. i - 1 : pipe_pool[j].used
        /\ LET r == AllocFd(p)
               w == Min(FreeFrom(p, FIRST_FD) \ {r})
           IN  fd_table' = [fd_table EXCEPT ![p][r] = PipeEntry("pipe_read", i),
                                            ![p][w] = PipeEntry("pipe_write", i)]
        /\ pipe_pool' = [pipe_pool EXCEPT
                ![i] = [readers |-> 1, writers |-> 1, count |-> 0, used |-> TRUE]]
    /\ UNCHANGED <<alive, slots, reading, stranded>>

-----------------------------------------------------------------------------
\* vfs_pipe_readable and vfs_pipe_writable, which poll and select ask.
PipeReadable(i) == pipe_pool[i].count > 0 \/ pipe_pool[i].writers = 0
PipeWritable(i) == pipe_pool[i].count < PIPE_BUF_SIZE /\ pipe_pool[i].readers > 0

\* vfs_read of n bytes does not ask which end it is.  Nothing there: end of
\* file, or EAGAIN if there is a writer, and then sys_read sleeps.
Blocks(i) == pipe_pool[i].count = 0 /\ pipe_pool[i].writers # 0
\* Fault: the caller is told to try again also at the end of the file.
ReadPipe_NoEof(p, f, n) ==
    LET i == fd_table[p][f].id IN
    IF pipe_pool[i].count = 0
    THEN reading' = [reading EXCEPT ![p] = f] /\ UNCHANGED pipe_pool
    ELSE /\ pipe_pool' = [pipe_pool EXCEPT ![i].count = @ - Min({n, @})]
         /\ reading' = [reading EXCEPT ![p] = -1]
ReadPipe(p, f, n) ==
    LET i == fd_table[p][f].id IN
    IF Blocks(i)
    THEN reading' = [reading EXCEPT ![p] = f] /\ UNCHANGED pipe_pool
    ELSE /\ pipe_pool' = [pipe_pool EXCEPT ![i].count = @ - Min({n, @})]
         /\ reading' = [reading EXCEPT ![p] = -1]

Read(p, f, n) ==
    /\ Running(p) /\ fd_table[p][f].kind \in PipeEnds
    /\ ReadPipe(p, f, n)
    /\ UNCHANGED <<fd_table, alive, slots, stranded>>

\* The sleep is over and the system call runs again.
ReadAgain(p) ==
    /\ p \in alive /\ reading[p] # -1
    /\ ReadPipe(p, reading[p], 1)
    /\ UNCHANGED <<fd_table, alive, slots, stranded>>

\* vfs_write takes what fits, also when nobody is left to read it.
Write(p, f, n) ==
    /\ Running(p) /\ fd_table[p][f].kind \in PipeEnds
    /\ LET i == fd_table[p][f].id
       IN  pipe_pool' = [pipe_pool EXCEPT ![i].count = Min({PIPE_BUF_SIZE, @ + n})]
    /\ UNCHANGED <<fd_table, alive, slots, reading, stranded>>

\* vfs_inherit_fd_table, called by process_fork_current.
ForkProc(p, q) ==
    /\ Running(p) /\ q \in Procs \ alive
    /\ alive' = alive \cup {q}
    /\ fd_table' = [fd_table EXCEPT ![q] = fd_table[p]]
    /\ slots' = SlotsPlus(fd_table[p], Fds)
    /\ pipe_pool' = PipesPlus(fd_table[p], Fds)
    /\ UNCHANGED <<reading, stranded>>

\* vfs_close_all_fds_for_process, called by process_mark_exited for a
\* process that exits or is killed, in the middle of a read too.
ExitProc(p) ==
    /\ p \in alive \ {InitProc}
    /\ alive' = alive \ {p}
    /\ slots' = SlotsMinus(fd_table[p], Fds)
    /\ pipe_pool' = PipesMinus(fd_table[p], Fds)
    /\ fd_table' = [fd_table EXCEPT ![p] = [f \in Fds |-> FreeEntry]]
    /\ reading' = [reading EXCEPT ![p] = -1]
    /\ UNCHANGED stranded

DescNext ==
    \E p \in Procs :
        \/ \E b \in Backends, node \in Nodes : HasSlot(b) /\ OpenFile(p, b, node)
        \/ OpenPlain(p) \/ MakePipe(p) \/ ReadAgain(p) \/ ExitProc(p)
        \/ \E f \in Fds, low \in {0, FIRST_FD} : Dup(p, f, low)
        \/ \E f, g \in Fds : Dup2(p, f, g)
        \/ \E f \in Fds : Close(p, f)
        \/ \E f \in Fds, n \in 1 .. PIPE_BUF_SIZE : Read(p, f, n) \/ Write(p, f, n)
        \/ \E q \in Procs : ForkProc(p, q)

\* The timer wakes every sleeper, and a woken reader gets its turn.
DescFairness == \A p \in Procs : WF_descVars(ReadAgain(p))
DescSpec == DescInit /\ [][DescNext]_descVars /\ DescFairness

-----------------------------------------------------------------------------
Holders(kind, id) == {d \in Procs \X Fds : LET e == fd_table[d[1]][d[2]]
                                           IN  e.kind = kind /\ e.id = id}

\* A counted slot has as many references as descriptors, one more if the
\* open that took it found no descriptor to return (vfs_open); so it is free
\* as soon as nobody can use it, and never before.
RefsExact ==
    \A s \in Slots : s[1] \in Counted =>
        slots[s].refs = Cardinality(Holders(s[1], s[2])) + (IF s \in stranded THEN 1 ELSE 0)

\* A descriptor of a counting file system means the file it was opened as,
\* whatever other processes close, dup and open (vfs_fd_t.path, fs_fd).
SameFile ==
    \A p \in Procs, f \in Fds :
        LET e == fd_table[p][f] IN
        e.kind \in Counted => slots[<<e.kind, e.id>>].node = e.path

\* The same for file systems that do not count: it does not hold.
SameDevice ==
    \A p \in Procs, f \in Fds :
        LET e == fd_table[p][f] IN
        e.kind \in Backends => slots[<<e.kind, e.id>>].node = e.path

\* The ends of a pipe are counted exactly: end of file is seen when the last
\* writer is gone and not before, and the pipe goes with its last descriptor.
PipeEndsExact ==
    \A i \in Pipes :
        /\ pipe_pool[i].readers = Cardinality(Holders("pipe_read", i))
        /\ pipe_pool[i].writers = Cardinality(Holders("pipe_write", i))
        /\ pipe_pool[i].used <=> (pipe_pool[i].readers + pipe_pool[i].writers > 0)

\* Files and pipe ends count their descriptors, and a descriptor keeps the file
\* that was opened (vfs_addref_fd, vfs_close, vfs_clone_fd_table).
DescriptorsExact == RefsExact /\ SameFile /\ PipeEndsExact

\* A reader that sleeps on a pipe whose last writer has gone wakes up with
\* the end of the file (sys_read, vfs_read).
ReaderReleased ==
    \A p \in Procs :
        (reading[p] # -1 /\ pipe_pool[fd_table[p][Max({reading[p], 0})].id].writers = 0)
            ~> (reading[p] = -1)
=============================================================================
