------------------------------- MODULE BlueyFS -------------------------------
(***************************************************************************)
(* The metadata of BiscuitFS (fs/blueyfs.c): bitmaps, group descriptor,    *)
(* inode table, directories and open files of a file system with one block *)
(* group, on a disk with atomic transactions.  That the journal provides   *)
(* such a disk, and where it does not, is the subject of module Journal.   *)
(*                                                                         *)
(* System calls run with interrupts off, so an operation is one step, with *)
(* the commit of its transaction and the power failure that may hit it.    *)
(* Inside an operation every read comes from the DISK (read_block), never  *)
(* from the blocks that the operation itself has put in its transaction:   *)
(* that is the shape of the code that the operators below keep, with reads *)
(* from t.disk and writes to t.buf.                                        *)
(*                                                                         *)
(* A file is measured in units of which a block has BS (4096 bytes in the  *)
(* code).  What a data block says is abstracted to its kind, except for    *)
(* directory entries and indirect pointers.                                *)
(***************************************************************************)
EXTENDS DiskBlocks, Integers, FiniteSets, FiniteSetsExt, SequencesExt

CONSTANTS NBlocks,      \* data blocks, numbered from 1
          NInodes,      \* inodes, numbered from 1
          INODES_PER_BLOCK, \* inodes in a block of the inode table
          N_DIRECT,     \* direct pointers of an inode
          PTRS,         \* pointers in an indirect block
          DIR_SLOTS,    \* names that fit in a block of a directory
          BS,           \* units in a block, and the most that one write writes
          JNL_BUF,      \* blocks that fit in a transaction
          MaxOffset,    \* bound on file offsets
          NFds,         \* BISCUITFS_MAX_OPEN
          Names,        \* names of files and directories
          Calls,        \* the operations that processes ask for in this instance
          MaxOutages    \* bound on power failures

ASSUME BlueyFSAssumption ==
    /\ {NBlocks, NInodes, INODES_PER_BLOCK, N_DIRECT, PTRS, DIR_SLOTS, BS, JNL_BUF, NFds}
         \subseteq Nat \ {0}
    /\ MaxOffset \in 1 .. BS * (N_DIRECT + PTRS)
    /\ MaxOutages \in Nat

VARIABLES disk,     \* the home blocks
          bgd,      \* bgd_table[0]: the free counts, in memory
          fds,      \* fd_table
          outages   \* how often the power has failed

vars == <<disk, bgd, fds, outages>>

Inodes == 1 .. NInodes
ROOT   == 1
Nowhere == 0        \* the block number of a hole, the inode number of a missing file

\* The home blocks.
BgdTable    == <<"bgd", 0>>
BlockBitmap == <<"block_bitmap", 0>>
InodeBitmap == <<"inode_bitmap", 0>>
InodeTable(ino) == <<"inode_table", (ino - 1) \div INODES_PER_BLOCK>>
Data(n)     == <<"data", n>>
Blocks == {BgdTable, BlockBitmap, InodeBitmap}
            \cup {InodeTable(ino) : ino \in Inodes} \cup {Data(n) : n \in 1 .. NBlocks}

\* What a data block can hold.
Zeroed       == [kind |-> "zero"]
FileData     == [kind |-> "file"]
Dir(entries) == [kind |-> "dir", entries |-> entries]
Indirect(p)  == [kind |-> "ptrs", ptr |-> p]

\* An inode that nobody uses, and a new one.
NoInode == [mode |-> "none", links |-> 0, size |-> 0,
            block |-> [k \in 0 .. N_DIRECT - 1 |-> Nowhere], ind |-> Nowhere]
NewInode(mode, links) == [NoInode EXCEPT !.mode = mode, !.links = links]

FreeFd == [ino |-> Nowhere, offset |-> 0, append |-> FALSE, refs |-> 0]
Fds    == 1 .. NFds

\* A file system made by mkfs: an empty root directory in data block 1.
Init ==
    /\ disk = [b \in Blocks |->
         CASE b = BgdTable       -> [free_blocks |-> NBlocks - 1, free_inodes |-> NInodes - 1]
           [] b = BlockBitmap    -> {1}
           [] b = InodeBitmap    -> {ROOT}
           [] b[1] = "inode_table" ->
                [i \in {j \in Inodes : InodeTable(j) = b} |->
                   IF i = ROOT THEN [NewInode("dir", 2) EXCEPT !.block[0] = 1, !.size = BS]
                               ELSE NoInode]
           [] b = Data(1)        -> Dir({})
           [] OTHER              -> Zeroed]
    /\ bgd = disk[BgdTable]
    /\ fds = [f \in Fds |-> FreeFd]
    /\ outages = 0

-----------------------------------------------------------------------------
(* An operation under way: the disk it reads, the transaction it gathers,  *)
(* the free counts in memory; for a write the inode, and how much is still *)
(* to be written where.                                                    *)

Begun == [disk |-> disk, buf |-> << >>, bgd |-> bgd, inode |-> NoInode, left |-> 0, offset |-> 0]

\* A transaction that is full takes no more blocks, and nobody is told.
Journalled(t, b, v) ==
    IF Len(t.buf) >= JNL_BUF THEN t ELSE [t EXCEPT !.buf = Append(@, [blk |-> b, val |-> v])]

Inode(h, ino) == h[InodeTable(ino)][ino]

\* The inode goes back in a copy of its table block read from the disk.
WriteInode(t, ino, inode) ==
    Journalled(t, InodeTable(ino), [t.disk[InodeTable(ino)] EXCEPT ![ino] = inode])

WriteBgd(t) == Journalled(t, BgdTable, t.bgd)

\* Fault: the scan does not look at the bits.
FirstFree_IgnoresBitmap(count, all, bitmap) ==
    IF count = 0 \/ all \subseteq bitmap THEN Nowhere ELSE Min(all)

\* Fault: the scan does not look at the count.
FirstFree_IgnoresCount(count, all, bitmap) ==
    IF all \subseteq bitmap THEN Nowhere ELSE Min(all \ bitmap)

\* The first clear bit of a bitmap, if the count in memory promises one.
FirstFree(count, all, bitmap) ==
    IF count = 0 \/ all \subseteq bitmap THEN Nowhere ELSE Min(all \ bitmap)

\* Fault: the bit of the block is not set.
TakeBlock_LeavesBit(t, n) ==
    WriteBgd([Journalled(t, BlockBitmap, t.disk[BlockBitmap])
                EXCEPT !.bgd.free_blocks = @ - 1])

FreeBlock(t) == FirstFree(t.bgd.free_blocks, 1 .. NBlocks, t.disk[BlockBitmap])
FreeInode(t) == FirstFree(t.bgd.free_inodes, Inodes, t.disk[InodeBitmap])

TakeBlock(t, n) ==
    WriteBgd([Journalled(t, BlockBitmap, t.disk[BlockBitmap] \cup {n})
                EXCEPT !.bgd.free_blocks = @ - 1])

\* Fault: the block is counted as free but its bit is not cleared.
ReleaseBlock_LeavesBit(t, n) == WriteBgd([t EXCEPT !.bgd.free_blocks = @ + 1])

TakeInode(t, ino) ==
    WriteBgd([Journalled(t, InodeBitmap, t.disk[InodeBitmap] \cup {ino})
                EXCEPT !.bgd.free_inodes = @ - 1])

ReleaseBlock(t, n) ==
    WriteBgd([Journalled(t, BlockBitmap, t.disk[BlockBitmap] \ {n})
                EXCEPT !.bgd.free_blocks = @ + 1])

ReleaseInode(t, ino) ==
    WriteBgd([Journalled(t, InodeBitmap, t.disk[InodeBitmap] \ {ino})
                EXCEPT !.bgd.free_inodes = @ + 1])

-----------------------------------------------------------------------------
(* Blocks of a file.                                                       *)

\* The pointers of an indirect block.  One that was overwritten by file data
\* reads as holes here; in the code it reads as whatever the data says.
Pointers(content) ==
    IF content.kind = "ptrs" THEN content.ptr ELSE [k \in 0 .. PTRS - 1 |-> Nowhere]

\* inode_get_block
GetBlock(h, inode, n) ==
    IF n < N_DIRECT THEN inode.block[n]
    ELSE IF inode.ind = Nowhere \/ n - N_DIRECT >= PTRS THEN Nowhere
    ELSE Pointers(h[Data(inode.ind)])[n - N_DIRECT]

\* The block n that has just been taken is cleared on the disk, not in the journal.
Cleared(t, n) == [t EXCEPT !.disk[Data(n)] = Zeroed]

\* inode_set_block for t.inode; its callers do not look at what it returns.
SetBlock(t, n, blk) ==
    LET ib == FreeBlock(t)
        u  == IF t.inode.ind # Nowhere \/ ib = Nowhere THEN t
              ELSE [Cleared(TakeBlock(t, ib), ib) EXCEPT !.inode.ind = ib]
    IN IF n < N_DIRECT THEN [t EXCEPT !.inode.block[n] = blk]
       ELSE IF n - N_DIRECT >= PTRS THEN t
       ELSE IF u.inode.ind = Nowhere THEN u
       ELSE Journalled(u, Data(u.inode.ind),
                       Indirect([Pointers(u.disk[Data(u.inode.ind)]) EXCEPT ![n - N_DIRECT] = blk]))

BlocksIn(inode) == (inode.size + BS - 1) \div BS

-----------------------------------------------------------------------------
(* Directories.                                                            *)

Entries(content) == IF content.kind = "dir" THEN content.entries ELSE {}

\* Where a directory has blocks; they are searched in this order.
DirBlock(h, ino, k) == GetBlock(h, Inode(h, ino), k)
DirPlaces(h, ino)   == {k \in 0 .. BlocksIn(Inode(h, ino)) - 1 : DirBlock(h, ino, k) # Nowhere}

EntriesAt(h, ino, k) == Entries(h[Data(DirBlock(h, ino, k))])
DirEntries(h, ino)   == UNION {EntriesAt(h, ino, k) : k \in DirPlaces(h, ino)}

\* dir_lookup
Lookup(h, ino, name) ==
    LET found == {e \in DirEntries(h, ino) : e.name = name}
    IN IF ino = Nowhere \/ Inode(h, ino).mode # "dir" \/ found = {} THEN Nowhere
       ELSE (CHOOSE e \in found : TRUE).ino

\* path_to_inode
Resolve(h, path) ==
    LET at[k \in 0 .. Len(path)] == IF k = 0 THEN ROOT ELSE Lookup(h, at[k - 1], path[k])
    IN at[Len(path)]

Paths == {<<name>> : name \in Names} \cup {<<dir, name>> : dir \in Names, name \in Names}
Parent(h, path) == Resolve(h, Front(path))

\* dir_add_entry.  It fails when the directory is full and no block is free.
Holes(h, dir) == {k \in DirPlaces(h, dir) : Cardinality(EntriesAt(h, dir, k)) < DIR_SLOTS}

CanAddEntry(t, dir) == Holes(t.disk, dir) # {} \/ FreeBlock(t) # Nowhere

AddEntry(t, dir, name, ino) ==
    LET entry == [name |-> name, ino |-> ino]
        hole  == Min(Holes(t.disk, dir))
        inode == Inode(t.disk, dir)
        new   == FreeBlock(t)
        u     == SetBlock([TakeBlock(t, new) EXCEPT !.inode = inode], inode.size \div BS, new)
    IN IF Holes(t.disk, dir) # {}
       THEN Journalled(t, Data(DirBlock(t.disk, dir, hole)),
                       Dir(EntriesAt(t.disk, dir, hole) \cup {entry}))
       ELSE WriteInode(Journalled(u, Data(new), Dir({entry})), dir,
                       [u.inode EXCEPT !.size = @ + BS])

\* The first place of a directory with an entry of that name.
PlaceOf(h, dir, name) == Min({k \in DirPlaces(h, dir) : \E e \in EntriesAt(h, dir, k) : e.name = name})

\* Fault: the entry is found and stays.
RemoveEntry_LeavesEntry(t, dir, name) == t

\* Fault: entries are compared by inode and not by name.
RemoveEntry_ByInode(t, dir, name) ==
    LET ino == Lookup(t.disk, dir, name)
        k   == PlaceOf(t.disk, dir, name)
    IN Journalled(t, Data(DirBlock(t.disk, dir, k)),
                  Dir({e \in EntriesAt(t.disk, dir, k) : e.ino # ino}))

\* dir_remove_entry, for an entry that is there.
RemoveEntry(t, dir, name) ==
    LET k == PlaceOf(t.disk, dir, name)
    IN Journalled(t, Data(DirBlock(t.disk, dir, k)),
                  Dir({e \in EntriesAt(t.disk, dir, k) : e.name # name}))

-----------------------------------------------------------------------------
(* The operations.                                                         *)

Asked(call) == call \in Calls

NoFds == [f \in Fds |-> FreeFd]

\* The power fails: what is in memory is lost.
Outage ==
    /\ outages < MaxOutages
    /\ outages' = outages + 1
    /\ fds' = NoFds

\* The operation commits its transaction.
Committed(t) == Written(t.disk, t.buf)

\* The power fails during the commit.  Before the transaction is in the journal
\* only the blocks that were cleared have changed; after that replay completes
\* the transaction, but the mount has read the free counts before the replay.
Interrupted(t) ==
    /\ Outage
    /\ \/ /\ disk' = t.disk
          /\ bgd' = disk[BgdTable]
       \/ /\ disk' = Committed(t)
          /\ \E log \in Prefixes(t.buf) : bgd' = Written(t.disk, log)[BgdTable]

\* The operation commits, and leaves the open files as in files.
Done(t, files) ==
    \/ /\ disk' = Committed(t)
       /\ bgd' = t.bgd
       /\ fds' = files
       /\ UNCHANGED outages
    \/ Interrupted(t)

\* The operation aborts, which forgets the transaction and nothing else.
Aborted(t) == disk' = t.disk /\ bgd' = t.bgd /\ UNCHANGED <<fds, outages>>

\* The entry is added and the transaction committed, if the directory takes it.
Enter(t, dir, name, ino, files) ==
    IF CanAddEntry(t, dir) THEN Done(AddEntry(t, dir, name, ino), files) ELSE Aborted(t)

Opened(f, ino, inode, append) ==
    [fds EXCEPT ![f] =
       [ino |-> ino, offset |-> IF append THEN inode.size ELSE 0, append |-> append, refs |-> 1]]

FreeSlot(f) == fds[f].refs = 0 /\ \A g \in 1 .. f - 1 : fds[g].refs > 0

\* open of a file that exists; vfs_open has refused directories.
Open(path, f, append) ==
    LET ino == Resolve(disk, path)
    IN /\ Asked("open")
       /\ ino # Nowhere
       /\ Inode(disk, ino).mode = "file"
       /\ FreeSlot(f)
       /\ fds' = Opened(f, ino, Inode(disk, ino), append)
       /\ UNCHANGED <<disk, bgd, outages>>

\* open with O_CREAT of a file that does not exist, in a directory that does;
\* without a free inode it fails.
Create(path, f) ==
    LET dir == Parent(disk, path)
        t   == Begun
        ino == FreeInode(t)
        u   == WriteInode(TakeInode(t, ino), ino, NewInode("file", 1))
    IN /\ Asked("create")
       /\ Resolve(disk, path) = Nowhere
       /\ dir # Nowhere
       /\ Inode(disk, dir).mode = "dir"
       /\ ino # Nowhere
       /\ FreeSlot(f)
       /\ Enter(u, dir, Last(path), ino, Opened(f, ino, NoInode, FALSE))

Close(f) ==
    /\ Asked("close")
    /\ fds[f].refs > 0
    /\ fds' = [fds EXCEPT ![f] =
                 IF fds[f].refs = 1 THEN FreeFd ELSE [fds[f] EXCEPT !.refs = @ - 1]]
    /\ UNCHANGED <<disk, bgd, outages>>

\* fork and dup share the slot, and with it the offset.
AddRef(f) ==
    /\ Asked("addref")
    /\ fds[f].refs = 1
    /\ fds' = [fds EXCEPT ![f].refs = 2]
    /\ UNCHANGED <<disk, bgd, outages>>

Seek(f, offset) ==
    /\ Asked("seek")
    /\ fds[f].refs > 0
    /\ fds' = [fds EXCEPT ![f].offset = offset]
    /\ UNCHANGED <<disk, bgd, outages>>

\* So much of the data has been written.
Advanced(t, chunk) ==
    [t EXCEPT !.left = @ - chunk, !.offset = @ + chunk,
              !.inode.size = Max({@, t.offset + chunk})]

\* One turn of the loop of biscuitfs_write_cb: the part of the data that goes
\* to one block.  t.left units are still to be written at t.offset.
WriteChunk(t) ==
    LET n     == t.offset \div BS
        there == GetBlock(t.disk, t.inode, n)
        blk   == IF there # Nowhere THEN there ELSE FreeBlock(t)
        u     == IF there # Nowhere THEN t
                 ELSE SetBlock(Cleared(TakeBlock(t, blk), blk), n, blk)
        chunk == Min({t.left, BS - (t.offset % BS)})
    IN IF t.left = 0 THEN t
       ELSE IF blk = Nowhere THEN [t EXCEPT !.left = 0]     \* no space: break
       ELSE Advanced(Journalled(u, Data(blk), FileData), chunk)

Write(f, len) ==
    LET fd    == fds[f]
        inode == Inode(disk, fd.ino)
        t     == [Begun EXCEPT !.inode = inode, !.left = len,
                               !.offset = IF fd.append THEN inode.size ELSE fd.offset]
        turn[i \in 0 .. len] == IF i = 0 THEN t ELSE WriteChunk(turn[i - 1])
        u     == turn[len]
        v     == WriteInode(u, fd.ino, u.inode)
    IN /\ Asked("write")
       /\ fd.refs > 0
       /\ t.offset + len <= MaxOffset
       /\ Done(v, [fds EXCEPT ![f].offset = u.offset])

Mkdir(path) ==
    LET dir == Parent(disk, path)
        ino == FreeInode(Begun)
        t   == TakeInode(Begun, ino)
        blk == FreeBlock(t)
        u   == WriteInode(Journalled(TakeBlock(t, blk), Data(blk), Dir({})), ino,
                          [NewInode("dir", 2) EXCEPT !.block[0] = blk, !.size = BS])
    IN /\ Asked("mkdir")
       /\ Resolve(disk, path) = Nowhere
       /\ dir # Nowhere
       /\ Inode(disk, dir).mode = "dir"
       /\ ino # Nowhere
       /\ IF blk = Nowhere THEN Aborted(t) ELSE Enter(u, dir, Last(path), ino, fds)

Symlink(path) ==
    LET dir == Parent(disk, path)
        ino == FreeInode(Begun)
        t   == TakeInode(Begun, ino)
        blk == FreeBlock(t)
        u   == WriteInode(Journalled(TakeBlock(t, blk), Data(blk), FileData), ino,
                          [NewInode("symlink", 1) EXCEPT !.block[0] = blk, !.size = 1])
    IN /\ Asked("symlink")
       /\ Resolve(disk, path) = Nowhere
       /\ dir # Nowhere
       /\ Inode(disk, dir).mode = "dir"
       /\ ino # Nowhere
       /\ IF blk = Nowhere THEN Aborted(t) ELSE Enter(u, dir, Last(path), ino, fds)

Link(old, new) ==
    LET ino   == Resolve(disk, old)
        dir   == Parent(disk, new)
        inode == Inode(disk, ino)
    IN /\ Asked("link")
       /\ ino # Nowhere
       /\ inode.mode # "dir"
       /\ Resolve(disk, new) = Nowhere
       /\ dir # Nowhere
       /\ Inode(disk, dir).mode = "dir"
       /\ Enter(WriteInode(Begun, ino, [inode EXCEPT !.links = @ + 1]), dir, Last(new), ino, fds)

\* Frees the direct blocks one after the other; an indirect block and the
\* blocks it points to stay allocated.
ReleaseFile(t, ino) ==
    LET inode == Inode(t.disk, ino)
        freed[k \in 0 .. N_DIRECT] ==
            IF k = 0 THEN t
            ELSE IF inode.block[k - 1] = Nowhere THEN freed[k - 1]
            ELSE ReleaseBlock(freed[k - 1], inode.block[k - 1])
        v     == WriteInode(freed[N_DIRECT], ino, [NoInode EXCEPT !.ind = inode.ind])
    IN ReleaseInode(v, ino)

Unlink(path) ==
    LET ino   == Resolve(disk, path)
        inode == Inode(disk, ino)
        t     == RemoveEntry(Begun, Parent(disk, path), Last(path))
    IN /\ Asked("unlink")
       /\ ino # Nowhere
       /\ inode.mode # "dir"
       /\ Done(IF inode.links <= 1 THEN ReleaseFile(t, ino)
               ELSE WriteInode(t, ino, [inode EXCEPT !.links = @ - 1]), fds)

\* An operation on a path that does not exist, without O_CREAT.
Refused(path) == Resolve(disk, path) = Nowhere /\ UNCHANGED vars

\* The power fails between two operations.
PowerFail ==
    /\ Outage
    /\ bgd' = disk[BgdTable]
    /\ UNCHANGED disk

Operation ==
    \/ \E path \in Paths :
         \/ \E f \in Fds : Create(path, f) \/ \E append \in BOOLEAN : Open(path, f, append)
         \/ Mkdir(path) \/ Symlink(path) \/ Unlink(path) \/ Refused(path)
         \/ \E new \in Paths : Link(path, new)
    \/ \E f \in Fds :
         \/ Close(f) \/ AddRef(f)
         \/ \E offset \in 0 .. MaxOffset - 1 : Seek(f, offset)
         \/ \E len \in 1 .. BS : Write(f, len)

Next == Operation \/ PowerFail

Spec == Init /\ [][Next]_vars

-----------------------------------------------------------------------------
(* Properties of the metadata.                                             *)

Live == {ino \in Inodes : Inode(disk, ino).mode # "none"}

\* The pointers to data blocks: an inode, a position in it, and the block.
References ==
    (UNION {{<<ino, n, GetBlock(disk, Inode(disk, ino), n)>> : n \in 0 .. N_DIRECT + PTRS - 1}
              \cup {<<ino, -1, Inode(disk, ino).ind>>} : ino \in Live})
      \ (Inodes \X (-1 .. N_DIRECT + PTRS - 1) \X {Nowhere})

\* The directories' entries: where they are, their name, their inode.
AllEntries == UNION {{<<dir, e.name, e.ino>> : e \in DirEntries(disk, dir)} :
                       dir \in {d \in Live : Inode(disk, d).mode = "dir"}}

\* Every variable keeps its type.
TypeOK ==
    /\ bgd \in [free_blocks : Nat, free_inodes : Nat]
    /\ fds \in [Fds -> [ino : {Nowhere} \cup Inodes, offset : 0 .. MaxOffset,
                        append : BOOLEAN, refs : 0 .. 2]]
    /\ disk[BlockBitmap] \subseteq 1 .. NBlocks
    /\ disk[InodeBitmap] \subseteq Inodes
    /\ outages \in 0 .. MaxOutages

\* No two pointers lead to the same data block, and every block that a pointer
\* leads to is marked in the bitmap: no file writes over another one's data.
NoSharedBlock ==
    /\ \A r, s \in References : r # s => r[3] # s[3]
    /\ \A r \in References : r[3] \in disk[BlockBitmap]

\* What a pointer leads to is what the pointing inode takes it for: a
\* directory's blocks hold entries, a file's hold data, and an indirect block
\* holds pointers.
BlocksTyped ==
    \A r \in References :
      disk[Data(r[3])].kind \in
        CASE r[2] = -1                       -> {"ptrs"}
          [] Inode(disk, r[1]).mode = "dir"  -> {"dir"}
          [] OTHER                           -> {"file", "zero"}

\* Every block in use has one owner and holds what the owner takes it for
\* (alloc_block_in_group, inode_set_block, free_block).
BlocksSound == TypeOK /\ NoSharedBlock /\ BlocksTyped

\* An entry of a directory leads to an inode that is allocated and in use.
NoDanglingEntry ==
    \A e \in AllEntries : e[3] \in Live \cap disk[InodeBitmap]

\* The link count of a file is the number of its names, so that it is freed
\* with the last of them and not before.
LinksExact ==
    \A ino \in Live : Inode(disk, ino).mode # "dir" =>
      Inode(disk, ino).links = Cardinality({e \in AllEntries : e[3] = ino})

\* Names and inodes agree: no name leads to a free inode, and a file counts its
\* names (dir_add_entry, biscuitfs_link_cb, biscuitfs_unlink_cb).
NamesSound == NoDanglingEntry /\ LinksExact

\* A block is marked in the bitmap only while something points to it.
NoLeakedBlock == disk[BlockBitmap] \subseteq {r[3] : r \in References}
=============================================================================
