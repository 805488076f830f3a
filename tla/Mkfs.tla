-------------------------------- MODULE Mkfs --------------------------------
(***************************************************************************)
(* The image builder (tools/mkfs_blueyfs.c), the host program that writes  *)
(* the file system the kernel mounts: it lays out the block groups, the    *)
(* journal and the root directory, then creates /bin and /etc, installs an *)
(* init and an fstab, and copies a directory tree of the host into the     *)
(* root, through its own allocator and its own directory code.             *)
(*                                                                         *)
(* A group starts with two blocks of metadata of the file system (used in  *)
(* group 0 only), its two bitmaps and its inode table; the journal follows *)
(* the table of group 0.  A directory block holds DIR_ENTRIES names of one *)
(* length; entries are never removed here, so that only its last one has   *)
(* room.  The program is sequential: the standard layout and each entry of *)
(* the tree are one step.                                                  *)
(***************************************************************************)
EXTENDS Integers, Sequences, FiniteSetsExt, SequencesExt, TLC

CONSTANTS BLOCKS_PER_GRP, INODES_PER_GRP, INODES_PER_BLK,
          FIRST_INO,     \* inodes 1 .. FIRST_INO are never given out
          HOST_DIRECT,   \* direct pointers of an inode
          HOST_PTRS,     \* pointers in an index block
          DIR_ENTRIES,   \* names in a block of a directory
          RESERVED_PART, \* one free block in so many is kept for root
          UINT16, UINT32,\* what the counts wrap around at
          MIN_BLOCKS,    \* main refuses a smaller image
          Sizes,         \* blocks of the image
          JournalSizes,  \* the sizes of the journal asked for with -j
          Hosts          \* what -I, -T and -A name on the host

ASSUME MkfsAssumption == /\ BLOCKS_PER_GRP \in Nat \ {0} /\ INODES_PER_GRP \in Nat \ {0}
                         /\ INODES_PER_BLK \in Nat \ {0} /\ FIRST_INO \in 2 .. INODES_PER_GRP
                         /\ Sizes \subseteq Nat /\ JournalSizes \subseteq Nat

VARIABLES image,    \* the file system on the disk
          host,     \* the trees being installed
          frames,   \* the directories being copied, innermost first
          copied,   \* history: which inode each directory of the host went to
          outcome   \* of the program

mkfsVars == <<image, host, frames, copied, outcome>>
-----------------------------------------------------------------------------
(* The layout that do_mkfs writes. *)

ROOT_INO == 2
TableBlocks == (INODES_PER_GRP + INODES_PER_BLK - 1) \div INODES_PER_BLK
Overhead == 1 + 1 + TableBlocks + 1
GroupsOf(total) == 0 .. ((total + BLOCKS_PER_GRP - 1) \div BLOCKS_PER_GRP) - 1
GroupBase(g) == g * BLOCKS_PER_GRP
InodeTableOf(g) == {GroupBase(g) + 4 + i : i \in 0 .. TableBlocks - 1}
JournalStart == 2 + 1 + 1 + TableBlocks
JournalOf(f) == {JournalStart + i : i \in 0 .. f.journal - 1}
GroupLayout(f, g) == {GroupBase(g) + 2, GroupBase(g) + 3} \cup InodeTableOf(g)
Layout(f) == {0, 1} \cup JournalOf(f) \cup UNION {GroupLayout(f, g) : g \in GroupsOf(f.total)}

Wrap(n, size) == n % size
NoNode == [type |-> "none", links |-> 0, size |-> 0,
           ptr |-> [i \in 0 .. HOST_DIRECT + 1 |-> 0]]
NodeOf(type, links, size) == [NoNode EXCEPT !.type = type, !.links = links, !.size = size]

(* The bits set in the block bitmap of a group, and the blocks its descriptor
   counts as free. *)
MarkedBits_JournalFree(g, journal) ==
    IF g = 0 THEN 0 .. Overhead + 2 - 1 ELSE 0 .. Overhead - 1
MarkedBits(g, journal) ==
    IF g = 0 THEN {b \in 0 .. Overhead + 2 + journal - 1 : b < BLOCKS_PER_GRP}
             ELSE 0 .. Overhead - 1
AvailableIn_LessJournal(g, total, journal) ==
    LET held == IF g = 0 THEN Overhead + 2 + journal ELSE Overhead
    IN  IF g = Max(GroupsOf(total)) THEN Wrap(total - GroupBase(g) - held, UINT16)
        ELSE BLOCKS_PER_GRP - held
AvailableIn(g, total, journal) ==
    IF g = Max(GroupsOf(total)) THEN Wrap(total - GroupBase(g) - Overhead, UINT16)
    ELSE BLOCKS_PER_GRP - Overhead

(* The superblock's count: what the layout and the reserve leave. *)
SuperFree(total, journal) ==
    LET groups == Cardinality(GroupsOf(total))
        free   == Wrap(total - (groups * Overhead + 1 + journal), UINT32)
    IN  free - free \div RESERVED_PART

(* The root directory takes the block behind the journal. *)
RootDirBlock(journal) == 2 + 1 + 1 + TableBlocks + journal
RootBlock == <<[name |-> ".", ino |-> ROOT_INO], [name |-> "..", ino |-> ROOT_INO]>>

DoMkfs(total, journal) ==
    LET groups == GroupsOf(total)
        inodes == Cardinality(groups) * INODES_PER_GRP
    IN  [total |-> total, journal |-> journal,
         used   |-> [g \in groups |-> MarkedBits(g, journal)
                                      \cup (IF g = 0 THEN {RootDirBlock(journal)} ELSE {})],
         taken  |-> [g \in groups |-> IF g = 0 THEN 0 .. FIRST_INO - 1 ELSE {}],
         free   |-> [g \in groups |-> IF g = 0 THEN Wrap(AvailableIn(g, total, journal) - 1, UINT16)
                                               ELSE AvailableIn(g, total, journal)],
         freeInodes |-> [g \in groups |-> IF g = 0 THEN INODES_PER_GRP - (FIRST_INO - 1)
                                                   ELSE INODES_PER_GRP],
         sbFree   |-> SuperFree(total, journal),
         sbInodes |-> inodes - FIRST_INO,
         node |-> [i \in 1 .. inodes |->
                     IF i = ROOT_INO
                     THEN [NodeOf("dir", 2, 1) EXCEPT !.ptr[0] = RootDirBlock(journal)]
                     ELSE NoNode],
         disk |-> RootDirBlock(journal) :> RootBlock]
-----------------------------------------------------------------------------
(* The allocators: the first clear bit of the first group with a count left.
   Block and inode 0 say that there is none.  *)

BlocksOfGroup(f, g) ==
    0 .. (IF g = Max(GroupsOf(f.total)) THEN f.total - GroupBase(g) ELSE BLOCKS_PER_GRP) - 1
ClearBits(f, g) == BlocksOfGroup(f, g) \ f.used[g]

AllocBlockHost(f) ==
    LET open == {g \in GroupsOf(f.total) : f.free[g] # 0 /\ ClearBits(f, g) # {}}
    IN  IF open = {} THEN [fs |-> f, blk |-> 0]
        ELSE LET g == Min(open)
                 i == Min(ClearBits(f, g))
             IN  [fs  |-> [f EXCEPT !.used[g] = @ \cup {i}, !.free[g] = Wrap(@ - 1, UINT16),
                                    !.sbFree = Wrap(@ - 1, UINT32)],
                  blk |-> GroupBase(g) + i]

AllocInodeHost(f) ==
    LET Clear(g) == (0 .. INODES_PER_GRP - 1) \ f.taken[g]
        open == {g \in GroupsOf(f.total) : f.freeInodes[g] # 0 /\ Clear(g) # {}}
    IN  IF open = {} THEN [fs |-> f, ino |-> 0]
        ELSE LET g == Min(open)
                 i == Min(Clear(g))
             IN  [fs  |-> [f EXCEPT !.taken[g] = @ \cup {i}, !.freeInodes[g] = @ - 1,
                                    !.sbInodes = Wrap(@ - 1, UINT32)],
                  ino |-> g * INODES_PER_GRP + i + 1]
-----------------------------------------------------------------------------
(* The blocks of an inode: direct, through one index block, or through two. *)

WriteTo(f, b, content) == [f EXCEPT !.disk = (b :> content) @@ @]

InodeGetBlockHost(f, node, n) ==
    LET single == n - HOST_DIRECT
        double == single - HOST_PTRS
    IN  IF n < HOST_DIRECT THEN node.ptr[n]
        ELSE IF single < HOST_PTRS
        THEN IF node.ptr[HOST_DIRECT] = 0 THEN 0 ELSE f.disk[node.ptr[HOST_DIRECT]][single]
        ELSE IF double >= HOST_PTRS * HOST_PTRS \/ node.ptr[HOST_DIRECT + 1] = 0 THEN 0
        ELSE LET second == f.disk[node.ptr[HOST_DIRECT + 1]][double \div HOST_PTRS]
             IN  IF second = 0 THEN 0 ELSE f.disk[second][double % HOST_PTRS]

(* The index block a pointer names, a fresh empty one when it names none. *)
IndexBlock(f, at) ==
    LET new == AllocBlockHost(f)
    IN  IF at # 0 THEN [fs |-> f, blk |-> at]
        ELSE IF new.blk = 0 THEN new
        ELSE [fs |-> WriteTo(new.fs, new.blk, [i \in 0 .. HOST_PTRS - 1 |-> 0]), blk |-> new.blk]
PointTo(f, index, i, b) == [f EXCEPT !.disk[index][i] = b]

(* The inode changed here is the caller's copy: a failure leaves the one on
   the disk, and the index blocks already taken, as they are. *)
NotSet(f, node) == [ok |-> FALSE, fs |-> f, node |-> node]
ThroughOne(f, first, node, i, b) ==
    IF first.blk = 0 THEN NotSet(f, node)
    ELSE [ok |-> TRUE, fs |-> PointTo(first.fs, first.blk, i, b),
          node |-> [node EXCEPT !.ptr[HOST_DIRECT] = first.blk]]
ThroughRow(outer, inner, node, i, b) ==
    IF inner.blk = 0 THEN NotSet(outer.fs, node)
    ELSE [ok |-> TRUE,
          fs |-> PointTo(PointTo(inner.fs, outer.blk, i \div HOST_PTRS, inner.blk),
                         inner.blk, i % HOST_PTRS, b),
          node |-> [node EXCEPT !.ptr[HOST_DIRECT + 1] = outer.blk]]
ThroughTwo(f, outer, node, i, b) ==
    IF i >= HOST_PTRS * HOST_PTRS \/ outer.blk = 0 THEN NotSet(f, node)
    ELSE ThroughRow(outer, IndexBlock(outer.fs, outer.fs.disk[outer.blk][i \div HOST_PTRS]),
                    node, i, b)
InodeSetBlockHost(f, node, n, b) ==
    LET single == n - HOST_DIRECT
    IN  IF single < 0 THEN [ok |-> TRUE, fs |-> f, node |-> [node EXCEPT !.ptr[n] = b]]
        ELSE IF single < HOST_PTRS
        THEN ThroughOne(f, IndexBlock(f, node.ptr[HOST_DIRECT]), node, single, b)
        ELSE ThroughTwo(f, IndexBlock(f, node.ptr[HOST_DIRECT + 1]), node, single - HOST_PTRS, b)

BlockList(f, node) == [n \in 1 .. node.size |-> InodeGetBlockHost(f, node, n - 1)]
EntriesIn(f, ino) == {e \in UNION {ToSet(f.disk[b]) : b \in ToSet(BlockList(f, f.node[ino]))} :
                        e.name \notin {".", ".."}}
-----------------------------------------------------------------------------
(* Directories and files.  Each returns whether it succeeded; what a failing
   one has taken is not given back. *)

DirLookupHost(f, dir, name) ==
    LET blocks == BlockList(f, f.node[dir])
        found  == {<<i, j>> \in (1 .. Len(blocks)) \X (1 .. DIR_ENTRIES) :
                     j <= Len(f.disk[blocks[i]]) /\ f.disk[blocks[i]][j].name = name}
        first  == CHOOSE p \in found : \A q \in found :
                     p[1] < q[1] \/ (p[1] = q[1] /\ p[2] <= q[2])
    IN  IF found = {} THEN 0 ELSE f.disk[blocks[first[1]]][first[2]].ino

AddBlock(f, dir, entry, new, grown) ==
    IF new.blk = 0 THEN [ok |-> FALSE, fs |-> f]
    ELSE IF ~grown.ok THEN [ok |-> FALSE, fs |-> grown.fs]
    ELSE [ok |-> TRUE,
          fs |-> [WriteTo(grown.fs, new.blk, <<entry>>)
                    EXCEPT !.node[dir] = [grown.node EXCEPT !.size = @ + 1]]]
AddIn(f, dir, entry, blocks, new) ==
    LET roomy == {i \in 1 .. Len(blocks) : Len(f.disk[blocks[i]]) < DIR_ENTRIES}
    IN  IF roomy # {}
        THEN [ok |-> TRUE, fs |-> [f EXCEPT !.disk[blocks[Min(roomy)]] = Append(@, entry)]]
        ELSE AddBlock(f, dir, entry, new,
                      InodeSetBlockHost(new.fs, f.node[dir], Len(blocks), new.blk))
DirAddEntryHost(f, dir, name, ino) ==
    AddIn(f, dir, [name |-> name, ino |-> ino], BlockList(f, f.node[dir]), AllocBlockHost(f))

DotEntries(parent, ino) ==
    <<[name |-> ".", ino |-> ino], [name |-> "..", ino |-> parent]>>
EmptyDir(parent, i, blk) ==
    WriteTo([blk.fs EXCEPT !.node[i] = [NodeOf("dir", 2, 1) EXCEPT !.ptr[0] = blk.blk]],
            blk.blk, DotEntries(parent, i))
\* Fault: the parent's links are not counted.
Entered_ParentKept(entered, parent, i) == [ok |-> entered.ok, fs |-> entered.fs, ino |-> i]
EnteredIn(entered, parent, i) ==
    IF ~entered.ok THEN [ok |-> FALSE, fs |-> entered.fs, ino |-> 0]
    ELSE [ok |-> TRUE, fs |-> [entered.fs EXCEPT !.node[parent].links = @ + 1], ino |-> i]
DirAt(parent, name, i, blk) ==
    IF i = 0 \/ blk.blk = 0 THEN [ok |-> FALSE, fs |-> blk.fs, ino |-> 0]
    ELSE EnteredIn(DirAddEntryHost(EmptyDir(parent, i, blk), parent, name, i), parent, i)
DirFor(parent, name, i) == DirAt(parent, name, i.ino, AllocBlockHost(i.fs))
CreateDirHost(f, parent, name) == DirFor(parent, name, AllocInodeHost(f))

(* The blocks of a file, one after the other, and the inode that has them. *)
NextBlock(s, file, n, blk) ==
    IF ~s.ok THEN s
    ELSE IF blk.blk = 0 THEN [s EXCEPT !.ok = FALSE]
    ELSE InodeSetBlockHost(WriteTo(blk.fs, blk.blk, [of |-> file, n |-> n]), s.node, n, blk.blk)
FileBlocks(f, file, len) ==
    FoldLeft(LAMBDA s, n : NextBlock(s, file, n, AllocBlockHost(s.fs)),
             [ok |-> TRUE, fs |-> f, node |-> NodeOf("file", 1, len)],
             [n \in 1 .. len |-> n - 1])

FileAt(parent, name, i, filled) ==
    IF ~filled.ok THEN [ok |-> FALSE, fs |-> filled.fs]
    ELSE DirAddEntryHost([filled.fs EXCEPT !.node[i] = filled.node], parent, name, i)
FileFor(f, parent, name, file, len, i) ==
    IF i.ino = 0 THEN [ok |-> FALSE, fs |-> f]
    ELSE FileAt(parent, name, i.ino, FileBlocks(i.fs, file, len))
CreateFileHost(f, parent, name, file, len) ==
    FileFor(f, parent, name, file, len, AllocInodeHost(f))
-----------------------------------------------------------------------------
(* The host: kids maps each directory to the entries readdir returns for it,
   length each regular file to its blocks.  A link leads where it resolves,
   and counts only when that is inside the tree.  Anything else is ignored. *)

Installed(h, e) == /\ e.link => e.inside
                   /\ e.to \in (DOMAIN h.kids) \cup DOMAIN h.length

(* main: the size of the journal, and the images that are refused. *)
JournalFor(total, asked) == IF asked >= total \div 2 THEN total \div 4 ELSE asked

MkfsInit == /\ image = << >> /\ frames = << >> /\ copied = {} /\ outcome = "new"
            /\ host \in Hosts

Make == /\ outcome = "new"
        /\ \E total \in Sizes, asked \in JournalSizes :
             IF total < MIN_BLOCKS THEN outcome' = "refused" /\ image' = image
             ELSE /\ image' = DoMkfs(total, JournalFor(total, asked))
                  /\ outcome' = "made"
        /\ UNCHANGED <<host, frames, copied>>

(* populate_standard_layout, one item after the other up to the first that
   fails: bin and etc, init and fstab in them, and then the tree. *)
Then(next, new) ==
    /\ image' = new.fs /\ outcome' = IF new.ok THEN next ELSE "failed"
    /\ UNCHANGED <<host, frames, copied>>
MakeBin == outcome = "made" /\ Then("bin", CreateDirHost(image, ROOT_INO, "bin"))
MakeEtc == outcome = "bin" /\ Then("etc", CreateDirHost(image, ROOT_INO, "etc"))

Install(dir, name, file) ==
    IF file = "none" THEN [ok |-> TRUE, fs |-> image]
    ELSE CreateFileHost(image, DirLookupHost(image, ROOT_INO, dir), name, file, host.length[file])
InstallInit  == outcome = "etc" /\ Then("init", Install("bin", "init", host.init))
InstallFstab == outcome = "init" /\ Then("fstab", Install("etc", "fstab", host.fstab))

InstallTree ==
    /\ outcome = "fstab"
    /\ IF host.root = "none" THEN outcome' = "done" /\ UNCHANGED <<frames, copied>>
       ELSE /\ outcome' = "copying"
            /\ frames' = <<[at |-> ROOT_INO, rest |-> host.kids[host.root]]>>
            /\ copied' = {<<ROOT_INO, host.root>>}
    /\ UNCHANGED <<image, host>>

Entered(dir, ino, e) ==
    /\ frames' = <<[at |-> ino, rest |-> host.kids[e.to]], [dir EXCEPT !.rest = Tail(@)]>>
                 \o Tail(frames)
    /\ copied' = copied \cup {<<ino, e.to>>}
    /\ UNCHANGED outcome
Passed(dir) == frames' = <<[dir EXCEPT !.rest = Tail(@)]>> \o Tail(frames)
Failed == outcome' = "failed" /\ UNCHANGED <<frames, copied>>

(* The loop of populate_from_dir_recursive, one entry of the host at a time.
   A directory that is there already is reused, a file is not looked for. *)
NewDirectory(dir, e, new) ==
    /\ image' = new.fs
    /\ IF new.ok THEN Entered(dir, new.ino, e) ELSE Failed
\* Fault: no directory is looked for.
CopyDirectory_Anew(dir, e) == NewDirectory(dir, e, CreateDirHost(image, dir.at, e.name))
CopyDirectory(dir, e) ==
    LET old == DirLookupHost(image, dir.at, e.name)
    IN  IF old # 0 THEN Entered(dir, old, e) /\ image' = [image EXCEPT !.node[old].type = "dir"]
        ELSE NewDirectory(dir, e, CreateDirHost(image, dir.at, e.name))
NewFile(dir, new) ==
    /\ image' = new.fs
    /\ IF new.ok THEN Passed(dir) /\ UNCHANGED <<copied, outcome>> ELSE Failed
CopyFile(dir, e) ==
    NewFile(dir, CreateFileHost(image, dir.at, e.name, e.to, host.length[e.to]))

PopulateFromDir ==
    /\ outcome = "copying"
    /\ LET dir == Head(frames)
           e   == Head(dir.rest)
       IN  \/ /\ dir.rest = << >>
              /\ frames' = Tail(frames)
              /\ outcome' = (IF Len(frames) = 1 THEN "done" ELSE outcome)
              /\ UNCHANGED <<image, copied>>
           \/ /\ dir.rest # << >> /\ ~Installed(host, e)
              /\ Passed(dir) /\ UNCHANGED <<image, copied, outcome>>
           \/ /\ dir.rest # << >> /\ Installed(host, e) /\ e.to \in DOMAIN host.kids
              /\ CopyDirectory(dir, e)
           \/ /\ dir.rest # << >> /\ Installed(host, e) /\ e.to \in DOMAIN host.length
              /\ CopyFile(dir, e)
    /\ UNCHANGED host

MkfsNext ==
    \/ Make \/ MakeBin \/ MakeEtc \/ InstallInit \/ InstallFstab \/ InstallTree
    \/ PopulateFromDir

MkfsSpec == MkfsInit /\ [][MkfsNext]_mkfsVars
-----------------------------------------------------------------------------
(* Properties *)

Made == outcome \notin {"new", "refused"}
Indexes(f, node) ==
    LET outer == node.ptr[HOST_DIRECT + 1]
    IN  ({node.ptr[HOST_DIRECT], outer}
         \cup (IF outer = 0 THEN {} ELSE {f.disk[outer][i] : i \in 0 .. HOST_PTRS - 1})) \ {0}
NodesUsed == {i \in DOMAIN image.node : image.node[i].type # "none"}
OwnedBy(i) == ToSet(BlockList(image, image.node[i])) \cup Indexes(image, image.node[i])
MarkedBlocks == UNION {{GroupBase(g) + b : b \in image.used[g]} : g \in GroupsOf(image.total)}

(* The blocks of a file or directory are marked in the bitmap, belong to no
   other, and never lie in the metadata or the journal of group 0, the only
   one the journal is meant for (alloc_block_host, do_mkfs). *)
OwnBlocks ==
    Made => /\ \A i \in NodesUsed :
                 /\ OwnedBy(i) \subseteq MarkedBlocks
                 /\ OwnedBy(i) \cap ({0, 1} \cup GroupLayout(image, 0) \cup JournalOf(image)) = {}
            /\ \A i, j \in NodesUsed : i # j => OwnedBy(i) \cap OwnedBy(j) = {}

(* A group is not passed over, for want of a count, while it has a block
   left: the counts may say too much, the allocator never sees too little. *)
NoGroupShut ==
    Made => \A g \in GroupsOf(image.total) : image.free[g] = 0 => ClearBits(image, g) = {}

\* In the image made, blocks belong to one owner each and are marked, and no
\* group with room is counted full (build_filesystem, alloc_block).
ImageSound == OwnBlocks /\ NoGroupShut

(* A directory is linked from its own ".", its parent and each of its
   subdirectories; every inode has exactly one name, wherever the program
   has not given up. *)
LinksCounted ==
    Made /\ outcome # "failed" =>
        LET dirs == {i \in NodesUsed : image.node[i].type = "dir"}
            names == {<<d, e>> : d \in dirs, e \in UNION {EntriesIn(image, x) : x \in dirs}}
            real == {p \in names : p[2] \in EntriesIn(image, p[1])}
        IN  /\ \A d \in dirs : image.node[d].links
                  = 2 + Cardinality({e \in EntriesIn(image, d) : image.node[e.ino].type = "dir"})
            /\ \A i \in NodesUsed \ {ROOT_INO} :
                  Cardinality({p \in real : p[2].ino = i}) = 1

(* When the program succeeds, every entry of the host's directories is found
   under its name in the directory of the image that stands for its own, and
   a file has all its blocks, in order; where init or fstab was installed
   first, a lookup still finds that one. *)
HoldsFile(i, x) ==
    /\ image.node[i].type = "file" /\ image.node[i].size = host.length[x]
    /\ \A n \in 1 .. host.length[x] :
         image.disk[BlockList(image, image.node[i])[n]] = [of |-> x, n |-> n - 1]
TreeCopied ==
    outcome = "done" => \A p \in copied : \A e \in ToSet(host.kids[p[2]]) :
        Installed(host, e) =>
          LET i == DirLookupHost(image, p[1], e.name)
          IN  /\ i # 0
              /\ e.to \in DOMAIN host.kids => <<i, e.to>> \in copied
              /\ e.to \in DOMAIN host.length =>
                    \E x \in {e.to, host.init, host.fstab} \ {"none"} : HoldsFile(i, x)

\* The host's tree is in the image, each name once, with the links of its
\* directories counted (populate_from_dir_recursive, create_dir).
TreeInstalled == LinksCounted /\ TreeCopied

(* "mark the overhead blocks as used" (tools/mkfs_blueyfs.c): no group gives
   out a block of its own metadata. *)
MetadataKept == Made => \A i \in NodesUsed : OwnedBy(i) \cap Layout(image) = {}

(* An image that main accepts has room for what do_mkfs writes into it. *)
InsideImage == Made => Layout(image) \cup DOMAIN image.disk \subseteq 0 .. image.total - 1
=============================================================================
