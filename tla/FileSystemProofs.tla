--------------------------- MODULE FileSystemProofs ---------------------------
(***************************************************************************)
(* Theorems of module BlueyFS: the blocks of a file system have one owner, *)
(* its names lead to inodes in use, and a file counts its names.           *)
(***************************************************************************)
EXTENDS BlueyFS, FiniteSetTheorems, SequenceTheorems, Loops

-----------------------------------------------------------------------------
(* A disk, seen as bitmaps, inodes and contents of data blocks.            *)

Counts   == [free_blocks : Nat, free_inodes : Nat]
Modes    == {"none", "file", "dir", "symlink"}
Places   == 0 .. N_DIRECT - 1
Node     == [mode : Modes, links : Nat, size : Nat,
             block : [Places -> 0 .. NBlocks], ind : {Nowhere}]
DirEntry == [name : Names, ino : Inodes]
Contents == {Zeroed, FileData} \cup {Dir(es) : es \in SUBSET DirEntry}

\* The inodes in a block of the table.
InTable(b) == {j \in Inodes : InodeTable(j) = b}

TableShows(g, N) ==
    \A i \in Inodes : g[InodeTable(i)] = [j \in InTable(InodeTable(i)) |-> N[j]]

DataShows(g, D) == \A n \in 1 .. NBlocks : g[Data(n)] = D[n]

IsView(bb, ib, N, D) ==
    /\ bb \subseteq 1 .. NBlocks /\ ib \subseteq Inodes
    /\ N \in [Inodes -> Node] /\ D \in [1 .. NBlocks -> Contents]

IsDisk(g) == g = [b \in Blocks |-> g[b]]

\* The disk g with the value v in block b.
Put(g, b, v) == [g EXCEPT ![b] = v]

\* The disk g with block bitmap bb, inode bitmap ib, inodes N and data D.
Shows(g, bb, ib, N, D) ==
    /\ IsDisk(g)
    /\ g[BgdTable] \in Counts /\ g[BlockBitmap] = bb /\ g[InodeBitmap] = ib
    /\ TableShows(g, N) /\ DataShows(g, D)
    /\ IsView(bb, ib, N, D)

LEMMA Constants ==
    /\ NBlocks \in Nat \ {0} /\ NInodes \in Nat \ {0} /\ INODES_PER_BLOCK \in Nat \ {0}
    /\ N_DIRECT \in Nat \ {0} /\ PTRS \in Nat \ {0} /\ DIR_SLOTS \in Nat \ {0}
    /\ BS \in Nat \ {0} /\ JNL_BUF \in Nat \ {0} /\ NFds \in Nat \ {0}
    /\ MaxOffset \in Nat \ {0} /\ MaxOutages \in Nat
<1>1. BS * (N_DIRECT + PTRS) \in Int
  BY BlueyFSAssumption
<1>. QED
  BY <1>1, BlueyFSAssumption

\* Blocks with different names are different.
LEMMA BlocksApart ==
    ASSUME NEW i \in Inodes, NEW j \in Inodes, NEW n, NEW m
    PROVE  /\ BgdTable \in Blocks /\ BlockBitmap \in Blocks /\ InodeBitmap \in Blocks
           /\ InodeTable(i) \in Blocks
           /\ n \in 1 .. NBlocks => Data(n) \in Blocks
           /\ BgdTable # BlockBitmap /\ BgdTable # InodeBitmap /\ BlockBitmap # InodeBitmap
           /\ BgdTable # InodeTable(i) /\ BlockBitmap # InodeTable(i)
           /\ InodeBitmap # InodeTable(i)
           /\ BgdTable # Data(n) /\ BlockBitmap # Data(n) /\ InodeBitmap # Data(n)
           /\ InodeTable(i) # Data(n)
           /\ Data(n) = Data(m) => n = m
BY DEF Blocks, BgdTable, BlockBitmap, InodeBitmap, InodeTable, Data

LEMMA PutCounts ==
    ASSUME NEW g, NEW bb, NEW ib, NEW N, NEW D, Shows(g, bb, ib, N, D),
           NEW c \in Counts
    PROVE  Shows(Put(g, BgdTable, c), bb, ib, N, D)
<1>1. BgdTable \in Blocks /\ BgdTable # BlockBitmap /\ BgdTable # InodeBitmap
  BY DEF Blocks, BgdTable, BlockBitmap, InodeBitmap
<1>2. \A i \in Inodes : BgdTable # InodeTable(i)
  BY BlocksApart
<1>3. \A n \in 1 .. NBlocks : BgdTable # Data(n)
  BY DEF Data, BgdTable
<1>4. PICK u : u = Put(g, BgdTable, c)
  OBVIOUS
<1>5. \A b \in Blocks : u[b] = IF b = BgdTable THEN c ELSE g[b]
  BY <1>4 DEF Shows, IsDisk, Put
<1>6. IsDisk(u)
  BY <1>4 DEF Shows, IsDisk, Put
<1>7. \A i \in Inodes : InodeTable(i) \in Blocks
  BY DEF Blocks
<1>8. \A n \in 1 .. NBlocks : Data(n) \in Blocks
  BY DEF Blocks
<1>9. TableShows(u, N)
  BY <1>2, <1>5, <1>7 DEF TableShows, Shows
<1>10. DataShows(u, D)
  BY <1>3, <1>5, <1>8 DEF DataShows, Shows
<1>11. BlockBitmap \in Blocks /\ InodeBitmap \in Blocks
  BY DEF Blocks
<1>. QED
  BY <1>1, <1>4, <1>5, <1>6, <1>9, <1>10, <1>11 DEF Shows

LEMMA PutBlockBitmap ==
    ASSUME NEW g, NEW bb, NEW ib, NEW N, NEW D, Shows(g, bb, ib, N, D),
           NEW B \in SUBSET (1 .. NBlocks)
    PROVE  Shows(Put(g, BlockBitmap, B), B, ib, N, D)
<1>1. /\ BlockBitmap \in Blocks /\ BgdTable # BlockBitmap /\ BlockBitmap # InodeBitmap
      /\ BgdTable \in Blocks /\ InodeBitmap \in Blocks
  BY DEF Blocks, BgdTable, BlockBitmap, InodeBitmap
<1>2. \A i \in Inodes : BlockBitmap # InodeTable(i) /\ InodeTable(i) \in Blocks
  BY BlocksApart
<1>3. \A n \in 1 .. NBlocks : BlockBitmap # Data(n) /\ Data(n) \in Blocks
  BY DEF Data, BlockBitmap, Blocks
<1>4. PICK u : u = Put(g, BlockBitmap, B)
  OBVIOUS
<1>5. \A b \in Blocks : u[b] = IF b = BlockBitmap THEN B ELSE g[b]
  BY <1>4 DEF Shows, IsDisk, Put
<1>6. IsDisk(u)
  BY <1>4 DEF Shows, IsDisk, Put
<1>9. TableShows(u, N)
  BY <1>2, <1>5 DEF TableShows, Shows
<1>10. DataShows(u, D)
  BY <1>3, <1>5 DEF DataShows, Shows
<1>11. IsView(B, ib, N, D)
  BY DEF Shows, IsView
<1>. QED
  BY <1>1, <1>4, <1>5, <1>6, <1>9, <1>10, <1>11 DEF Shows

LEMMA PutInodeBitmap ==
    ASSUME NEW g, NEW bb, NEW ib, NEW N, NEW D, Shows(g, bb, ib, N, D),
           NEW B \in SUBSET Inodes
    PROVE  Shows(Put(g, InodeBitmap, B), bb, B, N, D)
<1>1. /\ BlockBitmap \in Blocks /\ BgdTable # InodeBitmap /\ BlockBitmap # InodeBitmap
      /\ BgdTable \in Blocks /\ InodeBitmap \in Blocks
  BY DEF Blocks, BgdTable, BlockBitmap, InodeBitmap
<1>2. \A i \in Inodes : InodeBitmap # InodeTable(i) /\ InodeTable(i) \in Blocks
  BY BlocksApart
<1>3. \A n \in 1 .. NBlocks : InodeBitmap # Data(n) /\ Data(n) \in Blocks
  BY DEF Data, InodeBitmap, Blocks
<1>4. PICK u : u = Put(g, InodeBitmap, B)
  OBVIOUS
<1>5. \A b \in Blocks : u[b] = IF b = InodeBitmap THEN B ELSE g[b]
  BY <1>4 DEF Shows, IsDisk, Put
<1>6. IsDisk(u)
  BY <1>4 DEF Shows, IsDisk, Put
<1>9. TableShows(u, N)
  BY <1>2, <1>5 DEF TableShows, Shows
<1>10. DataShows(u, D)
  BY <1>3, <1>5 DEF DataShows, Shows
<1>11. IsView(bb, B, N, D)
  BY DEF Shows, IsView
<1>. QED
  BY <1>1, <1>4, <1>5, <1>6, <1>9, <1>10, <1>11 DEF Shows

LEMMA PutData ==
    ASSUME NEW g, NEW bb, NEW ib, NEW N, NEW D, Shows(g, bb, ib, N, D),
           NEW n \in 1 .. NBlocks, NEW x \in Contents
    PROVE  Shows(Put(g, Data(n), x), bb, ib, N, [D EXCEPT ![n] = x])
<1>1. /\ BlockBitmap \in Blocks /\ BgdTable \in Blocks /\ InodeBitmap \in Blocks
      /\ Data(n) # BgdTable /\ Data(n) # BlockBitmap /\ Data(n) # InodeBitmap
  BY DEF Blocks, BgdTable, BlockBitmap, InodeBitmap, Data
<1>2. \A i \in Inodes : Data(n) # InodeTable(i) /\ InodeTable(i) \in Blocks
  BY BlocksApart
<1>3. \A m \in 1 .. NBlocks : Data(m) \in Blocks /\ (Data(m) = Data(n) => m = n)
  BY DEF Data, Blocks
<1>4. PICK u : u = Put(g, Data(n), x)
  OBVIOUS
<1>5. \A b \in Blocks : u[b] = IF b = Data(n) THEN x ELSE g[b]
  BY <1>4 DEF Shows, IsDisk, Put
<1>6. IsDisk(u)
  BY <1>4 DEF Shows, IsDisk, Put
<1>9. TableShows(u, N)
  BY <1>2, <1>5 DEF TableShows, Shows
<1>10. DataShows(u, [D EXCEPT ![n] = x])
  BY <1>3, <1>5 DEF DataShows, Shows, IsView
<1>11. IsView(bb, ib, N, [D EXCEPT ![n] = x])
  BY DEF Shows, IsView
<1>. QED
  BY <1>1, <1>4, <1>5, <1>6, <1>9, <1>10, <1>11 DEF Shows

\* The block of the table comes from the disk h, which shows the same inodes.
LEMMA PutInode ==
    ASSUME NEW g, NEW bb, NEW ib, NEW N, NEW D, Shows(g, bb, ib, N, D),
           NEW h, TableShows(h, N), NEW i \in Inodes, NEW x \in Node
    PROVE  Shows(Put(g, InodeTable(i), [h[InodeTable(i)] EXCEPT ![i] = x]),
                 bb, ib, [N EXCEPT ![i] = x], D)
<1>1. /\ BlockBitmap \in Blocks /\ BgdTable \in Blocks /\ InodeBitmap \in Blocks
      /\ InodeTable(i) # BgdTable /\ InodeTable(i) # BlockBitmap /\ InodeTable(i) # InodeBitmap
  BY DEF Blocks, BgdTable, BlockBitmap, InodeBitmap, InodeTable
<1>2. \A j \in Inodes : InodeTable(j) \in Blocks
  BY DEF Blocks
<1>3. \A m \in 1 .. NBlocks : Data(m) \in Blocks /\ Data(m) # InodeTable(i)
  BY DEF Data, Blocks, InodeTable
<1>. DEFINE T == InodeTable(i)
            v == [h[T] EXCEPT ![i] = x]
<1>4. PICK u : u = Put(g, T, v)
  OBVIOUS
<1>5. v = [j \in InTable(T) |-> [N EXCEPT ![i] = x][j]]
  <2>1. h[T] = [j \in InTable(T) |-> N[j]] /\ N \in [Inodes -> Node]
    BY DEF TableShows, Shows, IsView
  <2>2. InTable(T) \subseteq Inodes
    BY DEF InTable
  <2>. QED
    BY <2>1, <2>2
<1>6. IsDisk(u)
  BY <1>4 DEF Shows, IsDisk, Put
<1>7. \A b \in Blocks : u[b] = IF b = T THEN v ELSE g[b]
  BY <1>4 DEF Shows, IsDisk, Put
<1>8. [N EXCEPT ![i] = x] \in [Inodes -> Node]
  BY DEF Shows, IsView
<1>9. ASSUME NEW j \in Inodes
      PROVE  u[InodeTable(j)] = [k \in InTable(InodeTable(j)) |-> [N EXCEPT ![i] = x][k]]
  <2>1. CASE InodeTable(j) = T
    BY <1>2, <1>5, <1>7, <2>1
  <2>2. CASE InodeTable(j) # T
    <3>1. u[InodeTable(j)] = [k \in InTable(InodeTable(j)) |-> N[k]]
      BY <1>2, <1>7, <2>2 DEF Shows, TableShows
    <3>2. \A k \in InTable(InodeTable(j)) : k # i /\ k \in Inodes
      BY <2>2 DEF InTable
    <3>3. \A k \in InTable(InodeTable(j)) : [N EXCEPT ![i] = x][k] = N[k]
      BY <3>2 DEF Shows, IsView
    <3>. QED
      BY <3>1, <3>3
  <2>. QED
    BY <2>1, <2>2
<1>10. TableShows(u, [N EXCEPT ![i] = x])
  BY <1>9 DEF TableShows
<1>11. DataShows(u, D)
  BY <1>3, <1>7 DEF DataShows, Shows
<1>12. IsView(bb, ib, [N EXCEPT ![i] = x], D)
  BY <1>8 DEF Shows, IsView
<1>13. u[BgdTable] = g[BgdTable] /\ u[BlockBitmap] = g[BlockBitmap] /\ u[InodeBitmap] = g[InodeBitmap]
  BY <1>1, <1>7
<1>14. Shows(u, bb, ib, [N EXCEPT ![i] = x], D)
  BY <1>6, <1>10, <1>11, <1>12, <1>13 DEF Shows
<1>. QED
  BY <1>4, <1>14

-----------------------------------------------------------------------------
(* A transaction as it grows.                                              *)

\* A block that the list writes has a last write, and that is what it leaves.
LEMMA LeftIsLast ==
    ASSUME NEW S, NEW log \in Seq(S), NEW b \in Touched(log)
    PROVE  \E q \in 1 .. Len(log) :
              log[q].blk = b /\ IsLast(log, q) /\ Left(log, b) = log[q].val
<1>. DEFINE T == {q \in 1 .. Len(log) : log[q].blk = b}
            Back == {Len(log) - q : q \in T}
            P(q) == q \in DOMAIN log /\ log[q].blk = b /\ IsLast(log, q)
<1>1. Len(log) \in Nat /\ DOMAIN log = 1 .. Len(log)
  BY LenProperties
<1>2. Back \in SUBSET Nat /\ Back # {}
  BY <1>1 DEF Touched
<1>3. PICK m \in Back : \A y \in Back : m <= y
  <2>. HIDE DEF Back
  <2>. QED
    BY <1>2, LeastNumber
<1>4. PICK q \in T : m = Len(log) - q
  OBVIOUS
<1>5. \A r \in T : Len(log) - q <= Len(log) - r
  BY <1>3, <1>4
<1>6. P(q)
  BY <1>1, <1>5 DEF IsLast
<1>7. P(CHOOSE r : P(r))
  BY <1>6, Zenon
<1>8. (CHOOSE r : P(r)) = CHOOSE r \in DOMAIN log : log[r].blk = b /\ IsLast(log, r)
  OBVIOUS
<1>. QED
  BY <1>1, <1>7, <1>8 DEF Left

IsMap(g) == g = [c \in DOMAIN g |-> g[c]]

\* What is appended to the list is written last.
LEMMA WrittenAppend ==
    ASSUME NEW S, NEW log \in Seq(S), NEW g, IsMap(g), NEW e
    PROVE  Written(g, Append(log, e)) = [Written(g, log) EXCEPT ![e.blk] = e.val]
<1>. DEFINE b == e.blk
            v == e.val
<1>1. PICK r : r = Append(log, e)
  OBVIOUS
<1>2. /\ Len(log) \in Nat /\ Len(r) = Len(log) + 1
      /\ DOMAIN log = 1 .. Len(log) /\ DOMAIN r = 1 .. Len(log) + 1
      /\ \A q \in 1 .. Len(log) : r[q] = log[q]
      /\ r[Len(log) + 1] = e
      /\ r \in Seq(S \cup {e})
  <2>1. log \in Seq(S \cup {e}) /\ e \in S \cup {e}
    OBVIOUS
  <2>. QED
    BY <1>1, <2>1, AppendProperties, LenProperties
<1>3. Touched(r) = Touched(log) \cup {b}
  <2>1. \A q \in 1 .. Len(log) : q \in 1 .. Len(log) + 1
    BY <1>2
  <2>2. \A q \in 1 .. Len(log) + 1 : q \in 1 .. Len(log) \/ q = Len(log) + 1
    BY <1>2
  <2>3. Len(log) + 1 \in 1 .. Len(log) + 1
    BY <1>2
  <2>. QED
    BY <1>2, <2>1, <2>2, <2>3 DEF Touched
<1>4. Left(r, b) = v
  <2>0. r \in Seq(S \cup {e}) /\ b \in Touched(r)
    BY <1>2, <1>3
  <2>1. PICK q \in 1 .. Len(r) : r[q].blk = b /\ IsLast(r, q) /\ Left(r, b) = r[q].val
    BY ONLY <2>0, LeftIsLast
  <2>2. r[Len(log) + 1].blk = b
    BY <1>2
  <2>3. q = Len(log) + 1
    BY <1>2, <2>1, <2>2 DEF IsLast
  <2>. QED
    BY <1>2, <2>1, <2>3
<1>5. ASSUME NEW c \in Touched(log), c # b
      PROVE  Left(r, c) = Left(log, c)
  <2>1. PICK q \in 1 .. Len(log) : log[q].blk = c /\ IsLast(log, q) /\ Left(log, c) = log[q].val
    BY LeftIsLast
  <2>0. r \in Seq(S \cup {e}) /\ c \in Touched(r)
    BY <1>2, <1>3
  <2>2. PICK p \in 1 .. Len(r) : r[p].blk = c /\ IsLast(r, p) /\ Left(r, c) = r[p].val
    BY ONLY <2>0, LeftIsLast
  <2>3. p \in 1 .. Len(log)
    BY <1>2, <1>5, <2>2
  <2>4. log[p].blk = c /\ r[q].blk = c
    BY <1>2, <2>1, <2>2, <2>3
  <2>5. ~(p < q) /\ ~(q < p)
    BY <1>2, <2>1, <2>2, <2>3, <2>4 DEF IsLast
  <2>6. p = q
    BY <1>2, <2>3, <2>5
  <2>. QED
    BY <1>2, <2>1, <2>2, <2>6
<1>6. PICK w : w = Written(g, log)
  OBVIOUS
<1>7. DOMAIN w = DOMAIN g /\ \A c \in DOMAIN g : w[c] = IF c \in Touched(log) THEN Left(log, c) ELSE g[c]
  BY <1>6 DEF Written
<1>8. Written(g, r) = [w EXCEPT ![b] = v]
  <2>1. \A c \in DOMAIN g : (IF c \in Touched(r) THEN Left(r, c) ELSE g[c]) = [w EXCEPT ![b] = v][c]
    BY <1>3, <1>4, <1>5, <1>7
  <2>2. [w EXCEPT ![b] = v] = [c \in DOMAIN g |-> [w EXCEPT ![b] = v][c]]
    BY <1>7
  <2>. QED
    BY <2>1, <2>2 DEF Written
<1>. QED
  BY <1>1, <1>6, <1>8

IsTransaction(t) ==
    t = [disk |-> t.disk, buf |-> t.buf, bgd |-> t.bgd,
         inode |-> t.inode, left |-> t.left, offset |-> t.offset]

LogsCounts(log) ==
    /\ \E S : log \in Seq(S)
    /\ \A q \in 1 .. Len(log) : log[q].blk = BgdTable => log[q].val \in Counts

\* A transaction of n writes on the disk h, which leaves what w shows.
Gathers(t, h, n) ==
    /\ IsTransaction(t) /\ t.disk = h /\ t.bgd \in Counts
    /\ LogsCounts(t.buf) /\ Len(t.buf) = n

SameFile(t, u) == u.inode = t.inode /\ u.left = t.left /\ u.offset = t.offset

LEMMA JournalledAdds ==
    ASSUME NEW t, NEW h, NEW n \in Nat, Gathers(t, h, n), n < JNL_BUF,
           IsDisk(h),
           NEW b \in Blocks, NEW v, b = BgdTable => v \in Counts
    PROVE  /\ Gathers(Journalled(t, b, v), h, n + 1)
           /\ Committed(Journalled(t, b, v)) = Put(Committed(t), b, v)
           /\ Journalled(t, b, v).bgd = t.bgd
           /\ SameFile(t, Journalled(t, b, v))
<1>. DEFINE e == [blk |-> b, val |-> v]
<1>1. PICK u : u = Journalled(t, b, v)
  OBVIOUS
<1>2. PICK s : s = t.buf
  OBVIOUS
<1>3. PICK S : s \in Seq(S)
  BY <1>2 DEF Gathers, LogsCounts
<1>4. u = [t EXCEPT !.buf = Append(s, e)]
  BY <1>1, <1>2, Constants DEF Journalled, Gathers
<1>5. /\ u.buf = Append(s, e) /\ u.disk = h /\ u.bgd = t.bgd /\ SameFile(t, u)
      /\ IsTransaction(u)
  <2>. HIDE DEF e
  <2>. QED
    BY <1>4 DEF Gathers, IsTransaction, SameFile
<1>6. /\ Append(s, e) \in Seq(S \cup {e}) /\ Len(Append(s, e)) = n + 1 /\ Len(s) = n
      /\ \A q \in 1 .. n : Append(s, e)[q] = s[q]
      /\ Append(s, e)[n + 1] = e
  <2>1. s \in Seq(S \cup {e}) /\ e \in S \cup {e} /\ Len(s) = n
    BY <1>2, <1>3 DEF Gathers
  <2>. HIDE DEF e
  <2>. QED
    BY <2>1, AppendProperties, LenProperties
<1>7. LogsCounts(u.buf)
  <2>1. \A q \in 1 .. n + 1 : q \in 1 .. n \/ q = n + 1
    OBVIOUS
  <2>2. \A q \in 1 .. n : s[q].blk = BgdTable => s[q].val \in Counts
    BY <1>2 DEF Gathers, LogsCounts
  <2>3. e.blk = BgdTable => e.val \in Counts
    OBVIOUS
  <2>. HIDE DEF e
  <2>. QED
    BY <1>5, <1>6, <2>1, <2>2, <2>3 DEF LogsCounts
<1>8. Gathers(u, h, n + 1)
  BY <1>5, <1>6, <1>7 DEF Gathers
<1>9. Written(h, Append(s, e)) = Put(Written(h, s), b, v)
  <2>1. IsMap(h)
    BY DEF IsMap, IsDisk
  <2>2. PICK f : f = e
    OBVIOUS
  <2>3. Written(h, Append(s, f)) = [Written(h, s) EXCEPT ![f.blk] = f.val]
    BY ONLY <1>3, <2>1, WrittenAppend
  <2>4. f.blk = b /\ f.val = v
    BY <2>2
  <2>. QED
    BY <2>2, <2>3, <2>4 DEF Put
<1>10. Committed(u) = Put(Committed(t), b, v)
  <2>. HIDE DEF e
  <2>. QED
    BY <1>2, <1>5, <1>9 DEF Committed, Gathers
<1>. QED
  BY <1>1, <1>5, <1>8, <1>10

Recount(t, c) == [t EXCEPT !.bgd = c]

\* A bitmap and the counts that go with it.
LEMMA BitsAndCounts ==
    ASSUME NEW t, NEW h, NEW n \in Nat, Gathers(t, h, n), n + 2 <= JNL_BUF,
           IsDisk(h),
           NEW bits \in {BlockBitmap, InodeBitmap}, NEW v, NEW c \in Counts,
           NEW u, u = WriteBgd(Recount(Journalled(t, bits, v), c))
    PROVE  /\ Gathers(u, h, n + 2) /\ u.bgd = c /\ SameFile(t, u)
           /\ Committed(u) = Put(Put(Committed(t), bits, v), BgdTable, c)
<1>1. bits \in Blocks /\ bits # BgdTable /\ BgdTable \in Blocks
  BY DEF Blocks, BgdTable, BlockBitmap, InodeBitmap
<1>2. PICK r : r = Journalled(t, bits, v)
  OBVIOUS
<1>3. n < JNL_BUF /\ n + 1 < JNL_BUF /\ n + 1 \in Nat /\ (n + 1) + 1 = n + 2
  BY Constants
<1>4. /\ Gathers(r, h, n + 1) /\ SameFile(t, r)
      /\ Committed(r) = Put(Committed(t), bits, v)
  BY <1>1, <1>2, <1>3, JournalledAdds
<1>5. PICK s : s = Recount(r, c)
  OBVIOUS
<1>6. /\ IsTransaction(s) /\ s.disk = r.disk /\ s.buf = r.buf /\ s.bgd = c /\ SameFile(r, s)
  BY <1>4, <1>5 DEF Gathers, IsTransaction, SameFile, Recount
<1>7. Gathers(s, h, n + 1) /\ Committed(s) = Committed(r)
  BY <1>4, <1>6 DEF Gathers, Committed
<1>8. u = Journalled(s, BgdTable, c)
  BY <1>2, <1>5, <1>6 DEF WriteBgd
<1>9. /\ Gathers(u, h, n + 2) /\ u.bgd = s.bgd /\ SameFile(s, u)
      /\ Committed(u) = Put(Committed(s), BgdTable, c)
  BY <1>1, <1>3, <1>7, <1>8, JournalledAdds
<1>. QED
  BY <1>4, <1>6, <1>7, <1>9 DEF SameFile

\* The transaction t on the disk h, when what it leaves shows these.
Leaves(t, h, n, bb, ib, N, D) == Gathers(t, h, n) /\ Shows(Committed(t), bb, ib, N, D)

LEMMA TakeBlockLeaves ==
    ASSUME NEW t, NEW h, NEW n \in Nat, NEW bb, NEW ib, NEW N, NEW D,
           Leaves(t, h, n, bb, ib, N, D), n + 2 <= JNL_BUF,
           NEW B, NEW I, NEW M, NEW C, Shows(h, B, I, M, C),
           NEW x \in 1 .. NBlocks, t.bgd.free_blocks # 0
    PROVE  /\ Leaves(TakeBlock(t, x), h, n + 2, B \cup {x}, ib, N, D)
           /\ SameFile(t, TakeBlock(t, x))
<1>. DEFINE c == [t.bgd EXCEPT !.free_blocks = @ - 1]
<1>1. PICK r : r = Journalled(t, BlockBitmap, h[BlockBitmap] \cup {x})
  OBVIOUS
<1>2. t.bgd \in Counts /\ t.disk = h /\ Gathers(t, h, n)
  BY DEF Leaves, Gathers
<1>3. c \in Counts
  BY <1>2 DEF Counts
<1>4. /\ IsDisk(h) /\ h[BlockBitmap] = B /\ B \cup {x} \in SUBSET (1 .. NBlocks)
      /\ n < JNL_BUF
  BY Constants DEF Shows, IsView
<1>5. BlockBitmap \in Blocks /\ BlockBitmap # BgdTable
  BY DEF Blocks, BgdTable, BlockBitmap
<1>6. Gathers(r, h, n + 1) /\ r.bgd = t.bgd
  BY <1>1, <1>2, <1>4, <1>5, JournalledAdds
<1>7. [r EXCEPT !.bgd.free_blocks = @ - 1] = Recount(r, c)
  BY <1>6 DEF Gathers, IsTransaction, Recount
<1>8. TakeBlock(t, x) = WriteBgd(Recount(r, c))
  BY <1>1, <1>2, <1>7 DEF TakeBlock
<1>9. PICK u : u = TakeBlock(t, x)
  OBVIOUS
<1>10. /\ Gathers(u, h, n + 2) /\ SameFile(t, u)
       /\ Committed(u) = Put(Put(Committed(t), BlockBitmap, B \cup {x}), BgdTable, c)
  <2>1. BlockBitmap \in {BlockBitmap, InodeBitmap}
    OBVIOUS
  <2>. HIDE DEF c
  <2>2. u = WriteBgd(Recount(Journalled(t, BlockBitmap, h[BlockBitmap] \cup {x}), c))
    BY <1>1, <1>8, <1>9
  <2>3. n + 2 <= JNL_BUF /\ n \in Nat /\ IsDisk(h)
    BY <1>4
  <2>4. /\ Gathers(u, h, n + 2) /\ SameFile(t, u)
        /\ Committed(u) = Put(Put(Committed(t), BlockBitmap, h[BlockBitmap] \cup {x}), BgdTable, c)
    BY ONLY <1>2, <1>3, <2>1, <2>2, <2>3, BitsAndCounts
  <2>. QED
    BY <1>4, <2>4
<1>11. Shows(Put(Committed(t), BlockBitmap, B \cup {x}), B \cup {x}, ib, N, D)
  BY <1>4, PutBlockBitmap DEF Leaves
<1>12. Shows(Committed(u), B \cup {x}, ib, N, D)
  <2>. HIDE DEF c
  <2>. QED
    BY <1>3, <1>10, <1>11, PutCounts
<1>. QED
  BY <1>9, <1>10, <1>12 DEF Leaves

LEMMA ReleaseBlockLeaves ==
    ASSUME NEW t, NEW h, NEW n \in Nat, NEW bb, NEW ib, NEW N, NEW D,
           Leaves(t, h, n, bb, ib, N, D), n + 2 <= JNL_BUF,
           NEW B, NEW I, NEW M, NEW C, Shows(h, B, I, M, C), NEW x
    PROVE  /\ Leaves(ReleaseBlock(t, x), h, n + 2, B \ {x}, ib, N, D)
           /\ SameFile(t, ReleaseBlock(t, x))
<1>. DEFINE c == [t.bgd EXCEPT !.free_blocks = @ + 1]
<1>1. PICK r : r = Journalled(t, BlockBitmap, h[BlockBitmap] \ {x})
  OBVIOUS
<1>2. t.bgd \in Counts /\ t.disk = h /\ Gathers(t, h, n)
  BY DEF Leaves, Gathers
<1>3. c \in Counts
  BY <1>2 DEF Counts
<1>4. /\ IsDisk(h) /\ h[BlockBitmap] = B /\ B \ {x} \in SUBSET (1 .. NBlocks)
      /\ n < JNL_BUF
  <2>1. B \subseteq 1 .. NBlocks /\ IsDisk(h) /\ h[BlockBitmap] = B
    BY DEF Shows, IsView
  <2>2. n < JNL_BUF
    BY Constants
  <2>. QED
    BY <2>1, <2>2
<1>5. BlockBitmap \in Blocks /\ BlockBitmap # BgdTable
  BY DEF Blocks, BgdTable, BlockBitmap
<1>6. Gathers(r, h, n + 1) /\ r.bgd = t.bgd
  BY <1>1, <1>2, <1>4, <1>5, JournalledAdds
<1>7. [r EXCEPT !.bgd.free_blocks = @ + 1] = Recount(r, c)
  BY <1>6 DEF Gathers, IsTransaction, Recount
<1>8. ReleaseBlock(t, x) = WriteBgd(Recount(r, c))
  BY <1>1, <1>2, <1>7 DEF ReleaseBlock
<1>9. PICK u : u = ReleaseBlock(t, x)
  OBVIOUS
<1>10. /\ Gathers(u, h, n + 2) /\ SameFile(t, u)
       /\ Committed(u) = Put(Put(Committed(t), BlockBitmap, B \ {x}), BgdTable, c)
  <2>1. BlockBitmap \in {BlockBitmap, InodeBitmap}
    OBVIOUS
  <2>. HIDE DEF c
  <2>2. u = WriteBgd(Recount(Journalled(t, BlockBitmap, h[BlockBitmap] \ {x}), c))
    BY <1>1, <1>8, <1>9
  <2>3. n + 2 <= JNL_BUF /\ n \in Nat /\ IsDisk(h)
    BY <1>4
  <2>4. /\ Gathers(u, h, n + 2) /\ SameFile(t, u)
        /\ Committed(u) = Put(Put(Committed(t), BlockBitmap, h[BlockBitmap] \ {x}), BgdTable, c)
    BY ONLY <1>2, <1>3, <2>1, <2>2, <2>3, BitsAndCounts
  <2>. QED
    BY <1>4, <2>4
<1>11. Shows(Put(Committed(t), BlockBitmap, B \ {x}), B \ {x}, ib, N, D)
  BY <1>4, PutBlockBitmap DEF Leaves
<1>12. Shows(Committed(u), B \ {x}, ib, N, D)
  <2>. HIDE DEF c
  <2>. QED
    BY <1>3, <1>10, <1>11, PutCounts
<1>. QED
  BY <1>9, <1>10, <1>12 DEF Leaves

LEMMA TakeInodeLeaves ==
    ASSUME NEW t, NEW h, NEW n \in Nat, NEW bb, NEW ib, NEW N, NEW D,
           Leaves(t, h, n, bb, ib, N, D), n + 2 <= JNL_BUF,
           NEW B, NEW I, NEW M, NEW C, Shows(h, B, I, M, C),
           NEW x \in Inodes, t.bgd.free_inodes # 0
    PROVE  /\ Leaves(TakeInode(t, x), h, n + 2, bb, I \cup {x}, N, D)
           /\ SameFile(t, TakeInode(t, x))
<1>. DEFINE c == [t.bgd EXCEPT !.free_inodes = @ - 1]
<1>1. PICK r : r = Journalled(t, InodeBitmap, h[InodeBitmap] \cup {x})
  OBVIOUS
<1>2. t.bgd \in Counts /\ t.disk = h /\ Gathers(t, h, n)
  BY DEF Leaves, Gathers
<1>3. c \in Counts
  BY <1>2 DEF Counts
<1>4. /\ IsDisk(h) /\ h[InodeBitmap] = I /\ I \cup {x} \in SUBSET Inodes
      /\ n < JNL_BUF
  BY Constants DEF Shows, IsView
<1>5. InodeBitmap \in Blocks /\ InodeBitmap # BgdTable
  BY DEF Blocks, BgdTable, InodeBitmap
<1>6. Gathers(r, h, n + 1) /\ r.bgd = t.bgd
  BY <1>1, <1>2, <1>4, <1>5, JournalledAdds
<1>7. [r EXCEPT !.bgd.free_inodes = @ - 1] = Recount(r, c)
  BY <1>6 DEF Gathers, IsTransaction, Recount
<1>8. TakeInode(t, x) = WriteBgd(Recount(r, c))
  BY <1>1, <1>2, <1>7 DEF TakeInode
<1>9. PICK u : u = TakeInode(t, x)
  OBVIOUS
<1>10. /\ Gathers(u, h, n + 2) /\ SameFile(t, u)
       /\ Committed(u) = Put(Put(Committed(t), InodeBitmap, I \cup {x}), BgdTable, c)
  <2>1. InodeBitmap \in {BlockBitmap, InodeBitmap}
    OBVIOUS
  <2>. HIDE DEF c
  <2>2. u = WriteBgd(Recount(Journalled(t, InodeBitmap, h[InodeBitmap] \cup {x}), c))
    BY <1>1, <1>8, <1>9
  <2>3. n + 2 <= JNL_BUF /\ n \in Nat /\ IsDisk(h)
    BY <1>4
  <2>4. /\ Gathers(u, h, n + 2) /\ SameFile(t, u)
        /\ Committed(u) = Put(Put(Committed(t), InodeBitmap, h[InodeBitmap] \cup {x}), BgdTable, c)
    BY ONLY <1>2, <1>3, <2>1, <2>2, <2>3, BitsAndCounts
  <2>. QED
    BY <1>4, <2>4
<1>11. Shows(Put(Committed(t), InodeBitmap, I \cup {x}), bb, I \cup {x}, N, D)
  BY <1>4, PutInodeBitmap DEF Leaves
<1>12. Shows(Committed(u), bb, I \cup {x}, N, D)
  <2>. HIDE DEF c
  <2>. QED
    BY <1>3, <1>10, <1>11, PutCounts
<1>. QED
  BY <1>9, <1>10, <1>12 DEF Leaves

LEMMA ReleaseInodeLeaves ==
    ASSUME NEW t, NEW h, NEW n \in Nat, NEW bb, NEW ib, NEW N, NEW D,
           Leaves(t, h, n, bb, ib, N, D), n + 2 <= JNL_BUF,
           NEW B, NEW I, NEW M, NEW C, Shows(h, B, I, M, C), NEW x
    PROVE  /\ Leaves(ReleaseInode(t, x), h, n + 2, bb, I \ {x}, N, D)
           /\ SameFile(t, ReleaseInode(t, x))
<1>. DEFINE c == [t.bgd EXCEPT !.free_inodes = @ + 1]
<1>1. PICK r : r = Journalled(t, InodeBitmap, h[InodeBitmap] \ {x})
  OBVIOUS
<1>2. t.bgd \in Counts /\ t.disk = h /\ Gathers(t, h, n)
  BY DEF Leaves, Gathers
<1>3. c \in Counts
  BY <1>2 DEF Counts
<1>4. /\ IsDisk(h) /\ h[InodeBitmap] = I /\ I \ {x} \in SUBSET Inodes
      /\ n < JNL_BUF
  BY Constants DEF Shows, IsView
<1>5. InodeBitmap \in Blocks /\ InodeBitmap # BgdTable
  BY DEF Blocks, BgdTable, InodeBitmap
<1>6. Gathers(r, h, n + 1) /\ r.bgd = t.bgd
  BY <1>1, <1>2, <1>4, <1>5, JournalledAdds
<1>7. [r EXCEPT !.bgd.free_inodes = @ + 1] = Recount(r, c)
  BY <1>6 DEF Gathers, IsTransaction, Recount
<1>8. ReleaseInode(t, x) = WriteBgd(Recount(r, c))
  BY <1>1, <1>2, <1>7 DEF ReleaseInode
<1>9. PICK u : u = ReleaseInode(t, x)
  OBVIOUS
<1>10. /\ Gathers(u, h, n + 2) /\ SameFile(t, u)
       /\ Committed(u) = Put(Put(Committed(t), InodeBitmap, I \ {x}), BgdTable, c)
  <2>1. InodeBitmap \in {BlockBitmap, InodeBitmap}
    OBVIOUS
  <2>. HIDE DEF c
  <2>2. u = WriteBgd(Recount(Journalled(t, InodeBitmap, h[InodeBitmap] \ {x}), c))
    BY <1>1, <1>8, <1>9
  <2>3. n + 2 <= JNL_BUF /\ n \in Nat /\ IsDisk(h)
    BY <1>4
  <2>4. /\ Gathers(u, h, n + 2) /\ SameFile(t, u)
        /\ Committed(u) = Put(Put(Committed(t), InodeBitmap, h[InodeBitmap] \ {x}), BgdTable, c)
    BY ONLY <1>2, <1>3, <2>1, <2>2, <2>3, BitsAndCounts
  <2>. QED
    BY <1>4, <2>4
<1>11. Shows(Put(Committed(t), InodeBitmap, I \ {x}), bb, I \ {x}, N, D)
  BY <1>4, PutInodeBitmap DEF Leaves
<1>12. Shows(Committed(u), bb, I \ {x}, N, D)
  <2>. HIDE DEF c
  <2>. QED
    BY <1>3, <1>10, <1>11, PutCounts
<1>. QED
  BY <1>9, <1>10, <1>12 DEF Leaves

LEMMA WriteInodeLeaves ==
    ASSUME NEW t, NEW h, NEW n \in Nat, NEW bb, NEW ib, NEW N, NEW D,
           Leaves(t, h, n, bb, ib, N, D), n < JNL_BUF,
           NEW B, NEW I, NEW C, Shows(h, B, I, N, C),
           NEW i \in Inodes, NEW x \in Node
    PROVE  /\ Leaves(WriteInode(t, i, x), h, n + 1, bb, ib, [N EXCEPT ![i] = x], D)
           /\ WriteInode(t, i, x).bgd = t.bgd
<1>1. InodeTable(i) \in Blocks /\ InodeTable(i) # BgdTable
  BY BlocksApart
<1>2. PICK u : u = WriteInode(t, i, x)
  OBVIOUS
<1>3. PICK v : v = [h[InodeTable(i)] EXCEPT ![i] = x]
  OBVIOUS
<1>4. u = Journalled(t, InodeTable(i), v)
  BY <1>2, <1>3 DEF WriteInode, Leaves, Gathers
<1>5. IsDisk(h) /\ TableShows(h, N)
  BY DEF Shows
<1>6. /\ Gathers(u, h, n + 1) /\ u.bgd = t.bgd
      /\ Committed(u) = Put(Committed(t), InodeTable(i), v)
  BY <1>1, <1>4, <1>5, JournalledAdds DEF Leaves
<1>7. Shows(Committed(u), bb, ib, [N EXCEPT ![i] = x], D)
  BY <1>3, <1>5, <1>6, PutInode DEF Leaves
<1>. QED
  BY <1>2, <1>6, <1>7 DEF Leaves

LEMMA PutDataLeaves ==
    ASSUME NEW t, NEW h, NEW n \in Nat, NEW bb, NEW ib, NEW N, NEW D,
           Leaves(t, h, n, bb, ib, N, D), n < JNL_BUF, IsDisk(h),
           NEW y \in 1 .. NBlocks, NEW x \in Contents
    PROVE  /\ Leaves(Journalled(t, Data(y), x), h, n + 1, bb, ib, N, [D EXCEPT ![y] = x])
           /\ Journalled(t, Data(y), x).bgd = t.bgd
           /\ SameFile(t, Journalled(t, Data(y), x))
<1>1. Data(y) \in Blocks /\ Data(y) # BgdTable
  BY DEF Blocks, Data, BgdTable
<1>2. PICK u : u = Journalled(t, Data(y), x)
  OBVIOUS
<1>3. /\ Gathers(u, h, n + 1) /\ u.bgd = t.bgd /\ SameFile(t, u)
      /\ Committed(u) = Put(Committed(t), Data(y), x)
  BY <1>1, <1>2, JournalledAdds DEF Leaves
<1>4. Shows(Committed(u), bb, ib, N, [D EXCEPT ![y] = x])
  BY <1>3, PutData DEF Leaves
<1>. QED
  BY <1>2, <1>3, <1>4 DEF Leaves

-----------------------------------------------------------------------------
(* What is right of bitmaps, inodes and data, when a file has k blocks.    *)

\* The blocks of the inode y are marked, and hold what y takes them for.
Held(y, D, bb, k) ==
    /\ \A p \in Places : y.block[p] # Nowhere => y.block[p] \in bb /\ p < k
    /\ y.mode = "dir" =>
         /\ y.size = BS /\ y.block[0] # Nowhere /\ D[y.block[0]].kind = "dir"
         /\ \A p \in Places : p # 0 => y.block[p] = Nowhere
    /\ y.mode \in {"file", "symlink"} =>
         \A p \in Places : y.block[p] # Nowhere => D[y.block[p]].kind \in {"file", "zero"}
    /\ y.mode # "dir" => y.size <= MaxOffset

\* No two pointers lead to one block, those of inodes that are free included.
Apart(N) ==
    \A i, j \in Inodes, p, q \in Places :
      N[i].block[p] # Nowhere /\ N[i].block[p] = N[j].block[q] => i = j /\ p = q

BlocksRight(bb, N, D, k) == (\A i \in Inodes : Held(N[i], D, bb, k)) /\ Apart(N)

\* The entries of the directory d.
In(N, D, d) == IF N[d].mode = "dir" THEN D[N[d].block[0]].entries ELSE {}

Listing(N, D) == {e \in Inodes \X Names \X Inodes :
                    [name |-> e[2], ino |-> e[3]] \in In(N, D, e[1])}

\* The names L lead to inodes in use, which are marked and count their names.
NamesRight(ib, N, L) ==
    /\ ROOT \in Inodes /\ N[ROOT].mode = "dir"
    /\ \A i \in Inodes : N[i].mode # "none" => i \in ib
    /\ \A e \in L : N[e[3]].mode # "none"
    /\ \A e, f \in L : e[1] = f[1] /\ e[2] = f[2] => e = f
    /\ \A i \in Inodes : N[i].mode \in {"file", "symlink"} =>
         N[i].links = Cardinality({e \in L : e[3] = i})

OncePointed(x) ==
    \A p, q \in Places : x.block[p] # Nowhere /\ x.block[p] = x.block[q] => p = q

\* The blocks of x are those of y, or were free.
OldOrFree(x, y, bb) ==
    \A p \in Places : x.block[p] # Nowhere /\ x.block[p] \in bb
                        => \E q \in Places : y.block[q] = x.block[p]

\* The blocks of others than y stay marked, and the kind of data in them.
OthersStay(y, bb, D, cc, E) ==
    \A n \in bb : \/ \E p \in Places : y.block[p] = n
                  \/ n \in cc /\ E[n].kind = D[n].kind

LEMMA HeldChanges ==
    ASSUME NEW bb, NEW ib, NEW N, NEW D, IsView(bb, ib, N, D), NEW k,
           BlocksRight(bb, N, D, k), NEW cc, NEW E,
           NEW i \in Inodes, NEW x \in Node, Held(x, E, cc, k),
           OncePointed(x), OldOrFree(x, N[i], bb), OthersStay(N[i], bb, D, cc, E)
    PROVE  BlocksRight(cc, [N EXCEPT ![i] = x], E, k)
<1>. DEFINE M == [N EXCEPT ![i] = x]
<1>1. M \in [Inodes -> Node] /\ M[i] = x /\ \A j \in Inodes : j # i => M[j] = N[j]
  BY DEF IsView
<1>2. 0 \in Places
  BY Constants DEF Places
<1>3. ASSUME NEW j \in Inodes, j # i PROVE Held(N[j], E, cc, k)
  <2>1. Held(N[j], D, bb, k)
    BY DEF BlocksRight
  <2>2. ASSUME NEW p \in Places, N[j].block[p] # Nowhere
        PROVE  /\ N[j].block[p] \in cc /\ p < k
               /\ E[N[j].block[p]].kind = D[N[j].block[p]].kind
    <3>1. N[j].block[p] \in bb /\ p < k
      BY <2>1, <2>2 DEF Held
    <3>2. ~ \E q \in Places : N[i].block[q] = N[j].block[p]
      BY <1>3, <2>2 DEF BlocksRight, Apart
    <3>. QED
      BY <3>1, <3>2 DEF OthersStay
  <2>. QED
    BY <1>2, <2>1, <2>2 DEF Held
<1>4. \A j \in Inodes : Held(M[j], E, cc, k)
  <2>. HIDE DEF M
  <2>. QED
    BY <1>1, <1>3
<1>5. ASSUME NEW j \in Inodes, j # i, NEW p \in Places, NEW q \in Places,
             x.block[p] # Nowhere, x.block[p] = N[j].block[q]
      PROVE  FALSE
  <2>1. x.block[p] \in bb
    BY <1>5 DEF BlocksRight, Held
  <2>2. PICK r \in Places : N[i].block[r] = x.block[p]
    BY <1>5, <2>1 DEF OldOrFree
  <2>. QED
    BY <1>5, <2>2 DEF BlocksRight, Apart
<1>6. Apart(M)
  <2>. HIDE DEF M
  <2>. SUFFICES ASSUME NEW j \in Inodes, NEW l \in Inodes, NEW p \in Places, NEW q \in Places,
                       M[j].block[p] # Nowhere, M[j].block[p] = M[l].block[q]
                PROVE  j = l /\ p = q
    BY DEF Apart
  <2>1. CASE j = i /\ l = i
    BY <1>1, <2>1 DEF OncePointed
  <2>2. CASE j = i /\ l # i
    BY <1>1, <1>5, <2>2
  <2>3. CASE j # i /\ l = i
    <3>1. x.block[q] # Nowhere /\ x.block[q] = N[j].block[p]
      BY <1>1, <2>3
    <3>. QED
      BY <1>5, <2>3, <3>1
  <2>4. CASE j # i /\ l # i
    BY <1>1, <2>4 DEF BlocksRight, Apart
  <2>. QED
    BY <2>1, <2>2, <2>3, <2>4
<1>. QED
  BY <1>4, <1>6 DEF BlocksRight

-----------------------------------------------------------------------------
(* What the code reads of directories.                                     *)

LEMMA Entry ==
    ASSUME NEW nm, NEW i
    PROVE  /\ [name |-> nm, ino |-> i].name = nm /\ [name |-> nm, ino |-> i].ino = i
           /\ nm \in Names /\ i \in Inodes => [name |-> nm, ino |-> i] \in DirEntry
BY DEF DirEntry

LEMMA EntryIs ==
    ASSUME NEW e \in DirEntry
    PROVE  e = [name |-> e.name, ino |-> e.ino] /\ e.name \in Names /\ e.ino \in Inodes
BY DEF DirEntry

LEMMA ShowsInode ==
    ASSUME NEW h, NEW B, NEW I, NEW N, NEW D, Shows(h, B, I, N, D), NEW i \in Inodes
    PROVE  Inode(h, i) = N[i] /\ N[i] \in Node
<1>1. i \in InTable(InodeTable(i))
  BY DEF InTable
<1>2. h[InodeTable(i)] = [j \in InTable(InodeTable(i)) |-> N[j]]
  BY DEF Shows, TableShows
<1>. QED
  BY <1>1, <1>2 DEF Inode, Shows, IsView

\* A directory has one block, and its entries are there.
LEMMA ReadsDir ==
    ASSUME NEW h, NEW B, NEW I, NEW N, NEW D, Shows(h, B, I, N, D), NEW k,
           BlocksRight(B, N, D, k), NEW d \in Inodes, N[d].mode = "dir"
    PROVE  /\ N[d].block[0] \in 1 .. NBlocks /\ N[d].block[0] \in B
           /\ DirPlaces(h, d) = {0} /\ DirBlock(h, d, 0) = N[d].block[0]
           /\ EntriesAt(h, d, 0) = In(N, D, d) /\ DirEntries(h, d) = In(N, D, d)
           /\ In(N, D, d) \subseteq DirEntry
           /\ D[N[d].block[0]] = Dir(In(N, D, d))
<1>1. Inode(h, d) = N[d] /\ N[d] \in Node
  BY ShowsInode
<1>2. Held(N[d], D, B, k)
  BY DEF BlocksRight
<1>3. 0 \in Places /\ 0 < N_DIRECT
  BY Constants DEF Places
<1>4. N[d].block[0] \in 1 .. NBlocks /\ N[d].block[0] \in B
  BY <1>1, <1>2, <1>3 DEF Held, Node, Nowhere
<1>5. BlocksIn(N[d]) = 1
  <2>1. N[d].size = BS
    BY <1>2 DEF Held
  <2>2. BS * 1 + (BS - 1) = BS + BS - 1 /\ BS - 1 \in 0 .. BS - 1
    BY Constants
  <2>3. (BS * 1 + (BS - 1)) \div BS = 1
    BY <2>2, Constants, ModOf
  <2>. QED
    BY <2>1, <2>2, <2>3 DEF BlocksIn
<1>6. DirBlock(h, d, 0) = N[d].block[0]
  BY <1>1, <1>3 DEF DirBlock, GetBlock
<1>7. DirPlaces(h, d) = {0}
  <2>1. 0 .. BlocksIn(Inode(h, d)) - 1 = {0}
    BY <1>1, <1>5
  <2>. QED
    BY <1>4, <1>6, <2>1 DEF DirPlaces, Nowhere
<1>8. D[N[d].block[0]] \in Contents /\ D[N[d].block[0]].kind = "dir"
  BY <1>2, <1>4 DEF Held, Shows, IsView
<1>9. PICK es \in SUBSET DirEntry : D[N[d].block[0]] = Dir(es)
  BY <1>8 DEF Contents, Zeroed, FileData
<1>10. In(N, D, d) = es /\ Entries(D[N[d].block[0]]) = es
  BY <1>9 DEF In, Entries, Dir
<1>11. EntriesAt(h, d, 0) = es
  BY <1>4, <1>6, <1>10 DEF EntriesAt, Shows, DataShows
<1>12. DirEntries(h, d) = es
  BY <1>7, <1>11 DEF DirEntries
<1>. QED
  BY <1>4, <1>6, <1>7, <1>9, <1>10, <1>11, <1>12

NoneNamed(es, nm) == \A e \in es : e.name # nm
Without(es, nm)   == {e \in es : e.name # nm}

\* dir_lookup finds the inode that the name leads to.
LEMMA LookupFinds ==
    ASSUME NEW h, NEW B, NEW I, NEW N, NEW D, Shows(h, B, I, N, D), NEW k,
           BlocksRight(B, N, D, k), NEW d \in {Nowhere} \cup Inodes, NEW nm \in Names
    PROVE  /\ Lookup(h, d, nm) \in {Nowhere} \cup Inodes
           /\ Lookup(h, d, nm) # Nowhere =>
                /\ d \in Inodes /\ N[d].mode = "dir"
                /\ [name |-> nm, ino |-> Lookup(h, d, nm)] \in In(N, D, d)
           /\ Lookup(h, d, nm) = Nowhere /\ d # Nowhere /\ N[d].mode = "dir" =>
                NoneNamed(In(N, D, d), nm)
<1>. DEFINE found == {e \in DirEntries(h, d) : e.name = nm}
<1>1. CASE d = Nowhere
  BY <1>1 DEF Lookup
<1>2. CASE d # Nowhere
  <2>1. d \in Inodes /\ Inode(h, d) = N[d]
    BY <1>2, ShowsInode
  <2>2. CASE N[d].mode # "dir"
    BY <2>1, <2>2 DEF Lookup
  <2>3. CASE N[d].mode = "dir"
    <3>1. DirEntries(h, d) = In(N, D, d) /\ In(N, D, d) \subseteq DirEntry
      BY <2>1, <2>3, ReadsDir
    <3>2. CASE found = {}
      <4>1. Lookup(h, d, nm) = Nowhere
        BY <3>2 DEF Lookup
      <4>. QED
        BY <3>1, <3>2, <4>1 DEF NoneNamed
    <3>3. CASE found # {}
      <4>1. PICK e : e = CHOOSE f \in found : TRUE
        OBVIOUS
      <4>2. e \in found
        BY <3>3, <4>1
      <4>3. Lookup(h, d, nm) = e.ino
        BY <1>2, <2>1, <2>3, <3>3, <4>1 DEF Lookup
      <4>4. e \in DirEntry /\ e \in In(N, D, d) /\ e.name = nm
        BY <3>1, <4>2
      <4>5. e = [name |-> nm, ino |-> e.ino] /\ e.ino \in Inodes
        BY <4>4, EntryIs
      <4>6. e.ino # Nowhere
        BY <4>5, Constants DEF Inodes, Nowhere
      <4>. QED
        BY <2>1, <2>3, <4>3, <4>4, <4>5, <4>6
    <3>. QED
      BY <3>2, <3>3
  <2>. QED
    BY <2>2, <2>3
<1>. QED
  BY <1>1, <1>2

LEMMA RootIsInode == ROOT \in Inodes /\ ROOT # Nowhere
BY Constants DEF ROOT, Inodes, Nowhere

\* A walk along the n names of a path that ends at the inode to.
IsWalk(h, path, n, at, to) ==
    /\ at \in [0 .. n -> {Nowhere} \cup Inodes] /\ at[0] = ROOT /\ at[n] = to
    /\ \A i \in 1 .. n : at[i] = Lookup(h, at[i - 1], path[i])

LooksUp(h, path, n) ==
    \A d \in {Nowhere} \cup Inodes, i \in 1 .. n :
      Lookup(h, d, path[i]) \in {Nowhere} \cup Inodes

LEMMA ResolveWalks ==
    ASSUME NEW h, NEW path, NEW n \in Nat, Len(path) = n, LooksUp(h, path, n)
    PROVE  \E at : IsWalk(h, path, n, at, Resolve(h, path))
<1>. DEFINE X == {Nowhere} \cup Inodes
<1>1. PICK G : G = [z \in X \X (1 .. n) |-> Lookup(h, z[1], path[z[2]])]
  OBVIOUS
<1>2. G \in [X \X (1 .. n) -> X] /\ ROOT \in X
  BY <1>1, RootIsInode DEF LooksUp
<1>3. \E f : IsLoop(f, X, ROOT, n, G)
  <2>. HIDE DEF X
  <2>. QED
    BY <1>2, Iterates
<1>4. PICK f : f \in [0 .. n -> X] /\ f[0] = ROOT /\ \A i \in 1 .. n : f[i] = G[<<f[i - 1], i>>]
  BY <1>3 DEF IsLoop
<1>5. ASSUME NEW i \in 1 .. n PROVE f[i] = Lookup(h, f[i - 1], path[i])
  <2>1. i - 1 \in 0 .. n /\ f[i - 1] \in X
    BY <1>4
  <2>. HIDE DEF X
  <2>. QED
    BY <1>1, <1>4, <2>1
<1>. DEFINE Is(g) == g = [q \in 0 .. Len(path) |-> IF q = 0 THEN ROOT ELSE Lookup(h, g[q - 1], path[q])]
<1>6. Is(f)
  <2>1. \A q \in 0 .. n : q # 0 => q \in 1 .. n
    OBVIOUS
  <2>2. \A q \in 0 .. n : f[q] = IF q = 0 THEN ROOT ELSE Lookup(h, f[q - 1], path[q])
    BY <1>4, <1>5, <2>1
  <2>. HIDE DEF X
  <2>. QED
    BY <1>4, <2>2
<1>7. PICK g : g = (CHOOSE w : Is(w))
  OBVIOUS
<1>8. Is(g)
  BY <1>6, <1>7
<1>9. Resolve(h, path) = g[n]
  BY <1>7, Zenon DEF Resolve
<1>10. /\ g = [q \in 0 .. n |-> g[q]] /\ g[0] = ROOT
       /\ \A i \in 1 .. n : g[i] = Lookup(h, g[i - 1], path[i])
  <2>1. \A i \in 1 .. n : i \in 0 .. n /\ i # 0
    OBVIOUS
  <2>2. 0 \in 0 .. n
    OBVIOUS
  <2>3. g = [q \in 0 .. n |-> IF q = 0 THEN ROOT ELSE Lookup(h, g[q - 1], path[q])]
    BY <1>8
  <2>. QED
    BY <2>1, <2>2, <2>3
<1>11. \A q \in 0 .. n : g[q] \in X
  <2>. DEFINE S == {q \in 0 .. n : g[q] \in X}
  <2>1. 0 \in S
    BY <1>2, <1>10
  <2>2. ASSUME NEW i \in 1 .. n, i - 1 \in S PROVE i \in S
    <3>1. g[i - 1] \in X /\ i \in 0 .. n
      BY <2>2
    <3>2. Lookup(h, g[i - 1], path[i]) \in X
      BY <3>1 DEF LooksUp
    <3>. QED
      BY <1>10, <3>1, <3>2
  <2>3. 0 .. n \subseteq S
    <3>. HIDE DEF S
    <3>. QED
      BY <2>1, <2>2, UpTo
  <2>. QED
    BY <2>3
<1>12. g \in [0 .. n -> X]
  <2>. HIDE DEF X
  <2>. QED
    BY <1>10, <1>11
<1>. QED
  BY <1>9, <1>10, <1>12 DEF IsWalk

\* path_to_inode finds what the last name leads to in the parent.
LEMMA ResolveFinds ==
    ASSUME NEW h, NEW B, NEW I, NEW N, NEW D, Shows(h, B, I, N, D), NEW k,
           BlocksRight(B, N, D, k), NEW path \in Paths
    PROVE  /\ Parent(h, path) \in {Nowhere} \cup Inodes /\ Last(path) \in Names
           /\ Resolve(h, path) = Lookup(h, Parent(h, path), Last(path))
<1>1. \A d \in {Nowhere} \cup Inodes, nm \in Names : Lookup(h, d, nm) \in {Nowhere} \cup Inodes
  BY LookupFinds
<1>2. CASE \E nm \in Names : path = <<nm>>
  <2>1. PICK nm \in Names : path = <<nm>>
    BY <1>2
  <2>2. Front(path) = << >> /\ Last(path) = nm /\ Len(path) = 1 /\ path[1] = nm
    BY <2>1 DEF Front, Last
  <2>3. Parent(h, path) = ROOT
    <3>1. Len(<< >>) = 0 /\ LooksUp(h, << >>, 0)
      BY DEF LooksUp
    <3>2. PICK at : IsWalk(h, << >>, 0, at, Resolve(h, << >>))
      BY <3>1, ResolveWalks
    <3>. QED
      BY <2>2, <3>2 DEF Parent, IsWalk
  <2>4. LooksUp(h, path, 1)
    BY <1>1, <2>2 DEF LooksUp
  <2>5. PICK at : IsWalk(h, path, 1, at, Resolve(h, path))
    BY <2>2, <2>4, ResolveWalks
  <2>6. Resolve(h, path) = Lookup(h, ROOT, nm)
    BY <2>2, <2>5 DEF IsWalk
  <2>. QED
    BY <2>2, <2>3, <2>6, RootIsInode
<1>3. CASE \E dir \in Names, nm \in Names : path = <<dir, nm>>
  <2>1. PICK dir \in Names, nm \in Names : path = <<dir, nm>>
    BY <1>3
  <2>2. Last(path) = nm /\ Len(path) = 2 /\ path[1] = dir /\ path[2] = nm
    BY <2>1 DEF Last
  <2>3. PICK up : up = Front(path)
    OBVIOUS
  <2>4. Len(up) = 1 /\ up[1] = dir
    <3>1. path \in Seq(Names)
      BY <2>1
    <3>2. up = SubSeq(path, 1, 1)
      BY <2>2, <2>3 DEF Front
    <3>. QED
      BY <2>2, <3>1, <3>2, SubSeqProperties
  <2>5. LooksUp(h, up, 1)
    BY <1>1, <2>4 DEF LooksUp
  <2>6. PICK at : IsWalk(h, up, 1, at, Resolve(h, up))
    BY <2>4, <2>5, ResolveWalks
  <2>7. Parent(h, path) = Lookup(h, ROOT, dir)
    BY <2>3, <2>4, <2>6 DEF Parent, IsWalk
  <2>8. LooksUp(h, path, 2)
    <3>1. \A i \in 1 .. 2 : path[i] \in Names
      BY <2>2
    <3>. QED
      BY <1>1, <3>1 DEF LooksUp
  <2>9. PICK go : IsWalk(h, path, 2, go, Resolve(h, path))
    BY <2>2, <2>8, ResolveWalks
  <2>10. go[1] = Lookup(h, ROOT, dir) /\ go[2] = Lookup(h, go[1], nm) /\ go[2] = Resolve(h, path)
    <3>1. 1 \in 1 .. 2 /\ 2 \in 1 .. 2
      OBVIOUS
    <3>. QED
      BY <2>2, <2>9, <3>1 DEF IsWalk
  <2>. QED
    BY <1>1, <2>2, <2>7, <2>10, RootIsInode
<1>. QED
  BY <1>2, <1>3 DEF Paths

-----------------------------------------------------------------------------
(* A free block, a free inode.                                             *)

LEMMA LeastIs ==
    ASSUME NEW S \in SUBSET Nat, S # {}
    PROVE  Min(S) \in S /\ \A y \in S : Min(S) <= y
<1>1. \E m \in S : \A y \in S : m <= y
  BY LeastNumber
<1>. QED
  BY <1>1 DEF Min

LEMMA FreeBlockIs ==
    ASSUME NEW t, NEW x, x = FreeBlock(t), x # Nowhere
    PROVE  x \in 1 .. NBlocks /\ x \notin t.disk[BlockBitmap] /\ t.bgd.free_blocks # 0
<1>1. /\ t.bgd.free_blocks # 0 /\ ~(1 .. NBlocks \subseteq t.disk[BlockBitmap])
      /\ x = Min((1 .. NBlocks) \ t.disk[BlockBitmap])
  BY DEF FreeBlock, FirstFree
<1>2. (1 .. NBlocks) \ t.disk[BlockBitmap] \in SUBSET Nat
  BY Constants
<1>3. Min((1 .. NBlocks) \ t.disk[BlockBitmap]) \in (1 .. NBlocks) \ t.disk[BlockBitmap]
  BY <1>1, <1>2, LeastIs
<1>. QED
  BY <1>1, <1>3

LEMMA FreeInodeIs ==
    ASSUME NEW t, NEW x, x = FreeInode(t), x # Nowhere
    PROVE  x \in Inodes /\ x \notin t.disk[InodeBitmap] /\ t.bgd.free_inodes # 0
<1>1. /\ t.bgd.free_inodes # 0 /\ ~(Inodes \subseteq t.disk[InodeBitmap])
      /\ x = Min(Inodes \ t.disk[InodeBitmap])
  BY DEF FreeInode, FirstFree
<1>2. Inodes \ t.disk[InodeBitmap] \in SUBSET Nat
  BY Constants DEF Inodes
<1>3. Min(Inodes \ t.disk[InodeBitmap]) \in Inodes \ t.disk[InodeBitmap]
  BY <1>1, <1>2, LeastIs
<1>. QED
  BY <1>1, <1>3

-----------------------------------------------------------------------------
(* Entries of directories.                                                 *)

\* The names of a directory fit in one block.
NamesFit == IsFiniteSet(Names) /\ Cardinality(Names) <= DIR_SLOTS

UniqueNames(es) == \A e, f \in es : e.name = f.name => e = f

LEMMA DirHasRoom ==
    ASSUME NamesFit, NEW es \in SUBSET DirEntry, UniqueNames(es), NEW nm \in Names,
           \A e \in es : e.name # nm
    PROVE  Cardinality(es) < DIR_SLOTS
<1>. DEFINE T == Names \ {nm}
            f == [e \in es |-> e.name]
<1>1. /\ IsFiniteSet(T) /\ Cardinality(T) = Cardinality(Names) - 1
      /\ Cardinality(Names) \in Nat
  BY FS_RemoveElement, FS_CardinalityType DEF NamesFit
<1>2. f \in [es -> T]
  BY DEF DirEntry
<1>3. \A d, e \in es : f[d] = f[e] => d = e
  BY DEF UniqueNames
<1>4. f \in Injection(es, T)
  <2>. HIDE DEF f, T
  <2>. QED
    BY <1>2, <1>3 DEF Injection, IsInjective
<1>5. IsFiniteSet(es) /\ Cardinality(es) <= Cardinality(T)
  <2>. HIDE DEF f, T
  <2>. QED
    BY ONLY <1>1, <1>4, FS_Injection
<1>6. Cardinality(es) \in Nat
  BY <1>5, FS_CardinalityType
<1>. QED
  BY <1>1, <1>5, <1>6, Constants DEF NamesFit

\* dir_add_entry: there is room in the block of the directory.
LEMMA EnterLeaves ==
    ASSUME NamesFit, NEW t, NEW h, NEW n \in Nat, NEW bb, NEW ib, NEW M, NEW E,
           Leaves(t, h, n, bb, ib, M, E), n < JNL_BUF,
           NEW B, NEW I, NEW N, NEW D, Shows(h, B, I, N, D), NEW k,
           BlocksRight(B, N, D, k),
           NEW p \in Inodes, N[p].mode = "dir", NEW nm \in Names, NEW i \in Inodes,
           UniqueNames(In(N, D, p)), \A e \in In(N, D, p) : e.name # nm
    PROVE  /\ CanAddEntry(t, p)
           /\ Leaves(AddEntry(t, p, nm, i), h, n + 1, bb, ib, M,
                [E EXCEPT ![N[p].block[0]] = Dir(In(N, D, p) \cup {[name |-> nm, ino |-> i]})])
<1>. DEFINE new == [name |-> nm, ino |-> i]
<1>1. t.disk = h
  BY DEF Leaves, Gathers
<1>2. PICK y : y = N[p].block[0]
  OBVIOUS
<1>3. PICK es : es = In(N, D, p)
  OBVIOUS
<1>4. /\ y \in 1 .. NBlocks /\ DirPlaces(h, p) = {0} /\ DirBlock(h, p, 0) = y
      /\ EntriesAt(h, p, 0) = es /\ es \in SUBSET DirEntry
  BY <1>2, <1>3, ReadsDir
<1>5. Cardinality(es) < DIR_SLOTS
  BY <1>3, <1>4, DirHasRoom
<1>6. Holes(h, p) = {0} /\ Holes(h, p) # {}
  BY <1>4, <1>5 DEF Holes
<1>7. Min({0}) = 0
  BY DEF Min
<1>8. CanAddEntry(t, p)
  BY <1>1, <1>6 DEF CanAddEntry
<1>9. PICK v : v = Dir(es \cup {new})
  OBVIOUS
<1>10. v \in Contents
  <2>1. new \in DirEntry
    BY DEF DirEntry
  <2>. QED
    BY <1>4, <1>9, <2>1 DEF Contents
<1>11. AddEntry(t, p, nm, i) = Journalled(t, Data(y), v)
  BY <1>1, <1>4, <1>6, <1>7, <1>9 DEF AddEntry
<1>12. IsDisk(h)
  BY DEF Shows
<1>13. Leaves(Journalled(t, Data(y), v), h, n + 1, bb, ib, M, [E EXCEPT ![y] = v])
  BY <1>4, <1>10, <1>12, PutDataLeaves
<1>. QED
  BY <1>2, <1>3, <1>8, <1>9, <1>11, <1>13

\* dir_remove_entry takes the name out of the block of the directory.
LEMMA RemoveLeaves ==
    ASSUME NEW t, NEW h, NEW n \in Nat, NEW bb, NEW ib, NEW M, NEW E,
           Leaves(t, h, n, bb, ib, M, E), n < JNL_BUF,
           NEW B, NEW I, NEW N, NEW D, Shows(h, B, I, N, D), NEW k,
           BlocksRight(B, N, D, k),
           NEW p \in Inodes, N[p].mode = "dir", NEW nm,
           \E e \in In(N, D, p) : e.name = nm
    PROVE  /\ Leaves(RemoveEntry(t, p, nm), h, n + 1, bb, ib, M,
                [E EXCEPT ![N[p].block[0]] = Dir(Without(In(N, D, p), nm))])
           /\ RemoveEntry(t, p, nm).bgd = t.bgd
<1>. USE DEF Without
<1>1. t.disk = h
  BY DEF Leaves, Gathers
<1>2. PICK y : y = N[p].block[0]
  OBVIOUS
<1>3. PICK es : es = In(N, D, p)
  OBVIOUS
<1>4. /\ y \in 1 .. NBlocks /\ DirPlaces(h, p) = {0} /\ DirBlock(h, p, 0) = y
      /\ EntriesAt(h, p, 0) = es /\ es \in SUBSET DirEntry
  BY <1>2, <1>3, ReadsDir
<1>5. {q \in DirPlaces(h, p) : \E e \in EntriesAt(h, p, q) : e.name = nm} = {0}
  BY <1>3, <1>4
<1>6. PlaceOf(h, p, nm) = 0
  <2>1. Min({0}) = 0
    BY DEF Min
  <2>. QED
    BY <1>5, <2>1 DEF PlaceOf
<1>7. PICK v : v = Dir({e \in es : e.name # nm})
  OBVIOUS
<1>8. v \in Contents
  BY <1>4, <1>7 DEF Contents
<1>9. RemoveEntry(t, p, nm) = Journalled(t, Data(y), v)
  BY <1>1, <1>4, <1>6, <1>7 DEF RemoveEntry
<1>10. IsDisk(h)
  BY DEF Shows
<1>11. /\ Leaves(Journalled(t, Data(y), v), h, n + 1, bb, ib, M, [E EXCEPT ![y] = v])
       /\ Journalled(t, Data(y), v).bgd = t.bgd
  BY <1>4, <1>8, <1>10, PutDataLeaves
<1>. QED
  BY <1>2, <1>3, <1>7, <1>9, <1>11

-----------------------------------------------------------------------------
(* What a change of one directory does to the names.                       *)

LEMMA Listed ==
    ASSUME NEW N, NEW D, NEW e
    PROVE  /\ e \in Listing(N, D) <=> /\ e \in Inodes \X Names \X Inodes
                                      /\ [name |-> e[2], ino |-> e[3]] \in In(N, D, e[1])
           /\ e \in Listing(N, D) => e = <<e[1], e[2], e[3]>> /\ N[e[1]].mode = "dir"
BY DEF Listing, In

LEMMA ListingUnique ==
    ASSUME NEW h, NEW B, NEW I, NEW N, NEW D, Shows(h, B, I, N, D), NEW k,
           BlocksRight(B, N, D, k), NEW ib, NamesRight(ib, N, Listing(N, D)),
           NEW p \in Inodes, N[p].mode = "dir"
    PROVE  UniqueNames(In(N, D, p))
<1>. SUFFICES ASSUME NEW e \in In(N, D, p), NEW f \in In(N, D, p), e.name = f.name
              PROVE  e = f
  BY DEF UniqueNames
<1>1. /\ e = [name |-> e.name, ino |-> e.ino] /\ f = [name |-> f.name, ino |-> f.ino]
      /\ e.name \in Names /\ f.name \in Names /\ e.ino \in Inodes /\ f.ino \in Inodes
  BY ReadsDir, EntryIs
<1>2. PICK a, b : a = <<p, e.name, e.ino>> /\ b = <<p, f.name, f.ino>>
  OBVIOUS
<1>3. a \in Listing(N, D) /\ b \in Listing(N, D)
  BY <1>1, <1>2, Listed
<1>4. a = b
  BY <1>2, <1>3 DEF NamesRight
<1>. QED
  BY <1>1, <1>2, <1>4

\* The directory p has one name more, and the rest has what it had.
LEMMA ListingAdds ==
    ASSUME NEW N, NEW D, NEW M, NEW E, NEW p \in Inodes, NEW nm \in Names, NEW i \in Inodes,
           \A d \in Inodes : d # p => In(M, E, d) = In(N, D, d),
           In(M, E, p) = In(N, D, p) \cup {[name |-> nm, ino |-> i]}
    PROVE  Listing(M, E) = Listing(N, D) \cup {<<p, nm, i>>}
<1>1. ASSUME NEW e \in Inodes \X Names \X Inodes
      PROVE  [name |-> e[2], ino |-> e[3]] \in In(M, E, e[1]) <=>
               [name |-> e[2], ino |-> e[3]] \in In(N, D, e[1]) \/ e = <<p, nm, i>>
  <2>1. e = <<e[1], e[2], e[3]>> /\ e[1] \in Inodes
    OBVIOUS
  <2>2. [name |-> e[2], ino |-> e[3]] = [name |-> nm, ino |-> i] <=> e[2] = nm /\ e[3] = i
    <3>1. [name |-> e[2], ino |-> e[3]] = [name |-> nm, ino |-> i] => e[2] = nm /\ e[3] = i
      BY Entry
    <3>. QED
      BY <3>1
  <2>3. CASE e[1] = p
    BY <2>1, <2>2, <2>3
  <2>4. CASE e[1] # p
    BY <2>1, <2>4
  <2>. QED
    BY <2>3, <2>4
<1>2. <<p, nm, i>> \in Inodes \X Names \X Inodes
  OBVIOUS
<1>. QED
  BY <1>1, <1>2 DEF Listing

\* The directory p has one name less.
LEMMA ListingRemoves ==
    ASSUME NEW N, NEW D, NEW M, NEW E, NEW p \in Inodes, NEW nm \in Names, NEW i \in Inodes,
           \A d \in Inodes : d # p => In(M, E, d) = In(N, D, d),
           In(M, E, p) = {e \in In(N, D, p) : e.name # nm},
           UniqueNames(In(N, D, p)), [name |-> nm, ino |-> i] \in In(N, D, p)
    PROVE  /\ Listing(M, E) = Listing(N, D) \ {<<p, nm, i>>}
           /\ <<p, nm, i>> \in Listing(N, D)
<1>1. ASSUME NEW e \in Inodes \X Names \X Inodes
      PROVE  [name |-> e[2], ino |-> e[3]] \in In(M, E, e[1]) <=>
               [name |-> e[2], ino |-> e[3]] \in In(N, D, e[1]) /\ e # <<p, nm, i>>
  <2>1. e = <<e[1], e[2], e[3]>> /\ e[1] \in Inodes
    OBVIOUS
  <2>2. PICK r : r = [name |-> e[2], ino |-> e[3]]
    OBVIOUS
  <2>3. r.name = e[2] /\ r.ino = e[3]
    BY <2>2
  <2>4. CASE e[1] = p
    <3>1. CASE e[2] = nm
      <4>1. PICK s : s = [name |-> nm, ino |-> i]
        OBVIOUS
      <4>2. s.name = nm /\ s.ino = i
        BY <4>1
      <4>3. r \in In(N, D, p) => r = s
        BY <2>3, <3>1, <4>1, <4>2 DEF UniqueNames
      <4>4. r \in In(N, D, p) => e[3] = i
        BY <2>3, <4>2, <4>3
      <4>. QED
        BY <2>1, <2>2, <2>3, <2>4, <3>1, <4>4
    <3>2. CASE e[2] # nm
      BY <2>1, <2>2, <2>3, <2>4, <3>2
    <3>. QED
      BY <3>1, <3>2
  <2>5. CASE e[1] # p
    BY <2>1, <2>5
  <2>. QED
    BY <2>4, <2>5
<1>2. <<p, nm, i>> \in Inodes \X Names \X Inodes
  OBVIOUS
<1>. QED
  BY <1>1, <1>2 DEF Listing

LEMMA NamesFinite ==
    ASSUME NamesFit, NEW L \in SUBSET (Inodes \X Names \X Inodes), NEW i
    PROVE  IsFiniteSet({e \in L : e[3] = i}) /\ Cardinality({e \in L : e[3] = i}) \in Nat
<1>1. IsFiniteSet(Inodes)
  BY Constants, FS_Interval DEF Inodes
<1>2. IsFiniteSet(Names \X Inodes)
  BY <1>1, FS_Product DEF NamesFit
<1>3. IsFiniteSet(Inodes \X (Names \X Inodes))
  BY <1>1, <1>2, FS_Product
<1>. DEFINE f == [e \in {e \in L : e[3] = i} |-> <<e[1], <<e[2], e[3]>>>>]
<1>4. f \in [{e \in L : e[3] = i} -> Inodes \X (Names \X Inodes)]
  OBVIOUS
<1>5. ASSUME NEW a \in {e \in L : e[3] = i}, NEW b \in {e \in L : e[3] = i}, f[a] = f[b]
      PROVE  a = b
  <2>1. f[a] = <<a[1], <<a[2], a[3]>>>> /\ f[b] = <<b[1], <<b[2], b[3]>>>>
    OBVIOUS
  <2>2. a[1] = b[1] /\ a[2] = b[2] /\ a[3] = b[3]
    <3>1. <<a[1], <<a[2], a[3]>>>> = <<b[1], <<b[2], b[3]>>>>
      <4>. HIDE DEF f
      <4>. QED
        BY ONLY <1>5, <2>1
    <3>2. a[1] = b[1] /\ <<a[2], a[3]>> = <<b[2], b[3]>>
      BY ONLY <3>1
    <3>. QED
      BY ONLY <3>2
  <2>. QED
    BY <2>2
<1>6. f \in Injection({e \in L : e[3] = i}, Inodes \X (Names \X Inodes))
  <2>. HIDE DEF f
  <2>. QED
    BY <1>4, <1>5 DEF Injection, IsInjective
<1>7. IsFiniteSet({e \in L : e[3] = i})
  <2>. HIDE DEF f
  <2>. QED
    BY ONLY <1>3, <1>6, FS_Injection
<1>. QED
  BY <1>7, FS_CardinalityType

LEMMA NamesAdded ==
    ASSUME NamesFit, NEW ib, NEW N \in [Inodes -> Node],
           NEW L \in SUBSET (Inodes \X Names \X Inodes), NamesRight(ib, N, L),
           NEW p \in Inodes, NEW nm \in Names, NEW i \in Inodes, NEW x \in Node,
           \A e \in L : ~(e[1] = p /\ e[2] = nm),
           N[i].mode # "dir", x.mode # "none", NEW jb, ib \cup {i} \subseteq jb,
           x.mode \in {"file", "symlink"} => x.links = Cardinality({e \in L : e[3] = i}) + 1
    PROVE  NamesRight(jb, [N EXCEPT ![i] = x], L \cup {<<p, nm, i>>})
<1>. DEFINE M == [N EXCEPT ![i] = x]
            new == <<p, nm, i>>
            K == L \cup {new}
<1>1. M[i] = x /\ \A j \in Inodes : j # i => M[j] = N[j]
  OBVIOUS
<1>2. new[1] = p /\ new[2] = nm /\ new[3] = i /\ new \in Inodes \X Names \X Inodes
  OBVIOUS
<1>3. i # ROOT /\ ROOT \in Inodes /\ M[ROOT].mode = "dir"
  <2>1. i # ROOT /\ ROOT \in Inodes /\ N[ROOT].mode = "dir"
    BY DEF NamesRight
  <2>. HIDE DEF M
  <2>. QED
    BY <1>1, <2>1
<1>4. \A j \in Inodes : M[j].mode # "none" => j \in jb
  <2>. HIDE DEF M
  <2>. QED
    BY <1>1 DEF NamesRight
<1>5. \A e \in K : M[e[3]].mode # "none"
  <2>1. \A e \in L : e[3] \in Inodes
    OBVIOUS
  <2>. HIDE DEF M, new
  <2>. QED
    BY <1>1, <1>2, <2>1 DEF NamesRight
<1>6. \A e, f \in K : e[1] = f[1] /\ e[2] = f[2] => e = f
  <2>. HIDE DEF M, new
  <2>. QED
    BY <1>2 DEF NamesRight
<1>7. ASSUME NEW j \in Inodes, M[j].mode \in {"file", "symlink"}
      PROVE  M[j].links = Cardinality({e \in K : e[3] = j})
  <2>1. CASE j = i
    <3>1. {e \in K : e[3] = j} = {e \in L : e[3] = i} \cup {new}
      <4>. HIDE DEF new
      <4>. QED
        BY <1>2, <2>1
    <3>2. new \notin {e \in L : e[3] = i} /\ IsFiniteSet({e \in L : e[3] = i})
      <4>. HIDE DEF new
      <4>. QED
        BY <1>2, NamesFinite
    <3>3. Cardinality({e \in L : e[3] = i} \cup {new}) = Cardinality({e \in L : e[3] = i}) + 1
      <4>. HIDE DEF new
      <4>. QED
        BY <3>2, FS_AddElement
    <3>4. M[j] = x
      BY <2>1
    <3>. HIDE DEF M, K, new
    <3>. QED
      BY <1>7, <3>1, <3>3, <3>4
  <2>2. CASE j # i
    <3>1. {e \in K : e[3] = j} = {e \in L : e[3] = j}
      <4>. HIDE DEF new
      <4>. QED
        BY <1>2, <2>2
    <3>2. M[j] = N[j]
      BY <2>2
    <3>. HIDE DEF M, K
    <3>. QED
      BY <1>7, <3>1, <3>2 DEF NamesRight
  <2>. QED
    BY <2>1, <2>2
<1>. HIDE DEF M, K
<1>8. NamesRight(jb, M, K)
  BY <1>3, <1>4, <1>5, <1>6, <1>7 DEF NamesRight
<1>. QED
  BY <1>8 DEF M, K

LEMMA NamesRemoved ==
    ASSUME NamesFit, NEW ib, NEW N \in [Inodes -> Node],
           NEW L \in SUBSET (Inodes \X Names \X Inodes), NamesRight(ib, N, L),
           NEW a \in L, NEW i \in Inodes, a[3] = i, NEW x \in Node,
           N[i].mode # "dir", x.mode # "dir",
           \/ x.mode = N[i].mode /\ x.links = N[i].links - 1
           \/ x.mode = "none" /\ N[i].links <= 1,
           NEW jb, ib \ {i} \subseteq jb, x.mode # "none" => i \in jb
    PROVE  NamesRight(jb, [N EXCEPT ![i] = x], L \ {a})
<1>. DEFINE M == [N EXCEPT ![i] = x]
            K == L \ {a}
<1>1. M[i] = x /\ \A j \in Inodes : j # i => M[j] = N[j]
  OBVIOUS
<1>2. i # ROOT /\ ROOT \in Inodes /\ M[ROOT].mode = "dir"
  <2>1. i # ROOT /\ ROOT \in Inodes /\ N[ROOT].mode = "dir"
    BY DEF NamesRight
  <2>. HIDE DEF M
  <2>. QED
    BY <1>1, <2>1
<1>3. \A j \in Inodes : M[j].mode # "none" => j \in jb
  <2>. HIDE DEF M
  <2>. QED
    BY <1>1 DEF NamesRight
<1>4. N[i].mode \in {"file", "symlink"} /\ N[i].links = Cardinality({e \in L : e[3] = i})
  <2>1. N[i].mode # "none" /\ N[i] \in Node
    BY DEF NamesRight
  <2>2. N[i].mode \in {"file", "symlink"}
    BY <2>1 DEF Node, Modes
  <2>. QED
    BY <2>2 DEF NamesRight
<1>5. /\ {e \in K : e[3] = i} = {e \in L : e[3] = i} \ {a}
      /\ Cardinality({e \in K : e[3] = i}) = N[i].links - 1
      /\ IsFiniteSet({e \in K : e[3] = i})
  <2>1. {e \in K : e[3] = i} = {e \in L : e[3] = i} \ {a}
    OBVIOUS
  <2>2. a \in {e \in L : e[3] = i} /\ IsFiniteSet({e \in L : e[3] = i})
    BY NamesFinite
  <2>3. /\ Cardinality({e \in L : e[3] = i} \ {a}) = Cardinality({e \in L : e[3] = i}) - 1
        /\ IsFiniteSet({e \in L : e[3] = i} \ {a})
    BY <2>2, FS_RemoveElement
  <2>. HIDE DEF K
  <2>. QED
    BY <1>4, <2>1, <2>3
<1>6. x.mode = "none" => {e \in K : e[3] = i} = {}
  <2>1. Cardinality({e \in K : e[3] = i}) \in Nat /\ N[i].links \in Nat
    BY <1>5, FS_CardinalityType DEF Node
  <2>2. x.mode = "none" => N[i].links <= 1
    BY <1>4
  <2>3. x.mode = "none" => Cardinality({e \in K : e[3] = i}) = 0
    BY <1>5, <2>1, <2>2
  <2>4. Cardinality({e \in K : e[3] = i}) = 0 => {e \in K : e[3] = i} = {}
    <3>. HIDE DEF K
    <3>. QED
      BY <1>5, FS_EmptySet
  <2>. QED
    BY <2>3, <2>4
<1>7. \A e \in K : M[e[3]].mode # "none"
  <2>. SUFFICES ASSUME NEW e \in K PROVE M[e[3]].mode # "none"
    OBVIOUS
  <2>1. e \in L /\ e[3] \in Inodes /\ N[e[3]].mode # "none"
    BY DEF NamesRight
  <2>2. CASE e[3] = i
    BY <1>1, <1>4, <1>6, <2>2
  <2>3. CASE e[3] # i
    BY <1>1, <2>1, <2>3
  <2>. QED
    BY <2>2, <2>3
<1>8. \A e, f \in K : e[1] = f[1] /\ e[2] = f[2] => e = f
  BY DEF NamesRight
<1>9. ASSUME NEW j \in Inodes, M[j].mode \in {"file", "symlink"}
      PROVE  M[j].links = Cardinality({e \in K : e[3] = j})
  <2>1. CASE j = i
    <3>1. M[j] = x
      BY <2>1
    <3>. HIDE DEF M, K
    <3>. QED
      BY <1>4, <1>5, <1>9, <2>1, <3>1
  <2>2. CASE j # i
    <3>1. {e \in K : e[3] = j} = {e \in L : e[3] = j}
      BY <2>2
    <3>2. M[j] = N[j]
      BY <2>2
    <3>. HIDE DEF M, K
    <3>. QED
      BY <1>9, <3>1, <3>2 DEF NamesRight
  <2>. QED
    BY <2>1, <2>2
<1>. HIDE DEF M, K
<1>10. NamesRight(jb, M, K)
  BY <1>2, <1>3, <1>7, <1>8, <1>9 DEF NamesRight
<1>. QED
  BY <1>10 DEF M, K

LEMMA NamesKept ==
    ASSUME NEW ib, NEW N \in [Inodes -> Node],
           NEW L \in SUBSET (Inodes \X Names \X Inodes), NamesRight(ib, N, L),
           NEW i \in Inodes, NEW x \in Node, x.mode = N[i].mode, x.links = N[i].links
    PROVE  NamesRight(ib, [N EXCEPT ![i] = x], L)
<1>. DEFINE M == [N EXCEPT ![i] = x]
<1>1. \A j \in Inodes : M[j].mode = N[j].mode /\ M[j].links = N[j].links
  OBVIOUS
<1>. HIDE DEF M
<1>2. \A e \in L : e[3] \in Inodes
  OBVIOUS
<1>3. NamesRight(ib, M, L)
  BY <1>1, <1>2 DEF NamesRight
<1>. QED
  BY <1>3 DEF M

\* The data of the inodes others than o and y stay.
DataStays(o, y, bb, D, E) ==
    \A n \in bb : \/ n = o.block[0]
                  \/ \E q \in Places : n = y.block[q]
                  \/ E[n] = D[n]

\* Only the directory p changes, and the inode i, which is none before and has
\* no entries after.
LEMMA DirsKeep ==
    ASSUME NEW bb, NEW ib, NEW N, NEW D, IsView(bb, ib, N, D), NEW k, BlocksRight(bb, N, D, k),
           NEW i \in Inodes, N[i].mode # "dir", NEW x \in Node, NEW E,
           NEW p \in Inodes, N[p].mode = "dir", NEW es, E[N[p].block[0]] = Dir(es),
           DataStays(N[p], N[i], bb, D, E),
           x.mode = "dir" => E[x.block[0]] = Dir({})
    PROVE  /\ \A d \in Inodes : d # p => In([N EXCEPT ![i] = x], E, d) = In(N, D, d)
           /\ In([N EXCEPT ![i] = x], E, p) = es
<1>. DEFINE M == [N EXCEPT ![i] = x]
<1>1. M[i] = x /\ \A j \in Inodes : j # i => M[j] = N[j]
  BY DEF IsView
<1>2. 0 \in Places
  BY Constants DEF Places
<1>3. Dir(es).entries = es /\ Dir({}).entries = {}
  BY DEF Dir
<1>. HIDE DEF M
<1>4. In(M, E, p) = es
  BY <1>1, <1>3 DEF In
<1>5. ASSUME NEW d \in Inodes, d # p PROVE In(M, E, d) = In(N, D, d)
  <2>1. CASE d = i
    BY <1>1, <1>3, <2>1 DEF In
  <2>2. CASE d # i /\ N[d].mode = "dir"
    <3>1. N[d].block[0] \in bb /\ N[d].block[0] # Nowhere
      BY <1>2, <2>2 DEF BlocksRight, Held
    <3>2. N[d].block[0] # N[p].block[0] /\ \A q \in Places : N[d].block[0] # N[i].block[q]
      BY <1>2, <1>5, <2>2, <3>1 DEF BlocksRight, Apart
    <3>3. E[N[d].block[0]] = D[N[d].block[0]]
      BY <3>1, <3>2 DEF DataStays
    <3>. QED
      BY <1>1, <2>2, <3>3 DEF In
  <2>3. CASE d # i /\ N[d].mode # "dir"
    BY <1>1, <2>3 DEF In
  <2>. QED
    BY <2>1, <2>2, <2>3
<1>. QED
  BY <1>4, <1>5 DEF M

-----------------------------------------------------------------------------
(* What stays right whatever the operation.                                *)

\* Where nobody makes directories there is only the root.
OnlyRoot(N) ==
    "mkdir" \notin Calls => \A i \in Inodes : N[i].mode = "dir" => i = ROOT

\* Where nobody writes, files in use have one block at most, free inodes none,
\* and a block is marked only if it is one of theirs.
Returned(bb, N) ==
    "write" \notin Calls =>
      /\ \A i \in Inodes, p \in Places : N[i].block[p] # Nowhere => p = 0 /\ N[i].mode # "none"
      /\ \A n \in bb : \E i \in Inodes : N[i].block[0] = n

Sound(bb, ib, N, D, k) ==
    /\ BlocksRight(bb, N, D, k)
    /\ NamesRight(ib, N, Listing(N, D))
    /\ OnlyRoot(N)
    /\ Returned(bb, N)

LEMMA HeldStill ==
    ASSUME NEW y, NEW D, NEW B, NEW k, Held(y, D, B, k), NEW E,
           \A n \in B : E[n].kind = D[n].kind,
           NEW x, x.mode = y.mode, x.mode # "dir", x.block = y.block,
           x.size = y.size \/ x.size <= MaxOffset
    PROVE  Held(x, E, B, k)
<1>1. \A q \in Places : y.block[q] # Nowhere => y.block[q] \in B /\ q < k
  BY DEF Held
<1>2. x.mode \in {"file", "symlink"} =>
        \A q \in Places : y.block[q] # Nowhere => D[y.block[q]].kind \in {"file", "zero"}
  BY DEF Held
<1>3. y.size <= MaxOffset \/ x.size <= MaxOffset
  BY DEF Held
<1>4. \A q \in Places : y.block[q] # Nowhere => E[y.block[q]].kind = D[y.block[q]].kind
  BY <1>1
<1>. QED
  BY <1>1, <1>2, <1>3, <1>4 DEF Held

LEMMA FirstPlace == 0 \in Places /\ Nowhere = 0
BY Constants DEF Places, Nowhere

LEMMA ListingIs ==
    ASSUME NEW N, NEW D
    PROVE  Listing(N, D) \in SUBSET (Inodes \X Names \X Inodes)
BY DEF Listing

\* The directory p has got the entry (nm, i), and the other blocks, those in S
\* excepted, hold in E what they hold in D.
Entered(N, D, p, nm, i, S, E) ==
    /\ E[N[p].block[0]] = Dir(In(N, D, p) \cup {[name |-> nm, ino |-> i]})
    /\ \A n \in 1 .. NBlocks \ S : n # N[p].block[0] => E[n] = D[n]

\* The new inode x, its block b, and what is in it.
IsNew(x, b, E) ==
    /\ x.mode # "none" /\ \A q \in Places : x.block[q] = IF q = 0 THEN b ELSE Nowhere
    /\ x.mode = "dir" => /\ x.size = BS /\ b # Nowhere /\ E[b] = Dir({})
                         /\ "mkdir" \in Calls
    /\ x.mode # "dir" => /\ x.size <= MaxOffset /\ x.links = 1
                         /\ b # Nowhere => E[b].kind = "file"

\* A file, a symbolic link or a directory is made in the directory p.
LEMMA SoundNew ==
    ASSUME NamesFit, NEW k \in 1 .. N_DIRECT,
           NEW B, NEW I, NEW N, NEW D, IsView(B, I, N, D), Sound(B, I, N, D, k),
           NEW i \in Inodes, i \notin I, NEW p \in Inodes, N[p].mode = "dir",
           NEW nm \in Names, NoneNamed(In(N, D, p), nm),
           NEW b \in 0 .. NBlocks, b # Nowhere => b \notin B,
           NEW x \in Node, NEW E, IsNew(x, b, E), Entered(N, D, p, nm, i, {b}, E),
           NEW C, C = B \cup ({b} \ {Nowhere})
    PROVE  Sound(C, I \cup {i}, [N EXCEPT ![i] = x], E, k)
<1>. USE DEF IsNew, Entered, NoneNamed
<1>. DEFINE M == [N EXCEPT ![i] = x]
<1>1. /\ BlocksRight(B, N, D, k) /\ NamesRight(I, N, Listing(N, D))
      /\ OnlyRoot(N) /\ Returned(B, N)
  BY DEF Sound
<1>2. N[i].mode = "none" /\ N \in [Inodes -> Node] /\ B \subseteq 1 .. NBlocks
  BY <1>1 DEF NamesRight, IsView
<1>3. M[i] = x /\ \A j \in Inodes : j # i => M[j] = N[j]
  BY <1>2
<1>4. Held(x, E, C, k)
  <2>1. \A q \in Places : x.block[q] # Nowhere => q = 0 /\ x.block[q] = b /\ b # Nowhere
    OBVIOUS
  <2>2. b # Nowhere => b \in C
    OBVIOUS
  <2>3. x.block[0] = b /\ 0 < k
    BY FirstPlace
  <2>4. \A q \in Places : x.block[q] # Nowhere => x.block[q] \in C /\ q < k
    BY <2>1, <2>2, <2>3
  <2>5. x.mode = "dir" =>
          /\ x.size = BS /\ x.block[0] # Nowhere /\ E[x.block[0]].kind = "dir"
          /\ \A q \in Places : q # 0 => x.block[q] = Nowhere
    BY <2>1, <2>3 DEF Dir
  <2>6. x.mode \in {"file", "symlink"} =>
          \A q \in Places : x.block[q] # Nowhere => E[x.block[q]].kind \in {"file", "zero"}
    BY <2>1
  <2>. QED
    BY <2>4, <2>5, <2>6 DEF Held
<1>5. N[p].block[0] \in B /\ Held(N[p], D, B, k)
  BY <1>1, FirstPlace DEF BlocksRight, Held
<1>6. BlocksRight(C, M, E, k)
  <2>1. OncePointed(x)
    BY DEF OncePointed
  <2>2. OldOrFree(x, N[i], B)
    BY DEF OldOrFree
  <2>3. ASSUME NEW n \in B PROVE n \in C /\ E[n].kind = D[n].kind
    <3>1. n \in 1 .. NBlocks /\ n # b
      BY <1>2 DEF Nowhere
    <3>2. CASE n = N[p].block[0]
      BY <1>5, <3>2 DEF Held, Dir
    <3>3. CASE n # N[p].block[0]
      BY <3>1, <3>3
    <3>. QED
      BY <3>2, <3>3
  <2>4. OthersStay(N[i], B, D, C, E)
    BY <2>3 DEF OthersStay
  <2>5. BlocksRight(C, [N EXCEPT ![i] = x], E, k)
    BY <1>1, <1>4, <2>1, <2>2, <2>4, HeldChanges
  <2>. QED
    BY <2>5
<1>7. /\ \A d \in Inodes : d # p => In(M, E, d) = In(N, D, d)
      /\ In(M, E, p) = In(N, D, p) \cup {[name |-> nm, ino |-> i]}
  <2>1. DataStays(N[p], N[i], B, D, E)
    <3>1. \A n \in B : n \in 1 .. NBlocks /\ n # b
      BY <1>2 DEF Nowhere
    <3>. QED
      BY <3>1 DEF DataStays
  <2>2. x.mode = "dir" => E[x.block[0]] = Dir({})
    BY FirstPlace
  <2>3. N[i].mode # "dir"
    BY <1>2
  <2>4. PICK es : es = In(N, D, p) \cup {[name |-> nm, ino |-> i]}
    OBVIOUS
  <2>5. E[N[p].block[0]] = Dir(es)
    BY <2>4
  <2>6. /\ \A d \in Inodes : d # p => In([N EXCEPT ![i] = x], E, d) = In(N, D, d)
        /\ In([N EXCEPT ![i] = x], E, p) = es
    BY <1>1, <2>1, <2>2, <2>3, <2>5, DirsKeep
  <2>. QED
    BY <2>4, <2>6
<1>8. Listing(M, E) = Listing(N, D) \cup {<<p, nm, i>>}
  <2>. HIDE DEF M
  <2>. QED
    BY ONLY <1>7, p \in Inodes, nm \in Names, i \in Inodes, ListingAdds
<1>9. NamesRight(I \cup {i}, M, Listing(M, E))
  <2>1. \A e \in Listing(N, D) : ~(e[1] = p /\ e[2] = nm)
    <3>1. ASSUME NEW e \in Listing(N, D), e[1] = p, e[2] = nm PROVE FALSE
      <4>1. [name |-> nm, ino |-> e[3]] \in In(N, D, p)
        BY <3>1, Listed
      <4>. QED
        BY <4>1, Entry
    <3>. QED
      BY <3>1
  <2>2. \A e \in Listing(N, D) : e[3] # i
    BY <1>1, <1>2 DEF NamesRight
  <2>3. {e \in Listing(N, D) : e[3] = i} = {}
    BY <2>2
  <2>4. Cardinality({e \in Listing(N, D) : e[3] = i}) = 0
    BY <2>3, FS_EmptySet
  <2>5. x.mode \in {"file", "symlink"} => x.links = Cardinality({e \in Listing(N, D) : e[3] = i}) + 1
    BY <2>4
  <2>6. Listing(N, D) \in SUBSET (Inodes \X Names \X Inodes)
    BY ListingIs
  <2>7. NamesRight(I \cup {i}, [N EXCEPT ![i] = x], Listing(N, D) \cup {<<p, nm, i>>})
    BY <1>1, <1>2, <2>1, <2>5, <2>6, NamesAdded
  <2>. HIDE DEF M
  <2>. QED
    BY <1>8, <2>7 DEF M
<1>10. OnlyRoot(M)
  <2>. HIDE DEF M
  <2>. QED
    BY <1>1, <1>3 DEF OnlyRoot
<1>11. Returned(C, M)
  <2>. HIDE DEF M
  <2>. SUFFICES ASSUME "write" \notin Calls
                PROVE  /\ \A j \in Inodes, q \in Places :
                            M[j].block[q] # Nowhere => q = 0 /\ M[j].mode # "none"
                       /\ \A n \in C : \E j \in Inodes : M[j].block[0] = n
    BY DEF Returned
  <2>1. \A q \in Places : N[i].block[q] = Nowhere
    BY <1>1, <1>2 DEF Returned
  <2>2. ASSUME NEW n \in B PROVE \E j \in Inodes : M[j].block[0] = n
    <3>1. PICK j \in Inodes : N[j].block[0] = n
      BY <1>1 DEF Returned
    <3>2. n # Nowhere
      BY <1>2 DEF Nowhere
    <3>3. j # i
      BY <2>1, <3>1, <3>2, FirstPlace
    <3>. QED
      BY <1>3, <3>1, <3>3
  <2>3. b # Nowhere => M[i].block[0] = b
    BY <1>3, FirstPlace
  <2>4. \A j \in Inodes, q \in Places : M[j].block[q] # Nowhere => q = 0 /\ M[j].mode # "none"
    BY <1>1, <1>3 DEF Returned
  <2>. QED
    BY <2>2, <2>3, <2>4
<1>. HIDE DEF M
<1>12. Sound(C, I \cup {i}, M, E, k)
  BY <1>6, <1>9, <1>10, <1>11 DEF Sound
<1>. QED
  BY <1>12 DEF M

\* The inode i gets one name more, in the directory p.
LEMMA SoundLinked ==
    ASSUME NamesFit, NEW k,
           NEW B, NEW I, NEW N, NEW D, IsView(B, I, N, D), Sound(B, I, N, D, k),
           NEW i \in Inodes, N[i].mode \notin {"none", "dir"},
           NEW p \in Inodes, N[p].mode = "dir",
           NEW nm \in Names, NoneNamed(In(N, D, p), nm),
           NEW x \in Node, x.mode = N[i].mode, x.size = N[i].size, x.block = N[i].block,
           x.links = N[i].links + 1,
           NEW E, Entered(N, D, p, nm, i, {}, E)
    PROVE  Sound(B, I, [N EXCEPT ![i] = x], E, k)
<1>. USE DEF Entered, NoneNamed
<1>. DEFINE M == [N EXCEPT ![i] = x]
<1>1. /\ BlocksRight(B, N, D, k) /\ NamesRight(I, N, Listing(N, D))
      /\ OnlyRoot(N) /\ Returned(B, N)
  BY DEF Sound
<1>2. /\ N \in [Inodes -> Node] /\ B \subseteq 1 .. NBlocks /\ i \in I
      /\ x.mode # "none" /\ x.mode # "dir" /\ N[i].mode # "dir"
  BY <1>1 DEF NamesRight, IsView
<1>3. M[i] = x /\ \A j \in Inodes : j # i => M[j] = N[j]
  BY <1>2
<1>4. N[p].block[0] \in B /\ Held(N[p], D, B, k) /\ Held(N[i], D, B, k)
  BY <1>1, FirstPlace DEF BlocksRight, Held
<1>5. \A n \in B : E[n].kind = D[n].kind
  <2>. SUFFICES ASSUME NEW n \in B PROVE E[n].kind = D[n].kind
    OBVIOUS
  <2>1. CASE n = N[p].block[0]
    BY <1>4, <2>1 DEF Held, Dir
  <2>2. CASE n # N[p].block[0]
    BY <1>2, <2>2
  <2>. QED
    BY <2>1, <2>2
<1>6. BlocksRight(B, M, E, k)
  <2>1. OncePointed(x)
    BY <1>1 DEF OncePointed, BlocksRight, Apart
  <2>2. OldOrFree(x, N[i], B)
    BY DEF OldOrFree
  <2>3. OthersStay(N[i], B, D, B, E)
    BY <1>5 DEF OthersStay
  <2>4. Held(x, E, B, k)
    BY ONLY <1>2, <1>4, <1>5, HeldStill, x.mode = N[i].mode, x.block = N[i].block,
       x.size = N[i].size
  <2>5. BlocksRight(B, [N EXCEPT ![i] = x], E, k)
    BY <1>1, <2>1, <2>2, <2>3, <2>4, HeldChanges
  <2>. QED
    BY <2>5
<1>7. /\ \A d \in Inodes : d # p => In(M, E, d) = In(N, D, d)
      /\ In(M, E, p) = In(N, D, p) \cup {[name |-> nm, ino |-> i]}
  <2>1. DataStays(N[p], N[i], B, D, E)
    BY <1>2 DEF DataStays
  <2>2. PICK es : es = In(N, D, p) \cup {[name |-> nm, ino |-> i]}
    OBVIOUS
  <2>3. E[N[p].block[0]] = Dir(es)
    BY <2>2
  <2>4. x.mode = "dir" => E[x.block[0]] = Dir({})
    BY <1>2
  <2>5. BlocksRight(B, N, D, k) /\ N[i].mode # "dir"
    BY <1>1, <1>2
  <2>6. /\ \A d \in Inodes : d # p => In([N EXCEPT ![i] = x], E, d) = In(N, D, d)
        /\ In([N EXCEPT ![i] = x], E, p) = es
    BY ONLY <2>1, <2>3, <2>4, <2>5, DirsKeep, IsView(B, I, N, D), i \in Inodes,
       x \in Node, p \in Inodes, N[p].mode = "dir"
  <2>. QED
    BY <2>2, <2>6
<1>8. Listing(M, E) = Listing(N, D) \cup {<<p, nm, i>>}
  <2>. HIDE DEF M
  <2>. QED
    BY ONLY <1>7, p \in Inodes, nm \in Names, i \in Inodes, ListingAdds
<1>9. NamesRight(I, M, Listing(M, E))
  <2>1. \A e \in Listing(N, D) : ~(e[1] = p /\ e[2] = nm)
    <3>1. ASSUME NEW e \in Listing(N, D), e[1] = p, e[2] = nm PROVE FALSE
      <4>1. [name |-> nm, ino |-> e[3]] \in In(N, D, p)
        BY <3>1, Listed
      <4>. QED
        BY <4>1, Entry
    <3>. QED
      BY <3>1
  <2>2. x.mode \in {"file", "symlink"} => x.links = Cardinality({e \in Listing(N, D) : e[3] = i}) + 1
    BY <1>1 DEF NamesRight
  <2>3. Listing(N, D) \in SUBSET (Inodes \X Names \X Inodes) /\ I \cup {i} \subseteq I
    BY <1>2, ListingIs
  <2>4. NamesRight(I, [N EXCEPT ![i] = x], Listing(N, D) \cup {<<p, nm, i>>})
    BY <1>1, <1>2, <2>1, <2>2, <2>3, NamesAdded
  <2>. HIDE DEF M
  <2>. QED
    BY <1>8, <2>4 DEF M
<1>10. OnlyRoot(M)
  <2>. HIDE DEF M
  <2>. QED
    BY <1>1, <1>3 DEF OnlyRoot
<1>11. Returned(B, M)
  <2>1. \A j \in Inodes : M[j].block = N[j].block /\ M[j].mode = N[j].mode
    BY <1>3
  <2>. HIDE DEF M
  <2>. QED
    BY <1>1, <2>1 DEF Returned
<1>. HIDE DEF M
<1>12. Sound(B, I, M, E, k)
  BY <1>6, <1>9, <1>10, <1>11 DEF Sound
<1>. QED
  BY <1>12 DEF M

\* The directory p has lost the entry nm, and nothing else has changed.
Removed(N, D, p, nm, E) ==
    /\ E[N[p].block[0]] = Dir(Without(In(N, D, p), nm))
    /\ \A n \in 1 .. NBlocks : n # N[p].block[0] => E[n] = D[n]

\* The inode y has lost a name and become x.
OneLess(y, x) == x.mode = y.mode /\ x.links = y.links - 1 /\ x.block = y.block

\* The inode y has lost its last name and become x, and its blocks are no longer
\* marked, those excepted that the code forgets.
Freed(y, x, B, C) ==
    /\ x.mode = "none" /\ y.links <= 1 /\ \A q \in Places : x.block[q] = Nowhere
    /\ C \subseteq B /\ \A n \in B : n \in C \/ \E q \in Places : y.block[q] = n
    /\ "write" \notin Calls => y.block[0] \notin C

\* The name nm of the inode i leaves the directory p; x is what becomes of i,
\* and C and J of the bitmaps.
LEMMA SoundDropped ==
    ASSUME NamesFit, NEW k,
           NEW B, NEW I, NEW N, NEW D, IsView(B, I, N, D), Sound(B, I, N, D, k),
           NEW i \in Inodes, N[i].mode # "dir",
           NEW p \in Inodes, N[p].mode = "dir",
           NEW nm \in Names, [name |-> nm, ino |-> i] \in In(N, D, p),
           UniqueNames(In(N, D, p)),
           NEW x \in Node, x.size <= MaxOffset, NEW C, NEW J,
           \/ OneLess(N[i], x) /\ C = B /\ J = I
           \/ Freed(N[i], x, B, C) /\ J = I \ {i},
           NEW E, Removed(N, D, p, nm, E)
    PROVE  Sound(C, J, [N EXCEPT ![i] = x], E, k)
<1>. USE DEF Removed, OneLess, Freed, Without
<1>. DEFINE M == [N EXCEPT ![i] = x]
<1>1. /\ BlocksRight(B, N, D, k) /\ NamesRight(I, N, Listing(N, D))
      /\ OnlyRoot(N) /\ Returned(B, N)
  BY DEF Sound
<1>2. /\ N \in [Inodes -> Node] /\ B \subseteq 1 .. NBlocks /\ x.mode # "dir"
  BY DEF IsView
<1>3. M[i] = x /\ \A j \in Inodes : j # i => M[j] = N[j]
  BY <1>2
<1>4. N[p].block[0] \in B /\ Held(N[p], D, B, k) /\ Held(N[i], D, B, k)
  BY <1>1, FirstPlace DEF BlocksRight, Held
<1>5. \A n \in B : E[n].kind = D[n].kind
  <2>. SUFFICES ASSUME NEW n \in B PROVE E[n].kind = D[n].kind
    OBVIOUS
  <2>1. CASE n = N[p].block[0]
    BY <1>4, <2>1 DEF Held, Dir
  <2>2. CASE n # N[p].block[0]
    BY <1>2, <2>2
  <2>. QED
    BY <2>1, <2>2
<1>6. BlocksRight(C, M, E, k)
  <2>1. OncePointed(x)
    BY <1>1 DEF OncePointed, BlocksRight, Apart
  <2>2. OldOrFree(x, N[i], B)
    BY DEF OldOrFree
  <2>3. OthersStay(N[i], B, D, C, E)
    BY <1>5 DEF OthersStay
  <2>4. Held(x, E, C, k)
    <3>1. CASE x.block = N[i].block /\ x.mode = N[i].mode /\ C = B
      BY ONLY <1>2, <1>4, <1>5, <3>1, HeldStill, x.size <= MaxOffset
    <3>2. CASE x.mode = "none" /\ \A q \in Places : x.block[q] = Nowhere
      BY <3>2 DEF Held
    <3>. QED
      BY <3>1, <3>2
  <2>5. BlocksRight(C, [N EXCEPT ![i] = x], E, k)
    BY <1>1, <2>1, <2>2, <2>3, <2>4, HeldChanges
  <2>. QED
    BY <2>5
<1>7. /\ \A d \in Inodes : d # p => In(M, E, d) = In(N, D, d)
      /\ In(M, E, p) = {e \in In(N, D, p) : e.name # nm}
  <2>1. DataStays(N[p], N[i], B, D, E)
    BY <1>2 DEF DataStays
  <2>2. PICK es : es = {e \in In(N, D, p) : e.name # nm}
    OBVIOUS
  <2>3. E[N[p].block[0]] = Dir(es)
    BY <2>2
  <2>4. x.mode = "dir" => E[x.block[0]] = Dir({})
    BY <1>2
  <2>5. BlocksRight(B, N, D, k) /\ N[i].mode # "dir"
    BY <1>1, <1>2
  <2>6. /\ \A d \in Inodes : d # p => In([N EXCEPT ![i] = x], E, d) = In(N, D, d)
        /\ In([N EXCEPT ![i] = x], E, p) = es
    BY ONLY <2>1, <2>3, <2>4, <2>5, DirsKeep, IsView(B, I, N, D), i \in Inodes,
       x \in Node, p \in Inodes, N[p].mode = "dir"
  <2>. QED
    BY <2>2, <2>6
<1>8. PICK a : a = <<p, nm, i>>
  OBVIOUS
<1>9. Listing(M, E) = Listing(N, D) \ {a} /\ a \in Listing(N, D) /\ a[3] = i
  <2>. HIDE DEF M
  <2>1. /\ Listing(M, E) = Listing(N, D) \ {<<p, nm, i>>}
        /\ <<p, nm, i>> \in Listing(N, D)
    BY <1>7, ListingRemoves
  <2>. QED
    BY <1>8, <2>1
<1>10. NamesRight(J, M, Listing(M, E))
  <2>1. Listing(N, D) \in SUBSET (Inodes \X Names \X Inodes)
    BY ListingIs
  <2>2. N[i].mode # "none" /\ i \in I
    BY <1>1, <1>9 DEF NamesRight
  <2>3. \/ x.mode = N[i].mode /\ x.links = N[i].links - 1
        \/ x.mode = "none" /\ N[i].links <= 1
    OBVIOUS
  <2>4. x.mode # "none" => i \in J
    BY <2>2
  <2>5. NamesRight(J, [N EXCEPT ![i] = x], Listing(N, D) \ {a})
    BY <1>1, <1>2, <1>9, <2>1, <2>3, <2>4, NamesRemoved
  <2>. QED
    BY <1>9, <2>5
<1>11. OnlyRoot(M)
  <2>. HIDE DEF M
  <2>. QED
    BY <1>1, <1>2, <1>3 DEF OnlyRoot
<1>12. Returned(C, M)
  <2>1. CASE x.block = N[i].block /\ x.mode = N[i].mode /\ C = B
    <3>1. \A j \in Inodes : M[j].block = N[j].block /\ M[j].mode = N[j].mode
      BY <1>3, <2>1
    <3>. HIDE DEF M
    <3>. QED
      BY <1>1, <2>1, <3>1 DEF Returned
  <2>2. CASE /\ \A q \in Places : x.block[q] = Nowhere
             /\ "write" \notin Calls => N[i].block[0] \notin C
    <3>. HIDE DEF M
    <3>. SUFFICES ASSUME "write" \notin Calls
                  PROVE  /\ \A j \in Inodes, q \in Places :
                              M[j].block[q] # Nowhere => q = 0 /\ M[j].mode # "none"
                         /\ \A n \in C : \E j \in Inodes : M[j].block[0] = n
      BY DEF Returned
    <3>1. \A j \in Inodes, q \in Places : M[j].block[q] # Nowhere => q = 0 /\ M[j].mode # "none"
      BY <1>1, <1>3, <2>2 DEF Returned
    <3>2. ASSUME NEW n \in C PROVE \E j \in Inodes : M[j].block[0] = n
      <4>1. PICK j \in Inodes : N[j].block[0] = n
        BY <1>1 DEF Returned
      <4>2. j # i
        BY <2>2, <4>1
      <4>. QED
        BY <1>3, <4>1, <4>2
    <3>. QED
      BY <3>1, <3>2
  <2>. QED
    BY <2>1, <2>2
<1>. HIDE DEF M
<1>13. Sound(C, J, M, E, k)
  BY <1>6, <1>10, <1>11, <1>12 DEF Sound
<1>. QED
  BY <1>13 DEF M

\* Blocks that are not marked may hold anything.
LEMMA SoundCleared ==
    ASSUME NEW k, NEW B, NEW I, NEW N, NEW D, IsView(B, I, N, D), Sound(B, I, N, D, k),
           NEW E, \A n \in B : E[n] = D[n]
    PROVE  Sound(B, I, N, E, k)
<1>1. BlocksRight(B, N, D, k)
  BY DEF Sound
<1>2. \A i \in Inodes, q \in Places : N[i].block[q] # Nowhere => E[N[i].block[q]] = D[N[i].block[q]]
  BY <1>1 DEF BlocksRight, Held
<1>3. ASSUME NEW i \in Inodes PROVE Held(N[i], E, B, k)
  <2>1. Held(N[i], D, B, k)
    BY <1>1 DEF BlocksRight
  <2>. QED
    BY <1>2, <2>1, FirstPlace DEF Held
<1>4. ASSUME NEW d \in Inodes PROVE In(N, E, d) = In(N, D, d)
  BY <1>1, <1>2, FirstPlace DEF In, BlocksRight, Held
<1>5. Listing(N, E) = Listing(N, D)
  BY <1>4 DEF Listing
<1>. QED
  BY <1>1, <1>3, <1>5 DEF Sound, BlocksRight

\* The block b holds data; the others hold what they held.
Overwritten(B, b, D, E) == E[b] = FileData /\ \A n \in B : n # b => E[n] = D[n]

\* The inode x has the block b at the place m, and otherwise those of y.
Repointed(y, m, b, x) == x.block = [y.block EXCEPT ![m] = b]

\* The inode i, which may be free, gets data in its block b, which it has or
\* takes at the place m.
LEMMA SoundWritten ==
    ASSUME NEW k, "write" \in Calls,
           NEW B, NEW I, NEW N, NEW D, IsView(B, I, N, D), Sound(B, I, N, D, k),
           NEW i \in Inodes, N[i].mode # "dir",
           NEW m \in Places, m < k, NEW b \in 1 .. NBlocks,
           \/ N[i].block[m] = b
           \/ N[i].block[m] = Nowhere /\ b \notin B,
           NEW x \in Node, x.mode = N[i].mode, x.links = N[i].links, x.size <= MaxOffset,
           Repointed(N[i], m, b, x), NEW E, Overwritten(B, b, D, E)
    PROVE  Sound(B \cup {b}, I, [N EXCEPT ![i] = x], E, k)
<1>. USE DEF Overwritten, Repointed
<1>. DEFINE M == [N EXCEPT ![i] = x]
<1>1. /\ BlocksRight(B, N, D, k) /\ NamesRight(I, N, Listing(N, D))
      /\ OnlyRoot(N) /\ Returned(B, N)
  BY DEF Sound
<1>2. /\ N \in [Inodes -> Node] /\ B \subseteq 1 .. NBlocks /\ N[i] \in Node
      /\ \A q \in Places : x.block[q] = IF q = m THEN b ELSE N[i].block[q]
  BY DEF IsView, Node
<1>3. M[i] = x /\ \A j \in Inodes : j # i => M[j] = N[j]
  BY <1>2
<1>4. Held(N[i], D, B, k)
  BY <1>1 DEF BlocksRight
<1>5. \A q \in Places : q # m => x.block[q] # b
  <2>. SUFFICES ASSUME NEW q \in Places, q # m, N[i].block[q] = b PROVE FALSE
    BY <1>2
  <2>1. b \in B /\ b # Nowhere
    BY <1>4 DEF Held, Nowhere
  <2>. QED
    BY <1>1, <2>1 DEF BlocksRight, Apart
<1>6. BlocksRight(B \cup {b}, M, E, k)
  <2>1. OncePointed(x)
    <3>. SUFFICES ASSUME NEW q \in Places, NEW r \in Places, x.block[q] # Nowhere,
                         x.block[q] = x.block[r]
                  PROVE  q = r
      BY DEF OncePointed
    <3>1. CASE q # m /\ r # m
      BY <1>1, <1>2, <3>1 DEF BlocksRight, Apart
    <3>2. CASE q = m \/ r = m
      BY <1>2, <1>5, <3>2
    <3>. QED
      BY <3>1, <3>2
  <2>2. OldOrFree(x, N[i], B)
    BY <1>2 DEF OldOrFree
  <2>3. OthersStay(N[i], B, D, B \cup {b}, E)
    <3>. SUFFICES ASSUME NEW n \in B PROVE (\E q \in Places : N[i].block[q] = n) \/ E[n].kind = D[n].kind
      BY DEF OthersStay
    <3>1. CASE n = b
      BY <3>1
    <3>2. CASE n # b
      BY <3>2
    <3>. QED
      BY <3>1, <3>2
  <2>4. Held(x, E, B \cup {b}, k)
    <3>1. \A q \in Places : x.block[q] # Nowhere => x.block[q] \in B \cup {b} /\ q < k
      BY <1>2, <1>4 DEF Held
    <3>2. ASSUME NEW q \in Places, x.block[q] # Nowhere, x.mode \in {"file", "symlink"}
          PROVE  E[x.block[q]].kind \in {"file", "zero"}
      <4>1. CASE q = m
        BY <1>2, <4>1 DEF FileData
      <4>2. CASE q # m
        <5>1. x.block[q] = N[i].block[q] /\ x.block[q] # b /\ x.mode = N[i].mode
          BY <1>2, <1>5, <4>2
        <5>2. D[x.block[q]].kind \in {"file", "zero"} /\ x.block[q] \in B
          BY <1>4, <3>2, <5>1 DEF Held
        <5>. QED
          BY <1>1, <1>2, <5>1, <5>2
      <4>. QED
        BY <4>1, <4>2
    <3>. QED
      BY <3>1, <3>2 DEF Held
  <2>5. BlocksRight(B \cup {b}, [N EXCEPT ![i] = x], E, k)
    BY <1>1, <2>1, <2>2, <2>3, <2>4, HeldChanges
  <2>. QED
    BY <2>5
<1>7. \A d \in Inodes : In(M, E, d) = In(N, D, d)
  <2>1. ROOT \in Inodes /\ N[ROOT].mode = "dir" /\ ROOT # i
    BY <1>1 DEF NamesRight
  <2>2. PICK es : es = In(N, D, ROOT)
    OBVIOUS
  <2>3. N[ROOT].block[0] \in B /\ N[ROOT].block[0] # b
    <3>1. N[ROOT].block[0] \in B /\ N[ROOT].block[0] # Nowhere
      BY <1>1, <2>1, FirstPlace DEF BlocksRight, Held
    <3>. QED
      BY <1>1, <2>1, <3>1, FirstPlace DEF BlocksRight, Apart
  <2>4. E[N[ROOT].block[0]] = Dir(es)
    <3>1. D[N[ROOT].block[0]] \in Contents /\ D[N[ROOT].block[0]].kind = "dir"
      BY <1>1, <1>2, <2>1, <2>3 DEF BlocksRight, Held, IsView
    <3>2. PICK s \in SUBSET DirEntry : D[N[ROOT].block[0]] = Dir(s)
      BY <3>1 DEF Contents, Zeroed, FileData
    <3>3. es = s
      BY <2>1, <2>2, <3>2 DEF In, Dir
    <3>. QED
      BY <2>3, <3>2, <3>3
  <2>5. DataStays(N[ROOT], N[i], B, D, E)
    <3>. SUFFICES ASSUME NEW n \in B, E[n] # D[n] PROVE \E q \in Places : n = N[i].block[q]
      BY DEF DataStays
    <3>1. n = b
      OBVIOUS
    <3>. QED
      BY <3>1
  <2>6. x.mode = "dir" => E[x.block[0]] = Dir({})
    OBVIOUS
  <2>7. /\ \A d \in Inodes : d # ROOT => In([N EXCEPT ![i] = x], E, d) = In(N, D, d)
        /\ In([N EXCEPT ![i] = x], E, ROOT) = es
    BY <1>1, <2>1, <2>4, <2>5, <2>6, DirsKeep
  <2>. QED
    BY <2>2, <2>7
<1>8. Listing(M, E) = Listing(N, D)
  <2>. HIDE DEF M
  <2>. QED
    BY <1>7 DEF Listing
<1>9. NamesRight(I, M, Listing(M, E))
  <2>1. NamesRight(I, [N EXCEPT ![i] = x], Listing(N, D))
    BY <1>1, <1>2, ListingIs, NamesKept
  <2>. QED
    BY <1>8, <2>1
<1>10. OnlyRoot(M) /\ Returned(B \cup {b}, M)
  <2>1. \A j \in Inodes : M[j].mode = N[j].mode
    BY <1>3
  <2>. HIDE DEF M
  <2>. QED
    BY <1>1, <2>1 DEF OnlyRoot, Returned
<1>. HIDE DEF M
<1>11. Sound(B \cup {b}, I, M, E, k)
  BY <1>6, <1>9, <1>10 DEF Sound
<1>. QED
  BY <1>11 DEF M

-----------------------------------------------------------------------------
(* The invariant, and how an operation ends.                               *)

SoundDisk(h, k) == \E B, I, N, D : Shows(h, B, I, N, D) /\ Sound(B, I, N, D, k)

\* An open file has an inode, which is not the root.
FilesRight(files) ==
    /\ files \in [Fds -> [ino : {Nowhere} \cup Inodes, offset : 0 .. MaxOffset,
                          append : BOOLEAN, refs : 0 .. 2]]
    /\ \A f \in Fds : files[f].refs > 0 => files[f].ino \in Inodes \ {ROOT}

IInv(k) == /\ SoundDisk(disk, k) /\ bgd \in Counts
           /\ FilesRight(fds) /\ outages \in 0 .. MaxOutages

\* What the constants have to be for the operations to be right.  A file has
\* no more than k blocks, all of them direct, and one write fills no more than
\* one; then a transaction has room for what an operation writes.
Fits(k) ==
    /\ k \in 1 .. N_DIRECT /\ MaxOffset <= BS * k
    /\ BS = 1 \/ MaxOffset <= BS
    /\ 2 * k + 5 <= JNL_BUF

LEMMA NoFdsRight == FilesRight(NoFds)
BY Constants DEF FilesRight, NoFds, FreeFd, Nowhere

LEMMA CountsOfPrefix ==
    ASSUME NEW t, NEW h, NEW n, Gathers(t, h, n), h[BgdTable] \in Counts, IsDisk(h),
           NEW log \in Prefixes(t.buf)
    PROVE  Written(h, log)[BgdTable] \in Counts
<1>1. BgdTable \in Blocks /\ DOMAIN h = Blocks
  BY DEF Blocks, IsDisk
<1>2. PICK S : t.buf \in Seq(S)
  BY DEF Gathers, LogsCounts
<1>3. PICK l \in 0 .. Len(t.buf) : log = SubSeq(t.buf, 1, l)
  BY DEF Prefixes
<1>4. log \in Seq(S) /\ Len(log) = l /\ \A q \in 1 .. l : log[q] = t.buf[q]
  <2>1. CASE l = 0
    BY <1>2, <1>3, <2>1, SubSeqProperties, EmptySeq
  <2>2. CASE l # 0
    <3>1. Len(t.buf) \in Nat
      BY <1>2, LenProperties
    <3>2. 1 \in 1 .. Len(t.buf) + 1 /\ l \in 0 .. Len(t.buf) /\ l \in 1 .. Len(t.buf)
      BY <2>2, <3>1
    <3>. QED
      BY <1>2, <1>3, <3>2, SubSeqProperties
  <2>. QED
    BY <2>1, <2>2
<1>5. CASE BgdTable \in Touched(log)
  <2>1. PICK q \in 1 .. Len(log) : log[q].blk = BgdTable /\ Left(log, BgdTable) = log[q].val
    BY <1>4, <1>5, LeftIsLast
  <2>2. q \in 1 .. Len(t.buf) /\ log[q] = t.buf[q]
    BY <1>2, <1>3, <1>4, <2>1, LenProperties
  <2>3. log[q].val \in Counts
    BY <2>1, <2>2 DEF Gathers, LogsCounts
  <2>. QED
    BY <1>1, <1>5, <2>1, <2>3 DEF Written
<1>6. CASE BgdTable \notin Touched(log)
  BY <1>1, <1>6 DEF Written
<1>. QED
  BY <1>5, <1>6

LEMMA SoundDiskIs ==
    ASSUME NEW h, NEW k, SoundDisk(h, k)
    PROVE  IsDisk(h) /\ h[BgdTable] \in Counts
BY DEF SoundDisk, Shows

\* The power fails: the disk is right, and the counts come from it.
LEMMA OutageKeeps ==
    ASSUME NEW k, IInv(k), Outage, SoundDisk(disk', k), bgd' \in Counts
    PROVE  IInv(k)'
<1>1. FilesRight(fds)'
  BY NoFdsRight DEF Outage, FilesRight
<1>2. outages' \in 0 .. MaxOutages
  BY Constants DEF Outage, IInv
<1>3. SoundDisk(disk, k)'
  BY DEF SoundDisk, Shows, IsView, Sound, DataShows, TableShows, IsDisk
<1>. QED
  BY <1>1, <1>2, <1>3 DEF IInv

\* A transaction keeps the invariant if the disk is right before and after.
LEMMA DoneKeeps ==
    ASSUME NEW k, IInv(k), NEW t, NEW h, NEW n, Gathers(t, h, n),
           SoundDisk(h, k), SoundDisk(Committed(t), k),
           NEW files, FilesRight(files), Done(t, files)
    PROVE  IInv(k)'
<1>1. t.disk = h /\ t.bgd \in Counts
  BY DEF Gathers
<1>2. CASE disk' = Committed(t) /\ bgd' = t.bgd /\ fds' = files /\ UNCHANGED outages
  <2>1. SoundDisk(disk, k)'
    BY <1>2 DEF SoundDisk
  <2>2. FilesRight(fds)'
    BY <1>2 DEF FilesRight
  <2>. QED
    BY <1>1, <1>2, <2>1, <2>2 DEF IInv
<1>3. CASE Interrupted(t)
  <2>1. Outage
    BY <1>3 DEF Interrupted
  <2>2. CASE disk' = t.disk /\ bgd' = disk[BgdTable]
    <3>1. bgd' \in Counts
      BY <2>2, SoundDiskIs DEF IInv
    <3>2. SoundDisk(disk', k)
      BY <1>1, <2>2
    <3>. QED
      BY <2>1, <3>1, <3>2, OutageKeeps
  <2>3. CASE /\ disk' = Committed(t)
             /\ \E log \in Prefixes(t.buf) : bgd' = Written(t.disk, log)[BgdTable]
    <3>1. PICK log \in Prefixes(t.buf) : bgd' = Written(h, log)[BgdTable]
      BY <1>1, <2>3
    <3>2. bgd' \in Counts
      BY <3>1, CountsOfPrefix, SoundDiskIs
    <3>3. SoundDisk(disk', k)
      BY <2>3
    <3>. QED
      BY <2>1, <3>2, <3>3, OutageKeeps
  <2>. QED
    BY <1>3, <2>2, <2>3 DEF Interrupted
<1>. QED
  BY <1>2, <1>3 DEF Done

LEMMA AbortedKeeps ==
    ASSUME NEW k, IInv(k), NEW t, NEW h, NEW n, Gathers(t, h, n), SoundDisk(h, k), Aborted(t)
    PROVE  IInv(k)'
<1>1. disk' = h /\ bgd' \in Counts /\ fds' = fds /\ outages' = outages
  BY DEF Gathers, Aborted
<1>2. SoundDisk(disk, k)'
  BY <1>1 DEF SoundDisk
<1>3. FilesRight(fds)'
  BY <1>1 DEF IInv, FilesRight
<1>. QED
  BY <1>1, <1>2, <1>3 DEF IInv

\* An operation begins with an empty transaction.
LEMMA BegunLeaves ==
    ASSUME bgd \in Counts, NEW B, NEW I, NEW N, NEW D, Shows(disk, B, I, N, D)
    PROVE  Leaves(Begun, disk, 0, B, I, N, D) /\ Begun.bgd = bgd /\ Begun.disk = disk
<1>1. /\ IsTransaction(Begun) /\ Begun.disk = disk /\ Begun.bgd = bgd /\ Begun.buf = << >>
  BY DEF Begun, IsTransaction
<1>2. << >> \in Seq({}) /\ Len(<< >>) = 0
  OBVIOUS
<1>3. LogsCounts(<< >>)
  BY <1>2 DEF LogsCounts
<1>4. Gathers(Begun, disk, 0)
  BY <1>1, <1>2, <1>3 DEF Gathers
<1>5. Written(disk, << >>) = disk
  <2>1. Touched(<< >>) = {}
    BY DEF Touched
  <2>2. disk = [b \in Blocks |-> disk[b]]
    BY DEF Shows, IsDisk
  <2>. QED
    BY <2>1, <2>2 DEF Written
<1>6. Committed(Begun) = disk
  BY <1>1, <1>5 DEF Committed
<1>. QED
  BY <1>1, <1>4, <1>6 DEF Leaves

-----------------------------------------------------------------------------
(* Each operation keeps the invariant.                                     *)

LEMMA OpenedRight ==
    ASSUME FilesRight(fds), NEW f \in Fds, NEW ino \in Inodes \ {ROOT}, NEW inode,
           inode.size \in 0 .. MaxOffset, NEW append \in BOOLEAN
    PROVE  FilesRight(Opened(f, ino, inode, append))
<1>. DEFINE FdRec == [ino : {Nowhere} \cup Inodes, offset : 0 .. MaxOffset,
                      append : BOOLEAN, refs : 0 .. 2]
<1>1. PICK r : r = [ino |-> ino, offset |-> IF append THEN inode.size ELSE 0,
                    append |-> append, refs |-> 1]
  OBVIOUS
<1>2. (IF append THEN inode.size ELSE 0) \in 0 .. MaxOffset
  BY Constants
<1>3. r \in FdRec /\ r.ino = ino
  BY <1>1, <1>2
<1>4. Opened(f, ino, inode, append) = [fds EXCEPT ![f] = r]
  BY <1>1 DEF Opened
<1>5. fds \in [Fds -> FdRec]
  BY DEF FilesRight
<1>6. [fds EXCEPT ![f] = r] \in [Fds -> FdRec]
  <2>. HIDE DEF FdRec
  <2>. QED
    BY <1>3, <1>5
<1>. QED
  BY <1>3, <1>4, <1>5, <1>6 DEF FilesRight

LEMMA SameDisk ==
    ASSUME NEW k, IInv(k), UNCHANGED <<disk, bgd, outages>>, FilesRight(fds')
    PROVE  IInv(k)'
<1>1. SoundDisk(disk, k)'
  BY DEF IInv, SoundDisk
<1>2. FilesRight(fds)'
  BY DEF FilesRight
<1>. QED
  BY <1>1, <1>2 DEF IInv

\* The inode that a path leads to, and the entry it is in.
LEMMA FoundName ==
    ASSUME NEW h, NEW B, NEW I, NEW N, NEW D, Shows(h, B, I, N, D), NEW k, Sound(B, I, N, D, k),
           NEW path \in Paths, NEW ino, ino = Resolve(h, path), ino # Nowhere
    PROVE  /\ ino \in Inodes /\ Parent(h, path) \in Inodes /\ Last(path) \in Names
           /\ N[Parent(h, path)].mode = "dir"
           /\ [name |-> Last(path), ino |-> ino] \in In(N, D, Parent(h, path))
           /\ UniqueNames(In(N, D, Parent(h, path)))
<1>1. BlocksRight(B, N, D, k) /\ NamesRight(I, N, Listing(N, D))
  BY DEF Sound
<1>2. PICK d, nm : d = Parent(h, path) /\ nm = Last(path)
  OBVIOUS
<1>3. d \in {Nowhere} \cup Inodes /\ nm \in Names /\ ino = Lookup(h, d, nm)
  BY <1>1, <1>2, ResolveFinds
<1>4. /\ ino \in {Nowhere} \cup Inodes /\ d \in Inodes /\ N[d].mode = "dir"
      /\ [name |-> nm, ino |-> ino] \in In(N, D, d)
  BY <1>1, <1>3, LookupFinds
<1>5. UniqueNames(In(N, D, d))
  BY <1>1, <1>4, ListingUnique
<1>. QED
  BY <1>2, <1>3, <1>4, <1>5

LEMMA OpenKeeps ==
    ASSUME NEW k, IInv(k), NEW path \in Paths, NEW f \in Fds, NEW append \in BOOLEAN,
           Open(path, f, append)
    PROVE  IInv(k)'
<1>1. PICK B, I, N, D : Shows(disk, B, I, N, D) /\ Sound(B, I, N, D, k)
  BY DEF IInv, SoundDisk
<1>2. PICK ino : ino = Resolve(disk, path)
  OBVIOUS
<1>3. /\ ino # Nowhere /\ Inode(disk, ino).mode = "file" /\ fds' = Opened(f, ino, Inode(disk, ino), append)
      /\ UNCHANGED <<disk, bgd, outages>>
  BY <1>2 DEF Open
<1>4. BlocksRight(B, N, D, k) /\ NamesRight(I, N, Listing(N, D))
  BY <1>1 DEF Sound
<1>5. ino \in Inodes
  BY <1>1, <1>2, <1>3, FoundName
<1>6. Inode(disk, ino) = N[ino] /\ N[ino] \in Node
  BY <1>1, <1>5, ShowsInode
<1>7. ino # ROOT /\ N[ino].size \in 0 .. MaxOffset
  <2>1. N[ino].size <= MaxOffset
    BY <1>3, <1>4, <1>5, <1>6 DEF BlocksRight, Held
  <2>. QED
    BY <1>3, <1>4, <1>6, <2>1, Constants DEF NamesRight, Node
<1>8. FilesRight(fds')
  BY <1>3, <1>5, <1>6, <1>7, OpenedRight DEF IInv
<1>. QED
  BY <1>3, <1>8, SameDisk

LEMMA CloseKeeps ==
    ASSUME NEW k, IInv(k), NEW f \in Fds,
           \/ Close(f) \/ AddRef(f) \/ \E offset \in 0 .. MaxOffset - 1 : Seek(f, offset)
    PROVE  IInv(k)'
<1>. DEFINE FdRec == [ino : {Nowhere} \cup Inodes, offset : 0 .. MaxOffset,
                      append : BOOLEAN, refs : 0 .. 2]
<1>1. fds \in [Fds -> FdRec] /\ \A g \in Fds : fds[g].refs > 0 => fds[g].ino \in Inodes \ {ROOT}
  BY DEF IInv, FilesRight
<1>2. UNCHANGED <<disk, bgd, outages>>
  BY DEF Close, AddRef, Seek
<1>3. FreeFd \in FdRec /\ FreeFd.refs = 0
  BY Constants DEF FreeFd, Nowhere
<1>4. /\ fds' = [g \in Fds |-> fds'[g]] /\ \A g \in Fds \ {f} : fds'[g] = fds[g]
      /\ fds'[f] \in FdRec
      /\ fds'[f].refs > 0 => fds[f].refs > 0 /\ fds'[f].ino = fds[f].ino
  <2>0. fds[f] \in FdRec
    BY <1>1
  <2>1. CASE Close(f)
    <3>1. fds[f].refs > 0 /\ fds' = [g \in Fds |-> fds'[g]] /\ \A g \in Fds \ {f} : fds'[g] = fds[g]
      BY <1>1, <2>1 DEF Close
    <3>2. CASE fds[f].refs = 1
      <4>1. fds'[f] = FreeFd
        BY <1>1, <2>1, <3>2 DEF Close
      <4>. QED
        BY <1>3, <3>1, <4>1
    <3>3. CASE fds[f].refs # 1
      <4>1. fds'[f] = [fds[f] EXCEPT !.refs = @ - 1]
        <5>. HIDE DEF FdRec
        <5>. QED
          BY <1>1, <2>1, <3>3 DEF Close
      <4>2. fds'[f] \in FdRec /\ fds'[f].ino = fds[f].ino
        BY <2>0, <3>1, <3>3, <4>1
      <4>. QED
        BY <3>1, <4>2
    <3>. QED
      BY <3>2, <3>3
  <2>2. CASE AddRef(f)
    <3>0. fds[f] = [ino |-> fds[f].ino, offset |-> fds[f].offset, append |-> fds[f].append,
                    refs |-> fds[f].refs]
      BY <2>0
    <3>1. /\ fds[f].refs > 0 /\ fds' = [g \in Fds |-> fds'[g]]
          /\ \A g \in Fds \ {f} : fds'[g] = fds[g]
          /\ fds'[f] = [fds[f] EXCEPT !.refs = 2]
      <4>. HIDE DEF FdRec
      <4>0. fds \in [Fds -> FdRec]
        BY <1>1
      <4>1. fds[f].refs > 0
        BY <2>2 DEF AddRef
      <4>2. fds'[f] = [fds[f] EXCEPT !.refs = 2]
        BY <4>0, <2>2 DEF AddRef
      <4>3. fds' = [g \in Fds |-> fds'[g]]
        BY <4>0, <2>2 DEF AddRef
      <4>4. \A g \in Fds \ {f} : fds'[g] = fds[g]
        BY <4>0, <2>2 DEF AddRef
      <4>. QED
        BY <4>1, <4>2, <4>3, <4>4
    <3>2. fds'[f] \in FdRec /\ fds'[f].ino = fds[f].ino
      BY <2>0, <3>1
    <3>. QED
      BY <3>1, <3>2
  <2>3. CASE \E offset \in 0 .. MaxOffset - 1 : Seek(f, offset)
    <3>0. PICK offset \in 0 .. MaxOffset - 1 : Seek(f, offset)
      BY <2>3
    <3>1. /\ fds[f].refs > 0 /\ fds' = [g \in Fds |-> fds'[g]]
          /\ \A g \in Fds \ {f} : fds'[g] = fds[g]
          /\ fds'[f] = [fds[f] EXCEPT !.offset = offset]
      BY <1>1, <3>0 DEF Seek
    <3>2. fds'[f] \in FdRec /\ fds'[f].ino = fds[f].ino
      BY <2>0, <3>1, Constants
    <3>. QED
      BY <3>1, <3>2
  <2>. QED
    BY <2>1, <2>2, <2>3
<1>5. \A g \in Fds : fds'[g] \in FdRec
  <2>. HIDE DEF FdRec
  <2>. QED
    BY <1>1, <1>4
<1>6. fds' \in [Fds -> FdRec]
  <2>. HIDE DEF FdRec
  <2>. QED
    BY <1>4, <1>5
<1>7. \A g \in Fds : fds'[g].refs > 0 => fds'[g].ino \in Inodes \ {ROOT}
  <2>. HIDE DEF FdRec
  <2>. QED
    BY <1>1, <1>4
<1>8. FilesRight(fds')
  BY <1>6, <1>7 DEF FilesRight
<1>. QED
  BY <1>2, <1>8, SameDisk

\* What Create, Mkdir, Symlink and Link know of the path.
LEMMA NewName ==
    ASSUME NEW B, NEW I, NEW N, NEW D, Shows(disk, B, I, N, D), NEW k, Sound(B, I, N, D, k),
           NEW path \in Paths, Resolve(disk, path) = Nowhere,
           NEW dir, dir = Parent(disk, path), dir # Nowhere, Inode(disk, dir).mode = "dir"
    PROVE  /\ dir \in Inodes /\ N[dir].mode = "dir" /\ Last(path) \in Names
           /\ NoneNamed(In(N, D, dir), Last(path))
           /\ UniqueNames(In(N, D, dir))
<1>1. BlocksRight(B, N, D, k) /\ NamesRight(I, N, Listing(N, D))
  BY DEF Sound
<1>2. dir \in Inodes /\ Last(path) \in Names /\ Resolve(disk, path) = Lookup(disk, dir, Last(path))
  BY <1>1, ResolveFinds
<1>3. N[dir].mode = "dir"
  BY <1>2, ShowsInode
<1>4. PICK nm \in Names : nm = Last(path)
  BY <1>2
<1>5. Lookup(disk, dir, nm) = Nowhere
  BY <1>2, <1>4
<1>6. NoneNamed(In(N, D, dir), nm)
  <2>1. /\ dir \in {Nowhere} \cup Inodes /\ Shows(disk, B, I, N, D)
        /\ BlocksRight(B, N, D, k) /\ dir # Nowhere
    BY <1>1, <1>2
  <2>2. Lookup(disk, dir, nm) = Nowhere /\ dir # Nowhere /\ N[dir].mode = "dir" =>
           NoneNamed(In(N, D, dir), nm)
    BY ONLY <1>4, <2>1, LookupFinds
  <2>. QED
    BY <1>3, <1>5, <2>1, <2>2
<1>7. UniqueNames(In(N, D, dir))
  BY <1>1, <1>2, <1>3, ListingUnique
<1>. QED
  BY <1>2, <1>3, <1>4, <1>6, <1>7

\* The new inode i is entered in the directory dir.
LEMMA EnterKeeps ==
    ASSUME NEW k, IInv(k), NamesFit, NEW B, NEW I, NEW N, NEW D,
           Shows(disk, B, I, N, D), Sound(B, I, N, D, k),
           NEW dir \in Inodes, N[dir].mode = "dir", NEW nm \in Names,
           NoneNamed(In(N, D, dir), nm), UniqueNames(In(N, D, dir)),
           NEW t, NEW n \in Nat, n < JNL_BUF, NEW C, NEW J, NEW M, NEW E, NEW i \in Inodes,
           Leaves(t, disk, n, C, J, M, E),
           NEW F, F = [E EXCEPT ![N[dir].block[0]] = Dir(In(N, D, dir) \cup {[name |-> nm, ino |-> i]})],
           Sound(C, J, M, F, k),
           NEW files, FilesRight(files), Enter(t, dir, nm, i, files)
    PROVE  IInv(k)'
<1>1. BlocksRight(B, N, D, k)
  BY DEF Sound
<1>2. /\ CanAddEntry(t, dir)
      /\ Leaves(AddEntry(t, dir, nm, i), disk, n + 1, C, J, M, F)
  BY <1>1, EnterLeaves DEF NoneNamed
<1>3. PICK u : u = AddEntry(t, dir, nm, i)
  OBVIOUS
<1>4. Done(u, files)
  BY <1>2, <1>3 DEF Enter
<1>5. Gathers(u, disk, n + 1) /\ SoundDisk(Committed(u), k)
  BY <1>2, <1>3 DEF Leaves, SoundDisk
<1>6. SoundDisk(disk, k)
  BY DEF IInv
<1>. QED
  BY <1>4, <1>5, <1>6, DoneKeeps

LEMMA NodeIs ==
    /\ NoInode \in Node /\ NoInode.mode = "none" /\ NoInode.links = 0 /\ NoInode.size = 0
    /\ \A q \in Places : NoInode.block[q] = Nowhere
BY Constants DEF NoInode, Node, Modes, Places, Nowhere

LEMMA NewInodeIs ==
    ASSUME NEW mode \in Modes, NEW links \in Nat
    PROVE  /\ NewInode(mode, links) \in Node
           /\ NewInode(mode, links).mode = mode /\ NewInode(mode, links).links = links
           /\ NewInode(mode, links).size = 0
           /\ \A q \in Places : NewInode(mode, links).block[q] = Nowhere
BY NodeIs DEF NewInode, Node

\* An inode with one block.
OneBlock(mode, links, b, size) == [NewInode(mode, links) EXCEPT !.block[0] = b, !.size = size]

LEMMA NewInodeWith ==
    ASSUME NEW mode \in Modes, NEW links \in Nat, NEW b \in 0 .. NBlocks, NEW size \in Nat,
           NEW x, x = OneBlock(mode, links, b, size)
    PROVE  /\ x \in Node /\ x.mode = mode /\ x.links = links /\ x.size = size
           /\ \A q \in Places : x.block[q] = IF q = 0 THEN b ELSE Nowhere
<1>1. PICK y : y = NewInode(mode, links)
  OBVIOUS
<1>2. /\ y \in Node /\ y.mode = mode /\ y.links = links
      /\ \A q \in Places : y.block[q] = Nowhere
  BY <1>1, NewInodeIs
<1>3. PICK z : z = [y.block EXCEPT ![0] = b]
  OBVIOUS
<1>4. y.block \in [Places -> 0 .. NBlocks]
  BY <1>2 DEF Node
<1>5. z \in [Places -> 0 .. NBlocks] /\ \A q \in Places : z[q] = IF q = 0 THEN b ELSE Nowhere
  BY <1>2, <1>3, <1>4, FirstPlace
<1>6. x = [[y EXCEPT !.block = z] EXCEPT !.size = size]
  BY <1>1, <1>2, <1>3 DEF Node, OneBlock
<1>7. x \in Node /\ x.mode = y.mode /\ x.links = y.links /\ x.size = size /\ x.block = z
  BY <1>2, <1>5, <1>6 DEF Node
<1>. QED
  BY <1>2, <1>5, <1>7

\* What a new inode begins with.
LEMMA TakesInode ==
    ASSUME NEW k, Fits(k), bgd \in Counts, NEW B, NEW I, NEW N, NEW D, Shows(disk, B, I, N, D),
           NEW ino, ino = FreeInode(Begun), ino # Nowhere
    PROVE  /\ ino \in Inodes /\ ino \notin I
           /\ Leaves(TakeInode(Begun, ino), disk, 2, B, I \cup {ino}, N, D)
<1>1. Leaves(Begun, disk, 0, B, I, N, D) /\ Begun.disk = disk
  BY BegunLeaves
<1>2. ino \in Inodes /\ ino \notin I /\ Begun.bgd.free_inodes # 0
  BY <1>1, FreeInodeIs DEF Shows
<1>3. 0 \in Nat /\ 0 + 2 = 2 /\ 0 + 2 <= JNL_BUF
  BY Constants DEF Fits
<1>4. Leaves(TakeInode(Begun, ino), disk, 0 + 2, B, I \cup {ino}, N, D)
  BY ONLY <1>1, <1>2, <1>3, Shows(disk, B, I, N, D), TakeInodeLeaves
<1>. QED
  BY <1>2, <1>3, <1>4

LEMMA CreateKeeps ==
    ASSUME NEW k, IInv(k), NamesFit, Fits(k), NEW path \in Paths, NEW f \in Fds, Create(path, f)
    PROVE  IInv(k)'
<1>1. PICK B, I, N, D : Shows(disk, B, I, N, D) /\ Sound(B, I, N, D, k)
  BY DEF IInv, SoundDisk
<1>2. PICK dir, ino, nm : dir = Parent(disk, path) /\ ino = FreeInode(Begun) /\ nm = Last(path)
  OBVIOUS
<1>3. PICK x, t, files : /\ x = NewInode("file", 1) /\ t = WriteInode(TakeInode(Begun, ino), ino, x)
                         /\ files = Opened(f, ino, NoInode, FALSE)
  OBVIOUS
<1>4. /\ Resolve(disk, path) = Nowhere /\ dir # Nowhere /\ Inode(disk, dir).mode = "dir"
      /\ ino # Nowhere /\ Enter(t, dir, nm, ino, files)
  BY <1>2, <1>3 DEF Create
<1>5. /\ dir \in Inodes /\ N[dir].mode = "dir" /\ nm \in Names
      /\ NoneNamed(In(N, D, dir), nm)
      /\ UniqueNames(In(N, D, dir))
  BY <1>1, <1>2, <1>4, NewName
<1>6. /\ ino \in Inodes /\ ino \notin I
      /\ Leaves(TakeInode(Begun, ino), disk, 2, B, I \cup {ino}, N, D)
  BY <1>1, <1>2, <1>4, TakesInode DEF IInv
<1>7. x \in Node /\ x.mode = "file" /\ x.links = 1 /\ x.size = 0 /\ \A q \in Places : x.block[q] = Nowhere
  BY <1>3, NewInodeIs DEF Modes
<1>8. PICK M : M = [N EXCEPT ![ino] = x]
  OBVIOUS
<1>9. Leaves(t, disk, 3, B, I \cup {ino}, M, D)
  <2>1. 2 \in Nat /\ 2 + 1 = 3 /\ 2 < JNL_BUF
    BY Constants DEF Fits
  <2>2. Leaves(t, disk, 2 + 1, B, I \cup {ino}, M, D)
    BY ONLY <1>1, <1>3, <1>6, <1>7, <1>8, <2>1, WriteInodeLeaves
  <2>. QED
    BY <2>1, <2>2
<1>10. PICK F : F = [D EXCEPT ![N[dir].block[0]] = Dir(In(N, D, dir) \cup {[name |-> nm, ino |-> ino]})]
  OBVIOUS
<1>11. IsView(B, I, N, D) /\ BlocksRight(B, N, D, k) /\ NamesRight(I, N, Listing(N, D))
  BY <1>1 DEF Shows, Sound
<1>12. N[dir].block[0] \in 1 .. NBlocks
  BY <1>1, <1>5, <1>11, ReadsDir
<1>13. /\ F[N[dir].block[0]] = Dir(In(N, D, dir) \cup {[name |-> nm, ino |-> ino]})
       /\ \A n \in 1 .. NBlocks : n # N[dir].block[0] => F[n] = D[n]
  BY <1>10, <1>11, <1>12 DEF IsView
<1>14. Sound(B, I \cup {ino}, M, F, k)
  <2>1. PICK b : b = Nowhere
    OBVIOUS
  <2>2. /\ b \in 0 .. NBlocks /\ (b # Nowhere => b \notin B)
        /\ B = B \cup ({b} \ {Nowhere})
    BY <1>7, <2>1, Constants DEF Nowhere
  <2>3. k \in 1 .. N_DIRECT /\ IsNew(x, b, F)
    BY <1>7, <2>1, Constants DEF Fits, IsNew
  <2>4. Entered(N, D, dir, nm, ino, {b}, F) /\ NoneNamed(In(N, D, dir), nm)
    BY <1>5, <1>13 DEF Entered
  <2>5. Sound(B, I \cup {ino}, [N EXCEPT ![ino] = x], F, k)
    BY ONLY NamesFit, <1>1, <1>5, <1>6, <1>7, <1>11, <2>2, <2>3, <2>4, SoundNew
  <2>. QED
    BY <1>8, <2>5
<1>15. FilesRight(files)
  <2>1. ino # ROOT /\ NoInode.size \in 0 .. MaxOffset /\ FALSE \in BOOLEAN
    BY <1>6, <1>11, NodeIs, Constants DEF NamesRight
  <2>. QED
    BY <1>3, <1>6, <2>1, OpenedRight DEF IInv
<1>16. 3 \in Nat /\ 3 < JNL_BUF
  BY Constants DEF Fits
<1>. QED
  BY ONLY IInv(k), NamesFit, <1>1, <1>4, <1>5, <1>6, <1>9, <1>10, <1>14, <1>15, <1>16, EnterKeeps

\* A directory or a symbolic link is made, with its first block.
LEMMA Made ==
    ASSUME NEW k, IInv(k), NamesFit, Fits(k), NEW B, NEW I, NEW N, NEW D,
           Shows(disk, B, I, N, D), Sound(B, I, N, D, k),
           NEW dir \in Inodes, N[dir].mode = "dir", NEW nm \in Names,
           NoneNamed(In(N, D, dir), nm), UniqueNames(In(N, D, dir)),
           NEW ino, ino = FreeInode(Begun), ino # Nowhere,
           NEW t, t = TakeInode(Begun, ino), NEW b, b = FreeBlock(t), b # Nowhere,
           NEW v \in Contents, NEW x \in Node, x.mode # "none",
           \A q \in Places : x.block[q] = IF q = 0 THEN b ELSE Nowhere,
           x.mode = "dir" => x.size = BS /\ v = Dir({}) /\ "mkdir" \in Calls,
           x.mode # "dir" => x.size <= MaxOffset /\ x.links = 1 /\ v.kind = "file",
           NEW u, u = WriteInode(Journalled(TakeBlock(t, b), Data(b), v), ino, x),
           Enter(u, dir, nm, ino, fds)
    PROVE  IInv(k)'
<1>1. /\ ino \in Inodes /\ ino \notin I
      /\ Leaves(t, disk, 2, B, I \cup {ino}, N, D)
  BY TakesInode DEF IInv
<1>2. 7 <= JNL_BUF /\ k \in 1 .. N_DIRECT /\ JNL_BUF \in Nat
  BY Constants DEF Fits
<1>3. b \in 1 .. NBlocks /\ b \notin B /\ t.bgd.free_blocks # 0
  <2>1. t.disk = disk /\ disk[BlockBitmap] = B
    BY <1>1 DEF Leaves, Gathers, Shows
  <2>. QED
    BY <2>1, FreeBlockIs
<1>4. PICK r : r = TakeBlock(t, b)
  OBVIOUS
<1>5. Leaves(r, disk, 4, B \cup {b}, I \cup {ino}, N, D)
  <2>1. 2 \in Nat /\ 2 + 2 = 4 /\ 2 + 2 <= JNL_BUF
    BY <1>2
  <2>2. Leaves(r, disk, 2 + 2, B \cup {b}, I \cup {ino}, N, D)
    BY ONLY Shows(disk, B, I, N, D), <1>1, <1>3, <1>4, <2>1, TakeBlockLeaves
  <2>. QED
    BY <2>1, <2>2
<1>6. PICK s, E : s = Journalled(r, Data(b), v) /\ E = [D EXCEPT ![b] = v]
  OBVIOUS
<1>7. Leaves(s, disk, 5, B \cup {b}, I \cup {ino}, N, E)
  <2>1. 4 \in Nat /\ 4 + 1 = 5 /\ 4 < JNL_BUF
    BY <1>2
  <2>2. IsDisk(disk)
    BY DEF Shows
  <2>3. Leaves(s, disk, 4 + 1, B \cup {b}, I \cup {ino}, N, E)
    BY ONLY v \in Contents, <1>3, <1>5, <1>6, <2>1, <2>2, PutDataLeaves
  <2>. QED
    BY <2>1, <2>3
<1>8. PICK M : M = [N EXCEPT ![ino] = x]
  OBVIOUS
<1>9. Leaves(u, disk, 6, B \cup {b}, I \cup {ino}, M, E)
  <2>1. 5 \in Nat /\ 5 + 1 = 6 /\ 5 < JNL_BUF
    BY <1>2
  <2>2. u = WriteInode(s, ino, x)
    BY <1>4, <1>6
  <2>3. Leaves(u, disk, 5 + 1, B \cup {b}, I \cup {ino}, M, E)
    BY ONLY Shows(disk, B, I, N, D), x \in Node, <1>1, <1>7, <1>8, <2>1, <2>2, WriteInodeLeaves
  <2>. QED
    BY <2>1, <2>3
<1>10. IsView(B, I, N, D) /\ BlocksRight(B, N, D, k) /\ NamesRight(I, N, Listing(N, D))
  BY DEF Shows, Sound
<1>11. N[dir].block[0] \in 1 .. NBlocks /\ N[dir].block[0] \in B
  BY <1>10, ReadsDir
<1>12. PICK F : F = [E EXCEPT ![N[dir].block[0]] = Dir(In(N, D, dir) \cup {[name |-> nm, ino |-> ino]})]
  OBVIOUS
<1>13. /\ F[N[dir].block[0]] = Dir(In(N, D, dir) \cup {[name |-> nm, ino |-> ino]})
       /\ \A n \in 1 .. NBlocks : n # b /\ n # N[dir].block[0] => F[n] = D[n]
       /\ F[b] = v
  <2>1. D \in [1 .. NBlocks -> Contents] /\ b # N[dir].block[0]
    BY <1>3, <1>10, <1>11 DEF IsView
  <2>2. E \in [1 .. NBlocks -> Contents] /\ E[b] = v /\ \A n \in 1 .. NBlocks : n # b => E[n] = D[n]
    BY <1>3, <1>6, <2>1
  <2>. QED
    BY <1>3, <1>11, <1>12, <2>1, <2>2
<1>14. Sound(B \cup {b}, I \cup {ino}, M, F, k)
  <2>1. /\ b \in 0 .. NBlocks /\ (b # Nowhere => b \notin B)
        /\ B \cup {b} = B \cup ({b} \ {Nowhere})
    BY <1>3 DEF Nowhere
  <2>2. IsNew(x, b, F)
    BY <1>13 DEF IsNew
  <2>3. Entered(N, D, dir, nm, ino, {b}, F) /\ NoneNamed(In(N, D, dir), nm)
    BY <1>13 DEF Entered
  <2>4. PICK C : C = B \cup {b}
    OBVIOUS
  <2>5. C = B \cup ({b} \ {Nowhere})
    BY <2>1, <2>4
  <2>6. Sound(C, I \cup {ino}, [N EXCEPT ![ino] = x], F, k)
    BY ONLY NamesFit, <1>1, <1>2, <1>10, <2>1, <2>2, <2>3, <2>5, SoundNew,
       Sound(B, I, N, D, k), dir \in Inodes, N[dir].mode = "dir", nm \in Names, x \in Node
  <2>. QED
    BY <1>8, <2>4, <2>6
<1>15. FilesRight(fds) /\ 6 \in Nat /\ 6 < JNL_BUF
  BY <1>2 DEF IInv
<1>. QED
  BY ONLY IInv(k), NamesFit, Shows(disk, B, I, N, D), Sound(B, I, N, D, k), dir \in Inodes,
     N[dir].mode = "dir", nm \in Names, NoneNamed(In(N, D, dir), nm),
     UniqueNames(In(N, D, dir)), Enter(u, dir, nm, ino, fds),
     <1>1, <1>9, <1>12, <1>14, <1>15, EnterKeeps

\* Mkdir and Symlink, when there is a block.
LEMMA MadeWith ==
    ASSUME NEW k, IInv(k), NamesFit, Fits(k), NEW path \in Paths,
           NEW dir, dir = Parent(disk, path), dir # Nowhere, Inode(disk, dir).mode = "dir",
           Resolve(disk, path) = Nowhere,
           NEW ino, ino = FreeInode(Begun), ino # Nowhere,
           NEW t, t = TakeInode(Begun, ino), NEW b, b = FreeBlock(t),
           NEW mode \in Modes, NEW links \in Nat, NEW size \in Nat, NEW v \in Contents,
           NEW x, x = OneBlock(mode, links, b, size),
           \/ mode = "dir" /\ size = BS /\ v = Dir({}) /\ "mkdir" \in Calls
           \/ mode = "symlink" /\ links = 1 /\ size = 1 /\ v = FileData,
           NEW u, u = WriteInode(Journalled(TakeBlock(t, b), Data(b), v), ino, x),
           IF b = Nowhere THEN Aborted(t) ELSE Enter(u, dir, Last(path), ino, fds)
    PROVE  IInv(k)'
<1>1. PICK B, I, N, D : Shows(disk, B, I, N, D) /\ Sound(B, I, N, D, k)
  BY DEF IInv, SoundDisk
<1>2. PICK nm : nm = Last(path)
  OBVIOUS
<1>3. /\ dir \in Inodes /\ N[dir].mode = "dir" /\ nm \in Names
      /\ NoneNamed(In(N, D, dir), nm) /\ UniqueNames(In(N, D, dir))
  BY <1>1, <1>2, NewName
<1>4. CASE b = Nowhere
  <2>1. Leaves(t, disk, 2, B, I \cup {ino}, N, D)
    BY <1>1, TakesInode DEF IInv
  <2>2. Gathers(t, disk, 2) /\ Aborted(t) /\ SoundDisk(disk, k)
    BY <1>4, <2>1 DEF Leaves, IInv
  <2>. QED
    BY <2>2, AbortedKeeps
<1>5. CASE b # Nowhere
  <2>1. b \in 0 .. NBlocks
    BY <1>5, FreeBlockIs
  <2>2. /\ x \in Node /\ x.mode = mode /\ x.links = links /\ x.size = size
        /\ \A q \in Places : x.block[q] = IF q = 0 THEN b ELSE Nowhere
    BY ONLY <2>1, NewInodeWith, mode \in Modes, links \in Nat, size \in Nat,
       x = OneBlock(mode, links, b, size)
  <2>3. /\ x.mode # "none"
        /\ x.mode = "dir" => x.size = BS /\ v = Dir({}) /\ "mkdir" \in Calls
        /\ x.mode # "dir" => x.size <= MaxOffset /\ x.links = 1 /\ v.kind = "file"
    BY <2>2, Constants DEF FileData
  <2>4. Enter(u, dir, nm, ino, fds)
    BY <1>2, <1>5
  <2>. QED
    BY ONLY IInv(k), NamesFit, Fits(k), <1>1, <1>3, <1>5, <2>2, <2>3, <2>4, Made,
       ino = FreeInode(Begun), ino # Nowhere, t = TakeInode(Begun, ino), b = FreeBlock(t),
       v \in Contents, u = WriteInode(Journalled(TakeBlock(t, b), Data(b), v), ino, x)
<1>. QED
  BY <1>4, <1>5

LEMMA MkdirKeeps ==
    ASSUME NEW k, IInv(k), NamesFit, Fits(k), NEW path \in Paths, Mkdir(path)
    PROVE  IInv(k)'
<1>1. PICK dir, ino, t : dir = Parent(disk, path) /\ ino = FreeInode(Begun) /\ t = TakeInode(Begun, ino)
  OBVIOUS
<1>2. PICK b, v : b = FreeBlock(t) /\ v = Dir({})
  OBVIOUS
<1>3. PICK x : x = [NewInode("dir", 2) EXCEPT !.block[0] = b, !.size = BS]
  OBVIOUS
<1>4. PICK u : u = WriteInode(Journalled(TakeBlock(t, b), Data(b), v), ino, x)
  OBVIOUS
<1>5. /\ "mkdir" \in Calls /\ Resolve(disk, path) = Nowhere
      /\ dir # Nowhere /\ Inode(disk, dir).mode = "dir" /\ ino # Nowhere
      /\ IF b = Nowhere THEN Aborted(t) ELSE Enter(u, dir, Last(path), ino, fds)
  BY <1>1, <1>2, <1>3, <1>4, Zenon DEF Mkdir, Asked
<1>6. PICK mode, links, size : mode = "dir" /\ links = 2 /\ size = BS
  OBVIOUS
<1>7. mode \in Modes /\ links \in Nat /\ size \in Nat /\ v \in Contents
  BY <1>2, <1>6, Constants DEF Modes, Contents
<1>8. x = OneBlock(mode, links, b, size)
  BY <1>3, <1>6 DEF OneBlock
<1>9. \/ mode = "dir" /\ size = BS /\ v = Dir({}) /\ "mkdir" \in Calls
      \/ mode = "symlink" /\ links = 1 /\ size = 1 /\ v = FileData
  BY <1>2, <1>5, <1>6
<1>. QED
  BY ONLY IInv(k), NamesFit, Fits(k), path \in Paths, <1>1, <1>2, <1>4,
     <1>5, <1>7, <1>8, <1>9, MadeWith

LEMMA SymlinkKeeps ==
    ASSUME NEW k, IInv(k), NamesFit, Fits(k), NEW path \in Paths, Symlink(path)
    PROVE  IInv(k)'
<1>1. PICK dir, ino, t : dir = Parent(disk, path) /\ ino = FreeInode(Begun) /\ t = TakeInode(Begun, ino)
  OBVIOUS
<1>2. PICK b, v : b = FreeBlock(t) /\ v = FileData
  OBVIOUS
<1>3. PICK x : x = [NewInode("symlink", 1) EXCEPT !.block[0] = b, !.size = 1]
  OBVIOUS
<1>4. PICK u : u = WriteInode(Journalled(TakeBlock(t, b), Data(b), v), ino, x)
  OBVIOUS
<1>5. /\ Resolve(disk, path) = Nowhere
      /\ dir # Nowhere /\ Inode(disk, dir).mode = "dir" /\ ino # Nowhere
      /\ IF b = Nowhere THEN Aborted(t) ELSE Enter(u, dir, Last(path), ino, fds)
  BY <1>1, <1>2, <1>3, <1>4, Zenon DEF Symlink
<1>6. PICK mode, links, size : mode = "symlink" /\ links = 1 /\ size = 1
  OBVIOUS
<1>7. mode \in Modes /\ links \in Nat /\ size \in Nat /\ v \in Contents
  BY <1>2, <1>6 DEF Modes, Contents
<1>8. x = OneBlock(mode, links, b, size)
  BY <1>3, <1>6 DEF OneBlock
<1>9. \/ mode = "dir" /\ size = BS /\ v = Dir({}) /\ "mkdir" \in Calls
      \/ mode = "symlink" /\ links = 1 /\ size = 1 /\ v = FileData
  BY <1>2, <1>6
<1>. QED
  BY ONLY IInv(k), NamesFit, Fits(k), path \in Paths, <1>1, <1>2, <1>4,
     <1>5, <1>7, <1>8, <1>9, MadeWith

LEMMA LinkKeeps ==
    ASSUME NEW k, IInv(k), NamesFit, Fits(k), NEW old \in Paths, NEW new \in Paths, Link(old, new)
    PROVE  IInv(k)'
<1>1. PICK B, I, N, D : Shows(disk, B, I, N, D) /\ Sound(B, I, N, D, k)
  BY DEF IInv, SoundDisk
<1>2. PICK dir, ino, nm : dir = Parent(disk, new) /\ ino = Resolve(disk, old) /\ nm = Last(new)
  OBVIOUS
<1>3. PICK x, t : /\ x = [Inode(disk, ino) EXCEPT !.links = @ + 1]
                  /\ t = WriteInode(Begun, ino, x)
  OBVIOUS
<1>4. /\ Resolve(disk, new) = Nowhere /\ dir # Nowhere /\ Inode(disk, dir).mode = "dir"
      /\ ino # Nowhere /\ Inode(disk, ino).mode # "dir" /\ Enter(t, dir, nm, ino, fds)
  BY <1>2, <1>3 DEF Link
<1>5. /\ dir \in Inodes /\ N[dir].mode = "dir" /\ nm \in Names
      /\ NoneNamed(In(N, D, dir), nm) /\ UniqueNames(In(N, D, dir))
  BY <1>1, <1>2, <1>4, NewName
<1>6. PICK p, on : p = Parent(disk, old) /\ on = Last(old)
  OBVIOUS
<1>7. /\ ino \in Inodes /\ p \in Inodes /\ on \in Names
      /\ [name |-> on, ino |-> ino] \in In(N, D, p)
  BY <1>1, <1>2, <1>4, <1>6, FoundName
<1>8. Inode(disk, ino) = N[ino] /\ N[ino] \in Node
  BY <1>1, <1>7, ShowsInode
<1>9. N[ino].mode \notin {"none", "dir"}
  <2>1. PICK e : e = <<p, on, ino>>
    OBVIOUS
  <2>2. e \in Listing(N, D) /\ e[3] = ino
    BY <1>7, <2>1, Listed
  <2>3. NamesRight(I, N, Listing(N, D))
    BY <1>1 DEF Sound
  <2>4. N[ino].mode # "none"
    BY <2>2, <2>3 DEF NamesRight
  <2>. QED
    BY <1>4, <1>8, <2>4
<1>10. /\ x \in Node /\ x.mode = N[ino].mode /\ x.size = N[ino].size
       /\ x.block = N[ino].block /\ x.links = N[ino].links + 1
  BY <1>3, <1>8 DEF Node
<1>11. PICK M : M = [N EXCEPT ![ino] = x]
  OBVIOUS
<1>12. Leaves(t, disk, 1, B, I, M, D)
  <2>1. 0 \in Nat /\ 0 + 1 = 1 /\ 0 < JNL_BUF
    BY Constants
  <2>2. Leaves(Begun, disk, 0, B, I, N, D)
    BY <1>1, BegunLeaves DEF IInv
  <2>3. Leaves(t, disk, 0 + 1, B, I, M, D)
    BY ONLY <1>1, <1>3, <1>7, <1>10, <1>11, <2>1, <2>2, WriteInodeLeaves
  <2>. QED
    BY <2>1, <2>3
<1>13. PICK F : F = [D EXCEPT ![N[dir].block[0]] = Dir(In(N, D, dir) \cup {[name |-> nm, ino |-> ino]})]
  OBVIOUS
<1>14. IsView(B, I, N, D) /\ BlocksRight(B, N, D, k)
  BY <1>1 DEF Shows, Sound
<1>15. N[dir].block[0] \in 1 .. NBlocks
  BY <1>1, <1>5, <1>14, ReadsDir
<1>16. Entered(N, D, dir, nm, ino, {}, F)
  BY <1>13, <1>14, <1>15 DEF IsView, Entered
<1>17. Sound(B, I, [N EXCEPT ![ino] = x], F, k)
  BY ONLY NamesFit, <1>1, <1>5, <1>7, <1>9, <1>10, <1>14, <1>16, SoundLinked
<1>18. Sound(B, I, M, F, k)
  BY <1>11, <1>17
<1>19. 1 \in Nat /\ 1 < JNL_BUF /\ FilesRight(fds)
  BY Constants DEF Fits, IInv
<1>. QED
  BY ONLY IInv(k), NamesFit, <1>1, <1>4, <1>5, <1>7, <1>12, <1>13, <1>18, <1>19, EnterKeeps

-----------------------------------------------------------------------------
(* A file is freed.                                                        *)

\* The transactions that differ from t in the counts and in the list, whose
\* entries are from S.
Txns(t, S) == [disk : {t.disk}, buf : Seq(S), bgd : Counts,
               inode : {t.inode}, left : {t.left}, offset : {t.offset}]

LEMMA JournalledIn ==
    ASSUME NEW t, NEW S, NEW u \in Txns(t, S), NEW b, NEW v, [blk |-> b, val |-> v] \in S
    PROVE  Journalled(u, b, v) \in Txns(t, S) /\ Journalled(u, b, v).bgd = u.bgd
<1>1. PICK e : e = [blk |-> b, val |-> v]
  OBVIOUS
<1>2. PICK s : s = Append(u.buf, e)
  OBVIOUS
<1>3. s \in Seq(S)
  BY <1>1, <1>2 DEF Txns
<1>4. Journalled(u, b, v) = IF Len(u.buf) >= JNL_BUF THEN u ELSE [u EXCEPT !.buf = s]
  BY <1>1, <1>2 DEF Journalled
<1>5. [u EXCEPT !.buf = s] \in Txns(t, S) /\ [u EXCEPT !.buf = s].bgd = u.bgd
  BY <1>3 DEF Txns
<1>. QED
  BY <1>4, <1>5

Writes(t) == [blk : {BlockBitmap}, val : SUBSET t.disk[BlockBitmap]]
               \cup [blk : {BgdTable}, val : Counts]

LEMMA ReleaseBlockIn ==
    ASSUME NEW t, NEW S, Writes(t) \subseteq S, NEW u \in Txns(t, S), NEW n
    PROVE  ReleaseBlock(u, n) \in Txns(t, S)
<1>1. PICK B : B = t.disk[BlockBitmap] \ {n}
  OBVIOUS
<1>2. [blk |-> BlockBitmap, val |-> B] \in S
  BY <1>1 DEF Writes
<1>3. PICK r : r = Journalled(u, BlockBitmap, B)
  OBVIOUS
<1>4. r \in Txns(t, S)
  BY <1>2, <1>3, JournalledIn
<1>5. PICK c : c = [r.bgd EXCEPT !.free_blocks = @ + 1]
  OBVIOUS
<1>6. c \in Counts
  BY <1>4, <1>5 DEF Txns, Counts
<1>7. PICK s : s = Recount(r, c)
  OBVIOUS
<1>8. s \in Txns(t, S) /\ s.bgd = c
  BY <1>4, <1>6, <1>7 DEF Txns, Recount
<1>9. [r EXCEPT !.bgd.free_blocks = @ + 1] = s
  BY <1>4, <1>5, <1>7 DEF Recount, Txns
<1>10. ReleaseBlock(u, n) = Journalled(s, BgdTable, c)
  <2>1. u.disk = t.disk
    BY DEF Txns
  <2>. QED
    BY <1>1, <1>3, <1>8, <1>9, <2>1 DEF ReleaseBlock, WriteBgd
<1>11. [blk |-> BgdTable, val |-> c] \in S
  BY <1>6 DEF Writes
<1>. QED
  BY <1>8, <1>10, <1>11, JournalledIn

\* One turn of the loop of free_inode_blocks.
FreedAt(t, y, p) == IF y.block[p] = Nowhere THEN t ELSE ReleaseBlock(t, y.block[p])

\* The transactions that the loop goes through, when it frees the blocks of y.
IsFreeing(f, t, y) ==
    /\ f = [p \in 0 .. N_DIRECT |-> f[p]] /\ f[0] = t
    /\ \A p \in 1 .. N_DIRECT : f[p] = FreedAt(f[p - 1], y, p - 1)

LEMMA Freeing ==
    ASSUME NEW t, NEW h, NEW n, Gathers(t, h, n), NEW i, NEW y, y = Inode(h, i)
    PROVE  \E f : /\ IsFreeing(f, t, y)
                  /\ ReleaseFile(t, i) =
                       ReleaseInode(WriteInode(f[N_DIRECT], i, [NoInode EXCEPT !.ind = y.ind]), i)
<1>1. PICK S0 : t.buf \in Seq(S0)
  BY DEF Gathers, LogsCounts
<1>2. PICK S : S = S0 \cup Writes(t)
  OBVIOUS
<1>3. PICK X : X = Txns(t, S)
  OBVIOUS
<1>4. t \in X
  <2>1. t.buf \in Seq(S) /\ t.bgd \in Counts /\ IsTransaction(t)
    BY <1>1, <1>2 DEF Gathers
  <2>. QED
    BY <1>3, <2>1 DEF IsTransaction, Txns
<1>5. \A u \in X : \A p : FreedAt(u, y, p) \in X
  BY <1>2, <1>3, ReleaseBlockIn DEF FreedAt
<1>6. N_DIRECT \in Nat
  BY Constants
<1>7. PICK G : G = [z \in X \X (1 .. N_DIRECT) |-> FreedAt(z[1], y, z[2] - 1)]
  OBVIOUS
<1>8. G \in [X \X (1 .. N_DIRECT) -> X]
  BY <1>5, <1>7
<1>9. PICK f : IsLoop(f, X, t, N_DIRECT, G)
  BY ONLY <1>4, <1>6, <1>8, Iterates
<1>10. /\ f \in [0 .. N_DIRECT -> X] /\ f[0] = t
       /\ \A p \in 1 .. N_DIRECT : f[p] = FreedAt(f[p - 1], y, p - 1)
  <2>1. f \in [0 .. N_DIRECT -> X] /\ f[0] = t /\ \A p \in 1 .. N_DIRECT : f[p] = G[<<f[p - 1], p>>]
    BY <1>9 DEF IsLoop
  <2>2. ASSUME NEW p \in 1 .. N_DIRECT PROVE f[p] = FreedAt(f[p - 1], y, p - 1)
    <3>1. p - 1 \in 0 .. N_DIRECT /\ f[p - 1] \in X
      BY <1>6, <2>1
    <3>2. G[<<f[p - 1], p>>] = FreedAt(f[p - 1], y, p - 1)
      BY <1>7, <3>1
    <3>. QED
      BY <2>1, <3>2
  <2>. QED
    BY <2>1, <2>2
<1>. DEFINE Is(g) == g = [p \in 0 .. N_DIRECT |->
                            IF p = 0 THEN t
                            ELSE IF y.block[p - 1] = Nowhere THEN g[p - 1]
                            ELSE ReleaseBlock(g[p - 1], y.block[p - 1])]
<1>11. Is(f)
  <2>1. \A p \in 0 .. N_DIRECT : p # 0 => p \in 1 .. N_DIRECT
    BY <1>6
  <2>2. \A p \in 0 .. N_DIRECT : f[p] = IF p = 0 THEN t
                            ELSE IF y.block[p - 1] = Nowhere THEN f[p - 1]
                            ELSE ReleaseBlock(f[p - 1], y.block[p - 1])
    BY <1>10, <2>1 DEF FreedAt
  <2>. QED
    BY <1>10, <2>2
<1>12. PICK g : g = (CHOOSE w : Is(w))
  OBVIOUS
<1>13. Is(g)
  BY <1>11, <1>12
<1>14. IsFreeing(g, t, y)
  <2>1. g = [p \in 0 .. N_DIRECT |-> g[p]]
    BY <1>13
  <2>2. 0 \in 0 .. N_DIRECT /\ \A p \in 1 .. N_DIRECT : p \in 0 .. N_DIRECT /\ p # 0
    BY <1>6
  <2>3. g[0] = t
    BY <1>13, <2>2
  <2>4. ASSUME NEW p \in 1 .. N_DIRECT PROVE g[p] = FreedAt(g[p - 1], y, p - 1)
    BY <1>13, <2>2 DEF FreedAt
  <2>. QED
    BY <2>1, <2>3, <2>4 DEF IsFreeing
<1>15. ReleaseFile(t, i) = ReleaseInode(WriteInode(g[N_DIRECT], i, [NoInode EXCEPT !.ind = y.ind]), i)
  <2>1. y = Inode(t.disk, i)
    BY DEF Gathers
  <2>. QED
    BY <1>12, <2>1, ZenonT(60) DEF ReleaseFile
<1>. QED
  BY <1>14, <1>15

\* What is marked when the blocks at the places below p are freed: each time the
\* bitmap comes from the disk, so that only the last block is not marked.
FreedBelow(y, p, B, C) ==
    /\ C \subseteq B /\ \A n \in B : n \in C \/ \E q \in Places : y.block[q] = n
    /\ p > 0 /\ "write" \notin Calls => y.block[0] \notin C

LEMMA FreeingLeaves ==
    ASSUME NEW t, NEW h, NEW k, Fits(k), NEW B, NEW I, NEW N, NEW D, Shows(h, B, I, N, D),
           BlocksRight(B, N, D, k), Returned(B, N), NEW i \in Inodes, NEW E,
           Leaves(t, h, 1, B, I, N, E), NEW f, IsFreeing(f, t, N[i])
    PROVE  \E n, C : /\ n \in Nat /\ n <= 2 * k + 1 /\ Leaves(f[N_DIRECT], h, n, C, I, N, E)
                      /\ FreedBelow(N[i], N_DIRECT, B, C)
<1>1. PICK y : y = N[i]
  OBVIOUS
<1>. DEFINE Is(p) == \E n, C :
                        /\ n \in Nat /\ n <= 2 * p + 1 /\ n <= 2 * k + 1 /\ Leaves(f[p], h, n, C, I, N, E)
                        /\ FreedBelow(y, p, B, C)
            S == {p \in 0 .. N_DIRECT : Is(p)}
<1>2. N_DIRECT \in Nat /\ k \in Nat /\ 2 * k + 5 <= JNL_BUF /\ JNL_BUF \in Nat /\ 1 <= k
  BY Constants DEF Fits
<1>3. Held(y, D, B, k) /\ B \subseteq 1 .. NBlocks
  BY <1>1 DEF BlocksRight, Shows, IsView
<1>4. 0 \in S
  <2>1. FreedBelow(y, 0, B, B)
    BY DEF FreedBelow
  <2>2. Leaves(f[0], h, 1, B, I, N, E)
    BY DEF IsFreeing
  <2>3. 1 \in Nat /\ 1 <= 2 * 0 + 1 /\ 1 <= 2 * k + 1 /\ 0 \in 0 .. N_DIRECT
    BY <1>2
  <2>4. Is(0)
    BY <2>1, <2>2, <2>3
  <2>. QED
    BY <2>3, <2>4
<1>5. ASSUME NEW p \in 1 .. N_DIRECT, p - 1 \in S PROVE p \in S
  <2>1. PICK n, C :
           /\ n \in Nat /\ n <= 2 * (p - 1) + 1 /\ n <= 2 * k + 1 /\ Leaves(f[p - 1], h, n, C, I, N, E)
           /\ FreedBelow(y, p - 1, B, C)
    BY <1>5
  <2>2. f[p] = FreedAt(f[p - 1], y, p - 1)
    BY <1>1 DEF IsFreeing
  <2>3. p \in 0 .. N_DIRECT /\ p - 1 \in Places /\ p \in Nat /\ 0 \in Places
    BY <1>2, FirstPlace DEF Places
  <2>4. CASE y.block[p - 1] = Nowhere
    <3>1. f[p] = f[p - 1]
      BY <2>2, <2>4 DEF FreedAt
    <3>2. n <= 2 * p + 1
      BY <2>1, <2>3
    <3>3. FreedBelow(y, p, B, C)
      <4>1. p - 1 = 0 => y.block[0] \notin C
        BY <1>3, <2>1, <2>4 DEF FreedBelow, Nowhere
      <4>2. p - 1 = 0 \/ p - 1 > 0
        BY <2>3
      <4>. QED
        BY <2>1, <4>1, <4>2 DEF FreedBelow
    <3>4. Is(p)
      BY <2>1, <3>1, <3>2, <3>3
    <3>. QED
      BY <2>3, <3>4
  <2>5. CASE y.block[p - 1] # Nowhere
    <3>1. PICK b : b = y.block[p - 1]
      OBVIOUS
    <3>2. f[p] = ReleaseBlock(f[p - 1], b)
      BY <2>2, <2>5, <3>1 DEF FreedAt
    <3>3. p - 1 < k
      BY <1>3, <2>3, <2>5 DEF Held
    <3>4. n + 2 \in Nat /\ n + 2 <= 2 * p + 1 /\ n + 2 <= 2 * k + 1 /\ n + 2 <= JNL_BUF
      BY <1>2, <2>1, <2>3, <3>3
    <3>5. Leaves(f[p], h, n + 2, B \ {b}, I, N, E)
      BY ONLY <2>1, <3>2, <3>4, Shows(h, B, I, N, D), ReleaseBlockLeaves
    <3>6. "write" \notin Calls => p - 1 = 0
      BY <1>1, <2>3, <2>5 DEF Returned
    <3>7. FreedBelow(y, p, B, B \ {b})
      BY <2>3, <3>1, <3>6 DEF FreedBelow
    <3>8. Is(p)
      BY <3>4, <3>5, <3>7
    <3>. QED
      BY <2>3, <3>8
  <2>. QED
    BY <2>4, <2>5
<1>6. 0 .. N_DIRECT \subseteq S
  <2>. HIDE DEF S
  <2>. QED
    BY ONLY <1>2, <1>4, <1>5, UpTo
<1>7. N_DIRECT \in S
  <2>. HIDE DEF S
  <2>. QED
    BY <1>2, <1>6
<1>. QED
  BY <1>1, <1>7

\* The last name of a file goes, and the file with it.
LEMMA ReleaseFileLeaves ==
    ASSUME NEW t, NEW h, NEW k, Fits(k), NEW B, NEW I, NEW N, NEW D, Shows(h, B, I, N, D),
           BlocksRight(B, N, D, k), Returned(B, N), NEW i \in Inodes, N[i].links <= 1,
           NEW E, Leaves(t, h, 1, B, I, N, E)
    PROVE  \E n \in Nat, x \in Node : \E C :
              /\ x.size = 0 /\ Freed(N[i], x, B, C)
              /\ Leaves(ReleaseFile(t, i), h, n, C, I \ {i}, [N EXCEPT ![i] = x], E)
<1>1. PICK y : y = N[i]
  OBVIOUS
<1>2. y = Inode(h, i) /\ y \in Node
  BY <1>1, ShowsInode
<1>3. PICK x : x = [NoInode EXCEPT !.ind = y.ind]
  OBVIOUS
<1>4. /\ x \in Node /\ x.mode = "none" /\ x.size = 0
      /\ \A q \in Places : x.block[q] = Nowhere
  BY <1>2, <1>3, NodeIs DEF Node
<1>5. Gathers(t, h, 1)
  BY DEF Leaves
<1>6. PICK f : /\ IsFreeing(f, t, y)
               /\ ReleaseFile(t, i) = ReleaseInode(WriteInode(f[N_DIRECT], i, [NoInode EXCEPT !.ind = y.ind]), i)
  BY ONLY <1>2, <1>5, Freeing
<1>7. PICK u : u = f[N_DIRECT]
  OBVIOUS
<1>8. PICK n, C : /\ n \in Nat /\ n <= 2 * k + 1 /\ Leaves(u, h, n, C, I, N, E)
                  /\ FreedBelow(y, N_DIRECT, B, C)
  BY <1>1, <1>6, <1>7, FreeingLeaves
<1>9. PICK v, M : v = WriteInode(u, i, x) /\ M = [N EXCEPT ![i] = x]
  OBVIOUS
<1>10. n + 1 \in Nat /\ n < JNL_BUF /\ (n + 1) + 2 <= JNL_BUF /\ (n + 1) + 2 \in Nat
  BY <1>8, Constants DEF Fits
<1>11. Leaves(v, h, n + 1, C, I, M, E)
  BY ONLY <1>4, <1>8, <1>9, <1>10, Shows(h, B, I, N, D), i \in Inodes, WriteInodeLeaves
<1>12. Leaves(ReleaseInode(v, i), h, (n + 1) + 2, C, I \ {i}, M, E)
  BY ONLY <1>10, <1>11, Shows(h, B, I, N, D), ReleaseInodeLeaves
<1>13. ReleaseFile(t, i) = ReleaseInode(v, i)
  BY <1>3, <1>6, <1>7, <1>9
<1>14. Freed(N[i], x, B, C)
  <2>1. N_DIRECT > 0
    BY Constants
  <2>. QED
    BY <1>1, <1>4, <1>8, <2>1 DEF FreedBelow, Freed
<1>. QED
  <2>1. PICK m \in Nat : m = (n + 1) + 2
    BY <1>10
  <2>2. Leaves(ReleaseFile(t, i), h, m, C, I \ {i}, [N EXCEPT ![i] = x], E)
    BY <1>9, <1>12, <1>13, <2>1
  <2>. QED
    BY ONLY <1>4, <1>14, <2>1, <2>2

LEMMA UnlinkKeeps ==
    ASSUME NEW k, IInv(k), NamesFit, Fits(k), NEW path \in Paths, Unlink(path)
    PROVE  IInv(k)'
<1>1. PICK B, I, N, D : Shows(disk, B, I, N, D) /\ Sound(B, I, N, D, k)
  BY DEF IInv, SoundDisk
<1>2. PICK p, ino, nm, y, t : /\ p = Parent(disk, path) /\ ino = Resolve(disk, path) /\ nm = Last(path)
                              /\ y = Inode(disk, ino) /\ t = RemoveEntry(Begun, p, nm)
  OBVIOUS
<1>3. PICK u : u = IF y.links <= 1 THEN ReleaseFile(t, ino)
                   ELSE WriteInode(t, ino, [y EXCEPT !.links = @ - 1])
  OBVIOUS
<1>4. ino # Nowhere /\ y.mode # "dir" /\ Done(u, fds)
  BY <1>2, <1>3, Zenon DEF Unlink
<1>5. /\ ino \in Inodes /\ p \in Inodes /\ nm \in Names /\ N[p].mode = "dir"
      /\ [name |-> nm, ino |-> ino] \in In(N, D, p) /\ UniqueNames(In(N, D, p))
  BY <1>1, <1>2, <1>4, FoundName
<1>6. y = N[ino] /\ y \in Node
  BY <1>1, <1>2, <1>5, ShowsInode
<1>7. IsView(B, I, N, D) /\ BlocksRight(B, N, D, k) /\ Returned(B, N)
  BY <1>1 DEF Shows, Sound
<1>8. PICK E : E = [D EXCEPT ![N[p].block[0]] = Dir(Without(In(N, D, p), nm))]
  OBVIOUS
<1>9. Leaves(t, disk, 1, B, I, N, E)
  <2>1. Leaves(Begun, disk, 0, B, I, N, D)
    BY <1>1, BegunLeaves DEF IInv
  <2>2. 0 \in Nat /\ 0 + 1 = 1 /\ 0 < JNL_BUF
    BY Constants
  <2>3. \E e \in In(N, D, p) : e.name = nm
    BY <1>5, Entry
  <2>4. Leaves(RemoveEntry(Begun, p, nm), disk, 0 + 1, B, I, N, E)
    BY ONLY <1>1, <1>5, <1>7, <1>8, <2>1, <2>2, <2>3, RemoveLeaves
  <2>. QED
    BY <1>2, <2>2, <2>4
<1>10. Removed(N, D, p, nm, E)
  <2>1. N[p].block[0] \in 1 .. NBlocks
    BY <1>1, <1>5, <1>7, ReadsDir
  <2>. QED
    BY <1>7, <1>8, <2>1 DEF Removed, IsView
<1>11. \E n, C, J, M : Leaves(u, disk, n, C, J, M, E) /\ Sound(C, J, M, E, k)
  <2>1. CASE y.links <= 1
    <3>0. PICK n \in Nat, x \in Node : \E C :
              /\ x.size = 0 /\ Freed(N[ino], x, B, C)
              /\ Leaves(ReleaseFile(t, ino), disk, n, C, I \ {ino}, [N EXCEPT ![ino] = x], E)
      BY ONLY Fits(k), <1>1, <1>5, <1>6, <1>7, <1>9, <2>1, ReleaseFileLeaves
    <3>1. PICK C :
              /\ x.size = 0 /\ Freed(N[ino], x, B, C)
              /\ Leaves(ReleaseFile(t, ino), disk, n, C, I \ {ino}, [N EXCEPT ![ino] = x], E)
      BY <3>0
    <3>2. PICK J : J = I \ {ino}
      OBVIOUS
    <3>3. x.size <= MaxOffset /\ N[ino].mode # "dir"
      BY <1>4, <1>6, <3>1, Constants
    <3>4. \/ OneLess(N[ino], x) /\ C = B /\ J = I
          \/ Freed(N[ino], x, B, C) /\ J = I \ {ino}
      BY <3>1, <3>2
    <3>5. Sound(C, J, [N EXCEPT ![ino] = x], E, k)
      BY ONLY NamesFit, <1>1, <1>5, <1>7, <1>10, <3>3, <3>4, x \in Node, SoundDropped
    <3>6. u = ReleaseFile(t, ino)
      BY <1>3, <2>1
    <3>. QED
      BY <3>1, <3>2, <3>5, <3>6
  <2>2. CASE ~(y.links <= 1)
    <3>1. PICK x : x = [y EXCEPT !.links = @ - 1]
      OBVIOUS
    <3>2. /\ x \in Node /\ OneLess(N[ino], x) /\ x.size = N[ino].size
      BY <1>6, <2>2, <3>1 DEF Node, OneLess
    <3>3. x.size <= MaxOffset /\ N[ino].mode # "dir"
      BY <1>4, <1>5, <1>6, <1>7, <3>2 DEF BlocksRight, Held
    <3>4. Sound(B, I, [N EXCEPT ![ino] = x], E, k)
      <4>1. PICK C, J : C = B /\ J = I
        OBVIOUS
      <4>2. \/ OneLess(N[ino], x) /\ C = B /\ J = I
            \/ Freed(N[ino], x, B, C) /\ J = I \ {ino}
        BY <3>2, <4>1
      <4>3. Sound(C, J, [N EXCEPT ![ino] = x], E, k)
        BY ONLY NamesFit, <1>1, <1>5, <1>7, <1>10, <3>2, <3>3, <4>2, SoundDropped
      <4>. QED
        BY <4>1, <4>3
    <3>5. u = WriteInode(t, ino, x)
      BY <1>3, <2>2, <3>1
    <3>6. 1 \in Nat /\ 1 < JNL_BUF
      BY Constants DEF Fits
    <3>7. Leaves(u, disk, 1 + 1, B, I, [N EXCEPT ![ino] = x], E)
      BY ONLY <1>1, <1>5, <1>9, <3>2, <3>5, <3>6, WriteInodeLeaves
    <3>. QED
      BY <3>4, <3>7
  <2>. QED
    BY <2>1, <2>2
<1>12. PICK n, C, J, M : Leaves(u, disk, n, C, J, M, E) /\ Sound(C, J, M, E, k)
  BY <1>11
<1>13. Gathers(u, disk, n) /\ SoundDisk(Committed(u), k)
  BY <1>12 DEF Leaves, SoundDisk
<1>14. SoundDisk(disk, k) /\ FilesRight(fds)
  BY DEF IInv
<1>. QED
  BY <1>4, <1>13, <1>14, DoneKeeps

-----------------------------------------------------------------------------
(* A file is written.                                                      *)

\* What a transaction leaves does not depend on the file.
LEMMA Refiled ==
    ASSUME NEW t, NEW h, NEW n, NEW bb, NEW ib, NEW N, NEW D, Leaves(t, h, n, bb, ib, N, D),
           NEW u, IsTransaction(u), u.disk = t.disk, u.buf = t.buf, u.bgd = t.bgd
    PROVE  Leaves(u, h, n, bb, ib, N, D)
<1>1. Committed(u) = Committed(t)
  BY DEF Committed
<1>. QED
  BY <1>1 DEF Leaves, Gathers

\* The transaction t on another disk.
OnDisk(t, g) == [t EXCEPT !.disk = g]

LEMMA OnDiskIs ==
    ASSUME NEW t, IsTransaction(t), NEW g
    PROVE  /\ IsTransaction(OnDisk(t, g)) /\ OnDisk(t, g).disk = g /\ OnDisk(t, g).buf = t.buf
           /\ OnDisk(t, g).bgd = t.bgd /\ SameFile(t, OnDisk(t, g))
BY DEF IsTransaction, OnDisk, SameFile

LEMMA SameTransaction ==
    ASSUME NEW t, NEW u, IsTransaction(t), IsTransaction(u), t.disk = u.disk, t.buf = u.buf,
           t.bgd = u.bgd, SameFile(t, u)
    PROVE  t = u
BY DEF IsTransaction, SameFile

\* What the list takes does not depend on the disk.
LEMMA JournalledOn ==
    ASSUME NEW t, IsTransaction(t), NEW g, NEW b, NEW v
    PROVE  /\ Journalled(OnDisk(t, g), b, v) = OnDisk(Journalled(t, b, v), g)
           /\ IsTransaction(Journalled(t, b, v)) /\ Journalled(t, b, v).bgd = t.bgd
           /\ Journalled(t, b, v).disk = t.disk
<1>1. PICK s : s = Append(t.buf, [blk |-> b, val |-> v])
  OBVIOUS
<1>2. PICK u : u = OnDisk(t, g)
  OBVIOUS
<1>3. /\ IsTransaction(u) /\ u.disk = g /\ u.buf = t.buf /\ u.bgd = t.bgd
      /\ SameFile(t, u)
  BY <1>2, OnDiskIs
<1>4. /\ Journalled(t, b, v) = IF Len(t.buf) >= JNL_BUF THEN t ELSE [t EXCEPT !.buf = s]
      /\ Journalled(u, b, v) = IF Len(t.buf) >= JNL_BUF THEN u ELSE [u EXCEPT !.buf = s]
  BY <1>1, <1>3 DEF Journalled
<1>5. PICK q, r : q = [t EXCEPT !.buf = s] /\ r = [u EXCEPT !.buf = s]
  OBVIOUS
<1>6. IsTransaction(q) /\ q.bgd = t.bgd /\ q.disk = t.disk /\ q.buf = s /\ SameFile(t, q)
  BY <1>5 DEF IsTransaction, SameFile
<1>7. IsTransaction(r) /\ r.bgd = t.bgd /\ r.disk = g /\ r.buf = s /\ SameFile(u, r)
  BY <1>3, <1>5 DEF IsTransaction, SameFile
<1>8. r = OnDisk(q, g)
  <2>1. PICK w : w = OnDisk(q, g)
    OBVIOUS
  <2>2. IsTransaction(w) /\ w.disk = g /\ w.buf = q.buf /\ w.bgd = q.bgd /\ SameFile(q, w)
    BY <1>6, <2>1, OnDiskIs
  <2>3. SameFile(r, w)
    BY <1>3, <1>6, <1>7, <2>2 DEF SameFile
  <2>4. r = w
    BY <1>6, <1>7, <2>2, <2>3, SameTransaction
  <2>. QED
    BY <2>1, <2>4
<1>. QED
  BY <1>2, <1>4, <1>5, <1>6, <1>8

\* A block that is cleared before or after it is taken is the same.
LEMMA ClearedTaken ==
    ASSUME NEW t, IsTransaction(t), t.bgd \in Counts, NEW B, NEW I, NEW N, NEW D,
           Shows(t.disk, B, I, N, D), NEW b
    PROVE  Cleared(TakeBlock(t, b), b) = TakeBlock(Cleared(t, b), b)
<1>1. PICK h, g : h = t.disk /\ g = Put(h, Data(b), Zeroed)
  OBVIOUS
<1>2. g[BlockBitmap] = h[BlockBitmap] /\ IsDisk(h)
  BY <1>1 DEF Shows, IsDisk, Put, Blocks, Data, BlockBitmap
<1>3. ASSUME NEW u, IsTransaction(u), u.disk = h PROVE Cleared(u, b) = OnDisk(u, g)
  BY <1>1, <1>3 DEF IsTransaction, Cleared, OnDisk, Put
<1>4. PICK c, v : c = [t.bgd EXCEPT !.free_blocks = @ - 1] /\ v = h[BlockBitmap] \cup {b}
  OBVIOUS
<1>5. PICK z : z = Cleared(t, b)
  OBVIOUS
<1>6. z = OnDisk(t, g) /\ IsTransaction(z) /\ z.disk = g /\ z.bgd = t.bgd
  BY <1>1, <1>3, <1>5, OnDiskIs
<1>7. PICK q, r : q = Journalled(t, BlockBitmap, v) /\ r = Journalled(z, BlockBitmap, v)
  OBVIOUS
<1>8. /\ r = OnDisk(q, g) /\ IsTransaction(q) /\ q.bgd = t.bgd /\ q.disk = h
      /\ IsTransaction(r) /\ r.bgd = t.bgd /\ r.disk = g
  BY <1>1, <1>6, <1>7, JournalledOn, OnDiskIs
<1>9. PICK s, w : s = Recount(q, c) /\ w = Recount(r, c)
  OBVIOUS
<1>10. /\ IsTransaction(s) /\ s.bgd = c /\ s.disk = h
       /\ IsTransaction(w) /\ w = OnDisk(s, g) /\ w.bgd = c
  <2>1. IsTransaction(s) /\ s.bgd = c /\ s.disk = h /\ s.buf = q.buf /\ SameFile(q, s)
    BY <1>8, <1>9 DEF IsTransaction, Recount, SameFile
  <2>2. IsTransaction(w) /\ w.bgd = c /\ w.disk = g /\ w.buf = r.buf /\ SameFile(r, w)
    BY <1>8, <1>9 DEF IsTransaction, Recount, SameFile
  <2>3. r.buf = q.buf /\ SameFile(q, r)
    BY <1>8, OnDiskIs
  <2>4. PICK o : o = OnDisk(s, g)
    OBVIOUS
  <2>5. IsTransaction(o) /\ o.disk = g /\ o.buf = s.buf /\ o.bgd = c /\ SameFile(s, o)
    BY <2>1, <2>4, OnDiskIs
  <2>6. SameFile(w, o)
    BY <2>1, <2>2, <2>3, <2>5 DEF SameFile
  <2>7. w = o
    BY <2>1, <2>2, <2>3, <2>5, <2>6, SameTransaction
  <2>. QED
    BY <2>1, <2>2, <2>4, <2>7
<1>11. TakeBlock(t, b) = Journalled(s, BgdTable, c)
  <2>1. s = [q EXCEPT !.bgd.free_blocks = @ - 1]
    BY <1>4, <1>8, <1>9 DEF Recount, IsTransaction
  <2>. QED
    <3>1. q = Journalled(t, BlockBitmap, t.disk[BlockBitmap] \cup {b})
      BY <1>1, <1>4, <1>7
    <3>2. TakeBlock(t, b) = WriteBgd(s)
      BY ONLY <2>1, <3>1 DEF TakeBlock
    <3>. QED
      BY <1>10, <3>2 DEF WriteBgd
<1>12. TakeBlock(z, b) = Journalled(w, BgdTable, c)
  <2>1. w = [r EXCEPT !.bgd.free_blocks = @ - 1]
    BY <1>4, <1>8, <1>9 DEF Recount, IsTransaction
  <2>. QED
    <3>1. r = Journalled(z, BlockBitmap, z.disk[BlockBitmap] \cup {b})
      BY <1>2, <1>4, <1>6, <1>7
    <3>2. TakeBlock(z, b) = WriteBgd(w)
      BY ONLY <2>1, <3>1 DEF TakeBlock
    <3>. QED
      BY <1>10, <3>2 DEF WriteBgd
<1>13. PICK y : y = Journalled(s, BgdTable, c)
  OBVIOUS
<1>14. Journalled(w, BgdTable, c) = OnDisk(y, g) /\ IsTransaction(y) /\ y.disk = h
  BY <1>10, <1>13, JournalledOn
<1>15. Cleared(y, b) = OnDisk(y, g)
  BY <1>3, <1>14
<1>. QED
  BY <1>5, <1>11, <1>12, <1>13, <1>14, <1>15

\* A write stays in one block, and so ends after one turn of the loop.
LEMMA OneChunk ==
    ASSUME NEW k, Fits(k), NEW offset \in Nat, NEW len \in 1 .. BS, offset + len <= MaxOffset
    PROVE  /\ offset \div BS \in 0 .. k - 1 /\ offset \div BS \in Places
           /\ Min({len, BS - (offset % BS)}) = len
<1>1. PICK q, r : q = offset \div BS /\ r = offset % BS
  OBVIOUS
<1>2. BS \in Nat \ {0} /\ k \in Nat /\ k \in 1 .. N_DIRECT /\ MaxOffset \in Nat /\ BS * k \in Nat
  BY Constants DEF Fits
<1>3. r \in 0 .. BS - 1 /\ q \in Int /\ offset = BS * q + r
  BY <1>1, <1>2, DivMod
<1>4. q < k
  <2>1. ASSUME ~(q < k) PROVE FALSE
    <3>1. q = k \/ k < q
      BY <1>2, <1>3, <2>1
    <3>2. BS * k <= BS * q
      <4>1. CASE q = k
        BY <1>2, <4>1
      <4>2. CASE k < q
        <5>1. BS * k + BS <= BS * q
          BY <1>2, <1>3, <4>2, Quot
        <5>2. BS * q \in Int
          BY <1>2, <1>3
        <5>. QED
          BY <1>2, <5>1, <5>2
      <4>. QED
        BY <3>1, <4>1, <4>2
    <3>3. BS * q \in Int
      BY <1>2, <1>3
    <3>4. MaxOffset <= BS * k
      BY DEF Fits
    <3>. QED
      BY <1>2, <1>3, <3>2, <3>3, <3>4
  <2>. QED
    BY <2>1
<1>5. 0 <= q
  <2>1. ASSUME q < 0 PROVE FALSE
    <3>1. BS * q + BS <= BS * 0
      BY <1>2, <1>3, <2>1, Quot
    <3>2. BS * q \in Int /\ BS * 0 = 0
      BY <1>2, <1>3
    <3>. QED
      BY <1>2, <1>3, <3>1, <3>2
  <2>. QED
    BY <1>3, <2>1
<1>6. len <= BS - r
  <2>1. CASE BS = 1
    BY <1>3, <2>1
  <2>2. CASE BS # 1
    <3>1. offset + len <= BS
      BY <1>2, <2>2 DEF Fits
    <3>2. BS * q \in Nat
      BY <1>2, <1>3, <1>5
    <3>. QED
      BY <1>2, <1>3, <3>1, <3>2
  <2>. QED
    BY <2>1, <2>2
<1>7. Min({len, BS - r}) = len
  <2>1. PICK S : S = {len, BS - r}
    OBVIOUS
  <2>2. S \in SUBSET Nat /\ S # {}
    BY <1>2, <1>3, <2>1
  <2>3. Min(S) \in S /\ \A y \in S : Min(S) <= y
    BY ONLY <2>2, LeastIs
  <2>. QED
    BY <1>2, <1>3, <1>6, <2>1, <2>3
<1>8. q \in 0 .. k - 1 /\ q \in Places
  BY <1>2, <1>3, <1>4, <1>5, Constants DEF Places
<1>. QED
  BY <1>1, <1>7, <1>8

LEMMA GreatestIs ==
    ASSUME NEW a \in Nat, NEW b \in Nat, NEW m, m = Max({a, b})
    PROVE  m = a \/ m = b
<1>1. \E x \in {a, b} : \A y \in {a, b} : x >= y
  BY a >= b \/ b >= a, a >= a, b >= b
<1>. QED
  BY <1>1 DEF Max

\* The transaction w writes the file i, and what it leaves is right when the
\* inode of w is written too; so is the disk that it is for.
Fills(w, i, k) ==
    \E h, n, B, I, N, D, C, E :
      /\ n \in Nat /\ n < JNL_BUF /\ Leaves(w, h, n, C, I, N, E)
      /\ Shows(h, B, I, N, D) /\ Sound(B, I, N, D, k) /\ w.inode \in Node
      /\ Sound(C, I, [N EXCEPT ![i] = w.inode], E, k)

\* The file of t has the block b at the place n; t writes no more.
Pointing(t, n, b) == [t EXCEPT !.inode.block[n] = b]
Stopped(t) == [t EXCEPT !.left = 0]

LEMMA ChunkFills ==
    ASSUME NEW k, Fits(k), "write" \in Calls,
           NEW B, NEW I, NEW N, NEW D, Shows(disk, B, I, N, D), Sound(B, I, N, D, k),
           NEW i \in Inodes, N[i].mode # "dir", NEW t, Leaves(t, disk, 0, B, I, N, D),
           t.inode = N[i], t.left \in 1 .. BS, t.offset \in Nat,
           t.offset + t.left <= MaxOffset, NEW w, w = WriteChunk(t)
    PROVE  w.left = 0 /\ w.offset \in {t.offset, t.offset + t.left} /\ Fills(w, i, k)
<1>1. PICK n, len : n = t.offset \div BS /\ len = t.left
  OBVIOUS
<1>2. /\ n \in 0 .. k - 1 /\ n \in Places /\ n < N_DIRECT
      /\ Min({len, BS - (t.offset % BS)}) = len /\ len \in 1 .. BS
  <2>1. /\ n \in 0 .. k - 1 /\ n \in Places /\ Min({len, BS - (t.offset % BS)}) = len
    BY ONLY <1>1, Fits(k), t.left \in 1 .. BS, t.offset \in Nat,
       t.offset + t.left <= MaxOffset, OneChunk
  <2>. QED
    BY <1>1, <2>1, Constants DEF Places
<1>3. PICK there : there = t.inode.block[n]
  OBVIOUS
<1>4. PICK b : b = IF there # Nowhere THEN there ELSE FreeBlock(t)
  OBVIOUS
<1>5. PICK u : u = IF there # Nowhere THEN t
                   ELSE Pointing(Cleared(TakeBlock(t, b), b), n, b)
  OBVIOUS
<1>6. PICK j : j = Journalled(u, Data(b), FileData)
  OBVIOUS
<1>7. w = IF b = Nowhere THEN Stopped(t)
          ELSE Advanced(j, len)
  <2>1. PICK c : c = Min({t.left, BS - (t.offset % BS)})
    OBVIOUS
  <2>2. c = len /\ t.left # 0
    BY <1>1, <1>2, <2>1
  <2>3. w = IF b = Nowhere THEN Stopped(t)
            ELSE Advanced(j, c)
    <3>1. GetBlock(t.disk, t.inode, n) = there
      BY <1>2, <1>3 DEF GetBlock
    <3>2. u = IF there # Nowhere THEN t ELSE SetBlock(Cleared(TakeBlock(t, b), b), n, b)
      BY <1>2, <1>5 DEF SetBlock, Pointing
    <3>. QED
      BY ONLY <1>1, <1>4, <1>6, <2>1, <2>2, <3>1, <3>2, w = WriteChunk(t) DEF WriteChunk, Stopped
  <2>. QED
    BY <2>2, <2>3
<1>8. IsView(B, I, N, D) /\ N[i] \in Node /\ Held(N[i], D, B, k) /\ N[i].size <= MaxOffset
  BY DEF Shows, IsView, Sound, BlocksRight, Held
<1>9. IsTransaction(t) /\ t.disk = disk /\ t.bgd \in Counts
  BY DEF Leaves, Gathers
<1>10. there \in 0 .. NBlocks /\ (there # Nowhere => there \in B)
  BY <1>2, <1>3, <1>8 DEF Node, Held
<1>11. CASE b = Nowhere
  <2>1. w = Stopped(t)
    BY <1>7, <1>11
  <2>2. /\ IsTransaction(w) /\ w.disk = t.disk /\ w.buf = t.buf /\ w.bgd = t.bgd
        /\ w.inode = N[i] /\ w.left = 0 /\ w.offset = t.offset
    BY <1>9, <2>1 DEF IsTransaction, Stopped
  <2>3. Leaves(w, disk, 0, B, I, N, D)
    BY <2>2, Refiled
  <2>4. [N EXCEPT ![i] = w.inode] = N
    BY <1>8, <2>2 DEF IsView
  <2>5. 0 \in Nat /\ 0 < JNL_BUF /\ Sound(B, I, [N EXCEPT ![i] = w.inode], D, k)
    BY <2>4, Constants
  <2>6. w.inode \in Node
    BY <1>8, <2>2
  <2>. QED
    BY <2>2, <2>3, <2>5, <2>6 DEF Fills
<1>12. CASE b # Nowhere
  <2>1. PICK y : y = u.inode
    OBVIOUS
  <2>2. \E h, m, C, G :
          /\ m \in Nat /\ m + 1 < JNL_BUF /\ Leaves(u, h, m, C, I, N, G) /\ C = B \cup {b}
          /\ Shows(h, B, I, N, G) /\ Sound(B, I, N, G, k)
          /\ y \in Node /\ y.mode = N[i].mode /\ y.links = N[i].links /\ y.size = N[i].size
          /\ y.block = [N[i].block EXCEPT ![n] = b]
          /\ \A c \in B : G[c] = D[c]
          /\ b \in 1 .. NBlocks
          /\ \/ N[i].block[n] = b
             \/ N[i].block[n] = Nowhere /\ b \notin B
          /\ u.left = len /\ u.offset = t.offset
    <3>1. CASE there # Nowhere
      <4>1. u = t /\ b = there /\ y = N[i] /\ b \in B
        BY <1>4, <1>5, <1>10, <2>1, <3>1
      <4>2. B = B \cup {b} /\ b \in 1 .. NBlocks /\ N[i].block[n] = b
        BY <1>3, <1>8, <4>1 DEF IsView
      <4>3. y.block = [N[i].block EXCEPT ![n] = b]
        BY <1>2, <1>8, <4>1, <4>2 DEF Node
      <4>4. PICK m, C : m = 0 /\ C = B
        OBVIOUS
      <4>5. m \in Nat /\ m + 1 < JNL_BUF /\ Leaves(u, disk, m, C, I, N, D) /\ C = B \cup {b}
        BY <4>1, <4>2, <4>4, Constants DEF Fits
      <4>. QED
        BY <1>1, <1>8, <4>1, <4>2, <4>3, <4>5
    <3>2. CASE there = Nowhere
      <4>1. PICK z, g, G : z = Cleared(t, b) /\ g = Put(disk, Data(b), Zeroed) /\ G = [D EXCEPT ![b] = Zeroed]
        OBVIOUS
      <4>2. b \in 1 .. NBlocks /\ b \notin B /\ t.bgd.free_blocks # 0
        BY <1>4, <1>9, <1>12, <3>2, FreeBlockIs DEF Shows
      <4>3. Zeroed \in Contents
        BY DEF Contents
      <4>4. Shows(g, B, I, N, G)
        BY <4>1, <4>2, <4>3, PutData
      <4>5. /\ IsTransaction(z) /\ z.disk = g /\ z.buf = t.buf /\ z.bgd = t.bgd
            /\ SameFile(t, z)
        BY <1>9, <4>1 DEF IsTransaction, Cleared, Put, SameFile
      <4>6. Leaves(z, g, 0, B, I, N, G)
        <5>1. Gathers(t, disk, 0)
          BY DEF Leaves
        <5>2. t.buf = << >>
          <6>1. PICK S : t.buf \in Seq(S) /\ Len(t.buf) = 0
            BY <5>1 DEF Gathers, LogsCounts
          <6>. QED
            BY <6>1, EmptySeq
        <5>3. Gathers(z, g, 0)
          BY <4>5, <5>1 DEF Gathers
        <5>4. Touched(<< >>) = {}
          BY DEF Touched
        <5>5. Written(g, << >>) = g
          <6>1. g = [c \in Blocks |-> g[c]]
            BY <4>4 DEF Shows, IsDisk
          <6>. QED
            BY <5>4, <6>1 DEF Written
        <5>6. Committed(z) = g
          BY <4>5, <5>2, <5>5 DEF Committed
        <5>. QED
          BY <4>4, <5>3, <5>6 DEF Leaves
      <4>7. PICK r : r = TakeBlock(z, b)
        OBVIOUS
      <4>8. Leaves(r, g, 2, B \cup {b}, I, N, G) /\ SameFile(z, r)
        <5>1. 0 \in Nat /\ 0 + 2 = 2 /\ 0 + 2 <= JNL_BUF
          BY Constants DEF Fits
        <5>2. z.bgd.free_blocks # 0
          BY <4>2, <4>5
        <5>3. Leaves(r, g, 0 + 2, B \cup {b}, I, N, G) /\ SameFile(z, r)
          BY ONLY <4>2, <4>4, <4>6, <4>7, <5>1, <5>2, TakeBlockLeaves
        <5>. QED
          BY <5>1, <5>3
      <4>9. r = Cleared(TakeBlock(t, b), b)
        BY <1>9, <4>1, <4>7, ClearedTaken
      <4>10. u = Pointing(r, n, b)
        BY <1>5, <3>2, <4>9
      <4>11. IsTransaction(r) /\ r.inode = N[i] /\ r.left = len /\ r.offset = t.offset
        BY <1>1, <4>5, <4>8 DEF Leaves, Gathers, SameFile
      <4>12. u = [r EXCEPT !.inode = [N[i] EXCEPT !.block[n] = b]]
        BY <4>10, <4>11 DEF Pointing, IsTransaction
      <4>13. PICK x : x = [N[i] EXCEPT !.block[n] = b]
        OBVIOUS
      <4>14. /\ IsTransaction(u) /\ u.disk = r.disk /\ u.buf = r.buf /\ u.bgd = r.bgd
             /\ u.inode = x /\ u.left = len /\ u.offset = t.offset
        BY <4>11, <4>12, <4>13 DEF IsTransaction
      <4>15. Leaves(u, g, 2, B \cup {b}, I, N, G)
        BY <4>8, <4>14, Refiled
      <4>16. /\ x \in Node /\ x.mode = N[i].mode /\ x.links = N[i].links /\ x.size = N[i].size
             /\ x.block = [N[i].block EXCEPT ![n] = b]
        BY <1>2, <1>8, <4>2, <4>13 DEF Node
      <4>17. \A c \in B : G[c] = D[c]
        BY <1>8, <4>1, <4>2 DEF IsView
      <4>18. Sound(B, I, N, G, k)
        BY ONLY Sound(B, I, N, D, k), <1>8, <4>17, SoundCleared
      <4>19. N[i].block[n] = Nowhere
        BY <1>3, <3>2
      <4>20. PICK m, C : m = 2 /\ C = B \cup {b}
        OBVIOUS
      <4>21. m \in Nat /\ m + 1 < JNL_BUF /\ Leaves(u, g, m, C, I, N, G)
        BY <4>15, <4>20, Constants DEF Fits
      <4>. QED
        BY ONLY <2>1, <4>2, <4>4, <4>14, <4>16, <4>17, <4>18, <4>19, <4>20, <4>21
    <3>. QED
      BY <3>1, <3>2
  <2>3. PICK h, m, C, G :
          /\ m \in Nat /\ m + 1 < JNL_BUF /\ Leaves(u, h, m, C, I, N, G) /\ C = B \cup {b}
          /\ Shows(h, B, I, N, G) /\ Sound(B, I, N, G, k)
          /\ y \in Node /\ y.mode = N[i].mode /\ y.links = N[i].links /\ y.size = N[i].size
          /\ y.block = [N[i].block EXCEPT ![n] = b]
          /\ \A c \in B : G[c] = D[c]
          /\ b \in 1 .. NBlocks
          /\ \/ N[i].block[n] = b
             \/ N[i].block[n] = Nowhere /\ b \notin B
          /\ u.left = len /\ u.offset = t.offset
    BY <2>2
  <2>4. PICK F : F = [G EXCEPT ![b] = FileData]
    OBVIOUS
  <2>5. Leaves(j, h, m + 1, C, I, N, F) /\ SameFile(u, j)
    <3>1. m < JNL_BUF /\ IsDisk(h) /\ FileData \in Contents /\ b \in 1 .. NBlocks /\ m \in Nat
      BY <2>3, Constants DEF Shows, Contents
    <3>. QED
      BY ONLY <1>6, <2>3, <2>4, <3>1, PutDataLeaves
  <2>6. IsTransaction(j) /\ j.inode = y /\ j.left = len /\ j.offset = t.offset
    BY <2>1, <2>3, <2>5 DEF SameFile, Leaves, Gathers
  <2>7. PICK size : size = Max({y.size, t.offset + len})
    OBVIOUS
  <2>8. size \in Nat /\ size <= MaxOffset
    <3>1. y.size \in Nat /\ t.offset + len \in Nat /\ y.size <= MaxOffset /\ t.offset + len <= MaxOffset
      BY <1>1, <1>2, <1>8, <2>3 DEF Node
    <3>2. size = y.size \/ size = t.offset + len
      BY ONLY <2>7, <3>1, GreatestIs
    <3>. QED
      BY <3>1, <3>2
  <2>9. PICK x : x = [y EXCEPT !.size = size]
    OBVIOUS
  <2>10. /\ IsTransaction(w) /\ w.disk = j.disk /\ w.buf = j.buf /\ w.bgd = j.bgd
         /\ w.left = 0 /\ w.offset = t.offset + len /\ w.inode = x
    <3>1. w = Advanced(j, len)
      BY <1>7, <1>12
    <3>2. w = [j EXCEPT !.left = len - len, !.offset = t.offset + len, !.inode = x]
      BY <2>6, <2>7, <2>9, <3>1 DEF Advanced, IsTransaction
    <3>3. len - len = 0
      BY <1>2
    <3>. QED
      BY <2>6, <3>2, <3>3 DEF IsTransaction
  <2>11. /\ x \in Node /\ x.mode = N[i].mode /\ x.links = N[i].links /\ x.size <= MaxOffset
         /\ x.block = [N[i].block EXCEPT ![n] = b]
    BY <2>3, <2>8, <2>9 DEF Node
  <2>12. Leaves(w, h, m + 1, C, I, N, F)
    BY <2>5, <2>10, Refiled
  <2>13. Sound(C, I, [N EXCEPT ![i] = x], F, k)
    <3>1. IsView(B, I, N, G)
      BY <2>3 DEF Shows
    <3>0. b \in 1 .. NBlocks /\ Sound(B, I, N, G, k) /\ C = B \cup {b}
      BY <2>3
    <3>2. Overwritten(B, b, G, F)
      <4>1. G \in [1 .. NBlocks -> Contents] /\ B \subseteq 1 .. NBlocks
        BY <3>1 DEF IsView
      <4>. QED
        BY ONLY <2>4, <3>0, <4>1 DEF Overwritten
    <3>3. n < k /\ n \in Places
      BY <1>2, Constants DEF Fits
    <3>4. \/ N[i].block[n] = b
          \/ N[i].block[n] = Nowhere /\ b \notin B
      BY <2>3
    <3>5. Sound(B \cup {b}, I, [N EXCEPT ![i] = x], F, k)
      BY ONLY "write" \in Calls, i \in Inodes, N[i].mode # "dir", <2>11, <3>0, <3>1, <3>2,
         <3>3, <3>4, SoundWritten DEF Repointed
    <3>. QED
      BY <3>0, <3>5
  <2>14. w.inode \in Node /\ Sound(C, I, [N EXCEPT ![i] = w.inode], F, k) /\ m + 1 \in Nat
    BY <2>3, <2>10, <2>11, <2>13
  <2>15. Fills(w, i, k)
    BY ONLY <2>3, <2>12, <2>14 DEF Fills
  <2>. QED
    BY <1>1, <2>10, <2>15
<1>. QED
  BY <1>11, <1>12

\* The turns of the loop after the first do nothing.
LEMMA AllTurns ==
    ASSUME NEW t, NEW w, w = WriteChunk(t), w.left = 0, NEW len \in Nat \ {0},
           NEW turn, turn = (CHOOSE g : g = [i \in 0 .. len |-> IF i = 0 THEN t ELSE WriteChunk(g[i - 1])])
    PROVE  turn[len] = w
<1>1. WriteChunk(w) = w
  BY DEF WriteChunk
<1>. DEFINE Is(g) == g = [i \in 0 .. len |-> IF i = 0 THEN t ELSE WriteChunk(g[i - 1])]
<1>2. PICK f : f = [i \in 0 .. len |-> IF i = 0 THEN t ELSE w]
  OBVIOUS
<1>3. Is(f)
  <2>1. ASSUME NEW i \in 0 .. len PROVE f[i] = IF i = 0 THEN t ELSE WriteChunk(f[i - 1])
    <3>1. CASE i = 0
      BY <1>2, <3>1
    <3>2. CASE i # 0
      <4>1. i - 1 \in 0 .. len /\ f[i] = w
        BY <1>2, <3>2
      <4>2. f[i - 1] = t \/ f[i - 1] = w
        BY <1>2, <4>1
      <4>3. WriteChunk(f[i - 1]) = w
        BY <1>1, <4>2
      <4>. QED
        BY <3>2, <4>1, <4>3
    <3>. QED
      BY <3>1, <3>2
  <2>2. f = [i \in 0 .. len |-> f[i]]
    BY <1>2
  <2>. QED
    BY <2>1, <2>2
<1>4. Is(turn)
  BY <1>3
<1>. HIDE DEF Is
<1>5. turn = [i \in 0 .. len |-> IF i = 0 THEN t ELSE WriteChunk(turn[i - 1])]
  BY <1>4 DEF Is
<1>6. turn[0] = t
  <2>1. 0 \in 0 .. len
    OBVIOUS
  <2>. QED
    BY <1>5, <2>1
<1>7. \A i \in 1 .. len : turn[i] = WriteChunk(turn[i - 1])
  <2>1. \A i \in 1 .. len : i \in 0 .. len /\ i # 0
    OBVIOUS
  <2>. QED
    BY <1>5, <2>1
<1>. DEFINE S == {i \in 0 .. len : i = 0 \/ turn[i] = w}
<1>8. 0 .. len \subseteq S
  <2>1. 0 \in S
    OBVIOUS
  <2>2. ASSUME NEW i \in 1 .. len, i - 1 \in S PROVE i \in S
    <3>1. turn[i - 1] = t \/ turn[i - 1] = w
      BY <1>6, <2>2
    <3>2. turn[i] = w
      BY <1>1, <1>7, <3>1
    <3>. QED
      BY <3>2
  <2>3. len \in Nat
    OBVIOUS
  <2>. HIDE DEF S
  <2>. QED
    BY ONLY <2>1, <2>2, <2>3, UpTo
<1>. QED
  BY <1>8

Offset(files, f, offset) == [files EXCEPT ![f].offset = offset]

LEMMA OffsetRight ==
    ASSUME NEW files, FilesRight(files), NEW f \in Fds, NEW offset \in 0 .. MaxOffset
    PROVE  FilesRight(Offset(files, f, offset))
<1>. DEFINE FdRec == [ino : {Nowhere} \cup Inodes, offset : 0 .. MaxOffset,
                      append : BOOLEAN, refs : 0 .. 2]
<1>1. PICK a, g : a = files[f] /\ g = Offset(files, f, offset)
  OBVIOUS
<1>2. PICK c : c = [a EXCEPT !.offset = offset]
  OBVIOUS
<1>3. files \in [Fds -> FdRec] /\ a \in FdRec
  BY <1>1 DEF FilesRight
<1>4. c \in FdRec /\ c.ino = a.ino /\ c.refs = a.refs
  BY <1>2, <1>3
<1>5. g = [files EXCEPT ![f] = c]
  <2>. HIDE DEF FdRec
  <2>. QED
    BY <1>1, <1>2, <1>3 DEF Offset
<1>6. g \in [Fds -> FdRec]
  <2>. HIDE DEF FdRec
  <2>. QED
    BY <1>3, <1>4, <1>5
<1>7. \A q \in Fds : g[q].refs > 0 => g[q].ino \in Inodes \ {ROOT}
  <2>. HIDE DEF FdRec
  <2>1. \A q \in Fds : g[q] = IF q = f THEN c ELSE files[q]
    BY <1>3, <1>5
  <2>. QED
    BY <1>1, <1>4, <2>1 DEF FilesRight
<1>. QED
  BY <1>1, <1>6, <1>7 DEF FilesRight

LEMMA WriteKeeps ==
    ASSUME NEW k, IInv(k), Fits(k), "mkdir" \notin Calls, NEW f \in Fds, NEW len \in 1 .. BS,
           Write(f, len)
    PROVE  IInv(k)'
<1>1. PICK B, I, N, D : Shows(disk, B, I, N, D) /\ Sound(B, I, N, D, k)
  BY DEF IInv, SoundDisk
<1>2. PICK ino, y, offset : /\ ino = fds[f].ino /\ y = Inode(disk, ino)
                            /\ offset = IF fds[f].append THEN y.size ELSE fds[f].offset
  OBVIOUS
<1>3. PICK t : t = [Begun EXCEPT !.inode = y, !.left = len, !.offset = offset]
  OBVIOUS
<1>4. PICK turn : turn = (CHOOSE g : g = [i \in 0 .. len |-> IF i = 0 THEN t ELSE WriteChunk(g[i - 1])])
  OBVIOUS
<1>5. PICK u : u = turn[len]
  OBVIOUS
<1>6. PICK v : v = WriteInode(u, ino, u.inode)
  OBVIOUS
<1>7. Leaves(Begun, disk, 0, B, I, N, D) /\ IsTransaction(Begun)
  BY <1>1, BegunLeaves DEF IInv, Leaves, Gathers
<1>8. /\ IsTransaction(t) /\ t.disk = Begun.disk /\ t.buf = Begun.buf /\ t.bgd = Begun.bgd
      /\ t.inode = y /\ t.left = len /\ t.offset = offset
  BY <1>3, <1>7 DEF IsTransaction
<1>9. /\ "write" \in Calls /\ fds[f].refs > 0 /\ t.offset + len <= MaxOffset
      /\ Done(v, Offset(fds, f, u.offset))
  <2>. DEFINE Y  == Inode(disk, fds[f].ino)
              T  == [Begun EXCEPT !.inode = Y, !.left = len,
                                  !.offset = IF fds[f].append THEN Y.size ELSE fds[f].offset]
              Tn == CHOOSE g : g = [i \in 0 .. len |-> IF i = 0 THEN T ELSE WriteChunk(g[i - 1])]
              U  == Tn[len]
  <2>1. /\ "write" \in Calls /\ fds[f].refs > 0 /\ T.offset + len <= MaxOffset
        /\ Done(WriteInode(U, fds[f].ino, U.inode), Offset(fds, f, U.offset))
    BY Zenon DEF Write, Asked, Offset
  <2>2. T = t
    BY <1>2, <1>3
  <2>. HIDE DEF T
  <2>3. U = u
    BY <1>4, <1>5, <2>2
  <2>. HIDE DEF U
  <2>. QED
    BY <1>2, <1>6, <2>1, <2>2, <2>3
<1>10. /\ ino \in Inodes \ {ROOT} /\ fds[f].offset \in 0 .. MaxOffset
       /\ FilesRight(fds)
  BY <1>2, <1>9 DEF IInv, FilesRight
<1>11. y = N[ino] /\ y \in Node
  BY <1>1, <1>2, <1>10, ShowsInode
<1>12. N[ino].mode # "dir"
  BY <1>1, <1>10 DEF Sound, OnlyRoot
<1>13. t.offset \in Nat /\ t.left \in 1 .. BS
  BY <1>2, <1>8, <1>10, <1>11, Constants DEF Node
<1>14. Leaves(t, disk, 0, B, I, N, D)
  BY <1>7, <1>8, Refiled
<1>15. PICK w : w = WriteChunk(t)
  OBVIOUS
<1>16. w.left = 0 /\ w.offset \in {t.offset, t.offset + t.left} /\ Fills(w, ino, k)
  <2>1. t.inode = N[ino] /\ ino \in Inodes /\ t.offset + t.left <= MaxOffset
    BY <1>8, <1>9, <1>10, <1>11
  <2>. QED
    BY ONLY Fits(k), <1>1, <1>9, <1>12, <1>13, <1>14, <1>15, <2>1, ChunkFills
<1>17. u = w
  <2>1. len \in Nat \ {0}
    BY Constants
  <2>2. turn[len] = w
    BY ONLY <1>4, <1>15, <1>16, <2>1, AllTurns
  <2>. QED
    BY <1>5, <2>2
<1>18. w.offset \in 0 .. MaxOffset
  BY <1>8, <1>9, <1>13, <1>16, Constants
<1>19. PICK h, n, B1, I1, N1, D1, C, E :
         /\ n \in Nat /\ n < JNL_BUF /\ Leaves(w, h, n, C, I1, N1, E)
         /\ Shows(h, B1, I1, N1, D1) /\ Sound(B1, I1, N1, D1, k) /\ w.inode \in Node
         /\ Sound(C, I1, [N1 EXCEPT ![ino] = w.inode], E, k)
  BY <1>16 DEF Fills
<1>20. PICK x : x = w.inode
  OBVIOUS
<1>21. Leaves(v, h, n + 1, C, I1, [N1 EXCEPT ![ino] = x], E)
  <2>1. v = WriteInode(w, ino, x) /\ ino \in Inodes
    BY <1>6, <1>10, <1>17, <1>20
  <2>. QED
    BY ONLY <1>19, <1>20, <2>1, WriteInodeLeaves
<1>22. Gathers(v, h, n + 1) /\ SoundDisk(Committed(v), k) /\ SoundDisk(h, k)
  BY ONLY <1>19, <1>20, <1>21 DEF Leaves, SoundDisk
<1>23. PICK files : files = Offset(fds, f, w.offset)
  OBVIOUS
<1>24. FilesRight(files) /\ Done(v, files)
  BY <1>9, <1>10, <1>17, <1>18, <1>23, OffsetRight
<1>. QED
  BY <1>22, <1>24, DoneKeeps

-----------------------------------------------------------------------------
(* Every step, and the first state.                                        *)

LEMMA OperationKeeps ==
    ASSUME NEW k, IInv(k), NamesFit, Fits(k), ~({"mkdir", "write"} \subseteq Calls), Operation
    PROVE  IInv(k)'
<1>1. ASSUME NEW path \in Paths, NEW f \in Fds, Create(path, f) PROVE IInv(k)'
  BY <1>1, CreateKeeps
<1>2. ASSUME NEW path \in Paths, NEW f \in Fds, NEW append \in BOOLEAN, Open(path, f, append)
      PROVE  IInv(k)'
  BY <1>2, OpenKeeps
<1>3. ASSUME NEW path \in Paths, Mkdir(path) \/ Symlink(path) \/ Unlink(path) PROVE IInv(k)'
  BY <1>3, MkdirKeeps, SymlinkKeeps, UnlinkKeeps
<1>4. ASSUME NEW path \in Paths, Refused(path) PROVE IInv(k)'
  <2>1. UNCHANGED <<disk, bgd, outages>> /\ FilesRight(fds')
    BY <1>4 DEF Refused, vars, IInv
  <2>. QED
    BY <2>1, SameDisk
<1>5. ASSUME NEW path \in Paths, NEW new \in Paths, Link(path, new) PROVE IInv(k)'
  BY <1>5, LinkKeeps
<1>6. ASSUME NEW f \in Fds, Close(f) \/ AddRef(f) \/ \E offset \in 0 .. MaxOffset - 1 : Seek(f, offset)
      PROVE  IInv(k)'
  BY <1>6, CloseKeeps
<1>7. ASSUME NEW f \in Fds, NEW len \in 1 .. BS, Write(f, len) PROVE IInv(k)'
  <2>1. "write" \in Calls
    BY <1>7 DEF Write, Asked
  <2>2. "mkdir" \notin Calls
    BY <2>1
  <2>. QED
    BY <1>7, <2>2, WriteKeeps
<1>. QED
  BY <1>1, <1>2, <1>3, <1>4, <1>5, <1>6, <1>7 DEF Operation

LEMMA NextKeeps ==
    ASSUME NEW k, IInv(k), NamesFit, Fits(k), ~({"mkdir", "write"} \subseteq Calls), [Next]_vars
    PROVE  IInv(k)'
<1>1. CASE Operation
  BY <1>1, OperationKeeps
<1>2. CASE PowerFail
  <2>1. Outage /\ bgd' = disk[BgdTable] /\ disk' = disk
    BY <1>2 DEF PowerFail
  <2>2. SoundDisk(disk', k) /\ bgd' \in Counts
    BY <2>1, SoundDiskIs DEF IInv
  <2>. QED
    BY <2>1, <2>2, OutageKeeps
<1>3. CASE UNCHANGED vars
  <2>1. UNCHANGED <<disk, bgd, outages>> /\ FilesRight(fds')
    BY <1>3 DEF vars, IInv
  <2>. QED
    BY <2>1, SameDisk
<1>. QED
  BY <1>1, <1>2, <1>3 DEF Next

\* What mkfs leaves.
FirstInodes == [i \in Inodes |-> IF i = ROOT THEN OneBlock("dir", 2, 1, BS) ELSE NoInode]
FirstData   == [n \in 1 .. NBlocks |-> IF n = 1 THEN Dir({}) ELSE Zeroed]

LEMMA FirstShows ==
    ASSUME Init
    PROVE  Shows(disk, {1}, {ROOT}, FirstInodes, FirstData)
<1>1. IsDisk(disk)
  BY DEF Init, IsDisk
<1>. DEFINE Table(b) == [j \in InTable(b) |-> IF j = ROOT THEN OneBlock("dir", 2, 1, BS) ELSE NoInode]
<1>20. ASSUME NEW b \in Blocks
      PROVE  disk[b] = CASE b = BgdTable         -> [free_blocks |-> NBlocks - 1, free_inodes |-> NInodes - 1]
                         [] b = BlockBitmap      -> {1}
                         [] b = InodeBitmap      -> {ROOT}
                         [] b[1] = "inode_table" -> Table(b)
                         [] b = Data(1)          -> Dir({})
                         [] OTHER                -> Zeroed
  BY DEF Init, InTable, OneBlock
<1>21. /\ BgdTable \in Blocks /\ BlockBitmap \in Blocks /\ InodeBitmap \in Blocks
      /\ BgdTable # BlockBitmap /\ BgdTable # InodeBitmap /\ BlockBitmap # InodeBitmap
      /\ BgdTable[1] # "inode_table" /\ BlockBitmap[1] # "inode_table" /\ InodeBitmap[1] # "inode_table"
      /\ BgdTable # Data(1) /\ BlockBitmap # Data(1) /\ InodeBitmap # Data(1)
  BY DEF Blocks, BgdTable, BlockBitmap, InodeBitmap, Data
<1>22. ASSUME NEW i \in Inodes
      PROVE  /\ InodeTable(i) \in Blocks /\ InodeTable(i)[1] = "inode_table"
             /\ InodeTable(i) # BgdTable /\ InodeTable(i) # BlockBitmap /\ InodeTable(i) # InodeBitmap
             /\ InodeTable(i) # Data(1)
  BY DEF Blocks, InodeTable, BgdTable, BlockBitmap, InodeBitmap, Data
<1>23. ASSUME NEW n \in 1 .. NBlocks
      PROVE  /\ Data(n) \in Blocks /\ Data(n)[1] # "inode_table" /\ (Data(n) = Data(1) <=> n = 1)
             /\ Data(n) # BgdTable /\ Data(n) # BlockBitmap /\ Data(n) # InodeBitmap
  BY DEF Blocks, Data, BgdTable, BlockBitmap, InodeBitmap
<1>2. /\ disk[BgdTable] = [free_blocks |-> NBlocks - 1, free_inodes |-> NInodes - 1]
      /\ disk[BlockBitmap] = {1} /\ disk[InodeBitmap] = {ROOT}
  <2>. HIDE DEF Table
  <2>1. disk[BgdTable] = [free_blocks |-> NBlocks - 1, free_inodes |-> NInodes - 1]
    BY ONLY <1>20, <1>21
  <2>2. disk[BlockBitmap] = {1}
    BY ONLY <1>20, <1>21
  <2>3. disk[InodeBitmap] = {ROOT}
    BY ONLY <1>20, <1>21
  <2>. QED
    BY <2>1, <2>2, <2>3
<1>3. disk[BgdTable] \in Counts
  BY <1>2, Constants DEF Counts
<1>4. ASSUME NEW i \in Inodes PROVE disk[InodeTable(i)] = Table(InodeTable(i))
  <2>. HIDE DEF Table
  <2>1. PICK b \in Blocks : b = InodeTable(i)
    BY <1>22
  <2>. QED
    BY ONLY <1>20, <1>22, <2>1
<1>5. ASSUME NEW n \in 1 .. NBlocks PROVE disk[Data(n)] = IF n = 1 THEN Dir({}) ELSE Zeroed
  <2>. HIDE DEF Table
  <2>1. PICK b \in Blocks : b = Data(n)
    BY <1>23
  <2>. QED
    BY ONLY <1>20, <1>23, <2>1
<1>6. 1 \in 0 .. NBlocks /\ BS \in Nat /\ 1 \in 1 .. NBlocks
  BY Constants
<1>7. OneBlock("dir", 2, 1, BS) \in Node
  BY ONLY <1>6, NewInodeWith, "dir" \in Modes, 2 \in Nat DEF Modes
<1>8. FirstInodes \in [Inodes -> Node]
  BY <1>7, NodeIs DEF FirstInodes
<1>9. TableShows(disk, FirstInodes)
  <2>1. ASSUME NEW i \in Inodes
        PROVE  Table(InodeTable(i)) = [j \in InTable(InodeTable(i)) |-> FirstInodes[j]]
    BY DEF FirstInodes, InTable
  <2>. QED
    BY <1>4, <2>1 DEF TableShows
<1>10. FirstData \in [1 .. NBlocks -> Contents] /\ DataShows(disk, FirstData)
  BY <1>5 DEF FirstData, DataShows, Contents
<1>11. {1} \subseteq 1 .. NBlocks /\ {ROOT} \subseteq Inodes
  BY <1>6, RootIsInode
<1>. QED
  BY <1>1, <1>2, <1>3, <1>8, <1>9, <1>10, <1>11 DEF Shows, IsView

LEMMA FirstSound ==
    ASSUME NEW k \in 1 .. N_DIRECT
    PROVE  Sound({1}, {ROOT}, FirstInodes, FirstData, k)
<1>1. PICK N, D : N = FirstInodes /\ D = FirstData
  OBVIOUS
<1>2. PICK x : x = OneBlock("dir", 2, 1, BS)
  OBVIOUS
<1>3. 1 \in 0 .. NBlocks /\ BS \in Nat /\ 1 \in 1 .. NBlocks /\ 0 \in Places /\ ROOT \in Inodes /\ 0 < k
  BY Constants, FirstPlace, RootIsInode
<1>4. /\ x \in Node /\ x.mode = "dir" /\ x.links = 2 /\ x.size = BS
      /\ \A q \in Places : x.block[q] = IF q = 0 THEN 1 ELSE Nowhere
  BY ONLY <1>2, <1>3, NewInodeWith, "dir" \in Modes, 2 \in Nat DEF Modes
<1>5. N[ROOT] = x /\ \A i \in Inodes : i # ROOT => N[i] = NoInode
  BY <1>1, <1>2, <1>3 DEF FirstInodes
<1>6. D[1] = Dir({})
  BY <1>1, <1>3 DEF FirstData
<1>7. Held(x, D, {1}, k)
  BY <1>3, <1>4, <1>6 DEF Held, Dir, Nowhere
<1>8. \A i \in Inodes : Held(N[i], D, {1}, k)
  BY <1>5, <1>7, NodeIs, Constants DEF Held
<1>9. Apart(N)
  <2>1. ASSUME NEW i \in Inodes, NEW q \in Places, N[i].block[q] # Nowhere
        PROVE  i = ROOT /\ q = 0
    BY ONLY <1>4, <1>5, <2>1, NodeIs
  <2>. QED
    BY <2>1 DEF Apart
<1>10. ASSUME NEW i \in Inodes PROVE In(N, D, i) = {}
  <2>1. CASE i = ROOT
    <3>1. N[i].block[0] = 1 /\ N[i].mode = "dir"
      BY <1>3, <1>4, <1>5, <2>1
    <3>2. D[1].entries = {}
      BY <1>6 DEF Dir
    <3>. QED
      BY <3>1, <3>2 DEF In
  <2>2. CASE i # ROOT
    BY <1>5, <2>2, NodeIs DEF In
  <2>. QED
    BY <2>1, <2>2
<1>11. Listing(N, D) = {}
  BY <1>10 DEF Listing
<1>12. NamesRight({ROOT}, N, {})
  BY <1>3, <1>4, <1>5, NodeIs DEF NamesRight
<1>13. OnlyRoot(N) /\ Returned({1}, N)
  BY <1>3, <1>4, <1>5, NodeIs DEF OnlyRoot, Returned
<1>. QED
  BY <1>1, <1>8, <1>9, <1>11, <1>12, <1>13 DEF Sound, BlocksRight

LEMMA InitKeeps ==
    ASSUME Init, NEW k \in 1 .. N_DIRECT
    PROVE  IInv(k)
<1>1. SoundDisk(disk, k)
  BY FirstShows, FirstSound DEF SoundDisk
<1>2. bgd \in Counts
  BY <1>1, SoundDiskIs DEF Init
<1>3. FilesRight(fds) /\ outages \in 0 .. MaxOutages
  BY NoFdsRight, Constants DEF Init, NoFds
<1>. QED
  BY <1>1, <1>2, <1>3 DEF IInv

-----------------------------------------------------------------------------
(* What the invariant says of the properties that the runs check.          *)

\* A disk as its views show it.
LEMMA AsShown ==
    ASSUME NEW B, NEW I, NEW N, NEW D, Shows(disk, B, I, N, D)
    PROVE  /\ disk[BlockBitmap] = B /\ disk[InodeBitmap] = I
           /\ \A i \in Inodes : Inode(disk, i) = N[i] /\ N[i] \in Node
           /\ \A n \in 1 .. NBlocks : disk[Data(n)] = D[n] /\ D[n] \in Contents
           /\ Live = {i \in Inodes : N[i].mode # "none"}
<1>1. \A i \in Inodes : Inode(disk, i) = N[i] /\ N[i] \in Node
  BY DEF Shows, TableShows, InTable, Inode, IsView
<1>. QED
  BY <1>1 DEF Shows, DataShows, Live, IsView

\* A pointer is a direct one, of an inode in use.
LEMMA ReferenceIs ==
    ASSUME NEW B, NEW I, NEW N, NEW D, Shows(disk, B, I, N, D), NEW r \in References
    PROVE  \E i \in Live, q \in Places :
             r = <<i, q, N[i].block[q]>> /\ N[i].block[q] # Nowhere
<1>. DEFINE Direct(i) == {<<i, n, GetBlock(disk, Inode(disk, i), n)>> : n \in 0 .. N_DIRECT + PTRS - 1}
            Single(i) == {<<i, -1, Inode(disk, i).ind>>}
            Holed     == Inodes \X (-1 .. N_DIRECT + PTRS - 1) \X {Nowhere}
            All       == UNION {Direct(i) \cup Single(i) : i \in Live}
<1>0. r \in All \ Holed
  <2>1. r \in (UNION {Direct(i) \cup Single(i) : i \in Live}) \ Holed
    BY Zenon DEF References
  <2>. HIDE DEF Direct, Single, Holed
  <2>. QED
    BY <2>1, Zenon
<1>1. PICK i \in Live :
         \/ \E n \in 0 .. N_DIRECT + PTRS - 1 : r = <<i, n, GetBlock(disk, Inode(disk, i), n)>>
         \/ r = <<i, -1, Inode(disk, i).ind>>
  <2>1. r \in All
    <3>. HIDE DEF All, Holed
    <3>. QED
      BY <1>0
  <2>2. PICK i \in Live : r \in Direct(i) \cup Single(i)
    <3>. HIDE DEF Direct, Single
    <3>. QED
      BY <2>1
  <2>. QED
    BY <2>2
<1>2. r \notin Holed
  <2>. HIDE DEF All, Holed
  <2>. QED
    BY <1>0
<1>3. i \in Inodes /\ Inode(disk, i) = N[i] /\ N[i] \in Node
  BY AsShown DEF Live
<1>4. N[i].ind = Nowhere
  BY <1>3 DEF Node
<1>5. CASE r = <<i, -1, Inode(disk, i).ind>>
  <2>1. -1 \in -1 .. N_DIRECT + PTRS - 1
    BY Constants
  <2>. QED
    BY <1>2, <1>3, <1>4, <1>5, <2>1
<1>6. ASSUME NEW n \in 0 .. N_DIRECT + PTRS - 1, r = <<i, n, GetBlock(disk, Inode(disk, i), n)>>
      PROVE  n \in Places /\ r = <<i, n, N[i].block[n]>> /\ N[i].block[n] # Nowhere
  <2>1. n \in -1 .. N_DIRECT + PTRS - 1 /\ n \in Int
    BY Constants
  <2>2. GetBlock(disk, N[i], n) # Nowhere
    BY <1>2, <1>3, <1>6, <2>1
  <2>3. n < N_DIRECT /\ GetBlock(disk, N[i], n) = N[i].block[n]
    BY <1>4, <2>2 DEF GetBlock
  <2>4. n \in Places
    BY <2>3, Constants DEF Places
  <2>. QED
    BY <1>3, <1>6, <2>2, <2>3, <2>4
<1>. QED
  BY <1>1, <1>5, <1>6

LEMMA HoldsBlocks ==
    ASSUME NEW k, IInv(k)
    PROVE  BlocksSound
<1>1. PICK B, I, N, D : Shows(disk, B, I, N, D) /\ Sound(B, I, N, D, k)
  BY DEF IInv, SoundDisk
<1>2. /\ disk[BlockBitmap] = B /\ disk[InodeBitmap] = I
      /\ \A i \in Inodes : Inode(disk, i) = N[i] /\ N[i] \in Node
      /\ \A n \in 1 .. NBlocks : disk[Data(n)] = D[n]
      /\ Live = {i \in Inodes : N[i].mode # "none"}
  BY <1>1, AsShown
<1>3. B \subseteq 1 .. NBlocks /\ I \subseteq Inodes
  BY <1>1 DEF Shows, IsView
<1>4. (\A i \in Inodes : Held(N[i], D, B, k)) /\ Apart(N)
  BY <1>1 DEF Sound, BlocksRight
<1>5. TypeOK
  BY <1>2, <1>3 DEF TypeOK, IInv, FilesRight, Counts
<1>6. ASSUME NEW r \in References
      PROVE  \E i \in Live, q \in Places :
               r = <<i, q, N[i].block[q]>> /\ N[i].block[q] # Nowhere
  BY <1>1, ReferenceIs
<1>7. NoSharedBlock
  <2>1. ASSUME NEW r \in References, NEW s \in References, r[3] = s[3] PROVE r = s
    <3>1. PICK i \in Live, p \in Places : r = <<i, p, N[i].block[p]>> /\ N[i].block[p] # Nowhere
      BY <1>6
    <3>2. PICK j \in Live, q \in Places : s = <<j, q, N[j].block[q]>>
      BY <1>6
    <3>3. i \in Inodes /\ j \in Inodes /\ N[i].block[p] = N[j].block[q]
      BY <1>2, <2>1, <3>1, <3>2
    <3>4. i = j /\ p = q
      BY <1>4, <3>1, <3>3 DEF Apart
    <3>. QED
      BY <3>1, <3>2, <3>4
  <2>2. ASSUME NEW r \in References PROVE r[3] \in B
    <3>1. PICK i \in Live, p \in Places : r = <<i, p, N[i].block[p]>> /\ N[i].block[p] # Nowhere
      BY <1>6
    <3>. QED
      BY <1>2, <1>4, <3>1 DEF Held
  <2>. QED
    BY <1>2, <2>1, <2>2 DEF NoSharedBlock
<1>8. BlocksTyped
  <2>1. ASSUME NEW r \in References
        PROVE  disk[Data(r[3])].kind \in
                 CASE r[2] = -1                      -> {"ptrs"}
                   [] Inode(disk, r[1]).mode = "dir" -> {"dir"}
                   [] OTHER                          -> {"file", "zero"}
    <3>1. PICK i \in Live, p \in Places : r = <<i, p, N[i].block[p]>> /\ N[i].block[p] # Nowhere
      BY <1>6
    <3>2. PICK n : n = N[i].block[p]
      OBVIOUS
    <3>3. i \in Inodes /\ N[i].mode # "none" /\ N[i].mode \in Modes /\ Held(N[i], D, B, k)
      BY <1>2, <1>4 DEF Node
    <3>4. n \in B /\ n \in 1 .. NBlocks
      BY <1>3, <3>1, <3>2, <3>3 DEF Held
    <3>5. r[1] = i /\ r[2] = p /\ r[3] = n /\ p # -1 /\ Inode(disk, i) = N[i] /\ disk[Data(n)] = D[n]
      BY <1>2, <3>1, <3>2, <3>3, <3>4, Constants DEF Places
    <3>6. CASE N[i].mode = "dir"
      <4>1. p = 0 /\ D[n].kind = "dir"
        BY <3>1, <3>2, <3>3, <3>6 DEF Held
      <4>. QED
        BY <3>5, <3>6, <4>1
    <3>7. CASE N[i].mode # "dir"
      <4>1. D[n].kind \in {"file", "zero"}
        BY <3>1, <3>2, <3>3, <3>7 DEF Held, Modes
      <4>. QED
        BY <3>5, <3>7, <4>1
    <3>. QED
      BY <3>6, <3>7
  <2>. QED
    BY <2>1 DEF BlocksTyped
<1>. QED
  BY <1>5, <1>7, <1>8 DEF BlocksSound

\* The entries of the directories are those that the views list.
LEMMA EntriesShown ==
    ASSUME NEW k, NEW B, NEW I, NEW N, NEW D, Shows(disk, B, I, N, D), Sound(B, I, N, D, k)
    PROVE  AllEntries = Listing(N, D)
<1>. DEFINE Dirs     == {d \in Live : Inode(disk, d).mode = "dir"}
            Named(d) == {<<d, e.name, e.ino>> : e \in DirEntries(disk, d)}
<1>1. /\ \A i \in Inodes : Inode(disk, i) = N[i] /\ N[i] \in Node
      /\ Live = {i \in Inodes : N[i].mode # "none"}
  BY AsShown
<1>2. Dirs = {d \in Inodes : N[d].mode = "dir"}
  BY <1>1
<1>3. ASSUME NEW d \in Dirs
      PROVE  DirEntries(disk, d) = In(N, D, d) /\ In(N, D, d) \subseteq DirEntry
  <2>1. d \in Inodes /\ N[d].mode = "dir" /\ BlocksRight(B, N, D, k)
    BY <1>2 DEF Sound
  <2>. QED
    BY ONLY <2>1, Shows(disk, B, I, N, D), ReadsDir
<1>4. ASSUME NEW e \in AllEntries PROVE e \in Listing(N, D)
  <2>1. e \in UNION {Named(d) : d \in Dirs}
    BY Zenon DEF AllEntries
  <2>2. PICK d \in Dirs : e \in Named(d)
    <3>. HIDE DEF Named, Dirs
    <3>. QED
      BY <2>1
  <2>3. PICK x \in In(N, D, d) : e = <<d, x.name, x.ino>>
    BY <1>3, <2>2
  <2>4. x \in DirEntry /\ d \in Inodes
    BY <1>2, <1>3
  <2>5. x = [name |-> x.name, ino |-> x.ino] /\ x.name \in Names /\ x.ino \in Inodes
    BY <2>4 DEF DirEntry
  <2>6. e \in Inodes \X Names \X Inodes /\ e[1] = d /\ e[2] = x.name /\ e[3] = x.ino
    BY <2>3, <2>4, <2>5
  <2>. QED
    BY <2>5, <2>6 DEF Listing
<1>5. ASSUME NEW e \in Listing(N, D) PROVE e \in AllEntries
  <2>1. PICK d, x : d = e[1] /\ x = [name |-> e[2], ino |-> e[3]]
    OBVIOUS
  <2>2. e = <<d, x.name, x.ino>> /\ x \in In(N, D, d) /\ d \in Inodes
    BY <2>1 DEF Listing
  <2>3. d \in Dirs
    BY <1>2, <2>2 DEF In
  <2>4. e \in Named(d)
    BY <1>3, <2>2, <2>3
  <2>5. e \in UNION {Named(c) : c \in Dirs}
    <3>. HIDE DEF Named, Dirs
    <3>. QED
      BY <2>3, <2>4
  <2>. QED
    BY <2>5, Zenon DEF AllEntries
<1>. QED
  BY <1>4, <1>5

LEMMA HoldsNames ==
    ASSUME NEW k, IInv(k)
    PROVE  NamesSound
<1>1. PICK B, I, N, D : Shows(disk, B, I, N, D) /\ Sound(B, I, N, D, k)
  BY DEF IInv, SoundDisk
<1>2. PICK L : L = Listing(N, D)
  OBVIOUS
<1>3. /\ disk[InodeBitmap] = I
      /\ \A i \in Inodes : Inode(disk, i) = N[i] /\ N[i] \in Node
      /\ Live = {i \in Inodes : N[i].mode # "none"}
  BY <1>1, AsShown
<1>4. AllEntries = L /\ NamesRight(I, N, L)
  BY <1>1, <1>2, EntriesShown DEF Sound
<1>5. \A e \in L : e[3] \in Inodes
  BY <1>2 DEF Listing
<1>6. NoDanglingEntry
  BY <1>3, <1>4, <1>5 DEF NoDanglingEntry, NamesRight
<1>7. ASSUME NEW i \in Live, Inode(disk, i).mode # "dir"
      PROVE  Inode(disk, i).links = Cardinality({e \in AllEntries : e[3] = i})
  <2>1. i \in Inodes /\ N[i].mode \in {"file", "symlink"} /\ Inode(disk, i) = N[i]
    BY <1>3, <1>7 DEF Node, Modes
  <2>. QED
    BY <1>4, <2>1 DEF NamesRight
<1>. QED
  BY <1>6, <1>7 DEF NamesSound, LinksExact

LEMMA HoldsReturned ==
    ASSUME NEW k, IInv(k), "write" \notin Calls
    PROVE  NoLeakedBlock
<1>1. PICK B, I, N, D : Shows(disk, B, I, N, D) /\ Sound(B, I, N, D, k)
  BY DEF IInv, SoundDisk
<1>2. /\ disk[BlockBitmap] = B /\ B \subseteq 1 .. NBlocks
      /\ \A i \in Inodes : Inode(disk, i) = N[i] /\ N[i] \in Node
      /\ Live = {i \in Inodes : N[i].mode # "none"}
  <2>1. B \subseteq 1 .. NBlocks
    BY <1>1 DEF Shows, IsView
  <2>. QED
    BY <1>1, <2>1, AsShown
<1>. DEFINE Direct(i) == {<<i, n, GetBlock(disk, Inode(disk, i), n)>> : n \in 0 .. N_DIRECT + PTRS - 1}
            Single(i) == {<<i, -1, Inode(disk, i).ind>>}
            Holed     == Inodes \X (-1 .. N_DIRECT + PTRS - 1) \X {Nowhere}
            All       == UNION {Direct(i) \cup Single(i) : i \in Live}
<1>3. ASSUME NEW n \in B PROVE \E r \in References : r[3] = n
  <2>1. n # Nowhere
    BY <1>2 DEF Nowhere
  <2>2. PICK i \in Inodes : N[i].block[0] = n
    BY <1>1 DEF Sound, Returned
  <2>3. i \in Live
    BY <1>1, <1>2, <2>1, <2>2, FirstPlace DEF Sound, Returned
  <2>4. GetBlock(disk, Inode(disk, i), 0) = n
    BY <1>2, <2>2, Constants DEF GetBlock
  <2>5. 0 \in 0 .. N_DIRECT + PTRS - 1
    BY Constants
  <2>6. PICK r : r = <<i, 0, n>>
    OBVIOUS
  <2>7. r \in Direct(i) \cup Single(i) /\ r \notin Holed /\ r[3] = n
    BY <2>1, <2>4, <2>5, <2>6
  <2>8. r \in All \ Holed
    <3>1. PICK S : S = Direct(i) \cup Single(i)
      OBVIOUS
    <3>2. S \in {Direct(j) \cup Single(j) : j \in Live}
      <4>. HIDE DEF Direct, Single
      <4>. QED
        BY <2>3, <3>1
    <3>3. r \in S /\ r \notin Holed
      BY <2>7, <3>1
    <3>4. r \in All
      <4>. HIDE DEF Direct, Single
      <4>. QED
        BY <3>2, <3>3
    <3>. HIDE DEF All, Holed
    <3>. QED
      BY <3>3, <3>4
  <2>9. r \in (UNION {Direct(j) \cup Single(j) : j \in Live}) \ Holed
    <3>. HIDE DEF Direct, Single, Holed
    <3>. QED
      BY <2>8, Zenon
  <2>10. r \in References
    BY <2>9, Zenon DEF References
  <2>. QED
    BY <2>7, <2>10
<1>. QED
  BY <1>2, <1>3 DEF NoLeakedBlock

-----------------------------------------------------------------------------
(* Theorems, for every number of blocks, inodes, names, open files and power *)
(* failures.                                                               *)

\* Where the operations of the code are right: the names of a directory fit in
\* one block; directories are not made while files are written, because a
\* descriptor that outlives its file writes to the inode that comes after it;
\* and the files that are written have room.
WithinLimits ==
    NamesFit /\ ~({"mkdir", "write"} \subseteq Calls) /\ \E k \in 1 .. N_DIRECT : Fits(k)

\* Blocks in use have one owner and hold what it takes them for, in every
\* order of the operations, and whatever the power does (alloc_block_in_group,
\* free_block, biscuitfs_unlink_cb, jnl_commit).
THEOREM BlocksKept == WithinLimits /\ Spec => []BlocksSound
<1>1. ASSUME NEW CONSTANT k \in 1 .. N_DIRECT, Fits(k), NamesFit, ~({"mkdir", "write"} \subseteq Calls)
      PROVE  Spec => []BlocksSound
  <2>1. Init => IInv(k)
    BY <1>1, InitKeeps
  <2>2. IInv(k) /\ [Next]_vars => IInv(k)'
    BY <1>1, NextKeeps
  <2>3. IInv(k) => BlocksSound
    BY HoldsBlocks
  <2>. QED
    BY <2>1, <2>2, <2>3, PTL DEF Spec
<1>. QED
  BY <1>1 DEF WithinLimits

\* No name leads to an inode that is free, and a file counts its names, in
\* every order of the operations, and whatever the power does (dir_add_entry,
\* biscuitfs_link_cb, biscuitfs_unlink_cb).
THEOREM LinksKept == WithinLimits /\ Spec => []NamesSound
<1>1. ASSUME NEW CONSTANT k \in 1 .. N_DIRECT, Fits(k), NamesFit, ~({"mkdir", "write"} \subseteq Calls)
      PROVE  Spec => []NamesSound
  <2>1. Init => IInv(k)
    BY <1>1, InitKeeps
  <2>2. IInv(k) /\ [Next]_vars => IInv(k)'
    BY <1>1, NextKeeps
  <2>3. IInv(k) => NamesSound
    BY HoldsNames
  <2>. QED
    BY <2>1, <2>2, <2>3, PTL DEF Spec
<1>. QED
  BY <1>1 DEF WithinLimits

\* Where no file is written, every block that is marked is in use: mkdir,
\* symlink and unlink, cut by power failures or not, lose none (free_block).
THEOREM NoneLost == WithinLimits /\ "write" \notin Calls /\ Spec => []NoLeakedBlock
<1>1. ASSUME NEW CONSTANT k \in 1 .. N_DIRECT, Fits(k), NamesFit, "write" \notin Calls
      PROVE  Spec => []NoLeakedBlock
  <2>1. Init => IInv(k)
    BY <1>1, InitKeeps
  <2>2. IInv(k) /\ [Next]_vars => IInv(k)'
    BY <1>1, NextKeeps
  <2>3. IInv(k) => NoLeakedBlock
    BY <1>1, HoldsReturned
  <2>. QED
    BY <2>1, <2>2, <2>3, PTL DEF Spec
<1>. QED
  BY <1>1 DEF WithinLimits
===============================================================================
