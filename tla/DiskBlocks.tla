----------------------------- MODULE DiskBlocks -----------------------------
(***************************************************************************)
(* What a list of block writes does to a disk.  fs/blueyfs.c keeps such a  *)
(* list in jnl_buf (a transaction) and, after a commit, in the journal     *)
(* region of the disk; in both it writes the blocks in the order of the    *)
(* list, so that the last write of a block is the one that stays.          *)
(***************************************************************************)
EXTENDS Naturals, Sequences

\* Entry k is the last write of its block in the list log.
IsLast(log, k) == \A j \in k + 1 .. Len(log) : log[j].blk # log[k].blk

\* The blocks the list writes.
Touched(log) == {log[k].blk : k \in DOMAIN log}

\* The value the list leaves in block b, one of those it writes.
Left(log, b) == log[CHOOSE k \in DOMAIN log : log[k].blk = b /\ IsLast(log, k)].val

\* The disk after every write of the list.
Written(disk, log) ==
    [b \in DOMAIN disk |-> IF b \in Touched(log) THEN Left(log, b) ELSE disk[b]]
=============================================================================
