----------------------------- MODULE AtomicDisk -----------------------------
(***************************************************************************)
(* What the journal of fs/blueyfs.c promises to the file system above it:  *)
(* a disk whose contents change only by whole transactions.  The writes of *)
(* a transaction are gathered, then all of them take effect in one step or *)
(* none of them does.  A power failure is not visible here: it is at most  *)
(* a Discard of the transaction that was being gathered.                   *)
(***************************************************************************)
EXTENDS DiskBlocks

CONSTANTS Blocks,   \* the blocks of the file system
          Vals,     \* their contents
          MaxTxn    \* the most writes a transaction can hold

VARIABLES store,    \* the contents of the disk
          txn       \* the transaction being gathered

Init == store \in [Blocks -> Vals] /\ txn = << >>

Gather(b, v) ==
    /\ Len(txn) < MaxTxn
    /\ txn' = Append(txn, [blk |-> b, val |-> v])
    /\ UNCHANGED store

Commit ==
    /\ txn # << >>
    /\ store' = Written(store, txn)
    /\ txn' = << >>

Discard == txn' = << >> /\ UNCHANGED store

Next == Commit \/ Discard \/ \E b \in Blocks, v \in Vals : Gather(b, v)

Spec == Init /\ [][Next]_<<store, txn>>
=============================================================================
