------------------------------- MODULE Journal -------------------------------
(***************************************************************************)
(* The write-ahead log of BiscuitFS (fs/blueyfs.c:162-260) at the level of *)
(* single block writes, with power failures between and during them.       *)
(*                                                                         *)
(* The journal region of the disk holds one transaction at a time: the     *)
(* descriptor block at jnl_start_blk with the tags (the home block of each *)
(* journalled block), then the journalled blocks, then a commit block.     *)
(* biscuitfs_journal_commit writes descriptor, blocks and commit block,    *)
(* and then the same blocks to their homes.  It never clears the journal,  *)
(* and biscuitfs_journal_replay reads neither the commit block nor the     *)
(* sequence numbers, so these are not part of the state.                   *)
(*                                                                         *)
(* One write_block is one step.  A power failure during a write leaves     *)
(* the block Torn, unless all that anybody reads of it lies in one sector: *)
(* the descriptor with its at most 16 tags, and the blocks in OneSector.   *)
(***************************************************************************)
EXTENDS DiskBlocks

CONSTANTS Blocks,       \* home blocks of the file system
          Vals,         \* contents of a block
          Torn,         \* the contents of a block whose write was cut short
          OneSector,    \* the home blocks that cannot be torn
          JNL_BUF,      \* JOURNAL_BUF_BLOCKS, the size of jnl_buf
          PowerFails    \* the phases (values of pc) at which the power may fail

ASSUME JournalAssumption ==
    /\ Torn \notin Vals
    /\ JNL_BUF \in Nat \ {0}

VARIABLES home,     \* the file system's own blocks
          tags,     \* the descriptor block: home block of each slot, << >> if none
          slots,    \* the journalled blocks in the journal region
          jnl_buf,  \* the transaction in memory; jnl_count is its length
          pc,       \* what the file system is doing
          cur,      \* the index of the next block to write
          allowed   \* history: what the disk may hold when the file system is up

disk == <<home, tags, slots>>
vars == <<home, tags, slots, jnl_buf, pc, cur, allowed>>

Phases == {"idle",      \* mounted, between two calls of the journal
           "desc",      \* commit: about to write the descriptor
           "data",      \* commit: writing the blocks to the journal
           "commit",    \* commit: about to write the commit block
           "apply",     \* commit: writing the blocks to their homes
           "down",      \* the power is off
           "replay"}    \* mounting: copying the journal to the homes

Entry == [blk : Blocks, val : Vals]

\* The transaction that the journal region holds.
Logged == [k \in DOMAIN tags |-> [blk |-> tags[k], val |-> slots[k]]]

Init ==
    /\ home \in [Blocks -> Vals]
    /\ tags = << >>
    /\ slots = [k \in 1 .. JNL_BUF |-> Torn]
    /\ jnl_buf = << >>
    /\ pc = "idle"
    /\ cur = 1
    /\ allowed = {home}

-----------------------------------------------------------------------------
(* The journal's interface.                                                *)

Begin ==
    /\ pc = "idle"
    /\ jnl_buf' = << >>
    /\ UNCHANGED <<disk, pc, cur, allowed>>

Abort ==
    /\ pc = "idle"
    /\ jnl_buf' = << >>
    /\ UNCHANGED <<disk, pc, cur, allowed>>

\* A transaction that is full takes no more blocks, and nobody is told.
Buffered(buf, b, v) ==
    IF Len(buf) >= JNL_BUF THEN buf ELSE Append(buf, [blk |-> b, val |-> v])

WriteBlock(b, v) ==
    /\ pc = "idle"
    /\ jnl_buf' = Buffered(jnl_buf, b, v)
    /\ UNCHANGED <<disk, pc, cur, allowed>>

\* An empty transaction is not written.
Commit ==
    /\ pc = "idle"
    /\ jnl_buf # << >>
    /\ pc' = "desc"
    /\ allowed' = {home, Written(home, jnl_buf)}
    /\ UNCHANGED <<disk, jnl_buf, cur>>

-----------------------------------------------------------------------------
(* biscuitfs_journal_commit, one write_block after the other.              *)

WriteDescriptor ==
    /\ pc = "desc"
    /\ tags' = [k \in DOMAIN jnl_buf |-> jnl_buf[k].blk]
    /\ pc' = "data"
    /\ cur' = 1
    /\ UNCHANGED <<home, slots, jnl_buf, allowed>>

WriteData ==
    /\ pc = "data"
    /\ slots' = [slots EXCEPT ![cur] = jnl_buf[cur].val]
    /\ cur' = cur + 1
    /\ pc' = IF cur = Len(jnl_buf) THEN "commit" ELSE "data"
    /\ UNCHANGED <<home, tags, jnl_buf, allowed>>

\* Fault: the blocks are written home from the last to the first.
Apply_Backwards ==
    /\ pc = "apply"
    /\ LET e == jnl_buf[Len(jnl_buf) + 1 - cur] IN home' = [home EXCEPT ![e.blk] = e.val]
    /\ cur' = cur + 1
    /\ IF cur = Len(jnl_buf)
       THEN /\ pc' = "idle"
            /\ jnl_buf' = << >>
            /\ allowed' = {Written(home, jnl_buf)}
       ELSE UNCHANGED <<pc, jnl_buf, allowed>>
    /\ UNCHANGED <<tags, slots>>

WriteCommit ==
    /\ pc = "commit"
    /\ pc' = "apply"
    /\ cur' = 1
    /\ UNCHANGED <<disk, jnl_buf, allowed>>

Apply ==
    /\ pc = "apply"
    /\ home' = [home EXCEPT ![jnl_buf[cur].blk] = jnl_buf[cur].val]
    /\ cur' = cur + 1
    /\ IF cur = Len(jnl_buf)
       THEN /\ pc' = "idle"
            /\ jnl_buf' = << >>
            /\ allowed' = {Written(home, jnl_buf)}
       ELSE UNCHANGED <<pc, jnl_buf, allowed>>
    /\ UNCHANGED <<tags, slots>>

-----------------------------------------------------------------------------
(* Power failures, and the mount that follows them.                        *)

\* What a power failure leaves of the write of block b that is under way.
Cut(b) == IF b \in OneSector THEN {home} ELSE {home, [home EXCEPT ![b] = Torn]}

PowerFail ==
    /\ pc \in PowerFails \ {"down"}
    /\ home' \in CASE pc = "apply"  -> Cut(jnl_buf[cur].blk)
                   [] pc = "replay" -> Cut(tags[cur])
                   [] OTHER         -> {home}
    /\ slots' \in IF pc = "data" THEN {slots, [slots EXCEPT ![cur] = Torn]} ELSE {slots}
    /\ jnl_buf' = << >>
    /\ pc' = "down"
    /\ UNCHANGED <<tags, cur, allowed>>

\* Fault: the journal is not replayed.
Mount_SkipsReplay ==
    /\ pc = "down"
    /\ pc' = "idle"
    /\ cur' = 1
    /\ UNCHANGED <<disk, jnl_buf, allowed>>

\* Fault: the block with the last tag is not replayed.
Replay_StopsEarly ==
    /\ pc = "replay"
    /\ home' = IF cur = Len(tags) THEN home ELSE [home EXCEPT ![tags[cur]] = slots[cur]]
    /\ cur' = cur + 1
    /\ pc' = IF cur = Len(tags) THEN "idle" ELSE "replay"
    /\ UNCHANGED <<tags, slots, jnl_buf, allowed>>

\* biscuitfs_mount_cb replays the journal if its first block is a descriptor.
Mount ==
    /\ pc = "down"
    /\ pc' = IF tags = << >> THEN "idle" ELSE "replay"
    /\ cur' = 1
    /\ UNCHANGED <<disk, jnl_buf, allowed>>

Replay ==
    /\ pc = "replay"
    /\ home' = [home EXCEPT ![tags[cur]] = slots[cur]]
    /\ cur' = cur + 1
    /\ pc' = IF cur = Len(tags) THEN "idle" ELSE "replay"
    /\ UNCHANGED <<tags, slots, jnl_buf, allowed>>

CommitStep == WriteDescriptor \/ WriteData \/ WriteCommit \/ Apply
MountStep  == Mount \/ Replay

Next ==
    \/ Begin \/ Abort \/ Commit
    \/ \E b \in Blocks, v \in Vals : WriteBlock(b, v)
    \/ CommitStep
    \/ PowerFail
    \/ MountStep

Spec == Init /\ [][Next]_vars
-----------------------------------------------------------------------------
(* Properties.                                                             *)

\* Every variable keeps its type, and a block is torn only while the power is
\* off or the journal, which has an intact copy of it, is being replayed.
TypeOK ==
    /\ home \in [Blocks -> Vals \cup {Torn}]
    /\ tags \in Seq(Blocks) /\ Len(tags) <= JNL_BUF
    /\ slots \in [1 .. JNL_BUF -> Vals \cup {Torn}]
    /\ jnl_buf \in Seq(Entry) /\ Len(jnl_buf) <= JNL_BUF
    /\ pc \in Phases
    /\ cur \in 1 .. JNL_BUF + 1
    /\ allowed \subseteq [Blocks -> Vals]
    /\ pc \notin {"down", "replay"} => home \in [Blocks -> Vals]
    /\ pc \notin {"data"} => Written(home, Logged) \in [Blocks -> Vals]

\* After a mount the disk holds what it held before the transaction that a
\* power failure cut short, or all of that transaction; after a commit it
\* holds all of it.  This is what a write-ahead log is for.
Recovered == pc = "idle" => home \in allowed

\* The abstract disk: the transaction takes effect when its last block is in
\* the journal, because replay copies the journal without the commit block.
Abstract == INSTANCE AtomicDisk WITH
    MaxTxn <- JNL_BUF,
    store  <- IF pc \in {"desc", "data"} THEN home ELSE Written(home, Logged),
    txn    <- IF pc \in {"commit", "apply"} THEN << >> ELSE jnl_buf

\* The journal makes transactions atomic.
AtomicTransactions == Abstract!Spec
=============================================================================
