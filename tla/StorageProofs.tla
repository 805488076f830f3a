---------------------------- MODULE StorageProofs ----------------------------
(***************************************************************************)
(* Proofs about what the kernel keeps on a disk and what it takes from     *)
(* there: the journal (Journal), swap (Swap), module files (Modules), and  *)
(* the mounts and the first program at boot (Boot).                        *)
(*                                                                         *)
(* Journal: as long as the power does not fail while                       *)
(* biscuitfs_journal_commit writes the blocks to the journal (phase        *)
(* "data"), a file system that comes up holds the last complete            *)
(* transaction (DiskRecovers), and the journal implements a disk with      *)
(* atomic transactions (JournalIsAtomic).                                  *)
(*                                                                         *)
(* The heart of both is that writing, or tearing, a block that the journal *)
(* holds does not change what a replay of the journal makes of the disk    *)
(* (WrittenAbsorbs).                                                       *)
(***************************************************************************)
EXTENDS Journal, Swap, Modules, Boot, Loops, SequenceTheorems, FiniteSetTheorems, TLAPS

(* What a list of block writes does to a disk.                             *)

LEMMA HasLargest ==
    ASSUME NEW n \in Nat, NEW T \in SUBSET (1 .. n), T # {}
    PROVE  \E x \in T : \A y \in T : y <= x
<1> DEFINE U == {n - x : x \in T}
<1>1. U \subseteq Nat /\ U # {}
    <2>1. \A x \in T : x \in Nat /\ x <= n
        OBVIOUS
    <2>2. \A x \in T : n - x \in Nat
        BY <2>1
    <2> QED
        BY <2>2, Zenon
<1>2. IsWellFoundedOn(OpToRel(<, Nat), Nat)
    BY NatLessThanWellFounded
<1>3. PICK u \in U : \A y \in U : <<y, u>> \notin OpToRel(<, Nat)
    <2> HIDE DEF U
    <2> QED  BY <1>1, <1>2, WFMin
<1>4. \A y \in U : ~ (y < u)
    BY <1>1, <1>3 DEF OpToRel
<1>5. PICK x \in T : u = n - x
    OBVIOUS
<1>6. \A y \in T : ~ (n - y < n - x)
    BY <1>4, <1>5
<1> QED
    BY <1>5, <1>6

\* A block that the list writes has a last write, and that is what it leaves.
LEMMA LeftIsLast ==
    ASSUME NEW S, NEW log \in Seq(S), NEW b \in Touched(log)
    PROVE  \E k \in 1 .. Len(log) :
              log[k].blk = b /\ IsLast(log, k) /\ Left(log, b) = log[k].val
<1> DEFINE T == {k \in 1 .. Len(log) : log[k].blk = b}
           P(k) == k \in DOMAIN log /\ log[k].blk = b /\ IsLast(log, k)
<1>1. Len(log) \in Nat /\ DOMAIN log = 1 .. Len(log)
    BY LenProperties
<1>2. T # {}
    BY <1>1 DEF Touched
<1>3. PICK k \in T : \A j \in T : j <= k
    <2> HIDE DEF T
    <2>1. T \in SUBSET (1 .. Len(log))
        BY DEF T
    <2> QED  BY <1>1, <1>2, <2>1, HasLargest
<1>4. P(k)
    BY <1>1, <1>3 DEF IsLast
<1>5. P(CHOOSE j : P(j))
    BY <1>4, Zenon
<1>6. (CHOOSE j : P(j)) = CHOOSE j \in DOMAIN log : log[j].blk = b /\ IsLast(log, j)
    OBVIOUS
<1> QED
    BY <1>1, <1>5, <1>6 DEF Left

LEMMA LastIsLeft ==
    ASSUME NEW S, NEW log \in Seq(S), NEW k \in 1 .. Len(log), IsLast(log, k)
    PROVE  log[k].blk \in Touched(log) /\ Left(log, log[k].blk) = log[k].val
<1>1. Len(log) \in Nat /\ DOMAIN log = 1 .. Len(log)
    BY LenProperties
<1>2. log[k].blk \in Touched(log)
    BY <1>1 DEF Touched
<1>3. PICK j \in 1 .. Len(log) :
        log[j].blk = log[k].blk /\ IsLast(log, j) /\ Left(log, log[k].blk) = log[j].val
    BY <1>2, LeftIsLast
<1>4. j = k
    BY <1>1, <1>3 DEF IsLast
<1> QED
    BY <1>2, <1>3, <1>4

\* A list that writes a block hides whatever the block held before.
LEMMA WrittenAbsorbs ==
    ASSUME NEW d, NEW log, NEW k \in DOMAIN log, NEW x
    PROVE  Written([d EXCEPT ![log[k].blk] = x], log) = Written(d, log)
<1> DEFINE e == [d EXCEPT ![log[k].blk] = x]
<1>1. DOMAIN e = DOMAIN d
    OBVIOUS
<1>2. log[k].blk \in Touched(log)
    BY DEF Touched
<1>3. \A b \in DOMAIN d : b \notin Touched(log) => e[b] = d[b]
    BY <1>2
<1>4. Written(e, log) = Written(d, log)
    <2> HIDE DEF e
    <2>1. \A b \in DOMAIN d : (IF b \in Touched(log) THEN Left(log, b) ELSE e[b])
                              = IF b \in Touched(log) THEN Left(log, b) ELSE d[b]
        BY <1>3
    <2> QED
        BY <1>1, <2>1 DEF Written
<1> QED
    BY <1>4

LEMMA WrittenDone ==
    ASSUME NEW B, NEW V, NEW d \in [B -> V], NEW S, NEW log \in Seq(S),
           \A k \in 1 .. Len(log) : IsLast(log, k) => d[log[k].blk] = log[k].val
    PROVE  Written(d, log) = d
<1>1. ASSUME NEW b \in Touched(log)
      PROVE  Left(log, b) = d[b]
    BY LeftIsLast
<1> QED
    BY <1>1 DEF Written

LEMMA WrittenType ==
    ASSUME NEW B, NEW V, NEW W, NEW d \in [B -> W], NEW S, NEW log \in Seq(S),
           \A k \in 1 .. Len(log) : log[k].val \in V,
           \A b \in B : b \notin Touched(log) => d[b] \in V
    PROVE  Written(d, log) \in [B -> V]
<1>1. ASSUME NEW b \in Touched(log)
      PROVE  Left(log, b) \in V
    BY LeftIsLast
<1> QED
    BY <1>1 DEF Written

LEMMA WrittenNothing ==
    ASSUME NEW B, NEW V, NEW d \in [B -> V]
    PROVE  Written(d, << >>) = d
BY DEF Written, Touched
-----------------------------------------------------------------------------
(* The inductive invariant.                                                *)

Types ==
    /\ home \in [Blocks -> Vals \cup {Torn}]
    /\ tags \in Seq(Blocks) /\ Len(tags) <= JNL_BUF
    /\ slots \in [1 .. JNL_BUF -> Vals \cup {Torn}]
    /\ jnl_buf \in Seq(Entry) /\ Len(jnl_buf) <= JNL_BUF
    /\ pc \in Phases
    /\ cur \in 1 .. JNL_BUF + 1
    /\ allowed \subseteq [Blocks -> Vals]

Committing == {"desc", "data", "commit", "apply"}

\* Where commit and replay are, and what they still need is there.
Position ==
    /\ pc \in Committing => jnl_buf # << >>
    /\ pc \in {"data", "apply"} => cur <= Len(jnl_buf)
    /\ pc \in {"down", "replay"} => jnl_buf = << >>
    /\ pc = "replay" => cur <= Len(tags)

\* What the journal region holds of the transaction that is being committed.
InJournal ==
    /\ pc \in {"data", "commit", "apply"} => tags = [k \in DOMAIN jnl_buf |-> jnl_buf[k].blk]
    /\ pc = "data" => \A k \in 1 .. cur - 1 : slots[k] = jnl_buf[k].val
    /\ pc \in {"commit", "apply"} => \A k \in DOMAIN jnl_buf : slots[k] = jnl_buf[k].val

\* Outside the phase "data" the journal region is intact.
Intact == pc # "data" => \A k \in 1 .. Len(tags) : slots[k] \in Vals

\* What has been copied home so far.
CopiedHome ==
    pc \in {"apply", "replay"} =>
      \A k \in 1 .. cur - 1 :
        (\A j \in k + 1 .. cur - 1 : tags[j] # tags[k]) => home[tags[k]] = slots[k]

\* Between transactions a replay would change nothing; only blocks that it
\* would restore can be torn.
Clean ==
    /\ pc \in {"idle", "desc"} => Written(home, Logged) = home
    /\ pc \in {"idle"} \cup Committing => home \in [Blocks -> Vals]
    /\ \A b \in Blocks : b \notin Touched(Logged) => home[b] \in Vals

\* The store that the file system is promised.
Promised ==
    /\ pc \in {"idle", "desc", "data"} => home \in allowed
    /\ pc \in {"desc", "data"} => Written(home, jnl_buf) \in allowed
    /\ pc \notin {"idle", "desc", "data"} => Written(home, Logged) \in allowed

IInv == Types /\ Position /\ InJournal /\ Intact /\ CopiedHome /\ Clean /\ Promised
-----------------------------------------------------------------------------
(* The transaction in the journal region.                                  *)

LEMMA LoggedFacts ==
    ASSUME Types
    PROVE  /\ Logged \in Seq([blk : Blocks, val : Vals \cup {Torn}])
           /\ Len(Logged) = Len(tags) /\ Len(tags) \in Nat
           /\ DOMAIN tags = 1 .. Len(tags) /\ DOMAIN Logged = 1 .. Len(tags)
           /\ \A k \in 1 .. Len(tags) : tags[k] \in Blocks
           /\ \A k \in 1 .. Len(tags) : slots[k] \in Vals \cup {Torn}
           /\ \A k \in 1 .. Len(tags) : Logged[k].blk = tags[k] /\ Logged[k].val = slots[k]
<1>1. /\ DOMAIN tags = 1 .. Len(tags) /\ Len(tags) \in Nat
      /\ \A k \in 1 .. Len(tags) : tags[k] \in Blocks
    BY LenProperties DEF Types
<1>2. \A k \in 1 .. Len(tags) : slots[k] \in Vals \cup {Torn}
    BY <1>1, JournalAssumption DEF Types
<1>3. \A k \in 1 .. Len(tags) : Logged[k] = [blk |-> tags[k], val |-> slots[k]]
    BY <1>1 DEF Logged
<1>4. Logged \in [1 .. Len(tags) -> [blk : Blocks, val : Vals \cup {Torn}]]
    BY <1>1, <1>2 DEF Logged
<1>5. Logged \in Seq([blk : Blocks, val : Vals \cup {Torn}]) /\ Len(Logged) = Len(tags)
    <2> DEFINE LE == [blk : Blocks, val : Vals \cup {Torn}]
               n == Len(tags)
    <2>1. Logged \in [1 .. n -> LE] /\ n \in Nat
        BY <1>1, <1>4
    <2> HIDE DEF LE, n
    <2>2. Logged \in Seq(LE)
        BY <2>1, SeqDef, Zenon
    <2>3. Len(Logged) = n
        BY <2>1, <2>2, LenProperties
    <2> QED
        BY <2>2, <2>3 DEF LE, n
<1> QED
    BY <1>1, <1>2, <1>3, <1>4, <1>5

\* The entries of the transaction in memory.
LEMMA BufferFacts ==
    ASSUME Types
    PROVE  /\ Len(jnl_buf) \in Nat /\ DOMAIN jnl_buf = 1 .. Len(jnl_buf)
           /\ \A k \in 1 .. Len(jnl_buf) : jnl_buf[k].blk \in Blocks /\ jnl_buf[k].val \in Vals
           /\ \A k \in 1 .. Len(jnl_buf) :
                 jnl_buf[k] = [blk |-> jnl_buf[k].blk, val |-> jnl_buf[k].val]
           /\ jnl_buf = << >> <=> Len(jnl_buf) = 0
<1>1. Len(jnl_buf) \in Nat /\ DOMAIN jnl_buf = 1 .. Len(jnl_buf)
    BY LenProperties DEF Types
<1>2. \A k \in 1 .. Len(jnl_buf) : jnl_buf[k] \in Entry
    BY LenProperties DEF Types
<1>3. jnl_buf = << >> <=> Len(jnl_buf) = 0
    BY EmptySeq DEF Types
<1> QED
    BY <1>1, <1>2, <1>3 DEF Entry

\* A transaction takes the disk from one well-typed state to another.
LEMMA BufferWritten ==
    ASSUME Types, home \in [Blocks -> Vals]
    PROVE  Written(home, jnl_buf) \in [Blocks -> Vals]
<1>1. jnl_buf \in Seq(Entry)
    BY DEF Types
<1>2. \A k \in 1 .. Len(jnl_buf) : jnl_buf[k].val \in Vals
    BY BufferFacts
<1> QED
    BY <1>1, <1>2, WrittenType

\* Once it is copied to the journal, the journal holds the transaction.
LEMMA LoggedIsBuffer ==
    ASSUME Types, InJournal, pc \in {"commit", "apply"}
    PROVE  Logged = jnl_buf
<1>1. DOMAIN tags = DOMAIN jnl_buf /\ \A k \in DOMAIN jnl_buf : tags[k] = jnl_buf[k].blk
    BY DEF InJournal
<1>2. \A k \in DOMAIN jnl_buf : slots[k] = jnl_buf[k].val
    BY DEF InJournal
<1>3. DOMAIN jnl_buf = 1 .. Len(jnl_buf) /\ jnl_buf \in Seq(Entry)
    BY BufferFacts DEF Types
<1>4. \A k \in DOMAIN jnl_buf : jnl_buf[k] = [blk |-> tags[k], val |-> slots[k]]
    BY <1>1, <1>2, <1>3, BufferFacts
<1>5. jnl_buf = [k \in DOMAIN jnl_buf |-> jnl_buf[k]]
    BY <1>3
<1> QED
    BY <1>1, <1>4, <1>5 DEF Logged

LEMMA LoggedIsBufferNext ==
    Types' /\ InJournal' /\ (pc \in {"commit", "apply"})' => (Logged = jnl_buf)'
<1>1. Types /\ InJournal /\ pc \in {"commit", "apply"} => Logged = jnl_buf
    BY LoggedIsBuffer
<1> QED
    BY <1>1, PTL

\* Copying one block of the journal to its home, by a commit or by a replay.
LEMMA OneBlockHome ==
    ASSUME IInv, pc \in {"apply", "replay"}, cur \in 1 .. Len(tags),
           NEW h, h = [home EXCEPT ![tags[cur]] = slots[cur]]
    PROVE  /\ h \in [Blocks -> Vals \cup {Torn}]
           /\ Written(h, Logged) = Written(home, Logged)
           /\ \A b \in Blocks : b \notin Touched(Logged) => h[b] \in Vals
           /\ \A k \in 1 .. cur :
                 (\A j \in k + 1 .. cur : tags[j] # tags[k]) => h[tags[k]] = slots[k]
           /\ cur = Len(tags) => Written(h, Logged) = h /\ h \in [Blocks -> Vals]
<1> USE DEF IInv
<1>1. tags[cur] \in Blocks /\ slots[cur] \in Vals \cup {Torn}
    BY LoggedFacts
<1>2. h \in [Blocks -> Vals \cup {Torn}]
    BY <1>1 DEF Types
<1>3. Logged[cur].blk = tags[cur] /\ cur \in DOMAIN Logged
    BY LoggedFacts
<1>4. Written(h, Logged) = Written(home, Logged)
    BY <1>3, WrittenAbsorbs
<1>5. ASSUME NEW b \in Blocks, b \notin Touched(Logged)
      PROVE  h[b] \in Vals
    <2>1. b # tags[cur]
        BY <1>3, <1>5 DEF Touched
    <2> QED
        BY <1>1, <1>5, <2>1 DEF Clean, Types
<1>6. ASSUME NEW k \in 1 .. cur, \A j \in k + 1 .. cur : tags[j] # tags[k]
      PROVE  h[tags[k]] = slots[k]
    <2>1. CASE k = cur
        BY <1>1, <2>1 DEF Types
    <2>2. CASE k # cur
        <3>1. k \in 1 .. cur - 1 /\ cur \in k + 1 .. cur
            BY <2>2, LoggedFacts
        <3>2. tags[cur] # tags[k]
            BY <1>6, <3>1
        <3>3. home[tags[k]] = slots[k]
            BY <1>6, <3>1 DEF CopiedHome
        <3>4. tags[k] \in Blocks
            BY <3>1, LoggedFacts
        <3> QED
            BY <1>1, <3>2, <3>3, <3>4 DEF Types
    <2> QED
        BY <2>1, <2>2
<1>7. ASSUME cur = Len(tags)
      PROVE  Written(h, Logged) = h /\ h \in [Blocks -> Vals]
    <2>1. ASSUME NEW k \in 1 .. Len(Logged), IsLast(Logged, k)
          PROVE  h[Logged[k].blk] = Logged[k].val
        <3>1. k \in 1 .. cur /\ Logged[k].blk = tags[k] /\ Logged[k].val = slots[k]
            BY <1>7, LoggedFacts
        <3>2. \A j \in k + 1 .. cur : tags[j] # tags[k]
            BY <1>7, <2>1, <3>1, LoggedFacts DEF IsLast
        <3> QED
            BY <1>6, <3>1, <3>2
    <2> DEFINE LE == [blk : Blocks, val : Vals \cup {Torn}]
    <2>0. Logged \in Seq(LE)
        BY LoggedFacts
    <2> HIDE DEF LE
    <2>2. Written(h, Logged) = h
        BY <1>2, <2>0, <2>1, WrittenDone
    <2>3. \A k \in 1 .. Len(Logged) : Logged[k].val \in Vals
        BY LoggedFacts DEF Intact
    <2>4. Written(h, Logged) \in [Blocks -> Vals]
        <3> DEFINE W == Vals \cup {Torn}
        <3>1. \A b \in Blocks : b \notin Touched(Logged) => h[b] \in Vals
            BY <1>5
        <3>2. h \in [Blocks -> W]
            BY <1>2
        <3> HIDE DEF W
        <3> QED
            BY <2>0, <2>3, <3>1, <3>2, WrittenType
    <2> QED
        BY <2>2, <2>4
<1> QED
    BY <1>2, <1>4, <1>5, <1>6, <1>7
-----------------------------------------------------------------------------
(* Every step keeps the invariant.                                         *)

LEMMA EmptyBuffer == << >> \in Seq(Entry) /\ Len(<< >>) <= JNL_BUF
<1>1. << >> \in Seq(Entry) /\ Len(<< >>) = 0
    OBVIOUS
<1> QED
    BY <1>1, JournalAssumption

LEMMA InitEstablishes == Init => IInv
<1> SUFFICES ASSUME Init
             PROVE  IInv
    OBVIOUS
<1> USE JournalAssumption DEF Init
<1>1. << >> \in Seq(Blocks) /\ << >> \in Seq(Entry) /\ Len(<< >>) = 0
    OBVIOUS
<1>2. Types
    <2>1. home \in [Blocks -> Vals \cup {Torn}]
        OBVIOUS
    <2>2. slots \in [1 .. JNL_BUF -> Vals \cup {Torn}]
        OBVIOUS
    <2>3. cur \in 1 .. JNL_BUF + 1 /\ Len(tags) <= JNL_BUF /\ Len(jnl_buf) <= JNL_BUF
        OBVIOUS
    <2>4. pc \in Phases /\ allowed \subseteq [Blocks -> Vals]
        BY DEF Phases
    <2> QED
        BY <1>1, <2>1, <2>2, <2>3, <2>4 DEF Types
<1>3. Logged = << >>
    BY DEF Logged
<1>4. Written(home, Logged) = home
    BY <1>3, WrittenNothing
<1>5. Clean
    BY <1>4 DEF Clean
<1>6. Position /\ InJournal /\ Intact /\ CopiedHome /\ Promised
    <2>1. Position /\ InJournal /\ CopiedHome
        BY DEF Position, InJournal, CopiedHome, Committing
    <2>2. Intact
        BY <1>1 DEF Intact
    <2>3. Promised
        BY DEF Promised
    <2> QED
        BY <2>1, <2>2, <2>3
<1> QED
    BY <1>2, <1>5, <1>6 DEF IInv

\* Begin, Abort and WriteBlock change the transaction in memory only.
LEMMA GatheringKeeps ==
    ASSUME IInv, pc = "idle", UNCHANGED <<disk, pc, cur, allowed>>,
           jnl_buf' \in Seq(Entry), Len(jnl_buf') <= JNL_BUF
    PROVE  IInv'
<1> USE DEF IInv, disk
<1>1. Types'
    BY DEF Types
<1>2. Logged' = Logged
    BY DEF Logged
<1>3. Position' /\ InJournal' /\ CopiedHome'
    BY DEF Position, InJournal, CopiedHome, Committing
<1>4. Intact'
    BY DEF Intact
<1>5. Clean'
    BY <1>2 DEF Clean, Committing
<1>6. Promised'
    BY <1>2 DEF Promised
<1> QED
    BY <1>1, <1>3, <1>4, <1>5, <1>6

LEMMA CommitKeeps ==
    ASSUME IInv, Commit
    PROVE  IInv'
<1> USE DEF IInv, disk, Commit
<1>1. home \in [Blocks -> Vals] /\ Written(home, jnl_buf) \in [Blocks -> Vals]
    BY BufferWritten DEF Clean
<1>2. Types'
    <2>1. allowed' \subseteq [Blocks -> Vals]
        BY <1>1
    <2> QED
        BY <2>1 DEF Types, Phases
<1>3. Logged' = Logged
    BY DEF Logged
<1>4. Position' /\ InJournal' /\ CopiedHome'
    BY DEF Position, InJournal, CopiedHome
<1>5. Intact'
    BY DEF Intact
<1>6. Clean'
    BY <1>3 DEF Clean
<1>7. Promised'
    BY DEF Promised
<1> QED
    BY <1>2, <1>4, <1>5, <1>6, <1>7

LEMMA WriteDescriptorKeeps ==
    ASSUME IInv, WriteDescriptor
    PROVE  IInv'
<1> USE DEF IInv, WriteDescriptor
<1>1. Len(jnl_buf) \in 1 .. JNL_BUF /\ DOMAIN jnl_buf = 1 .. Len(jnl_buf)
    BY BufferFacts, JournalAssumption DEF Types, Position, Committing
<1>2. tags' \in Seq(Blocks) /\ Len(tags') = Len(jnl_buf)
    <2> DEFINE n == Len(jnl_buf)
               t == [k \in DOMAIN jnl_buf |-> jnl_buf[k].blk]
    <2>1. n \in Nat
        BY <1>1, JournalAssumption
    <2>2. t \in [1 .. n -> Blocks]
        BY <1>1, BufferFacts
    <2> HIDE DEF n, t
    <2>3. t \in Seq(Blocks)
        BY <2>1, <2>2, SeqDef, Zenon
    <2>4. Len(t) = n
        BY <2>1, <2>2, <2>3, LenProperties
    <2> QED
        BY <2>3, <2>4 DEF n, t
<1>3. Types'
    BY <1>1, <1>2, JournalAssumption DEF Types, Phases
<1>4. Position'
    BY <1>1, JournalAssumption DEF Position, Committing
<1>5. InJournal' /\ Intact' /\ CopiedHome'
    BY DEF InJournal, Intact, CopiedHome
<1>6. Clean'
    BY DEF Clean, Committing
<1>7. Promised'
    BY DEF Promised
<1> QED
    BY <1>3, <1>4, <1>5, <1>6, <1>7

LEMMA WriteDataKeeps ==
    ASSUME IInv, WriteData
    PROVE  IInv'
<1> USE DEF IInv
<1>0. /\ pc = "data"
      /\ cur' = cur + 1
      /\ pc' = IF cur = Len(jnl_buf) THEN "commit" ELSE "data"
      /\ UNCHANGED <<home, tags, jnl_buf, allowed>>
    BY DEF WriteData
<1>1. /\ cur \in 1 .. Len(jnl_buf) /\ Len(jnl_buf) \in Nat /\ Len(jnl_buf) <= JNL_BUF
      /\ DOMAIN jnl_buf = 1 .. Len(jnl_buf) /\ DOMAIN tags = DOMAIN jnl_buf
    BY <1>0, BufferFacts, JournalAssumption DEF Types, Position, InJournal
<1>a. /\ cur \in Int /\ 1 <= cur /\ cur <= Len(jnl_buf) /\ cur <= JNL_BUF
      /\ JNL_BUF \in Int /\ Len(jnl_buf) \in Int
    <2>1. cur \in 1 .. Len(jnl_buf) /\ Len(jnl_buf) \in Nat /\ Len(jnl_buf) <= JNL_BUF
        BY <1>1
    <2> QED
        BY <2>1, JournalAssumption
<1>b. cur' = cur + 1 /\ cur' - 1 = cur /\ jnl_buf' = jnl_buf
    BY <1>0, <1>a
<1>2. jnl_buf[cur].val \in Vals
    BY <1>1, BufferFacts
<1>3. Types'
    <2>1. slots' \in [1 .. JNL_BUF -> Vals \cup {Torn}]
        BY <1>2 DEF Types, WriteData
    <2>2. cur' \in 1 .. JNL_BUF + 1
        BY <1>a, <1>b
    <2>3. pc' \in Phases
        BY <1>0 DEF Phases
    <2> QED
        BY <1>0, <2>1, <2>2, <2>3 DEF Types
<1>4. Position'
    <2>1. jnl_buf' # << >>
        BY <1>0 DEF Position, Committing
    <2>2. pc' = "data" => cur' <= Len(jnl_buf')
        BY <1>0, <1>a, <1>b
    <2>3. pc' \in {"data", "commit"}
        BY <1>0
    <2> QED
        BY <2>1, <2>2, <2>3 DEF Position
<1>5. \A k \in 1 .. cur : slots'[k] = jnl_buf[k].val
    <2>1. slots' = [slots EXCEPT ![cur] = jnl_buf[cur].val] /\ DOMAIN slots = 1 .. JNL_BUF
        BY DEF WriteData, Types
    <2>2. slots'[cur] = jnl_buf[cur].val
        BY <1>a, <2>1
    <2>3. \A k \in 1 .. cur - 1 : slots'[k] = slots[k] /\ slots[k] = jnl_buf[k].val
        BY <1>0, <1>a, <2>1 DEF InJournal
    <2> QED
        BY <1>a, <2>2, <2>3
<1>6. InJournal'
    <2>1. tags' = [k \in DOMAIN jnl_buf' |-> jnl_buf'[k].blk]
        BY <1>0 DEF InJournal
    <2>2. \A k \in 1 .. cur' - 1 : slots'[k] = jnl_buf'[k].val
        BY <1>b, <1>5
    <2>3. pc' \in {"commit", "apply"} => \A k \in DOMAIN jnl_buf' : slots'[k] = jnl_buf'[k].val
        BY <1>0, <1>1, <1>5
    <2> QED
        BY <2>1, <2>2, <2>3 DEF InJournal
<1>7. Intact'
    <2>1. ASSUME pc' # "data", NEW k \in 1 .. Len(tags')
          PROVE  slots'[k] \in Vals
        <3>1. cur = Len(jnl_buf) /\ k \in 1 .. Len(jnl_buf)
            BY <1>0, <1>1, <2>1, LoggedFacts
        <3> QED
            BY <1>5, <3>1, BufferFacts
    <2> QED
        BY <2>1 DEF Intact
<1>8. CopiedHome'
    BY <1>0 DEF CopiedHome
<1>9. Clean'
    BY <1>0 DEF Clean, Committing
<1>10. Promised'
    <2>1. CASE pc' = "data"
        BY <1>0, <2>1 DEF Promised
    <2>2. CASE pc' # "data"
        <3>1. pc' = "commit"
            BY <1>0, <2>2
        <3>2. Logged' = jnl_buf'
            BY <1>3, <1>6, <3>1, LoggedIsBufferNext
        <3> QED
            BY <1>0, <3>1, <3>2 DEF Promised
    <2> QED
        BY <2>1, <2>2
<1> QED
    BY <1>3, <1>4, <1>6, <1>7, <1>8, <1>9, <1>10

LEMMA WriteCommitKeeps ==
    ASSUME IInv, WriteCommit
    PROVE  IInv'
<1> USE DEF IInv, disk, WriteCommit
<1>1. Types'
    BY JournalAssumption DEF Types, Phases
<1>2. Len(jnl_buf) \in Nat /\ Len(jnl_buf) # 0
    BY BufferFacts DEF Position, Committing
<1>3. Position'
    BY <1>2 DEF Position, Committing
<1>4. Logged' = Logged
    BY DEF Logged
<1>5. InJournal'
    BY DEF InJournal
<1>6. Intact' /\ CopiedHome'
    BY DEF Intact, CopiedHome
<1>7. Clean'
    BY <1>4 DEF Clean, Committing
<1>8. Promised'
    BY <1>4 DEF Promised
<1> QED
    BY <1>1, <1>3, <1>5, <1>6, <1>7, <1>8

LEMMA ApplyKeeps ==
    ASSUME IInv, Apply
    PROVE  IInv'
<1> DEFINE h == [home EXCEPT ![tags[cur]] = slots[cur]]
           last == cur = Len(jnl_buf)
<1> USE DEF IInv
<1>1. Logged = jnl_buf /\ Len(tags) = Len(jnl_buf)
    <2>1. Logged = jnl_buf
        BY LoggedIsBuffer DEF Apply
    <2> QED
        BY <2>1, LoggedFacts
<1>2. /\ cur \in Int /\ 1 <= cur /\ cur <= Len(jnl_buf) /\ Len(jnl_buf) <= JNL_BUF
      /\ JNL_BUF \in Int /\ Len(jnl_buf) \in Int /\ cur \in 1 .. Len(tags)
    <2>1. cur \in 1 .. JNL_BUF + 1 /\ Len(jnl_buf) <= JNL_BUF /\ cur <= Len(jnl_buf)
        BY DEF Apply, Types, Position
    <2> QED
        BY <1>1, <2>1, BufferFacts, JournalAssumption
<1>3. /\ pc = "apply" /\ cur' = cur + 1 /\ cur' - 1 = cur /\ tags' = tags /\ slots' = slots
      /\ last => pc' = "idle" /\ jnl_buf' = << >> /\ allowed' = {Written(home, jnl_buf)}
      /\ ~ last => pc' = "apply" /\ jnl_buf' = jnl_buf /\ allowed' = allowed
    BY <1>2 DEF Apply
<1>4. home' = h
    <2>1. Logged[cur].blk = tags[cur] /\ Logged[cur].val = slots[cur]
        BY <1>2, LoggedFacts
    <2> QED
        BY <1>1, <2>1 DEF Apply
<1>5. Logged' = Logged
    BY <1>3 DEF Logged
<1>6. /\ h \in [Blocks -> Vals \cup {Torn}]
      /\ Written(h, Logged) = Written(home, Logged)
      /\ \A b \in Blocks : b \notin Touched(Logged) => h[b] \in Vals
      /\ \A k \in 1 .. cur : (\A j \in k + 1 .. cur : tags[j] # tags[k]) => h[tags[k]] = slots[k]
      /\ cur = Len(tags) => Written(h, Logged) = h /\ h \in [Blocks -> Vals]
    BY <1>2, <1>3, OneBlockHome
<1> HIDE DEF h, last
<1>7. home \in [Blocks -> Vals] /\ Written(home, jnl_buf) \in [Blocks -> Vals]
    BY <1>3, BufferWritten DEF Clean, Committing
<1>8. h \in [Blocks -> Vals]
    <2>1. tags[cur] \in Blocks /\ slots[cur] \in Vals
        BY <1>2, <1>3, LoggedFacts DEF Intact
    <2> QED
        BY <1>7, <2>1 DEF h
<1>9. Types'
    <2>1. cur' \in 1 .. JNL_BUF + 1
        BY <1>2, <1>3
    <2>2. pc' \in Phases
        BY <1>3 DEF Phases
    <2>3. jnl_buf' \in Seq(Entry) /\ Len(jnl_buf') <= JNL_BUF
        <3>1. CASE last
            BY <1>3, <3>1, EmptyBuffer
        <3>2. CASE ~ last
            BY <1>3, <3>2 DEF Types
        <3> QED
            BY <3>1, <3>2
    <2>4. allowed' \subseteq [Blocks -> Vals]
        BY <1>3, <1>7 DEF Types
    <2> QED
        BY <1>3, <1>4, <1>6, <2>1, <2>2, <2>3, <2>4 DEF Types
<1>10. Position'
    <2>1. ~ last => cur' <= Len(jnl_buf')
        BY <1>2, <1>3 DEF last
    <2>2. ~ last => jnl_buf' # << >>
        BY <1>3 DEF Position, Committing
    <2> QED
        BY <1>3, <2>1, <2>2 DEF Position, Committing
<1>11. InJournal'
    BY <1>3 DEF InJournal
<1>12. Intact'
    BY <1>3 DEF Intact
<1>13. CopiedHome'
    BY <1>3, <1>4, <1>6 DEF CopiedHome
<1>14. Clean'
    <2>1. last => Written(h, Logged) = h
        BY <1>1, <1>6 DEF last
    <2> QED
        BY <1>3, <1>4, <1>5, <1>6, <1>8, <2>1 DEF Clean
<1>15. Promised'
    <2>1. CASE last
        <3>1. h = Written(home, jnl_buf)
            BY <1>1, <1>6, <2>1 DEF last
        <3> QED
            BY <1>3, <1>4, <2>1, <3>1 DEF Promised
    <2>2. CASE ~ last
        BY <1>3, <1>4, <1>5, <1>6, <2>2 DEF Promised
    <2> QED
        BY <2>1, <2>2
<1> QED
    BY <1>9, <1>10, <1>11, <1>12, <1>13, <1>14, <1>15

\* A power failure tears at most a block that the journal holds.
LEMMA PowerFailKeeps ==
    ASSUME IInv, PowerFail, "data" \notin PowerFails
    PROVE  IInv' /\ Written(home', Logged) = Written(home, Logged)
<1> USE DEF IInv
<1>1. /\ pc \in {"idle", "desc", "commit", "apply", "replay"}
      /\ slots' = slots /\ tags' = tags /\ cur' = cur /\ allowed' = allowed
      /\ jnl_buf' = << >> /\ pc' = "down"
    BY DEF PowerFail, Types, Phases
<1>2. \/ home' = home
      \/ \E k \in 1 .. Len(tags) : home' = [home EXCEPT ![tags[k]] = Torn]
    <2>1. CASE pc = "apply"
        <3>1. cur \in 1 .. Len(tags)
            <4>1. Logged = jnl_buf
                BY <2>1, LoggedIsBuffer
            <4>2. cur \in 1 .. JNL_BUF + 1 /\ cur <= Len(jnl_buf)
                BY <2>1 DEF Types, Position
            <4> QED
                BY <4>1, <4>2, LoggedFacts, JournalAssumption
        <3>2. jnl_buf[cur].blk = tags[cur]
            BY <2>1, <3>1, LoggedIsBuffer, LoggedFacts
        <3>3. home' \in Cut(jnl_buf[cur].blk)
            BY <2>1 DEF PowerFail
        <3> QED
            BY <3>1, <3>2, <3>3 DEF Cut
    <2>2. CASE pc = "replay"
        <3>1. cur \in 1 .. Len(tags)
            BY <2>2, LoggedFacts, JournalAssumption DEF Types, Position
        <3>2. home' \in Cut(tags[cur])
            BY <2>2 DEF PowerFail
        <3> QED
            BY <3>1, <3>2 DEF Cut
    <2>3. CASE pc \notin {"apply", "replay"}
        BY <2>3 DEF PowerFail
    <2> QED
        BY <2>1, <2>2, <2>3
<1>3. Logged' = Logged
    BY <1>1 DEF Logged
<1>4. /\ home' \in [Blocks -> Vals \cup {Torn}]
      /\ Written(home', Logged) = Written(home, Logged)
      /\ \A b \in Blocks : b \notin Touched(Logged) => home'[b] \in Vals
    <2>1. CASE home' = home
        BY <2>1 DEF Types, Clean
    <2>2. ASSUME NEW k \in 1 .. Len(tags), home' = [home EXCEPT ![tags[k]] = Torn]
          PROVE  /\ home' \in [Blocks -> Vals \cup {Torn}]
                 /\ Written(home', Logged) = Written(home, Logged)
                 /\ \A b \in Blocks : b \notin Touched(Logged) => home'[b] \in Vals
        <3>1. Logged[k].blk = tags[k] /\ k \in DOMAIN Logged
            BY LoggedFacts
        <3>2. tags[k] \in Touched(Logged)
            BY <3>1 DEF Touched
        <3>3. Written(home', Logged) = Written(home, Logged)
            BY ZenonT(60), <2>2, <3>1, WrittenAbsorbs
        <3>4. home \in [Blocks -> Vals \cup {Torn}]
            BY DEF Types
        <3>5. \A b \in Blocks : b \notin Touched(Logged) => home[b] \in Vals
            BY DEF Clean
        <3> QED
            BY <2>2, <3>2, <3>3, <3>4, <3>5
    <2> QED
        BY <1>2, <2>1, <2>2
<1>5. Types'
    <2>1. jnl_buf' \in Seq(Entry) /\ Len(jnl_buf') <= JNL_BUF
        BY <1>1, EmptyBuffer
    <2> QED
        BY <1>1, <1>4, <2>1 DEF Types, Phases
<1>6. Position' /\ InJournal' /\ CopiedHome'
    BY <1>1 DEF Position, InJournal, CopiedHome, Committing
<1>7. Intact'
    BY <1>1 DEF Intact
<1>8. Clean'
    BY <1>1, <1>3, <1>4 DEF Clean, Committing
<1>9. Promised'
    <2>1. Written(home, Logged) \in allowed
        BY <1>1 DEF Promised, Clean
    <2> QED
        BY <1>1, <1>3, <1>4, <2>1 DEF Promised
<1> QED
    BY <1>4, <1>5, <1>6, <1>7, <1>8, <1>9

LEMMA MountKeeps ==
    ASSUME IInv, Mount
    PROVE  IInv'
<1> USE DEF IInv, Mount, disk
<1>1. Types'
    BY JournalAssumption DEF Types, Phases
<1>2. tags = << >> <=> Len(tags) = 0
    BY EmptySeq DEF Types
<1>3. Len(tags) \in Nat
    BY LoggedFacts
<1>4. Position'
    BY <1>2, <1>3 DEF Position, Committing
<1>5. Logged' = Logged
    BY DEF Logged
<1>6. InJournal' /\ Intact' /\ CopiedHome'
    BY DEF InJournal, Intact, CopiedHome
<1>7. CASE tags = << >>
    <2>1. Logged = << >> /\ Touched(Logged) = {}
        BY <1>7 DEF Logged, Touched
    <2>2. home \in [Blocks -> Vals]
        BY <2>1 DEF Clean, Types
    <2>3. Written(home, Logged) = home
        BY <2>1, <2>2, WrittenNothing
    <2>4. Clean'
        BY <1>5, <1>7, <2>1, <2>2, <2>3 DEF Clean, Committing
    <2>5. Promised'
        BY <1>7, <2>3 DEF Promised
    <2> QED
        BY <1>1, <1>4, <1>6, <2>4, <2>5
<1>8. CASE tags # << >>
    <2>1. Clean'
        BY <1>5, <1>8 DEF Clean, Committing
    <2>2. Promised'
        BY <1>5, <1>8 DEF Promised
    <2> QED
        BY <1>1, <1>4, <1>6, <2>1, <2>2
<1> QED
    BY <1>7, <1>8

LEMMA ReplayKeeps ==
    ASSUME IInv, Replay
    PROVE  IInv'
<1> DEFINE h == [home EXCEPT ![tags[cur]] = slots[cur]]
           last == cur = Len(tags)
<1> USE DEF IInv
<1>1. /\ cur \in Int /\ 1 <= cur /\ cur <= Len(tags) /\ Len(tags) <= JNL_BUF
      /\ JNL_BUF \in Int /\ Len(tags) \in Int /\ cur \in 1 .. Len(tags)
    <2>1. cur \in 1 .. JNL_BUF + 1 /\ Len(tags) <= JNL_BUF /\ cur <= Len(tags)
        BY DEF Replay, Types, Position
    <2> QED
        BY <2>1, LoggedFacts, JournalAssumption
<1>2. /\ pc = "replay" /\ home' = h /\ cur' = cur + 1 /\ cur' - 1 = cur
      /\ pc' = IF last THEN "idle" ELSE "replay"
      /\ tags' = tags /\ slots' = slots /\ jnl_buf' = jnl_buf /\ allowed' = allowed
    BY <1>1 DEF Replay
<1>3. Logged' = Logged
    BY <1>2 DEF Logged
<1>4. /\ h \in [Blocks -> Vals \cup {Torn}]
      /\ Written(h, Logged) = Written(home, Logged)
      /\ \A b \in Blocks : b \notin Touched(Logged) => h[b] \in Vals
      /\ \A k \in 1 .. cur : (\A j \in k + 1 .. cur : tags[j] # tags[k]) => h[tags[k]] = slots[k]
      /\ cur = Len(tags) => Written(h, Logged) = h /\ h \in [Blocks -> Vals]
    BY <1>1, <1>2, OneBlockHome
<1> HIDE DEF h, last
<1>5. Types'
    <2>1. cur' \in 1 .. JNL_BUF + 1
        BY <1>1, <1>2
    <2> QED
        BY <1>2, <1>4, <2>1 DEF Types, Phases
<1>6. Position'
    <2>1. ~ last => cur' <= Len(tags')
        BY <1>1, <1>2 DEF last
    <2> QED
        BY <1>2, <2>1 DEF Position, Committing
<1>7. InJournal' /\ Intact'
    BY <1>2 DEF InJournal, Intact
<1>8. CopiedHome'
    BY <1>2, <1>4 DEF CopiedHome
<1>9. Clean'
    BY <1>2, <1>3, <1>4 DEF Clean, Committing, last
<1>10. Promised'
    <2>1. Written(h, Logged) \in allowed
        BY <1>2, <1>4 DEF Promised
    <2> QED
        BY <1>2, <1>3, <1>4, <2>1 DEF Promised, last
<1> QED
    BY <1>5, <1>6, <1>7, <1>8, <1>9, <1>10
-----------------------------------------------------------------------------
(* The theorems.                                                           *)

\* What Begin, Abort and WriteBlock leave in memory is a transaction.
LEMMA Gathered ==
    ASSUME IInv, NEW b \in Blocks, NEW v \in Vals
    PROVE  /\ Buffered(jnl_buf, b, v) \in Seq(Entry)
           /\ Len(Buffered(jnl_buf, b, v)) <= JNL_BUF
<1>1. jnl_buf \in Seq(Entry) /\ Len(jnl_buf) \in Nat /\ Len(jnl_buf) <= JNL_BUF
    BY BufferFacts DEF IInv, Types
<1> DEFINE e == [blk |-> b, val |-> v]
<1>2. e \in Entry
    BY DEF Entry
<1> HIDE DEF e
<1>3. Append(jnl_buf, e) \in Seq(Entry) /\ Len(Append(jnl_buf, e)) = Len(jnl_buf) + 1
    BY <1>1, <1>2, AppendProperties
<1> QED
    BY <1>1, <1>3, JournalAssumption DEF Buffered, e

LEMMA NextKeeps ==
    ASSUME IInv, [Next]_vars, "data" \notin PowerFails
    PROVE  IInv'
<1>1. CASE Begin
    BY <1>1, EmptyBuffer, GatheringKeeps DEF Begin
<1>2. CASE Abort
    BY <1>2, EmptyBuffer, GatheringKeeps DEF Abort
<1>3. CASE Commit
    BY <1>3, CommitKeeps
<1>4. ASSUME NEW b \in Blocks, NEW v \in Vals, WriteBlock(b, v)
      PROVE  IInv'
    BY <1>4, Gathered, GatheringKeeps DEF WriteBlock
<1>5. CASE CommitStep
    BY <1>5, WriteDescriptorKeeps, WriteDataKeeps, WriteCommitKeeps, ApplyKeeps DEF CommitStep
<1>6. CASE PowerFail
    BY <1>6, PowerFailKeeps
<1>7. CASE MountStep
    BY <1>7, MountKeeps, ReplayKeeps DEF MountStep
<1>8. CASE UNCHANGED vars
    <2>1. UNCHANGED <<home, tags, slots, jnl_buf, pc, cur, allowed>>
        BY <1>8 DEF vars
    <2>2. Logged' = Logged
        BY <2>1 DEF Logged
    <2>3. Types' /\ Position' /\ InJournal' /\ Intact' /\ CopiedHome'
        BY <2>1 DEF IInv, Types, Position, InJournal, Intact, CopiedHome
    <2>4. Clean' /\ Promised'
        BY <2>1, <2>2 DEF IInv, Clean, Promised
    <2> QED
        BY <2>3, <2>4 DEF IInv
<1> QED
    BY <1>1, <1>2, <1>3, <1>4, <1>5, <1>6, <1>7, <1>8 DEF Next

LEMMA IInvImplies == IInv => TypeOK /\ Recovered
<1> SUFFICES ASSUME IInv
             PROVE  TypeOK /\ Recovered
    OBVIOUS
<1> USE DEF IInv
<1>1. pc \notin {"down", "replay"} => home \in [Blocks -> Vals]
    BY DEF Types, Phases, Clean, Committing
<1>2. pc # "data" => Written(home, Logged) \in [Blocks -> Vals]
    BY DEF Types, Phases, Clean, Promised
<1>3. TypeOK
    BY <1>1, <1>2 DEF Types, TypeOK
<1>4. Recovered
    BY DEF Promised, Recovered
<1> QED
    BY <1>3, <1>4

THEOREM Invariance ==
    ASSUME "data" \notin PowerFails
    PROVE  Spec => []IInv
<1>1. IInv /\ [Next]_vars => IInv'
    BY NextKeeps
<1> QED
    BY <1>1, InitEstablishes, PTL DEF Spec

\* The variables of the journal keep their types: in particular the file
\* system never comes up on a block that a power failure tore.
THEOREM NothingTorn ==
    ASSUME "data" \notin PowerFails
    PROVE  Spec => []TypeOK
BY Invariance, IInvImplies, PTL

\* A mounted file system holds either what it held before the transaction
\* that a power failure cut short, or all of that transaction
\* (biscuitfs_journal_commit and biscuitfs_journal_replay).
THEOREM DiskRecovers ==
    ASSUME "data" \notin PowerFails
    PROVE  Spec => []Recovered
BY Invariance, IInvImplies, PTL
-----------------------------------------------------------------------------
(* The journal implements a disk with atomic transactions.                 *)

\* What the refinement mapping makes of the disk and of the transaction.
store == IF pc \in {"desc", "data"} THEN home ELSE Written(home, Logged)
txn   == IF pc \in {"commit", "apply"} THEN << >> ELSE jnl_buf

LEMMA SameWritten ==
    ASSUME NEW d, NEW log
    PROVE  Abstract!Written(d, log) = Written(d, log)
BY DEF Abstract!Written, Abstract!Touched, Abstract!Left, Abstract!IsLast,
       Written, Touched, Left, IsLast

LEMMA InitMaps == Init => Abstract!Init
<1> SUFFICES ASSUME Init
             PROVE  Abstract!Init
    OBVIOUS
<1>1. Logged = << >>
    BY DEF Init, Logged
<1>2. Written(home, Logged) = home
    BY <1>1, WrittenNothing DEF Init
<1> QED
    BY <1>2 DEF Init, Abstract!Init

\* Outside a commit the store is what the disk would hold after a replay.
LEMMA StoreIsWritten ==
    ASSUME IInv, pc # "data"
    PROVE  store = Written(home, Logged)
BY DEF IInv, Clean, store

LEMMA NextMaps ==
    ASSUME IInv, [Next]_vars, "data" \notin PowerFails
    PROVE  [Abstract!Next]_<<store, txn>>
<1>1. ASSUME store' = store, txn' = << >>
      PROVE  Abstract!Next
    BY <1>1 DEF Abstract!Next, Abstract!Discard, store, txn
<1>2. CASE Begin \/ Abort
    <2>1. Logged' = Logged
        BY <1>2 DEF Begin, Abort, disk, Logged
    <2>2. store' = store /\ txn' = << >>
        BY <1>2, <2>1 DEF Begin, Abort, disk, store, txn
    <2> QED
        BY <1>1, <2>2
<1>3. CASE Commit
    <2>1. Logged' = Logged
        BY <1>3 DEF Commit, disk, Logged
    <2>2. store = home
        BY <1>3 DEF Commit, IInv, Clean, store
    <2> QED
        BY <1>3, <2>1, <2>2 DEF Commit, disk, store, txn
<1>4. ASSUME NEW b \in Blocks, NEW v \in Vals, WriteBlock(b, v)
      PROVE  [Abstract!Next]_<<store, txn>>
    <2>1. pc = "idle" /\ pc' = "idle" /\ home' = home /\ tags' = tags /\ slots' = slots
        BY <1>4 DEF WriteBlock, disk
    <2>2. Logged' = Logged
        BY <2>1 DEF Logged
    <2>3. store' = store /\ txn = jnl_buf /\ txn' = Buffered(jnl_buf, b, v)
        BY <1>4, <2>1, <2>2 DEF WriteBlock, store, txn
    <2>4. CASE Len(jnl_buf) >= JNL_BUF
        BY <2>3, <2>4 DEF Buffered
    <2>5. CASE ~ (Len(jnl_buf) >= JNL_BUF)
        <3>1. Len(txn) < JNL_BUF
            BY <2>3, <2>5, BufferFacts, JournalAssumption DEF IInv
        <3>2. txn' = Append(txn, [blk |-> b, val |-> v])
            BY <2>3, <2>5 DEF Buffered
        <3>3. Abstract!Gather(b, v)
            BY <2>3, <3>1, <3>2 DEF Abstract!Gather, store, txn
        <3> QED
            BY <3>3 DEF Abstract!Next
    <2> QED
        BY <2>4, <2>5
<1>5. CASE WriteDescriptor
    BY <1>5 DEF WriteDescriptor, store, txn
<1>6. CASE WriteData
    <2>1. pc = "data" /\ home' = home /\ jnl_buf' = jnl_buf /\ pc' \in {"data", "commit"}
        BY <1>6 DEF WriteData
    <2>2. store = home /\ txn = jnl_buf
        BY <2>1 DEF store, txn
    <2>3. CASE pc' = "data"
        BY <2>1, <2>2, <2>3 DEF store, txn
    <2>4. CASE pc' = "commit"
        <3>1. Logged' = jnl_buf
            BY <1>6, <2>1, <2>4, WriteDataKeeps, LoggedIsBufferNext DEF IInv
        <3>2. store' = Written(store, txn) /\ txn' = << >>
            BY <2>1, <2>2, <2>4, <3>1 DEF store, txn
        <3>3. txn # << >>
            BY <2>1, <2>2 DEF IInv, Position, Committing
        <3>4. Abstract!Commit
            BY <3>2, <3>3, SameWritten DEF Abstract!Commit, store, txn
        <3> QED
            BY <3>4 DEF Abstract!Next
    <2> QED
        BY <2>1, <2>3, <2>4
<1>7. CASE WriteCommit
    <2>1. Logged' = Logged
        BY <1>7 DEF WriteCommit, disk, Logged
    <2> QED
        BY <1>7, <2>1 DEF WriteCommit, disk, store, txn
<1>8. CASE Apply
    <2>1. pc = "apply" /\ pc' \in {"apply", "idle"} /\ tags' = tags /\ slots' = slots
        BY <1>8 DEF Apply
    <2>2. Logged = jnl_buf /\ Logged' = Logged
        BY <2>1, LoggedIsBuffer DEF IInv, Logged
    <2>3. cur \in DOMAIN Logged
        <3>1. cur \in 1 .. JNL_BUF + 1 /\ cur <= Len(jnl_buf)
            BY <2>1 DEF IInv, Types, Position
        <3> QED
            BY <2>2, <3>1, BufferFacts, JournalAssumption DEF IInv
    <2>4. home' = [home EXCEPT ![Logged[cur].blk] = Logged[cur].val]
        BY <1>8, <2>2 DEF Apply
    <2>5. Written(home', Logged) = Written(home, Logged)
        BY <2>3, <2>4, WrittenAbsorbs
    <2>6. store' = store
        BY <2>1, <2>2, <2>5 DEF store
    <2>7. txn = << >> /\ txn' = << >>
        BY <1>8, <2>1 DEF Apply, txn
    <2> QED
        BY <2>6, <2>7
<1>9. CASE PowerFail
    <2>1. /\ pc # "data" /\ pc' = "down" /\ jnl_buf' = << >>
          /\ tags' = tags /\ slots' = slots
        BY <1>9 DEF PowerFail
    <2>2. Logged' = Logged
        BY <2>1 DEF Logged
    <2>3. store' = store
        BY <1>9, <2>1, <2>2, PowerFailKeeps, StoreIsWritten DEF store
    <2>4. txn' = << >>
        BY <2>1 DEF txn
    <2> QED
        BY <1>1, <2>3, <2>4
<1>10. CASE Mount
    <2>1. Logged' = Logged
        BY <1>10 DEF Mount, disk, Logged
    <2> QED
        BY <1>10, <2>1 DEF Mount, disk, store, txn
<1>11. CASE Replay
    <2>1. /\ pc = "replay" /\ pc' \in {"replay", "idle"}
          /\ tags' = tags /\ slots' = slots /\ jnl_buf' = jnl_buf
          /\ home' = [home EXCEPT ![tags[cur]] = slots[cur]]
        BY <1>11 DEF Replay
    <2>2. Logged' = Logged
        BY <2>1 DEF Logged
    <2>3. cur \in DOMAIN Logged /\ Logged[cur].blk = tags[cur]
        <3>1. cur \in 1 .. JNL_BUF + 1 /\ cur <= Len(tags)
            BY <2>1 DEF IInv, Types, Position
        <3> QED
            BY <3>1, LoggedFacts, JournalAssumption DEF IInv
    <2>4. Written(home', Logged) = Written(home, Logged)
        BY ZenonT(60), <2>1, <2>3, WrittenAbsorbs
    <2> QED
        BY <2>1, <2>2, <2>4 DEF store, txn
<1>12. CASE UNCHANGED vars
    <2>1. Logged' = Logged
        BY <1>12 DEF vars, Logged
    <2> QED
        BY <1>12, <2>1 DEF vars, store, txn
<1> QED
    BY <1>2, <1>3, <1>4, <1>5, <1>6, <1>7, <1>8, <1>9, <1>10, <1>11, <1>12
       DEF Next, CommitStep, MountStep

\* Transactions are atomic: the file system above the journal sees a disk
\* whose contents change only by whole transactions.
THEOREM JournalIsAtomic ==
    ASSUME "data" \notin PowerFails
    PROVE  Spec => AtomicTransactions
<1>1. IInv /\ [Next]_vars => [Abstract!Next]_<<store, txn>>
    BY NextMaps
<1> QED
    BY <1>1, InitMaps, Invariance, PTL DEF Spec, AtomicTransactions, Abstract!Spec, store, txn

-----------------------------------------------------------------------------
(* Swap, for every size of the swap space, of its region and of the disk.  *)
(* That a page in swap stays as it was needs that two slots never share a  *)
(* page, which their numbers show; that nothing behind the region is       *)
(* written needs that the header counts the pages behind itself only, and  *)
(* that a slot is never taken before a header was read.                    *)

BlockContents == PageData \cup {"torn", "other"}

SwapTypeOK ==
    /\ pages \in [header : {NoHeader, REGION - 1}, pages : [1 .. DISK - 1 -> BlockContents]]
    /\ total \in Nat /\ active \in BOOLEAN
    /\ used \subseteq Slots
    /\ swapped \in [used -> PageData]

\* What is written lies inside the region.
Inside ==
    /\ active => total <= REGION - 1
    /\ ~active => used = {}

SwapInv == SwapTypeOK /\ Inside /\ SwapSound

LEMMA SwapInitInv == ASSUME SwapInit PROVE SwapInv
<1>. USE SwapAssumption DEF SwapInit
<1>1. swapped \in [{} -> PageData]
  OBVIOUS
<1>2. pages \in [header : {NoHeader, REGION - 1}, pages : [1 .. DISK - 1 -> BlockContents]]
  BY DEF BlockContents
<1>3. SwapTypeOK /\ Inside
  BY <1>1, <1>2 DEF SwapTypeOK, Inside
<1>4. SwapSound
  BY <1>1 DEF SwapSound, SlotsIntact, BehindRegion
<1>. QED
  BY <1>3, <1>4 DEF SwapInv

-----------------------------------------------------------------------------
LEMMA MkSwapInv == ASSUME SwapInv, MkSwap PROVE SwapInv'
<1>. USE SwapAssumption DEF SwapInv, MkSwap
<1>1. /\ SwapTypeOK'
      /\ pages'.pages = pages.pages
  BY DEF SwapTypeOK
<1>2. Inside'
  BY DEF Inside
<1>3. SwapSound'
  BY <1>1 DEF SwapSound, SlotsIntact, BehindRegion
<1>. QED
  BY <1>1, <1>2, <1>3

LEMMA ActivateInv == ASSUME SwapInv, NEW readable \in BOOLEAN, Activate(readable) PROVE SwapInv'
<1>. USE SwapAssumption DEF SwapInv, Activate
<1>1. active' => pages.header = REGION - 1
  BY DEF SwapTypeOK
<1>2. total' \in Nat /\ (active' => total' <= REGION - 1)
  BY <1>1 DEF Least
<1>3. SwapTypeOK' /\ Inside'
  BY <1>2 DEF SwapTypeOK, Inside
<1>4. SwapSound'
  BY DEF SwapSound, SlotsIntact, BehindRegion
<1>. QED
  BY <1>3, <1>4

LEMMA SwapOutInv ==
    ASSUME SwapInv, NEW data \in PageData, NEW written \in BOOLEAN, SwapOut(data, written)
    PROVE  SwapInv'
<1>. USE SwapAssumption
<1>1. PICK s \in FreeSwapSlot :
        /\ pages' = [pages EXCEPT !.pages[PageOf(s)] = IF written THEN data ELSE "torn"]
        /\ used' = IF written THEN used \cup {s} ELSE used
        /\ swapped' = IF ~written THEN swapped
                      ELSE [r \in DOMAIN swapped \cup {s} |-> IF r = s THEN data ELSE swapped[r]]
  BY DEF SwapOut
<1>2. s \in Slots /\ s < total /\ s \notin used /\ active /\ UNCHANGED <<total, active>>
  BY DEF FreeSwapSlot, SwapOut
<1>3. s \in Nat /\ PageOf(s) \in 1 .. REGION - 1
  BY <1>2 DEF PageOf, Slots, SwapInv, SwapTypeOK, Inside
<1>4. /\ pages'.header = pages.header
      /\ pages'.pages = [pages.pages EXCEPT ![PageOf(s)] = IF written THEN data ELSE "torn"]
  BY <1>1 DEF SwapInv, SwapTypeOK
<1>5. SwapTypeOK'
  <2>1. pages' \in [header : {NoHeader, REGION - 1}, pages : [1 .. DISK - 1 -> BlockContents]]
    BY <1>1, <1>4 DEF SwapInv, SwapTypeOK, BlockContents
  <2>2. used' \subseteq Slots /\ swapped' \in [used' -> PageData]
    BY <1>1, <1>2 DEF SwapInv, SwapTypeOK
  <2>. QED
    BY <1>2, <2>1, <2>2 DEF SwapInv, SwapTypeOK
<1>6. Inside'
  BY <1>2 DEF SwapInv, Inside
<1>7. SlotsIntact'
  <2>1. ASSUME NEW r \in used'
        PROVE  pages'.pages[PageOf(r)] = swapped'[r]
    <3>1. r \in Nat /\ PageOf(r) \in Int
      BY <1>1, <1>2 DEF SwapInv, SwapTypeOK, Slots, PageOf
    <3>2. CASE r = s
      BY <1>1, <1>2, <1>3, <1>4, <3>2 DEF SwapInv, SwapTypeOK
    <3>3. CASE r # s
      <4>1. PageOf(r) # PageOf(s) /\ r \in used /\ swapped'[r] = swapped[r]
        BY <1>1, <1>3, <3>1, <3>3 DEF PageOf, SwapInv, SwapTypeOK
      <4>. QED
        BY <1>4, <4>1 DEF SwapInv, SwapSound, SlotsIntact
    <3>. QED
      BY <3>2, <3>3
  <2>. QED
    BY <2>1, <1>5 DEF SlotsIntact, SwapTypeOK
<1>8. BehindRegion'
  BY <1>3, <1>4 DEF BehindRegion, SwapInv, SwapSound
<1>. QED
  BY <1>5, <1>6, <1>7, <1>8 DEF SwapInv, SwapSound

\* Giving a slot back, whether its page was read or is not wanted.
LEMMA GoneInv ==
    ASSUME SwapInv, NEW s \in Slots, active,
           used' = used \ {s}, Gone(s), UNCHANGED <<pages, total, active>>
    PROVE  SwapInv'
BY DEF SwapInv, SwapTypeOK, Inside, SwapSound, SlotsIntact, BehindRegion, Gone

LEMMA SwapStutters == ASSUME SwapInv, UNCHANGED swapVars PROVE SwapInv'
BY DEF SwapInv, SwapTypeOK, Inside, SwapSound, SlotsIntact, BehindRegion, swapVars

LEMMA SwapNextInv == ASSUME SwapInv, [SwapNext]_swapVars PROVE SwapInv'
<1>1. CASE MkSwap
  BY <1>1, MkSwapInv
<1>2. ASSUME NEW readable \in BOOLEAN, Activate(readable) PROVE SwapInv'
  BY <1>2, ActivateInv
<1>3. ASSUME NEW data \in PageData, NEW written \in BOOLEAN, SwapOut(data, written)
      PROVE  SwapInv'
  BY <1>3, SwapOutInv
<1>4. ASSUME NEW s \in Slots, NEW readable \in BOOLEAN, SwapIn(s, readable) PROVE SwapInv'
  BY <1>4, GoneInv, SwapStutters DEF SwapIn, swapVars
<1>5. ASSUME NEW s \in Slots, SwapFree(s) PROVE SwapInv'
  BY <1>5, GoneInv DEF SwapFree
<1>6. CASE UNCHANGED swapVars
  BY <1>6, SwapStutters
<1>. QED
  BY <1>1, <1>2, <1>3, <1>4, <1>5, <1>6 DEF SwapNext

-----------------------------------------------------------------------------
(* For every sequence of swap calls, failed reads and writes and a second  *)
(* activation included: a page in swap is what its owner put there, and    *)
(* the disk behind the region is untouched (swap_out, swap_in, swap_free,  *)
(* swap_init, mkswap).                                                     *)
THEOREM SwapKeepsPages == SwapSpec => []SwapSound
<1>1. SwapInit => SwapInv
  BY SwapInitInv
<1>2. SwapInv /\ [SwapNext]_swapVars => SwapInv'
  BY SwapNextInv
<1>3. SwapInv => SwapSound
  BY DEF SwapInv
<1>. QED
  BY <1>1, <1>2, <1>3, PTL DEF SwapSpec

-----------------------------------------------------------------------------
(* Modules.  A load in progress holds one block of some kinds above what   *)
(* the heap held before (Holds); at its end these are the kinds a module   *)
(* keeps, or none.                                                         *)

ModuleEntry == [name : STRING, dynamic : BOOLEAN, loaded : BOOLEAN, file : Files \cup {NoFile}]

ModulesTypeOK ==
    /\ stage \in {"cold", "exported", "heap", "up"}
    /\ drivers \in Seq(STRING)
    /\ modules \in Seq(ModuleEntry)
    /\ held \in [Kinds -> Nat]
    /\ \A i \in Dynamic : modules[i].file \in Files

\* Nothing is loaded before the symbols were exported.
ModulesInv ==
    /\ ModulesTypeOK /\ ModulesSound
    /\ stage = "cold" => Dynamic = {}

-----------------------------------------------------------------------------
(* Where sections are placed.                                              *)

\* An address rounded up is a multiple of the alignment, and no lower.
LEMMA Rounded ==
    ASSUME NEW a \in Nat, NEW n \in Nat
    PROVE  /\ AlignUp(a, n) \in Nat /\ AlignUp(a, n) >= a
           /\ n > 1 => AlignUp(a, n) % n = 0
<1>1. CASE ~(n > 1)
  BY <1>1 DEF AlignUp
<1>2. CASE n > 1
  <2>1. PICK b \in Nat : b = a + n - 1
    BY <1>2
  <2>2. n \in Nat \ {0}
    BY <1>2
  <2>3. b % n \in 0 .. n - 1 /\ b \div n \in Int /\ b = n * (b \div n) + (b % n)
    BY <2>2, DivMod
  <2>4. PICK q \in Int, r \in 0 .. n - 1 : q = b \div n /\ r = b % n /\ b = n * q + r
    BY <2>3
  <2>5. AlignUp(a, n) = q * n
    BY <1>2, <2>1, <2>4 DEF AlignUp
  <2>6. n * q \in Int /\ q * n = n * q
    BY <2>2
  <2>7. n * q >= a
    BY ONLY <2>1, <2>2, <2>4, <2>6, a \in Nat
  <2>8. (n * q + 0) % n = 0
    BY <2>2, ModOf
  <2>. QED
    BY <1>2, <2>5, <2>6, <2>7, <2>8
<1>. QED
  BY <1>1, <1>2

\* Each section that is loaded begins no lower than the ones before it end.
IsLayout(end, secs) ==
    /\ end \in [0 .. Len(secs) -> Nat] /\ end[0] = 0
    /\ \A i \in 1 .. Len(secs) :
        end[i] = IF ~secs[i].alloc THEN end[i - 1]
                 ELSE AlignUp(end[i - 1], secs[i].align) + secs[i].size

LEMMA LaidOut ==
    ASSUME NEW secs \in Seq(Section) PROVE IsLayout(SectionsEnd(secs), secs)
<1>. DEFINE n == Len(secs)
            G == [z \in Nat \X (1 .. n) |->
                    IF ~secs[z[2]].alloc THEN z[1]
                    ELSE AlignUp(z[1], secs[z[2]].align) + secs[z[2]].size]
            Rec(g) == g = [i \in 0 .. n |->
                        IF i = 0 THEN 0
                        ELSE IF ~secs[i].alloc THEN g[i - 1]
                        ELSE AlignUp(g[i - 1], secs[i].align) + secs[i].size]
<1>1. n \in Nat /\ \A i \in 1 .. n : secs[i] \in Section
  OBVIOUS
<1>2. G \in [Nat \X (1 .. n) -> Nat]
  <2>1. ASSUME NEW z \in Nat \X (1 .. n) PROVE G[z] \in Nat
    <3>1. secs[z[2]].size \in Nat /\ secs[z[2]].align \in Nat
      BY <1>1 DEF Section
    <3>2. AlignUp(z[1], secs[z[2]].align) \in Nat
      BY <3>1, Rounded
    <3>. QED
      BY <3>1, <3>2
  <2>. QED
    BY <2>1
<1>3. PICK f : IsLoop(f, Nat, 0, n, G)
  <2>. HIDE DEF G, n
  <2>. QED
    BY <1>1, <1>2, Iterates
<1>4. f \in [0 .. n -> Nat] /\ f[0] = 0 /\ \A i \in 1 .. n : f[i] = G[<<f[i - 1], i>>]
  <2>. HIDE DEF G, n
  <2>. QED
    BY <1>3 DEF IsLoop
<1>5. ASSUME NEW i \in 1 .. n
      PROVE  f[i] = IF ~secs[i].alloc THEN f[i - 1]
                    ELSE AlignUp(f[i - 1], secs[i].align) + secs[i].size
  <2>1. i - 1 \in 0 .. n
    BY <1>1
  <2>2. f[i - 1] \in Nat
    BY <1>4, <2>1
  <2>3. <<f[i - 1], i>> \in Nat \X (1 .. n)
    BY <2>2
  <2>4. f[i] = G[<<f[i - 1], i>>]
    BY <1>4
  <2>. QED
    BY <2>3, <2>4
<1>6. Rec(f)
  <2>1. f = [i \in 0 .. n |-> f[i]]
    BY <1>4
  <2>2. \A i \in 0 .. n : f[i] = IF i = 0 THEN 0
                        ELSE IF ~secs[i].alloc THEN f[i - 1]
                        ELSE AlignUp(f[i - 1], secs[i].align) + secs[i].size
    <3>1. \A i \in 0 .. n : i = 0 \/ i \in 1 .. n
      BY <1>1
    <3>. QED
      BY <1>4, <1>5, <3>1
  <2>. QED
    BY <2>1, <2>2
<1>7. ASSUME NEW g, Rec(g) PROVE IsLayout(g, secs)
  <2>0. DOMAIN g = 0 .. n
    BY <1>7
  <2>1. g[0] = 0
    <3>1. 0 \in 0 .. n
      BY <1>1
    <3>. HIDE DEF n
    <3>. QED
      BY <1>7, <3>1
  <2>2. \A i \in 1 .. n : g[i] = IF ~secs[i].alloc THEN g[i - 1]
                 ELSE AlignUp(g[i - 1], secs[i].align) + secs[i].size
    <3>1. \A i \in 1 .. n : i \in 0 .. n /\ i # 0
      BY <1>1
    <3>. HIDE DEF n
    <3>. QED
      BY <1>7, <3>1
  <2>. DEFINE S == {i \in 0 .. n : g[i] \in Nat}
  <2>3. 0 \in S
    BY <1>1, <2>1
  <2>4. ASSUME NEW i \in 1 .. n, i - 1 \in S PROVE i \in S
    <3>1. g[i - 1] \in Nat /\ i \in 0 .. n
      BY <1>1, <2>4
    <3>2. secs[i].size \in Nat /\ secs[i].align \in Nat
      BY <1>1 DEF Section
    <3>3. AlignUp(g[i - 1], secs[i].align) \in Nat
      BY <3>1, <3>2, Rounded
    <3>. QED
      BY SMTT(30), <2>2, <3>1, <3>2, <3>3
  <2>5. 0 .. n \subseteq S
    <3>. HIDE DEF S, n
    <3>. QED
      BY <1>1, <2>3, <2>4, UpTo
  <2>6. g = [i \in 0 .. n |-> g[i]]
    BY <1>7
  <2>7. g \in [0 .. n -> Nat]
    <3>. HIDE DEF Rec
    <3>. QED
    BY <2>5, <2>6
  <2>. QED
    <3>. HIDE DEF Rec
    <3>. QED
    BY <2>1, <2>2, <2>7 DEF IsLayout
<1>8. SectionsEnd(secs) = CHOOSE g : Rec(g)
  BY DEF SectionsEnd
<1>9. Rec(SectionsEnd(secs))
  <2>. HIDE DEF Rec
  <2>. QED
  BY <1>6, <1>8
<1>. QED
  <2>. HIDE DEF Rec
  <2>. QED
  BY <1>7, <1>9

\* A section ends where the next one may begin, and the ends only grow.
LEMMA EndsGrow ==
    ASSUME NEW secs \in Seq(Section), NEW end, IsLayout(end, secs)
    PROVE  /\ \A i \in 1 .. Len(secs) :
                /\ secs[i].alloc => end[i] = AlignUp(end[i - 1], secs[i].align) + secs[i].size
                /\ AlignUp(end[i - 1], secs[i].align) \in Nat
                /\ AlignUp(end[i - 1], secs[i].align) >= end[i - 1]
                /\ secs[i].align > 1 =>
                     AlignUp(end[i - 1], secs[i].align) % secs[i].align = 0
                /\ end[i - 1] <= end[i]
           /\ \A i \in 0 .. Len(secs), j \in 0 .. Len(secs) : i <= j => end[i] <= end[j]
<1>0. Len(secs) \in Nat /\ \A i \in 0 .. Len(secs) : end[i] \in Nat
  BY DEF IsLayout
<1>1. ASSUME NEW i \in 1 .. Len(secs)
      PROVE  /\ secs[i].alloc => end[i] = AlignUp(end[i - 1], secs[i].align) + secs[i].size
             /\ AlignUp(end[i - 1], secs[i].align) \in Nat
             /\ AlignUp(end[i - 1], secs[i].align) >= end[i - 1]
             /\ secs[i].align > 1 => AlignUp(end[i - 1], secs[i].align) % secs[i].align = 0
             /\ end[i - 1] <= end[i]
  <2>1. secs[i].size \in Nat /\ secs[i].align \in Nat
    <3>1. secs[i] \in Section
      OBVIOUS
    <3>. QED
      BY <3>1 DEF Section
  <2>2. i - 1 \in 0 .. Len(secs) /\ i \in 0 .. Len(secs)
    BY <1>0
  <2>3. end[i - 1] \in Nat /\ end[i] \in Nat
    BY <1>0, <2>2
  <2>4. end[i] = IF ~secs[i].alloc THEN end[i - 1]
                 ELSE AlignUp(end[i - 1], secs[i].align) + secs[i].size
    BY DEF IsLayout
  <2>5. /\ AlignUp(end[i - 1], secs[i].align) \in Nat
        /\ AlignUp(end[i - 1], secs[i].align) >= end[i - 1]
        /\ secs[i].align > 1 => AlignUp(end[i - 1], secs[i].align) % secs[i].align = 0
    BY <2>1, <2>3, Rounded
  <2>. QED
    BY <2>1, <2>3, <2>4, <2>5
<1>2. ASSUME NEW i \in 0 .. Len(secs), NEW j \in 0 .. Len(secs), i <= j PROVE end[i] <= end[j]
  <2>. DEFINE S == {k \in 0 .. Len(secs) - i : end[i] <= end[i + k]}
  <2>0. Len(secs) - i \in Nat /\ j - i \in 0 .. Len(secs) - i /\ i + (j - i) = j
    BY <1>0, <1>2
  <2>1. 0 \in S
    BY <1>0
  <2>2. ASSUME NEW k \in 1 .. Len(secs) - i, k - 1 \in S PROVE k \in S
    <3>1. i + k \in 1 .. Len(secs) /\ i + k \in 0 .. Len(secs) /\ (i + k) - 1 \in 0 .. Len(secs)
          /\ i + (k - 1) = (i + k) - 1 /\ k \in 0 .. Len(secs) - i
      BY <1>0
    <3>2. end[(i + k) - 1] <= end[i + k]
      BY <1>1, <3>1
    <3>3. end[i] <= end[(i + k) - 1]
      BY <2>2, <3>1
    <3>4. end[i] \in Nat /\ end[i + k] \in Nat /\ end[(i + k) - 1] \in Nat
      BY <1>0, <3>1
    <3>. QED
      BY <3>1, <3>2, <3>3, <3>4
  <2>3. 0 .. Len(secs) - i \subseteq S
    <3>. HIDE DEF S
    <3>. QED
      BY <2>0, <2>1, <2>2, UpTo
  <2>. QED
    BY <2>0, <2>3
<1>. QED
  BY <1>1, <1>2

\* SectionsApart, for one file.
Apart(f) ==
    \A i \in DOMAIN f.sections : Loaded(f, i) =>
        /\ f.sections[i].align > 1 => SectionAt(f, i) % f.sections[i].align = 0
        /\ SectionAt(f, i) + f.sections[i].size <= ImageSize(f)
        /\ \A j \in DOMAIN f.sections : Loaded(f, j) /\ j # i =>
            \/ SectionAt(f, i) + f.sections[i].size <= SectionAt(f, j)
            \/ SectionAt(f, j) + f.sections[j].size <= SectionAt(f, i)

LEMMA FilesApart == ASSUME NEW f \in Files PROVE Apart(f)
<1>1. PICK secs \in Seq(Section) : secs = f.sections
  BY ModulesAssumption
<1>2. PICK end : end = SectionsEnd(f.sections)
  OBVIOUS
<1>3. IsLayout(end, secs)
  BY <1>1, <1>2, LaidOut
<1>4. PICK n \in Nat : n = Len(secs)
  OBVIOUS
<1>5. /\ \A i \in 1 .. n :
           /\ secs[i].alloc => end[i] = AlignUp(end[i - 1], secs[i].align) + secs[i].size
           /\ AlignUp(end[i - 1], secs[i].align) \in Nat
           /\ AlignUp(end[i - 1], secs[i].align) >= end[i - 1]
           /\ secs[i].align > 1 => AlignUp(end[i - 1], secs[i].align) % secs[i].align = 0
      /\ \A i \in 0 .. n, j \in 0 .. n : i <= j => end[i] <= end[j]
  BY <1>3, <1>4, EndsGrow
<1>6. \A i \in 0 .. n : end[i] \in Nat
  BY <1>3, <1>4 DEF IsLayout
<1>7. ImageSize(f) = end[n] + PADDING /\ PADDING \in Nat
  BY <1>1, <1>2, <1>4, ModulesAssumption DEF ImageSize
<1>8. ASSUME NEW i \in DOMAIN f.sections, Loaded(f, i)
      PROVE  /\ i \in 1 .. n /\ i \in 0 .. n /\ i - 1 \in 0 .. n
             /\ SectionAt(f, i) = AlignUp(end[i - 1], secs[i].align)
             /\ SectionAt(f, i) \in Nat /\ SectionAt(f, i) >= end[i - 1]
             /\ SectionAt(f, i) + f.sections[i].size = end[i]
  <2>1. i \in 1 .. n /\ i \in 0 .. n /\ i - 1 \in 0 .. n /\ secs[i].alloc
    BY <1>1, <1>4, <1>8 DEF Loaded
  <2>2. SectionAt(f, i) = AlignUp(end[i - 1], secs[i].align)
    BY <1>1, <1>2 DEF SectionAt
  <2>. QED
    BY <1>1, <1>5, <2>1, <2>2
<1>9. ASSUME NEW i \in DOMAIN f.sections, Loaded(f, i), NEW j \in DOMAIN f.sections, Loaded(f, j),
             i < j
      PROVE  SectionAt(f, i) + f.sections[i].size <= SectionAt(f, j)
  <2>1. i \in 0 .. n /\ SectionAt(f, i) + f.sections[i].size = end[i]
    BY <1>8, <1>9
  <2>2. j - 1 \in 0 .. n /\ SectionAt(f, j) \in Nat /\ SectionAt(f, j) >= end[j - 1]
    BY <1>8, <1>9
  <2>3. i <= j - 1
    BY <1>1, <1>9
  <2>4. end[i] <= end[j - 1] /\ end[i] \in Nat /\ end[j - 1] \in Nat
    BY <1>5, <1>6, <2>1, <2>2, <2>3
  <2>. QED
    BY <2>1, <2>2, <2>4
<1>. SUFFICES ASSUME NEW i \in DOMAIN f.sections, Loaded(f, i)
              PROVE  /\ f.sections[i].align > 1 => SectionAt(f, i) % f.sections[i].align = 0
                     /\ SectionAt(f, i) + f.sections[i].size <= ImageSize(f)
                     /\ \A j \in DOMAIN f.sections : Loaded(f, j) /\ j # i =>
                         \/ SectionAt(f, i) + f.sections[i].size <= SectionAt(f, j)
                         \/ SectionAt(f, j) + f.sections[j].size <= SectionAt(f, i)
  BY DEF Apart
<1>10. f.sections[i].align > 1 => SectionAt(f, i) % f.sections[i].align = 0
  BY <1>1, <1>5, <1>8
<1>11. SectionAt(f, i) + f.sections[i].size <= ImageSize(f)
  <2>1. i \in 0 .. n /\ SectionAt(f, i) + f.sections[i].size = end[i] /\ n \in 0 .. n /\ i <= n
    BY <1>8
  <2>2. end[i] <= end[n] /\ end[i] \in Nat /\ end[n] \in Nat
    BY <1>5, <1>6, <2>1
  <2>. QED
    BY <1>7, <2>1, <2>2
<1>12. ASSUME NEW j \in DOMAIN f.sections, Loaded(f, j), j # i
       PROVE  \/ SectionAt(f, i) + f.sections[i].size <= SectionAt(f, j)
              \/ SectionAt(f, j) + f.sections[j].size <= SectionAt(f, i)
  <2>1. i < j \/ j < i
    BY <1>1, <1>12
  <2>. QED
    BY <1>9, <1>12, <2>1
<1>. QED
  BY <1>10, <1>11, <1>12
-----------------------------------------------------------------------------
(* The memory of a load.                                                   *)

Plus(h, K) == [k \in Kinds |-> IF k \in K THEN h[k] + 1 ELSE h[k]]

LEMMA NothingMore == ASSUME NEW h \in [Kinds -> Nat] PROVE Plus(h, {}) = h
BY DEF Plus

\* A load in progress holds one block of each kind in K, above h.
Holds(s, h, K) ==
    /\ s \in [ok : BOOLEAN, room : Nat, held : [Kinds -> Nat]]
    /\ K \subseteq Kinds
    /\ s.held = Plus(h, K)

LEMMA GotMore ==
    ASSUME NEW h \in [Kinds -> Nat], NEW K, NEW s, Holds(s, h, K), s.ok,
           NEW kind \in Kinds, kind \notin K
    PROVE  /\ Got(s, kind).ok => Holds(Got(s, kind), h, K \cup {kind})
           /\ ~Got(s, kind).ok => Holds(Got(s, kind), h, K)
<1>1. CASE s.room = 0
  <2>1. Got(s, kind) = [s EXCEPT !.ok = FALSE]
    BY <1>1 DEF Got
  <2>. QED
    BY <2>1 DEF Holds
<1>2. CASE s.room # 0
  <2>1. Got(s, kind) = [s EXCEPT !.room = @ - 1, !.held[kind] = @ + 1]
    BY <1>2 DEF Got
  <2>2. PICK g : g = [s.held EXCEPT ![kind] = @ + 1]
    OBVIOUS
  <2>3. /\ Got(s, kind) \in [ok : BOOLEAN, room : Nat, held : [Kinds -> Nat]]
        /\ Got(s, kind).ok /\ Got(s, kind).held = g
    <3>1. s \in [ok : BOOLEAN, room : Nat, held : [Kinds -> Nat]] /\ s.held[kind] \in Nat
      BY DEF Holds
    <3>2. g \in [Kinds -> Nat] /\ s.room - 1 \in Nat
      BY <1>2, <2>2, <3>1
    <3>3. Got(s, kind) = [s EXCEPT !.room = s.room - 1, !.held = g]
      BY <2>1, <2>2, <3>1
    <3>. QED
      BY <3>1, <3>2, <3>3
  <2>4. g = Plus(h, K \cup {kind})
    <3>1. \A k \in Kinds : s.held[k] = IF k \in K THEN h[k] + 1 ELSE h[k]
      BY DEF Holds, Plus
    <3>2. \A k \in Kinds : g[k] = IF k \in K \cup {kind} THEN h[k] + 1 ELSE h[k]
      BY <2>2, <3>1 DEF Holds
    <3>3. g = [k \in Kinds |-> g[k]]
      BY <2>2 DEF Holds
    <3>. QED
      BY <3>2, <3>3 DEF Plus
  <2>. QED
    BY <2>3, <2>4 DEF Holds
<1>. QED
  BY <1>1, <1>2

LEMMA GaveBack ==
    ASSUME NEW h \in [Kinds -> Nat], NEW K, NEW s, Holds(s, h, K), NEW L \in SUBSET K
    PROVE  Holds(Gave(s, L), h, K \ L) /\ Gave(s, L).ok = s.ok
<1>1. PICK g : g = [k \in Kinds |-> s.held[k] - IF k \in L THEN 1 ELSE 0]
  OBVIOUS
<1>2. Gave(s, L) = [s EXCEPT !.held = g]
  BY <1>1 DEF Gave, Holds
<1>3. \A k \in Kinds : g[k] = IF k \in K \ L THEN h[k] + 1 ELSE h[k]
  <2>1. \A k \in Kinds : /\ s.held[k] = IF k \in K THEN h[k] + 1 ELSE h[k]
                       /\ h[k] \in Nat
    BY DEF Holds, Plus
  <2>. QED
    BY <1>1, <2>1
<1>4. g = Plus(h, K \ L) /\ g \in [Kinds -> Nat]
  <2>1. g = [k \in Kinds |-> g[k]]
    BY <1>1
  <2>. QED
    BY <1>3, <2>1 DEF Plus
<1>. QED
  BY <1>2, <1>4 DEF Holds

LEMMA FailedHolds ==
    ASSUME NEW h \in [Kinds -> Nat], NEW K, NEW s, Holds(s, h, K)
    PROVE  Holds(Failed(s), h, K) /\ ~Failed(s).ok
BY DEF Failed, Holds

\* module_elf_load keeps the image when it succeeds, and nothing when not.
LEMMA ElfLoads ==
    ASSUME NEW h \in [Kinds -> Nat], NEW s, Holds(s, h, {"buffer"}), s.ok, NEW f
    PROVE  /\ ElfLoad(s, f).ok => Holds(ElfLoad(s, f), h, {"buffer", "image"})
           /\ ~ElfLoad(s, f).ok => Holds(ElfLoad(s, f), h, {"buffer"})
<1>1. PICK image : image = Got(s, "image")
  OBVIOUS
<1>2. PICK table : table = Got(image, "sections")
  OBVIOUS
<1>3. {"image", "sections"} \subseteq Kinds
  BY DEF Kinds
<1>4. /\ image.ok => Holds(image, h, {"buffer", "image"})
      /\ ~image.ok => Holds(image, h, {"buffer"})
  <2>1. {"buffer"} \cup {"image"} = {"buffer", "image"} /\ "image" \notin {"buffer"}
    OBVIOUS
  <2>2. /\ Got(s, "image").ok => Holds(Got(s, "image"), h, {"buffer"} \cup {"image"})
        /\ ~Got(s, "image").ok => Holds(Got(s, "image"), h, {"buffer"})
    BY <1>3, <2>1, GotMore
  <2>. QED
    BY <1>1, <2>1, <2>2
<1>5. image.ok =>
        /\ table.ok => Holds(table, h, {"buffer", "image", "sections"})
        /\ ~table.ok => Holds(table, h, {"buffer", "image"})
  <2>1. /\ {"buffer", "image"} \cup {"sections"} = {"buffer", "image", "sections"}
        /\ "sections" \notin {"buffer", "image"}
    OBVIOUS
  <2>. SUFFICES ASSUME image.ok
                PROVE  /\ table.ok => Holds(table, h, {"buffer", "image", "sections"})
                       /\ ~table.ok => Holds(table, h, {"buffer", "image"})
    OBVIOUS
  <2>2. /\ Got(image, "sections").ok =>
             Holds(Got(image, "sections"), h, {"buffer", "image"} \cup {"sections"})
        /\ ~Got(image, "sections").ok => Holds(Got(image, "sections"), h, {"buffer", "image"})
    BY <1>3, <1>4, <2>1, GotMore
  <2>. QED
    BY <1>2, <2>1, <2>2
<1>6. ElfLoad(s, f) =
        IF ~f.header \/ ~image.ok THEN Failed(s)
        ELSE IF ~table.ok THEN Failed(Gave(image, {"image"}))
        ELSE IF ~ContentsInFile(f) \/ ~Relocatable(f)
             THEN Failed(Gave(table, {"image", "sections"}))
        ELSE Gave(table, {"sections"})
  BY <1>1, <1>2 DEF ElfLoad
<1>7. CASE ~f.header \/ ~image.ok
  BY <1>6, <1>7, FailedHolds
<1>8. CASE ~(~f.header \/ ~image.ok) /\ ~table.ok
  <2>1. Holds(image, h, {"buffer", "image"})
    BY <1>4, <1>8
  <2>2. {"image"} \in SUBSET {"buffer", "image"} /\ {"buffer", "image"} \ {"image"} = {"buffer"}
    OBVIOUS
  <2>3. Holds(Gave(image, {"image"}), h, {"buffer", "image"} \ {"image"})
    BY ONLY h \in [Kinds -> Nat], <2>1, <2>2, GaveBack
  <2>4. ElfLoad(s, f) = Failed(Gave(image, {"image"}))
    BY <1>6, <1>8
  <2>. QED
    BY ZenonT(60), <2>2, <2>3, <2>4, FailedHolds
<1>9. CASE ~(~f.header \/ ~image.ok) /\ table.ok
  <2>1. Holds(table, h, {"buffer", "image", "sections"})
    BY <1>5, <1>9
  <2>2. /\ {"image", "sections"} \in SUBSET {"buffer", "image", "sections"}
        /\ {"sections"} \in SUBSET {"buffer", "image", "sections"}
        /\ {"buffer", "image", "sections"} \ {"image", "sections"} = {"buffer"}
        /\ {"buffer", "image", "sections"} \ {"sections"} = {"buffer", "image"}
    OBVIOUS
  <2>3. Holds(Gave(table, {"image", "sections"}), h, {"buffer", "image", "sections"} \ {"image", "sections"})
    BY ONLY h \in [Kinds -> Nat], <2>1, <2>2, GaveBack
  <2>4. /\ Holds(Gave(table, {"sections"}), h, {"buffer", "image", "sections"} \ {"sections"})
        /\ Gave(table, {"sections"}).ok = table.ok
    BY ONLY h \in [Kinds -> Nat], <2>1, <2>2, GaveBack
  <2>5. CASE ~ContentsInFile(f) \/ ~Relocatable(f)
    <3>1. ElfLoad(s, f) = Failed(Gave(table, {"image", "sections"}))
      BY <1>6, <1>9, <2>5
    <3>. QED
      BY <2>2, <2>3, <3>1, FailedHolds
  <2>6. CASE ~(~ContentsInFile(f) \/ ~Relocatable(f))
    <3>1. ElfLoad(s, f) = Gave(table, {"sections"})
      BY <1>6, <1>9, <2>6
    <3>2. Gave(table, {"sections"}).ok
      BY <1>9, <2>4
    <3>. QED
      BY <2>2, <2>4, <3>1, <3>2
  <2>. QED
    BY <2>5, <2>6
<1>. QED
  BY <1>7, <1>8, <1>9

\* module_load_from_memory keeps what a module needs, or nothing.
LEMMA LoadsFromMemory ==
    ASSUME NEW h \in [Kinds -> Nat], NEW s, Holds(s, h, {"buffer"}), s.ok, NEW f, NEW name
    PROVE  /\ FromMemory(s, f, name).ok =>
                /\ Holds(FromMemory(s, f, name), h, {"buffer", "image", "struct", "name"})
                /\ IndexOf(name) = {} /\ name # ""
           /\ ~FromMemory(s, f, name).ok => Holds(FromMemory(s, f, name), h, {"buffer"})
<1>0. {"struct", "name"} \subseteq Kinds
  BY DEF Kinds
<1>1. PICK loaded : loaded = ElfLoad(s, f)
  OBVIOUS
<1>2. PICK struct : struct = Got(loaded, "struct")
  OBVIOUS
<1>3. PICK named : named = Got(struct, "name")
  OBVIOUS
<1>4. /\ loaded.ok => Holds(loaded, h, {"buffer", "image"})
      /\ ~loaded.ok => Holds(loaded, h, {"buffer"})
  BY <1>1, ElfLoads
<1>5. loaded.ok =>
        /\ struct.ok => Holds(struct, h, {"buffer", "image", "struct"})
        /\ ~struct.ok => Holds(struct, h, {"buffer", "image"})
  <2>1. /\ {"buffer", "image"} \cup {"struct"} = {"buffer", "image", "struct"}
        /\ "struct" \notin {"buffer", "image"}
    OBVIOUS
  <2>. SUFFICES ASSUME loaded.ok
                PROVE  /\ struct.ok => Holds(struct, h, {"buffer", "image", "struct"})
                       /\ ~struct.ok => Holds(struct, h, {"buffer", "image"})
    OBVIOUS
  <2>2. /\ Got(loaded, "struct").ok =>
             Holds(Got(loaded, "struct"), h, {"buffer", "image"} \cup {"struct"})
        /\ ~Got(loaded, "struct").ok => Holds(Got(loaded, "struct"), h, {"buffer", "image"})
    BY <1>0, <1>4, <2>1, GotMore
  <2>. QED
    BY <1>2, <2>1, <2>2
<1>6. loaded.ok /\ struct.ok =>
        /\ named.ok => Holds(named, h, {"buffer", "image", "struct", "name"})
        /\ ~named.ok => Holds(named, h, {"buffer", "image", "struct"})
  <2>1. /\ {"buffer", "image", "struct"} \cup {"name"} = {"buffer", "image", "struct", "name"}
        /\ "name" \notin {"buffer", "image", "struct"}
    OBVIOUS
  <2>. SUFFICES ASSUME loaded.ok, struct.ok
                PROVE  /\ named.ok => Holds(named, h, {"buffer", "image", "struct", "name"})
                       /\ ~named.ok => Holds(named, h, {"buffer", "image", "struct"})
    OBVIOUS
  <2>2. /\ Got(struct, "name").ok =>
             Holds(Got(struct, "name"), h, {"buffer", "image", "struct"} \cup {"name"})
        /\ ~Got(struct, "name").ok => Holds(Got(struct, "name"), h, {"buffer", "image", "struct"})
    BY <1>0, <1>5, <2>1, GotMore
  <2>. QED
    BY <1>3, <2>1, <2>2
<1>7. FromMemory(s, f, name) =
        IF ~loaded.ok THEN loaded
        ELSE IF name = "" \/ IndexOf(name) # {} THEN Failed(Gave(loaded, {"image"}))
        ELSE IF ~struct.ok THEN Failed(Gave(loaded, {"image"}))
        ELSE IF ~named.ok THEN Failed(Gave(struct, {"image", "struct"}))
        ELSE IF Len(modules) >= MAX_MODULES \/ f.init = "fails"
        THEN Failed(Gave(named, {"image", "struct", "name"}))
        ELSE named
  BY <1>1, <1>2, <1>3 DEF FromMemory
<1>8. CASE ~loaded.ok
  BY <1>4, <1>7, <1>8
<1>9. CASE loaded.ok /\ (name = "" \/ IndexOf(name) # {} \/ ~struct.ok)
  <2>1. FromMemory(s, f, name) = Failed(Gave(loaded, {"image"}))
    BY <1>7, <1>9
  <2>2. {"image"} \in SUBSET {"buffer", "image"} /\ {"buffer", "image"} \ {"image"} = {"buffer"}
    OBVIOUS
  <2>3. Holds(loaded, h, {"buffer", "image"})
    BY <1>4, <1>9
  <2>4. Holds(Gave(loaded, {"image"}), h, {"buffer", "image"} \ {"image"})
    BY ONLY h \in [Kinds -> Nat], <2>2, <2>3, GaveBack
  <2>. QED
    BY ZenonT(60), <2>1, <2>2, <2>4, FailedHolds
<1>10. CASE loaded.ok /\ ~(name = "" \/ IndexOf(name) # {} \/ ~struct.ok) /\ ~named.ok
  <2>1. FromMemory(s, f, name) = Failed(Gave(struct, {"image", "struct"}))
    BY <1>7, <1>10
  <2>2. /\ {"image", "struct"} \in SUBSET {"buffer", "image", "struct"}
        /\ {"buffer", "image", "struct"} \ {"image", "struct"} = {"buffer"}
    OBVIOUS
  <2>3. Holds(struct, h, {"buffer", "image", "struct"})
    BY <1>5, <1>10
  <2>4. Holds(Gave(struct, {"image", "struct"}), h, {"buffer", "image", "struct"} \ {"image", "struct"})
    BY ONLY h \in [Kinds -> Nat], <2>2, <2>3, GaveBack
  <2>. QED
    BY ZenonT(60), <2>1, <2>2, <2>4, FailedHolds
<1>11. CASE loaded.ok /\ ~(name = "" \/ IndexOf(name) # {} \/ ~struct.ok) /\ named.ok
  <2>1. Holds(named, h, {"buffer", "image", "struct", "name"})
    BY <1>6, <1>11
  <2>2. /\ {"image", "struct", "name"} \in SUBSET {"buffer", "image", "struct", "name"}
        /\ {"buffer", "image", "struct", "name"} \ {"image", "struct", "name"} = {"buffer"}
    OBVIOUS
  <2>3. Holds(Gave(named, {"image", "struct", "name"}), h,
              {"buffer", "image", "struct", "name"} \ {"image", "struct", "name"})
    BY ONLY h \in [Kinds -> Nat], <2>1, <2>2, GaveBack
  <2>4. CASE Len(modules) >= MAX_MODULES \/ f.init = "fails"
    <3>1. FromMemory(s, f, name) = Failed(Gave(named, {"image", "struct", "name"}))
      BY <1>7, <1>11, <2>4
    <3>2. PICK t : t = Gave(named, {"image", "struct", "name"})
      OBVIOUS
    <3>3. Holds(t, h, {"buffer"})
      BY <2>2, <2>3, <3>2
    <3>. QED
      BY <3>1, <3>2, <3>3, FailedHolds
  <2>5. CASE ~(Len(modules) >= MAX_MODULES \/ f.init = "fails")
    <3>1. FromMemory(s, f, name) = named
      BY <1>7, <1>11, <2>5
    <3>. QED
      BY <1>11, <2>1, <3>1
  <2>. QED
    BY <2>4, <2>5
<1>. QED
  BY <1>8, <1>9, <1>10, <1>11
-----------------------------------------------------------------------------
(* The registry.                                                           *)

\* The numbers of the loaded modules in a registry.
Loadables(ms) == {i \in DOMAIN ms : ms[i].dynamic}

LEMMA LoadablesFinite ==
    ASSUME NEW ms \in Seq(ModuleEntry)
    PROVE  IsFiniteSet(Loadables(ms)) /\ Cardinality(Loadables(ms)) \in Nat
<1>1. Len(ms) \in Nat /\ Loadables(ms) \in SUBSET (1 .. Len(ms))
  BY DEF Loadables
<1>2. IsFiniteSet(1 .. Len(ms))
  BY <1>1, FS_Interval
<1>3. IsFiniteSet(Loadables(ms))
  BY <1>1, <1>2, FS_Subset
<1>. QED
  BY <1>3, FS_CardinalityType

\* What the drivers are matched with.
Probed(ms) == {ms[i].name : i \in {j \in DOMAIN ms : ~ms[j].dynamic /\ ms[j].loaded}}

\* What a registry gains at its end.
Gains(ms, e, new) ==
    /\ new \in Seq(ModuleEntry)
    /\ Cardinality(Loadables(new)) = Cardinality(Loadables(ms)) + 1
    /\ \A i, j \in DOMAIN new : new[i].name = new[j].name => i = j
    /\ \A i \in Loadables(new) : (i \in Loadables(ms) /\ new[i] = ms[i]) \/ new[i] = e
    /\ Probed(new) = Probed(ms)

LEMMA Registers ==
    ASSUME NEW ms \in Seq(ModuleEntry), NEW e \in ModuleEntry, e.dynamic,
           \A i \in DOMAIN ms : ms[i].name # e.name,
           \A i, j \in DOMAIN ms : ms[i].name = ms[j].name => i = j,
           NEW new, new = Append(ms, e)
    PROVE  Gains(ms, e, new)
<1>1. /\ new \in Seq(ModuleEntry) /\ Len(ms) \in Nat /\ DOMAIN ms = 1 .. Len(ms)
      /\ DOMAIN new = 1 .. Len(ms) + 1 /\ new[Len(ms) + 1] = e
      /\ \A i \in 1 .. Len(ms) : new[i] = ms[i]
  BY AppendProperties
<1>2. \A i \in DOMAIN new : \/ i \in DOMAIN ms /\ new[i] = ms[i]
                            \/ i = Len(ms) + 1 /\ new[i] = e
  <2>1. \A i \in 1 .. Len(ms) + 1 : i \in 1 .. Len(ms) \/ i = Len(ms) + 1
    BY <1>1
  <2>. QED
    BY <1>1, <2>1
<1>3. Loadables(new) = Loadables(ms) \cup {Len(ms) + 1} /\ Len(ms) + 1 \notin Loadables(ms)
  BY <1>1 DEF Loadables
<1>4. Cardinality(Loadables(new)) = Cardinality(Loadables(ms)) + 1
  BY <1>3, LoadablesFinite, FS_AddElement
<1>5. \A i, j \in DOMAIN new : new[i].name = new[j].name => i = j
  BY <1>1, <1>2
<1>6. \A i \in Loadables(new) : (i \in Loadables(ms) /\ new[i] = ms[i]) \/ new[i] = e
  BY <1>2 DEF Loadables
<1>7. {j \in DOMAIN new : ~new[j].dynamic /\ new[j].loaded}
      = {j \in DOMAIN ms : ~ms[j].dynamic /\ ms[j].loaded}
  BY <1>1
<1>8. {new[i].name : i \in {j \in DOMAIN new : ~new[j].dynamic /\ new[j].loaded}}
      = {ms[i].name : i \in {j \in DOMAIN ms : ~ms[j].dynamic /\ ms[j].loaded}}
  BY <1>1, <1>7
<1>. QED
  BY <1>1, <1>4, <1>5, <1>6, <1>8 DEF Gains, Probed

\* What a registry loses with its entry k.
Loses(ms, new) ==
    /\ new \in Seq(ModuleEntry)
    /\ Cardinality(Loadables(new)) = Cardinality(Loadables(ms)) - 1
    /\ Cardinality(Loadables(ms)) > 0
    /\ \A i, j \in DOMAIN new : new[i].name = new[j].name => i = j
    /\ \A i \in Loadables(new) : \E j \in Loadables(ms) : new[i] = ms[j]
    /\ Probed(new) = Probed(ms)

LEMMA Unregisters ==
    ASSUME NEW ms \in Seq(ModuleEntry), NEW k \in DOMAIN ms, ms[k].dynamic,
           \A i, j \in DOMAIN ms : ms[i].name = ms[j].name => i = j,
           NEW new, new = RemoveAt(ms, k)
    PROVE  Loses(ms, new)
<1>. DEFINE To(j) == IF j < k THEN j ELSE j - 1
            From(i) == IF i < k THEN i ELSE i + 1
<1>1. PICK n \in Nat : n = Len(ms) /\ DOMAIN ms = 1 .. n /\ k \in 1 .. n
  OBVIOUS
<1>2. PICK a : a = SubSeq(ms, 1, k - 1)
  OBVIOUS
<1>3. PICK b : b = SubSeq(ms, k + 1, n)
  OBVIOUS
<1>4. \A i \in 1 .. n : ms[i] \in ModuleEntry
  BY <1>1
<1>5. a \in Seq(ModuleEntry) /\ Len(a) = k - 1 /\ \A i \in 1 .. k - 1 : a[i] = ms[i]
  <2>1. \A i \in 1 .. k - 1 : ms[i] \in ModuleEntry
    BY <1>1, <1>4
  <2>. QED
    BY <1>1, <1>2, <2>1, SubSeqProperties
<1>6. b \in Seq(ModuleEntry) /\ Len(b) = n - k /\ \A i \in 1 .. n - k : b[i] = ms[k + i]
  <2>1. \A i \in k + 1 .. n : ms[i] \in ModuleEntry
    BY <1>1, <1>4
  <2>2. b \in Seq(ModuleEntry) /\ Len(b) = IF k + 1 <= n THEN n - (k + 1) + 1 ELSE 0
    BY <1>1, <1>3, <2>1, SubSeqProperties
  <2>3. \A i \in 1 .. n - k : b[i] = ms[(k + 1) + i - 1] /\ (k + 1) + i - 1 = k + i
    BY <1>1, <1>3, <2>1, SubSeqProperties
  <2>. QED
    BY <1>1, <2>2, <2>3
<1>7. new = a \o b
  BY <1>1, <1>2, <1>3 DEF RemoveAt
<1>8. /\ new \in Seq(ModuleEntry) /\ Len(new) = n - 1 /\ DOMAIN new = 1 .. n - 1
      /\ \A i \in 1 .. n - 1 : new[i] = IF i < k THEN a[i] ELSE b[i - (k - 1)]
  <2>1. new \in Seq(ModuleEntry) /\ Len(new) = (k - 1) + (n - k)
    <3>0. a \in Seq(ModuleEntry) /\ b \in Seq(ModuleEntry)
      BY <1>5, <1>6
    <3>1. new \in Seq(ModuleEntry) /\ Len(new) = Len(a) + Len(b)
      BY ONLY <1>7, <3>0, ConcatProperties
    <3>. QED
      BY <1>5, <1>6, <3>1
  <2>2. \A i \in 1 .. Len(new) : new[i] = IF i <= Len(a) THEN a[i] ELSE b[i - Len(a)]
    BY SMTT(30), <1>5, <1>6, <1>7, ConcatProperties
  <2>3. (k - 1) + (n - k) = n - 1
    BY <1>1
  <2>4. \A i \in 1 .. n - 1 : i <= k - 1 <=> i < k
    BY <1>1
  <2>. QED
    BY <1>5, <2>1, <2>2, <2>3, <2>4
<1>9. \A i \in DOMAIN new : new[i] = ms[From(i)] /\ From(i) \in DOMAIN ms /\ From(i) # k /\ To(From(i)) = i
  <2>. SUFFICES ASSUME NEW i \in 1 .. n - 1
                PROVE  new[i] = ms[From(i)] /\ From(i) \in 1 .. n /\ From(i) # k /\ To(From(i)) = i
    BY <1>1, <1>8
  <2>1. CASE i < k
    <3>1. i \in 1 .. k - 1 /\ new[i] = a[i]
      BY <1>1, <1>8, <2>1
    <3>. QED
      BY <1>1, <1>5, <2>1, <3>1
  <2>2. CASE ~(i < k)
    <3>1. i - (k - 1) \in 1 .. n - k /\ k + (i - (k - 1)) = i + 1 /\ ~(i + 1 < k)
      BY <1>1, <2>2
    <3>2. new[i] = b[i - (k - 1)]
      BY <1>8, <2>2
    <3>. QED
      BY SMTT(30), <1>1, <1>6, <2>2, <3>1, <3>2
  <2>. QED
    BY <2>1, <2>2
<1>10. \A j \in DOMAIN ms : j # k => To(j) \in DOMAIN new /\ From(To(j)) = j
  BY <1>1, <1>8
<1>. HIDE DEF To, From
<1>11. \A j \in DOMAIN ms : j # k => To(j) \in DOMAIN new /\ new[To(j)] = ms[j]
  BY <1>9, <1>10
<1>12. \A i, j \in DOMAIN new : new[i].name = new[j].name => i = j
  BY <1>9
<1>13. \A i \in Loadables(new) : \E j \in Loadables(ms) : new[i] = ms[j]
  BY <1>9 DEF Loadables
<1>14. {new[i].name : i \in {j \in DOMAIN new : ~new[j].dynamic /\ new[j].loaded}}
       = {ms[i].name : i \in {j \in DOMAIN ms : ~ms[j].dynamic /\ ms[j].loaded}}
  BY <1>9, <1>11
<1>15. k \in Loadables(ms) /\ IsFiniteSet(Loadables(ms)) /\ Cardinality(Loadables(ms)) \in Nat
  BY LoadablesFinite DEF Loadables
<1>16. Cardinality(Loadables(new)) = Cardinality(Loadables(ms) \ {k})
  <2>1. IsFiniteSet(Loadables(ms) \ {k})
    BY <1>15, FS_RemoveElement
  <2>2. PICK f : f = [j \in Loadables(ms) \ {k} |-> To(j)]
    OBVIOUS
  <2>3. \A j \in Loadables(ms) \ {k} : j \in DOMAIN ms /\ j # k /\ ms[j].dynamic
    BY DEF Loadables
  <2>4. f \in [Loadables(ms) \ {k} -> Loadables(new)]
    BY <1>11, <2>2, <2>3 DEF Loadables
  <2>5. \A i, j \in Loadables(ms) \ {k} : f[i] = f[j] => i = j
    BY <1>10, <2>2, <2>3
  <2>6. \A i \in Loadables(new) : \E j \in Loadables(ms) \ {k} : f[j] = i
    <3>. SUFFICES ASSUME NEW i \in Loadables(new)
                  PROVE  From(i) \in Loadables(ms) \ {k} /\ f[From(i)] = i
      OBVIOUS
    <3>1. i \in DOMAIN new /\ new[i].dynamic
      BY DEF Loadables
    <3>2. From(i) \in Loadables(ms) \ {k}
      BY <1>9, <3>1 DEF Loadables
    <3>. QED
      BY <1>9, <2>2, <3>1, <3>2
  <2>7. ExistsBijection(Loadables(ms) \ {k}, Loadables(new))
    BY ZenonT(60), <2>4, <2>5, <2>6 DEF ExistsBijection, Bijection, Injection, Surjection, IsInjective
  <2>. QED
    BY <2>1, <2>7, FS_Bijection
<1>17. /\ Cardinality(Loadables(ms) \ {k}) = Cardinality(Loadables(ms)) - 1
       /\ Cardinality(Loadables(ms)) > 0
  <2>1. Cardinality(Loadables(ms) \ {k}) = Cardinality(Loadables(ms)) - 1
    BY <1>15, FS_RemoveElement
  <2>2. Cardinality(Loadables(ms)) # 0
    BY <1>15, FS_EmptySet
  <2>. QED
    BY <1>15, <2>1, <2>2
<1>. QED
  BY <1>8, <1>12, <1>13, <1>14, <1>16, <1>17 DEF Loses, Probed
-----------------------------------------------------------------------------
(* The steps.                                                              *)

\* HeapExact, whatever the calls of the loader did.
Kept == {"image", "struct", "name"}
HeldFor(h, n) == \A k \in Kinds : h[k] = IF k \in {"buffer", "sections"} THEN 0 ELSE n

LEMMA KeptKinds == Kept \subseteq Kinds /\ \A k \in Kinds : k \in Kept <=> k \notin {"buffer", "sections"}
BY DEF Kept, Kinds

LEMMA ModulesStart == ModulesInit => ModulesInv
<1>. SUFFICES ASSUME ModulesInit PROVE ModulesInv
  OBVIOUS
<1>1. /\ stage = "cold" /\ modules = <<>> /\ drivers = <<>> /\ held = [k \in Kinds |-> 0]
      /\ DOMAIN modules = {} /\ DOMAIN drivers = {}
  BY DEF ModulesInit
<1>2. Dynamic = {}
  BY <1>1 DEF Dynamic
<1>3. HeapExact
  BY <1>1, <1>2, FS_EmptySet DEF HeapExact
<1>4. DriversMatch
  BY <1>1 DEF DriversMatch, ToSet
<1>. QED
  BY <1>1, <1>2, <1>3, <1>4
  DEF ModulesInv, ModulesTypeOK, ModulesSound, ModuleNamesUnique, SectionsApart

\* What no call of the loader changes for the modules that stay.
LEMMA FilesStayApart ==
    ASSUME \A i \in Dynamic : modules[i].file \in Files PROVE SectionsApart
<1>. SUFFICES ASSUME NEW m \in Dynamic, NEW f, f = modules[m].file PROVE Apart(f)
  BY DEF SectionsApart, Apart
<1>. QED
  BY FilesApart

LEMMA ExportsStay == ASSUME ModulesInv, ExportSymbols PROVE ModulesInv'
<1>1. /\ stage = "cold" /\ stage' = "exported" /\ drivers' = <<>> /\ held' = held
      /\ modules' = [i \in DOMAIN BuiltIn |->
            [name |-> BuiltIn[i], dynamic |-> FALSE, loaded |-> FALSE, file |-> NoFile]]
  BY DEF ExportSymbols
<1>2. /\ BuiltIn \in Seq(STRING) /\ Len(BuiltIn) \in Nat /\ DOMAIN BuiltIn = 1 .. Len(BuiltIn)
      /\ \A i, j \in DOMAIN BuiltIn : BuiltIn[i] = BuiltIn[j] => i = j
  BY ModulesAssumption
<1>3. \A i \in 1 .. Len(BuiltIn) :
        [name |-> BuiltIn[i], dynamic |-> FALSE, loaded |-> FALSE, file |-> NoFile] \in ModuleEntry
  BY <1>2 DEF ModuleEntry
<1>4. modules' \in Seq(ModuleEntry) /\ DOMAIN modules' = 1 .. Len(BuiltIn)
  BY <1>1, <1>2, <1>3
<1>5. \A i \in DOMAIN modules' : /\ modules'[i].name = BuiltIn[i]
                                 /\ ~modules'[i].dynamic /\ ~modules'[i].loaded
  BY <1>1, <1>2, <1>4
<1>6. Dynamic' = {}
  BY <1>5 DEF Dynamic
<1>7. HeapExact'
  BY <1>1, <1>6 DEF ModulesInv, ModulesSound, HeapExact
<1>8. ModuleNamesUnique'
  BY <1>2, <1>4, <1>5 DEF ModuleNamesUnique
<1>9. DriversMatch'
  BY <1>1, <1>5 DEF DriversMatch, ToSet
<1>10. SectionsApart'
  BY <1>6 DEF SectionsApart
<1>. QED
  BY <1>1, <1>4, <1>6, <1>7, <1>8, <1>9, <1>10 DEF ModulesInv, ModulesTypeOK, ModulesSound

LEMMA StagesStay ==
    ASSUME ModulesInv, stage \in {"exported", "heap"}, stage' \in {"heap", "up"},
           UNCHANGED <<drivers, modules, held>>
    PROVE  ModulesInv'
BY SMTT(30) DEF ModulesInv, ModulesTypeOK, ModulesSound, HeapExact, ModuleNamesUnique, SectionsApart,
       DriversMatch, Dynamic, SectionAt, ImageSize, Loaded

LEMMA AnswersStay ==
    ASSUME ModulesInv, UNCHANGED <<stage, drivers, modules, held>> PROVE ModulesInv'
BY DEF ModulesInv, ModulesTypeOK, ModulesSound, HeapExact, ModuleNamesUnique, SectionsApart,
       DriversMatch, Dynamic, SectionAt, ImageSize, Loaded

LEMMA ModuleLoadsStay ==
    ASSUME ModulesInv, NEW name \in ToSet(BuiltIn), ModuleLoad(name) PROVE ModulesInv'
<1>1. UNCHANGED <<stage, held>> /\ stage # "cold"
  BY DEF ModuleLoad, HeapReady
<1>2. PICK k \in IndexOf(name) :
        /\ ~modules[k].dynamic
        /\ \/ UNCHANGED <<drivers, modules>>
           \/ /\ ~modules[k].loaded /\ DriverRegistered(name)
              /\ drivers' = Append(drivers, name)
              /\ modules' = [modules EXCEPT ![k].loaded = TRUE]
  BY DEF ModuleLoad
<1>3. CASE UNCHANGED <<drivers, modules>>
  BY <1>1, <1>3, AnswersStay
<1>4. CASE ~UNCHANGED <<drivers, modules>>
  <2>1. /\ k \in DOMAIN modules /\ modules[k].name = name /\ ~modules[k].dynamic /\ ~modules[k].loaded
        /\ name \notin Absent
        /\ drivers' = Append(drivers, name)
        /\ modules' = [modules EXCEPT ![k].loaded = TRUE]
    BY <1>2, <1>4 DEF IndexOf, DriverRegistered
  <2>2. /\ drivers \in Seq(STRING) /\ modules \in Seq(ModuleEntry) /\ held \in [Kinds -> Nat]
        /\ stage \in {"cold", "exported", "heap", "up"}
        /\ \A i \in Dynamic : modules[i].file \in Files
        /\ HeapExact /\ ModuleNamesUnique /\ DriversMatch
    BY DEF ModulesInv, ModulesTypeOK, ModulesSound
  <2>3. name \in STRING
    <3>1. BuiltIn \in Seq(STRING)
      BY ModulesAssumption
    <3>. QED
      BY <3>1 DEF ToSet
  <2>4. modules[k] \in ModuleEntry
    BY <2>1, <2>2
  <2>50. PICK e : e = [modules[k] EXCEPT !.loaded = TRUE]
    OBVIOUS
  <2>5. e \in ModuleEntry /\ e.loaded /\ ~e.dynamic /\ e.name = name /\ e.file = modules[k].file
    BY <2>1, <2>4, <2>50 DEF ModuleEntry
  <2>6. modules' = [modules EXCEPT ![k] = e]
    BY <2>1, <2>50
  <2>7. /\ modules' \in Seq(ModuleEntry) /\ DOMAIN modules' = DOMAIN modules
        /\ modules'[k] = e /\ \A i \in DOMAIN modules : i # k => modules'[i] = modules[i]
    <3>1. k \in 1 .. Len(modules) /\ DOMAIN modules = 1 .. Len(modules)
      BY <2>1, <2>2
    <3>2. /\ modules' \in Seq(ModuleEntry) /\ Len(modules') = Len(modules)
          /\ \A j \in 1 .. Len(modules) : modules'[j] = IF j = k THEN e ELSE modules[j]
      BY ONLY <2>2, <2>5, <2>6, <3>1, ExceptSeq
    <3>. QED
      BY <3>1, <3>2
  <2>8. \A i \in DOMAIN modules : /\ modules'[i].name = modules[i].name
                                  /\ modules'[i].dynamic = modules[i].dynamic
                                  /\ modules'[i].file = modules[i].file
    BY <2>1, <2>5, <2>7
  <2>9. Dynamic' = Dynamic
    BY <2>7, <2>8 DEF Dynamic
  <2>10. \A i \in Dynamic' : modules'[i].file \in Files
    BY <2>2, <2>8, <2>9 DEF Dynamic
  <2>11. SectionsApart'
    <3>. SUFFICES ASSUME NEW m \in Dynamic', NEW f, f = modules'[m].file PROVE Apart(f)
      BY DEF SectionsApart, Apart, Loaded, SectionAt, ImageSize
    <3>. QED
      BY <2>10, FilesApart
  <2>12. ModuleNamesUnique'
    BY <2>2, <2>7, <2>8 DEF ModuleNamesUnique
  <2>13. HeapExact'
    BY <1>1, <2>2, <2>9 DEF HeapExact
  <2>14. DriversMatch'
    <3>1. /\ drivers' \in Seq(STRING) /\ Len(drivers) \in Nat /\ DOMAIN drivers = 1 .. Len(drivers)
          /\ DOMAIN drivers' = 1 .. Len(drivers) + 1 /\ drivers'[Len(drivers) + 1] = name
          /\ \A i \in 1 .. Len(drivers) : drivers'[i] = drivers[i]
      BY <2>1, <2>2, <2>3, AppendProperties
    <3>2. name \notin ToSet(drivers)
      <4>. SUFFICES ASSUME name \in ToSet(drivers) PROVE FALSE
        OBVIOUS
      <4>1. PICK j \in DOMAIN modules : ~modules[j].dynamic /\ modules[j].loaded /\ modules[j].name = name
        BY <2>2 DEF DriversMatch
      <4>. QED
        BY <2>1, <2>2, <4>1 DEF ModuleNamesUnique
    <3>3. ToSet(drivers') = ToSet(drivers) \cup {name}
      <4>1. \A i \in 1 .. Len(drivers) + 1 : i \in 1 .. Len(drivers) \/ i = Len(drivers) + 1
        BY <3>1
      <4>2. \A i \in 1 .. Len(drivers) : i \in 1 .. Len(drivers) + 1
        BY <3>1
      <4>3. Len(drivers) + 1 \in 1 .. Len(drivers) + 1
        BY <3>1
      <4>. QED
        BY <3>1, <4>1, <4>2, <4>3 DEF ToSet
    <3>4. \A i, j \in DOMAIN drivers' : drivers'[i] = drivers'[j] => i = j
      <4>1. \A i \in 1 .. Len(drivers) : drivers'[i] # name
        BY <3>1, <3>2 DEF ToSet
      <4>2. \A i \in 1 .. Len(drivers) + 1 : i \in 1 .. Len(drivers) \/ i = Len(drivers) + 1
        BY <3>1
      <4>3. \A i, j \in 1 .. Len(drivers) : drivers[i] = drivers[j] => i = j
        BY <2>2, <3>1 DEF DriversMatch
      <4>. QED
        BY <3>1, <4>1, <4>2, <4>3
    <3>5. {modules'[i].name : i \in {j \in DOMAIN modules' : ~modules'[j].dynamic /\ modules'[j].loaded}}
          = {modules[i].name : i \in {j \in DOMAIN modules : ~modules[j].dynamic /\ modules[j].loaded}}
            \cup {name}
      <4>1. {j \in DOMAIN modules' : ~modules'[j].dynamic /\ modules'[j].loaded}
            = {j \in DOMAIN modules : ~modules[j].dynamic /\ modules[j].loaded} \cup {k}
        BY <2>1, <2>5, <2>7
      <4>. QED
        BY <2>1, <2>8, <4>1
    <3>. QED
      BY <2>1, <2>2, <3>3, <3>4, <3>5 DEF DriversMatch
  <2>15. drivers' \in Seq(STRING)
    BY <2>1, <2>2, <2>3, AppendProperties
  <2>. QED
    BY <1>1, <2>2, <2>7, <2>10, <2>11, <2>12, <2>13, <2>14, <2>15
    DEF ModulesInv, ModulesTypeOK, ModulesSound
<1>. QED
  BY <1>3, <1>4
\* What becomes of a load, whoever asked for it.
LEMMA LoadsStay ==
    ASSUME ModulesInv, HeapReady, NEW f \in Files, NEW given \in STRING \cup {""}, NEW room \in Nat,
           NEW buffer, buffer = Got([ok |-> TRUE, room |-> room, held |-> held], "buffer"),
           buffer.ok, Settle(buffer, f, given)
    PROVE  ModulesInv'
<1>1. /\ drivers \in Seq(STRING) /\ modules \in Seq(ModuleEntry) /\ held \in [Kinds -> Nat]
      /\ stage \in {"cold", "exported", "heap", "up"} /\ stage # "cold"
      /\ \A i \in Dynamic : modules[i].file \in Files
      /\ HeapExact /\ ModuleNamesUnique /\ DriversMatch
  BY DEF ModulesInv, ModulesTypeOK, ModulesSound, HeapReady
<1>2. Holds(buffer, held, {"buffer"})
  <2>1. PICK s : s = [ok |-> TRUE, room |-> room, held |-> held]
    OBVIOUS
  <2>2. held = Plus(held, {})
    BY <1>1, NothingMore
  <2>3. Holds(s, held, {}) /\ s.ok
    BY <1>1, <2>1, <2>2 DEF Holds
  <2>4. "buffer" \in Kinds /\ "buffer" \notin {} /\ {} \cup {"buffer"} = {"buffer"}
    BY DEF Kinds
  <2>5. Got(s, "buffer").ok => Holds(Got(s, "buffer"), held, {} \cup {"buffer"})
    BY ONLY <1>1, <2>3, <2>4, GotMore
  <2>. QED
    BY <2>1, <2>4, <2>5
<1>3. PICK end : end = FromMemory(buffer, f, NameOf(f, given))
  OBVIOUS
<1>4. /\ end.ok => /\ Holds(end, held, {"buffer", "image", "struct", "name"})
                   /\ IndexOf(NameOf(f, given)) = {} /\ NameOf(f, given) # ""
      /\ ~end.ok => Holds(end, held, {"buffer"})
  BY <1>1, <1>2, <1>3, LoadsFromMemory
<1>5. /\ held' = Gave(end, {"buffer"}).held
      /\ modules' = IF ~end.ok THEN modules
                    ELSE Append(modules, [name |-> NameOf(f, given), dynamic |-> TRUE,
                                          loaded |-> TRUE, file |-> f])
      /\ UNCHANGED <<stage, drivers>>
  BY <1>3 DEF Settle
<1>6. CASE ~end.ok
  <2>1. /\ {"buffer"} \in SUBSET {"buffer"} /\ {"buffer"} \ {"buffer"} = {}
    OBVIOUS
  <2>2. Holds(end, held, {"buffer"})
    BY <1>4, <1>6
  <2>3. Holds(Gave(end, {"buffer"}), held, {"buffer"} \ {"buffer"})
    BY ONLY <1>1, <2>1, <2>2, GaveBack
  <2>4. held' = Plus(held, {})
    BY <1>5, <2>1, <2>3 DEF Holds
  <2>5. held' = held
    BY <1>1, <2>4, NothingMore
  <2>. QED
    BY <1>5, <1>6, <2>5, AnswersStay
<1>7. CASE end.ok
  <2>1. /\ {"buffer"} \in SUBSET {"buffer", "image", "struct", "name"}
        /\ {"buffer", "image", "struct", "name"} \ {"buffer"} = Kept
    BY DEF Kept
  <2>2. Holds(end, held, {"buffer", "image", "struct", "name"})
    BY <1>4, <1>7
  <2>3. Holds(Gave(end, {"buffer"}), held, {"buffer", "image", "struct", "name"} \ {"buffer"})
    BY ONLY <1>1, <2>1, <2>2, GaveBack
  <2>4. held' = Plus(held, Kept) /\ held' \in [Kinds -> Nat]
    BY <1>5, <2>1, <2>3 DEF Holds
  <2>5. PICK e : e = [name |-> NameOf(f, given), dynamic |-> TRUE, loaded |-> TRUE, file |-> f]
    OBVIOUS
  <2>6. e \in ModuleEntry /\ e.dynamic /\ e.file = f /\ e.name = NameOf(f, given)
    <3>1. NameOf(f, given) \in STRING
      BY <1>4, <1>7, ModulesAssumption DEF NameOf
    <3>. QED
      BY <2>5, <3>1 DEF ModuleEntry
  <2>7. modules' = Append(modules, e)
    BY <1>5, <1>7, <2>5
  <2>8. \A i \in DOMAIN modules : modules[i].name # e.name
    BY <1>4, <1>7, <2>6 DEF IndexOf
  <2>9. \A i, j \in DOMAIN modules : modules[i].name = modules[j].name => i = j
    BY <1>1 DEF ModuleNamesUnique
  <2>100. Gains(modules, e, modules')
    BY <1>1, <2>6, <2>7, <2>8, <2>9, Registers
  <2>10. /\ modules' \in Seq(ModuleEntry)
         /\ Cardinality(Loadables(modules')) = Cardinality(Loadables(modules)) + 1
         /\ \A i, j \in DOMAIN modules' : modules'[i].name = modules'[j].name => i = j
         /\ \A i \in Loadables(modules') :
              (i \in Loadables(modules) /\ modules'[i] = modules[i]) \/ modules'[i] = e
         /\ Probed(modules') = Probed(modules)
    BY <2>100 DEF Gains
  <2>11. Dynamic = Loadables(modules) /\ Dynamic' = Loadables(modules')
    BY DEF Dynamic, Loadables
  <2>12. \A i \in Dynamic' : modules'[i].file \in Files
    BY <1>1, <2>6, <2>10, <2>11
  <2>13. SectionsApart'
    <3>. SUFFICES ASSUME NEW m \in Dynamic', NEW g, g = modules'[m].file PROVE Apart(g)
      BY DEF SectionsApart, Apart, Loaded, SectionAt, ImageSize
    <3>. QED
      BY <2>12, FilesApart
  <2>14. HeapExact'
    <3>1. \A k \in Kinds : held[k] = IF k \in {"buffer", "sections"} THEN 0 ELSE Cardinality(Loadables(modules))
      BY <1>1, <2>11 DEF HeapExact
    <3>2. Cardinality(Loadables(modules)) \in Nat
      BY <1>1, LoadablesFinite
    <3>3. \A k \in Kinds : held'[k] = IF k \in Kept THEN held[k] + 1 ELSE held[k]
      BY <2>4 DEF Plus
    <3>4. \A k \in Kinds : held'[k] = IF k \in {"buffer", "sections"} THEN 0
                                      ELSE Cardinality(Loadables(modules'))
      <4>1. Cardinality(Loadables(modules')) = Cardinality(Loadables(modules)) + 1
        BY <2>10
      <4>2. PICK n \in Nat : n = Cardinality(Loadables(modules)) /\ n + 1 = Cardinality(Loadables(modules'))
        BY <3>2, <4>1
      <4>3. \A k \in Kinds : held[k] = IF k \in Kept THEN n ELSE 0
        BY ONLY <3>1, <4>2, KeptKinds
      <4>4. \A k \in Kinds : held'[k] = IF k \in Kept THEN n + 1 ELSE 0
        <5>. SUFFICES ASSUME NEW k \in Kinds PROVE held'[k] = IF k \in Kept THEN n + 1 ELSE 0
          OBVIOUS
        <5>1. CASE k \in Kept
          <6>1. held[k] = n /\ held'[k] = held[k] + 1
            BY <3>3, <4>3, <5>1
          <6>. QED
            BY ONLY <5>1, <6>1
        <5>2. CASE k \notin Kept
          <6>1. held'[k] = 0
            BY <3>3, <4>3, <5>2
          <6>. QED
            BY ONLY <5>2, <6>1
        <5>. QED
          BY <5>1, <5>2
      <4>. QED
        BY ONLY <4>2, <4>4, KeptKinds
    <3>. QED
      BY <2>11, <3>4 DEF HeapExact
  <2>15. DriversMatch'
    BY <1>1, <1>5, <2>10 DEF DriversMatch, Probed
  <2>16. ModuleNamesUnique'
    BY <2>10 DEF ModuleNamesUnique
  <2>. QED
    BY <1>1, <1>5, <2>4, <2>10, <2>12, <2>13, <2>14, <2>15, <2>16
    DEF ModulesInv, ModulesTypeOK, ModulesSound
<1>. QED
  BY <1>6, <1>7

LEMMA RoomsAreNumbers == Rooms \subseteq Nat
<1>1. Cardinality(Kinds) \in Nat
  <2>1. IsFiniteSet({} \cup {"buffer"})
    BY FS_EmptySet, FS_AddElement
  <2>2. IsFiniteSet(({} \cup {"buffer"}) \cup {"image"})
    BY <2>1, FS_AddElement
  <2>3. IsFiniteSet((({} \cup {"buffer"}) \cup {"image"}) \cup {"sections"})
    BY <2>2, FS_AddElement
  <2>4. IsFiniteSet(((({} \cup {"buffer"}) \cup {"image"}) \cup {"sections"}) \cup {"struct"})
    BY <2>3, FS_AddElement
  <2>5. IsFiniteSet((((({} \cup {"buffer"}) \cup {"image"}) \cup {"sections"}) \cup {"struct"})
                    \cup {"name"})
    BY <2>4, FS_AddElement
  <2>6. Kinds = (((({} \cup {"buffer"}) \cup {"image"}) \cup {"sections"}) \cup {"struct"})
                \cup {"name"}
    BY DEF Kinds
  <2>. QED
    BY <2>5, <2>6, FS_CardinalityType
<1>. QED
  BY <1>1 DEF Rooms

LEMMA LoadFilesStay ==
    ASSUME ModulesInv, NEW f \in Files, NEW room \in Rooms, LoadFile(f, room) PROVE ModulesInv'
<1>1. PICK buffer : buffer = Got([ok |-> TRUE, room |-> room, held |-> held], "buffer")
  OBVIOUS
<1>2. room \in Nat /\ f.path \in STRING
  BY RoomsAreNumbers, ModulesAssumption
<1>3. \/ UNCHANGED <<stage, drivers, modules, held>>
      \/ HeapReady /\ buffer.ok /\ Settle(buffer, f, f.path)
  BY <1>1 DEF LoadFile
<1>. QED
  BY <1>1, <1>2, <1>3, AnswersStay, LoadsStay

LEMMA InsmodsStay ==
    ASSUME ModulesInv, NEW f \in Files, NEW root \in BOOLEAN, NEW room \in Rooms,
           Insmod(f, root, room)
    PROVE  ModulesInv'
<1>1. PICK buffer : buffer = Got([ok |-> TRUE, room |-> room, held |-> held], "buffer")
  OBVIOUS
<1>2. room \in Nat
  BY RoomsAreNumbers
<1>3. \/ UNCHANGED <<stage, drivers, modules, held>>
      \/ HeapReady /\ buffer.ok /\ Settle(buffer, f, "")
  BY <1>1 DEF Insmod, InitModule, HeapReady
<1>. QED
  BY <1>1, <1>2, <1>3, AnswersStay, LoadsStay

LEMMA DeletesStay ==
    ASSUME ModulesInv, NEW name, NEW root \in BOOLEAN, DeleteModule(name, root)
    PROVE  ModulesInv'
<1>1. /\ drivers \in Seq(STRING) /\ modules \in Seq(ModuleEntry) /\ held \in [Kinds -> Nat]
      /\ stage \in {"cold", "exported", "heap", "up"} /\ stage = "up"
      /\ \A i \in Dynamic : modules[i].file \in Files
      /\ HeapExact /\ ModuleNamesUnique /\ DriversMatch
  BY DEF ModulesInv, ModulesTypeOK, ModulesSound, DeleteModule
<1>2. CASE ~(root /\ \E i \in IndexOf(name) : modules[i].dynamic)
  BY <1>2, AnswersStay DEF DeleteModule
<1>3. CASE root /\ \E i \in IndexOf(name) : modules[i].dynamic
  <2>1. PICK k \in IndexOf(name) :
          /\ modules' = RemoveAt(modules, k)
          /\ held' = [held EXCEPT !["image"] = @ - 1, !["struct"] = @ - 1, !["name"] = @ - 1]
    BY <1>3 DEF DeleteModule
  <2>2. UNCHANGED <<stage, drivers>>
    BY DEF DeleteModule
  <2>3. \A i, j \in DOMAIN modules : modules[i].name = modules[j].name => i = j
    BY <1>1 DEF ModuleNamesUnique
  <2>4. k \in DOMAIN modules /\ modules[k].dynamic
    BY <1>3, <2>3 DEF IndexOf
  <2>50. Loses(modules, modules')
    BY <1>1, <2>1, <2>3, <2>4, Unregisters
  <2>5. /\ modules' \in Seq(ModuleEntry)
        /\ Cardinality(Loadables(modules')) = Cardinality(Loadables(modules)) - 1
        /\ Cardinality(Loadables(modules)) > 0
        /\ \A i, j \in DOMAIN modules' : modules'[i].name = modules'[j].name => i = j
        /\ \A i \in Loadables(modules') : \E j \in Loadables(modules) : modules'[i] = modules[j]
        /\ Probed(modules') = Probed(modules)
    BY <2>50 DEF Loses
  <2>6. Dynamic = Loadables(modules) /\ Dynamic' = Loadables(modules')
    BY DEF Dynamic, Loadables
  <2>7. \A i \in Dynamic' : modules'[i].file \in Files
    BY <1>1, <2>5, <2>6
  <2>8. SectionsApart'
    <3>. SUFFICES ASSUME NEW m \in Dynamic', NEW g, g = modules'[m].file PROVE Apart(g)
      BY DEF SectionsApart, Apart, Loaded, SectionAt, ImageSize
    <3>. QED
      BY <2>7, FilesApart
  <2>9. /\ \A k1 \in Kinds : held'[k1] = held[k1] - (IF k1 \in Kept THEN 1 ELSE 0)
        /\ held' = [k1 \in Kinds |-> held'[k1]]
    <3>1. PICK h1 : h1 = [held EXCEPT !["image"] = @ - 1]
      OBVIOUS
    <3>2. PICK h2 : h2 = [h1 EXCEPT !["struct"] = @ - 1]
      OBVIOUS
    <3>3. held' = [h2 EXCEPT !["name"] = @ - 1]
      BY <2>1, <3>1, <3>2
    <3>4. DOMAIN h1 = Kinds /\ \A k1 \in Kinds : h1[k1] = IF k1 = "image" THEN held[k1] - 1 ELSE held[k1]
      BY <1>1, <3>1
    <3>5. DOMAIN h2 = Kinds /\ \A k1 \in Kinds : h2[k1] = IF k1 = "struct" THEN h1[k1] - 1 ELSE h1[k1]
      BY <3>2, <3>4
    <3>6. DOMAIN held' = Kinds /\ \A k1 \in Kinds : held'[k1] = IF k1 = "name" THEN h2[k1] - 1 ELSE h2[k1]
      BY <3>3, <3>5
    <3>7. \A k1 \in Kinds : held'[k1] = held[k1] - (IF k1 \in Kept THEN 1 ELSE 0)
      BY <1>1, <3>4, <3>5, <3>6 DEF Kept
    <3>8. held' = [k1 \in Kinds |-> held'[k1]]
      BY <3>3, <3>5
    <3>. QED
      BY <3>7, <3>8
  <2>10. HeapExact' /\ held' \in [Kinds -> Nat]
    <3>1. \A k1 \in Kinds : held[k1] = IF k1 \in {"buffer", "sections"} THEN 0
                                       ELSE Cardinality(Loadables(modules))
      BY <1>1, <2>6 DEF HeapExact
    <3>2. Cardinality(Loadables(modules)) \in Nat
      BY <1>1, LoadablesFinite
    <3>3. \A k1 \in Kinds : /\ held'[k1] = IF k1 \in {"buffer", "sections"} THEN 0
                                          ELSE Cardinality(Loadables(modules'))
                            /\ held'[k1] \in Nat
      BY ONLY <2>5, <2>9, <3>1, <3>2, KeptKinds
    <3>. QED
      BY <2>6, <2>9, <3>3 DEF HeapExact
  <2>11. DriversMatch'
    BY <1>1, <2>2, <2>5 DEF DriversMatch, Probed
  <2>12. ModuleNamesUnique'
    BY <2>5 DEF ModuleNamesUnique
  <2>. QED
    BY <1>1, <2>2, <2>5, <2>7, <2>8, <2>10, <2>11, <2>12
    DEF ModulesInv, ModulesTypeOK, ModulesSound
<1>. QED
  BY <1>2, <1>3

\* Whatever was loaded and unloaded, and wherever a load failed, the heap
\* holds what the loaded modules keep and no more, names are unique, sections
\* lie apart, and drivers match the modules that bring them
\* (module_elf_load, module_load_from_memory, module_unload, driver_register).
THEOREM ModulesKept == ModulesSpec => []ModulesSound
<1>1. ModulesInv /\ [ModulesNext]_modVars => ModulesInv'
  <2>. SUFFICES ASSUME ModulesInv, [ModulesNext]_modVars PROVE ModulesInv'
    OBVIOUS
  <2>1. CASE ExportSymbols
    BY <2>1, ExportsStay
  <2>2. CASE HeapUp \/ SystemUp
    BY <2>2, StagesStay DEF HeapUp, SystemUp
  <2>3. ASSUME NEW name \in ToSet(BuiltIn), ModuleLoad(name) PROVE ModulesInv'
    BY <2>3, ModuleLoadsStay
  <2>4. ASSUME NEW f \in Files, NEW room \in Rooms, LoadFile(f, room) PROVE ModulesInv'
    BY <2>4, LoadFilesStay
  <2>5. ASSUME NEW f \in Files, NEW root \in BOOLEAN, NEW room \in Rooms, Insmod(f, root, room)
        PROVE  ModulesInv'
    BY <2>5, InsmodsStay
  <2>6. ASSUME NEW name \in ModuleNames, NEW root \in BOOLEAN, DeleteModule(name, root)
        PROVE  ModulesInv'
    BY <2>6, DeletesStay
  <2>7. CASE UNCHANGED modVars
    BY <2>7, AnswersStay DEF modVars
  <2>. QED
    BY <2>1, <2>2, <2>3, <2>4, <2>5, <2>6, <2>7 DEF ModulesNext
<1>2. ModulesInv => ModulesSound
  BY DEF ModulesInv
<1>. QED
  BY <1>1, <1>2, ModulesStart, PTL DEF ModulesSpec

-----------------------------------------------------------------------------
(* Boot.  A mount keeps the others as they were when its driver works from *)
(* the same sector for all of them (MountIntact); the loops over what may  *)
(* be the root and over the lines of fstab keep what one mount keeps.      *)

BootMount == [point : STRING \cup {"/", "/dev", "/proc"}, fs : KnownTypes, lba : Nat]
Mounts    == [mounted : Seq(BootMount), driver : [DiskTypes -> Nat], ok : BOOLEAN]

\* Every driver works from the sector of each of its mounts.
DriversFit(ms, driver) ==
    \A i \in DOMAIN ms : ms[i].fs \in DiskTypes => driver[ms[i].fs] = ms[i].lba

\* What boot_args and rootfs_apply_boot_args make of the command line.
Configured ==
    config = [device |-> ValueOf("root", "/dev/hda2"),
              fs |-> IF ValueOf("rootfstype", "") = "" THEN "biscuitfs"
                     ELSE Canonical(ValueOf("rootfstype", "")),
              lba |-> IF /\ ~Diskless(ValueOf("root", "/dev/hda2"))
                         /\ ValueOf("root", "/dev/hda2") \in DOMAIN DeviceLba
                      THEN DeviceLba[ValueOf("root", "/dev/hda2")] ELSE ROOT_LBA,
              probe |-> ValueOf("rootfstype", "") = "",
              diskless |-> Diskless(ValueOf("root", "/dev/hda2"))]

\* A root is one of those that were tried, for a system with a disk.
RootTried(ms) ==
    \A i \in DOMAIN ms : ms[i].point = "/" =>
        /\ ~config.diskless
        /\ \E k \in DOMAIN Attempts(config) : Attempts(config)[k] = <<ms[i].fs, ms[i].lba>>

BootTypeOK ==
    /\ phase \in {"args", "root", "proc", "fstab", "start", "up"}
    /\ mounted \in Seq(BootMount)
    /\ driver_lba \in [DiskTypes -> Nat]
    /\ swap_lba \in Nat
    /\ fstab \in Fstabs

BootRight ==
    /\ BootTypeOK
    /\ phase = "args" => config = DefaultConfig
    /\ phase # "args" => Configured
    /\ phase \in {"args", "root"} => mounted = <<>>
    /\ phase # "up" => running = <<>>
    /\ RootTried(mounted)
    /\ ShellLast

\* A line of fstab that mounts something.
Mounting(line) == line[2] # "/" /\ line[1] \in DOMAIN DeviceLba /\ line[3] # "swap"

\* No line of fstab mounts a file system of a disk from another partition
\* than a mount of the same type, be it there already or in fstab.
FstabApart ==
    \A l \in DOMAIN fstab : Mounting(fstab[l]) /\ Canonical(fstab[l][3]) \in DiskTypes =>
        /\ \A i \in DOMAIN mounted :
             mounted[i].fs = Canonical(fstab[l][3]) => mounted[i].lba = DeviceLba[fstab[l][1]]
        /\ \A k \in DOMAIN fstab :
             Mounting(fstab[k]) /\ Canonical(fstab[k][3]) = Canonical(fstab[l][3]) =>
                DeviceLba[fstab[k][1]] = DeviceLba[fstab[l][1]]

-----------------------------------------------------------------------------
(* One mount.                                                              *)

\* vfs_mount records a mount or not; its driver works from the sector anyway.
MountedAs(s, m, point, fs, lba) ==
    /\ m \in Mounts
    /\ \/ ~m.ok /\ m.mounted = s.mounted
       \/ /\ m.ok /\ m.mounted = Append(s.mounted, [point |-> point, fs |-> fs, lba |-> lba])
          /\ fs \in DiskTypes => m.driver[fs] = lba
    /\ \A d \in DiskTypes : d # fs => m.driver[d] = s.driver[d]
    /\ \A d \in DiskTypes : d = fs => m.driver[d] \in {s.driver[d], lba}

LEMMA MountOne ==
    ASSUME NEW s \in Mounts, NEW point \in STRING \cup {"/", "/dev", "/proc"},
           NEW fs, NEW lba \in Nat
    PROVE  MountedAs(s, MountOn(s, point, fs, lba), point, fs, lba)
<1>1. PICK good : good = (\/ fs \in KnownTypes \ DiskTypes
                          \/ lba \in DOMAIN content /\ content[lba] = fs)
  OBVIOUS
<1>2. good \in BOOLEAN
  BY <1>1
<1>3. CASE Len(s.mounted) >= BOOT_MAX_MOUNTS \/ fs \notin KnownTypes
  <2>1. MountOn(s, point, fs, lba) = [s EXCEPT !.ok = FALSE]
    BY <1>3 DEF MountOn
  <2>. QED
    BY <2>1 DEF MountedAs, Mounts
<1>4. CASE ~(Len(s.mounted) >= BOOT_MAX_MOUNTS \/ fs \notin KnownTypes)
  <2>1. PICK d1 : d1 = [d \in DiskTypes |-> IF d = fs THEN lba ELSE s.driver[d]]
    OBVIOUS
  <2>2. PICK e : e = [point |-> point, fs |-> fs, lba |-> lba]
    OBVIOUS
  <2>3. PICK ms : ms = IF good THEN Append(s.mounted, e) ELSE s.mounted
    OBVIOUS
  <2>4. /\ s.mounted \in Seq(BootMount) /\ s.driver \in [DiskTypes -> Nat]
        /\ s = [mounted |-> s.mounted, driver |-> s.driver, ok |-> s.ok]
    BY DEF Mounts
  <2>5. MountOn(s, point, fs, lba) = [mounted |-> ms, driver |-> d1, ok |-> good]
    BY <1>1, <1>4, <2>1, <2>2, <2>3, <2>4 DEF MountOn
  <2>6. d1 \in [DiskTypes -> Nat]
    BY <2>1, <2>4
  <2>7. e \in BootMount
    BY <1>4, <2>2 DEF BootMount
  <2>8. ms \in Seq(BootMount)
    BY <2>3, <2>4, <2>7, AppendProperties
  <2>9. MountOn(s, point, fs, lba) \in Mounts
    BY <1>2, <2>5, <2>6, <2>8 DEF Mounts
  <2>. QED
    BY <1>2, <2>1, <2>2, <2>3, <2>5, <2>9 DEF MountedAs
<1>. QED
  BY <1>3, <1>4

\* The mounts after, one by one.
LEMMA MountsAfter ==
    ASSUME NEW s \in Mounts, NEW m, NEW point, NEW fs, NEW lba,
           MountedAs(s, m, point, fs, lba)
    PROVE  /\ DOMAIN s.mounted \subseteq DOMAIN m.mounted
           /\ \A i \in DOMAIN m.mounted :
                \/ i \in DOMAIN s.mounted /\ m.mounted[i] = s.mounted[i]
                \/ /\ i \notin DOMAIN s.mounted /\ m.ok
                   /\ m.mounted[i] = [point |-> point, fs |-> fs, lba |-> lba]
           /\ ~m.ok => m.mounted = s.mounted
<1>1. s.mounted \in Seq(BootMount) /\ m.mounted \in Seq(BootMount) /\ Len(s.mounted) \in Nat
  BY DEF Mounts, MountedAs
<1>2. CASE ~m.ok /\ m.mounted = s.mounted
  BY <1>2
<1>3. CASE m.ok /\ m.mounted = Append(s.mounted, [point |-> point, fs |-> fs, lba |-> lba])
  <2>1. PICK e : e = [point |-> point, fs |-> fs, lba |-> lba]
    OBVIOUS
  <2>2. PICK t : t = s.mounted
    OBVIOUS
  <2>3. /\ DOMAIN t = 1 .. Len(t) /\ DOMAIN m.mounted = 1 .. Len(t) + 1
        /\ \A i \in 1 .. Len(t) : m.mounted[i] = t[i]
        /\ m.mounted[Len(t) + 1] = e
    BY <1>1, <1>3, <2>1, <2>2
  <2>4. /\ \A i \in 1 .. Len(t) + 1 : i \in 1 .. Len(t) \/ i = Len(t) + 1
        /\ Len(t) + 1 \notin 1 .. Len(t)
    BY <1>1, <2>2
  <2>5. \A i \in 1 .. Len(t) : i \in 1 .. Len(t) + 1
    BY <1>1, <2>2
  <2>. QED
    BY <1>3, <2>1, <2>2, <2>3, <2>4, <2>5
<1>. QED
  BY <1>2, <1>3 DEF MountedAs

\* A mount leaves the others intact when its driver works from the same
\* sector for all of them.
LEMMA MountIntact ==
    ASSUME NEW s \in Mounts, NEW m, NEW point, NEW fs, NEW lba,
           MountedAs(s, m, point, fs, lba), DriversFit(s.mounted, s.driver),
           \A i \in DOMAIN s.mounted :
              s.mounted[i].fs = fs /\ fs \in DiskTypes => s.mounted[i].lba = lba
    PROVE  DriversFit(m.mounted, m.driver)
<1>. SUFFICES ASSUME NEW i \in DOMAIN m.mounted, m.mounted[i].fs \in DiskTypes
              PROVE  m.driver[m.mounted[i].fs] = m.mounted[i].lba
  BY DEF DriversFit
<1>1. \/ i \in DOMAIN s.mounted /\ m.mounted[i] = s.mounted[i]
      \/ /\ i \notin DOMAIN s.mounted /\ m.ok
         /\ m.mounted[i] = [point |-> point, fs |-> fs, lba |-> lba]
  BY MountsAfter
<1>2. CASE i \in DOMAIN s.mounted /\ m.mounted[i] = s.mounted[i]
  <2>1. s.driver[s.mounted[i].fs] = s.mounted[i].lba
    BY <1>2 DEF DriversFit
  <2>. QED
    BY <1>2, <2>1 DEF MountedAs
<1>3. CASE i \notin DOMAIN s.mounted /\ m.ok /\ m.mounted[i] = [point |-> point, fs |-> fs, lba |-> lba]
  <2>1. m.mounted # s.mounted
    BY <1>3
  <2>. QED
    BY <1>3, <2>1 DEF MountedAs
<1>. QED
  BY <1>1, <1>2, <1>3
-----------------------------------------------------------------------------
(* The root.                                                               *)

\* What FirstOf goes through: until one is mounted nothing is.
Trying(t, s, tries) ==
    /\ t \in Mounts
    /\ DriversFit(t.mounted, t.driver)
    /\ ~t.ok => t.mounted = s.mounted
    /\ \A i \in DOMAIN t.mounted :
         \/ \E j \in DOMAIN s.mounted : t.mounted[i] = s.mounted[j]
         \/ \E k \in DOMAIN tries :
              t.mounted[i] = [point |-> "/", fs |-> tries[k][1], lba |-> tries[k][2]]

LEMMA TryNext ==
    ASSUME NEW s \in Mounts, NEW F, NEW tries \in Seq(F \X Nat),
           \A i \in DOMAIN s.mounted : s.mounted[i].fs \notin DiskTypes,
           NEW t, Trying(t, s, tries), ~t.ok, NEW k \in DOMAIN tries
    PROVE  Trying(MountOn(t, "/", tries[k][1], tries[k][2]), s, tries)
<1>1. PICK m : m = MountOn(t, "/", tries[k][1], tries[k][2])
  OBVIOUS
<1>2. /\ t \in Mounts /\ DriversFit(t.mounted, t.driver) /\ t.mounted = s.mounted
      /\ tries[k][2] \in Nat
  BY DEF Trying
<1>3. MountedAs(t, m, "/", tries[k][1], tries[k][2])
  BY <1>1, <1>2, MountOne
<1>4. DriversFit(m.mounted, m.driver)
  BY SMTT(30), <1>2, <1>3, MountIntact
<1>5. /\ \A i \in DOMAIN m.mounted :
           \/ i \in DOMAIN t.mounted /\ m.mounted[i] = t.mounted[i]
           \/ m.mounted[i] = [point |-> "/", fs |-> tries[k][1], lba |-> tries[k][2]]
      /\ ~m.ok => m.mounted = t.mounted
  BY <1>2, <1>3, MountsAfter
<1>6. m \in Mounts
  BY <1>3 DEF MountedAs
<1>. QED
  BY <1>1, <1>2, <1>4, <1>5, <1>6 DEF Trying

LEMMA FirstFound ==
    ASSUME NEW s \in Mounts, NEW F, NEW tries \in Seq(F \X Nat),
           \A i \in DOMAIN s.mounted : s.mounted[i].fs \notin DiskTypes
    PROVE  Trying(FirstOf(s, tries), s, tries)
<1>. DEFINE n == Len(tries)
            a == [s EXCEPT !.ok = FALSE]
            Next1(t, i) == IF t.ok THEN t ELSE MountOn(t, "/", tries[i][1], tries[i][2])
            G == [z \in Mounts \X (1 .. n) |-> Next1(z[1], z[2])]
            Rec(g) == g = [i \in 0 .. n |-> IF i = 0 THEN a ELSE Next1(g[i - 1], i)]
<1>1. n \in Nat /\ DOMAIN tries = 1 .. n /\ a \in Mounts
  <2>1. n \in Nat /\ DOMAIN tries = 1 .. n
    OBVIOUS
  <2>2. a \in Mounts
    BY DEF Mounts
  <2>. QED
    BY <2>1, <2>2
<1>2. \A t \in Mounts, i \in 1 .. n : Next1(t, i) \in Mounts
  <2>. SUFFICES ASSUME NEW t \in Mounts, NEW i \in 1 .. n, ~t.ok
                PROVE  MountOn(t, "/", tries[i][1], tries[i][2]) \in Mounts
    OBVIOUS
  <2>1. tries[i][2] \in Nat
    BY <1>1
  <2>2. MountedAs(t, MountOn(t, "/", tries[i][1], tries[i][2]), "/", tries[i][1], tries[i][2])
    BY <2>1, MountOne
  <2>. QED
    BY <2>2 DEF MountedAs
<1>3. FirstOf(s, tries) = (CHOOSE g : Rec(g))[n]
  BY DEF FirstOf
<1>30. a.ok = FALSE /\ a.mounted = s.mounted /\ a.driver = s.driver
  BY DEF Mounts
<1>31. Trying(a, s, tries)
  BY <1>1, <1>30 DEF Trying, DriversFit
<1>32. \A t, i : Trying(t, s, tries) /\ i \in 1 .. n => Trying(Next1(t, i), s, tries)
  BY <1>1, TryNext
<1>33. \A t \in Mounts, i \in 1 .. n : <<t, i>> \in Mounts \X (1 .. n) /\ G[<<t, i>>] = Next1(t, i)
  OBVIOUS
<1>4. G \in [Mounts \X (1 .. n) -> Mounts]
  BY <1>2
<1>. HIDE DEF n, a, Next1, G
<1>5. PICK f : f \in [0 .. n -> Mounts] /\ f[0] = a /\ \A i \in 1 .. n : f[i] = G[<<f[i - 1], i>>]
  <2>1. \E f : IsLoop(f, Mounts, a, n, G)
    BY <1>1, <1>4, Iterates
  <2>. QED
    BY <2>1 DEF IsLoop
<1>6. \A i \in 1 .. n : f[i] = Next1(f[i - 1], i)
  <2>1. \A i \in 1 .. n : i - 1 \in 0 .. n
    BY <1>1
  <2>. QED
    BY <1>5, <1>33, <2>1
<1>7. Rec(f)
  <2>1. \A i \in 0 .. n : i = 0 \/ i \in 1 .. n
    BY <1>1
  <2>2. \A i \in 0 .. n : f[i] = IF i = 0 THEN a ELSE Next1(f[i - 1], i)
    <3>1. \A i \in 1 .. n : i # 0
      BY <1>1
    <3>. QED
      BY <1>5, <1>6, <2>1, <3>1
  <2>3. f = [i \in 0 .. n |-> f[i]]
    BY <1>5
  <2>. QED
    BY <2>2, <2>3
<1>8. PICK g : g = (CHOOSE h : Rec(h)) /\ Rec(g)
  <2>. HIDE DEF Rec
  <2>. QED
    BY <1>7
<1>9. g[0] = a /\ \A i \in 1 .. n : g[i] = Next1(g[i - 1], i)
  <2>1. 0 \in 0 .. n /\ \A i \in 1 .. n : i \in 0 .. n /\ i # 0
    BY <1>1
  <2>. QED
    BY <1>8, <2>1
<1>. DEFINE S == {i \in 0 .. n : Trying(g[i], s, tries)}
<1>10. 0 \in S
  BY <1>1, <1>9, <1>31
<1>11. ASSUME NEW i \in 1 .. n, i - 1 \in S PROVE i \in S
  <2>1. i \in 0 .. n
    BY <1>1
  <2>. QED
    BY <1>9, <1>11, <1>32, <2>1
<1>12. 0 .. n \subseteq S
  <2>. HIDE DEF S
  <2>. QED
    BY <1>1, <1>10, <1>11, UpTo
<1>. QED
  BY <1>1, <1>3, <1>8, <1>12
-----------------------------------------------------------------------------
(* The lines of fstab.                                                     *)

Reading == [mounted : Seq(BootMount), driver : [DiskTypes -> Nat], swap : Nat]
Table   == Seq(STRING \X STRING \X STRING)

\* A mount that a line of fstab asks for.
AskedBy(line, mount) ==
    /\ Mounting(line) /\ mount.point = line[2]
    /\ mount.fs = Canonical(line[3]) /\ mount.lba = DeviceLba[line[1]]

\* What rootfs_apply_fstab goes through: a mount was there before, or a line
\* of the table asks for it.
ReadSoFar(t, ms, lines) ==
    /\ t \in Reading
    /\ \A i \in DOMAIN t.mounted :
         \/ \E j \in DOMAIN ms : t.mounted[i] = ms[j]
         \/ \E k \in DOMAIN lines : AskedBy(lines[k], t.mounted[i])

\* FstabApart, for the mounts ms and the table lines.
ApartOf(ms, lines) ==
    \A l \in DOMAIN lines : Mounting(lines[l]) /\ Canonical(lines[l][3]) \in DiskTypes =>
        /\ \A i \in DOMAIN ms :
             ms[i].fs = Canonical(lines[l][3]) => ms[i].lba = DeviceLba[lines[l][1]]
        /\ \A k \in DOMAIN lines :
             Mounting(lines[k]) /\ Canonical(lines[k][3]) = Canonical(lines[l][3]) =>
                DeviceLba[lines[k][1]] = DeviceLba[lines[l][1]]

LEMMA LineRead ==
    ASSUME NEW ms, NEW lines \in Table, NEW t, ReadSoFar(t, ms, lines), NEW k \in DOMAIN lines
    PROVE  /\ ReadSoFar(FstabLine(t, lines[k]), ms, lines)
           /\ DriversFit(t.mounted, t.driver) /\ ApartOf(ms, lines) =>
                DriversFit(FstabLine(t, lines[k]).mounted, FstabLine(t, lines[k]).driver)
<1>1. PICK line : line = lines[k]
  OBVIOUS
<1>2. line[1] \in STRING /\ line[2] \in STRING /\ line[3] \in STRING
  BY <1>1 DEF Table
<1>3. t \in Reading /\ t.mounted \in Seq(BootMount) /\ t.driver \in [DiskTypes -> Nat]
  BY DEF ReadSoFar, Reading
<1>4. CASE line[2] = "/" \/ line[1] \notin DOMAIN DeviceLba
  <2>1. FstabLine(t, line) = t
    BY <1>4 DEF FstabLine
  <2>. QED
    BY <1>1, <2>1
<1>5. CASE ~(line[2] = "/" \/ line[1] \notin DOMAIN DeviceLba) /\ line[3] = "swap"
  <2>1. PICK sw \in Nat : FstabLine(t, line) = [t EXCEPT !.swap = sw]
    <3>1. DeviceLba[line[1]] \in Nat /\ 0 \in Nat
      BY <1>5, BootAssumption
    <3>2. \/ FstabLine(t, line) = [t EXCEPT !.swap = DeviceLba[line[1]]]
          \/ FstabLine(t, line) = [t EXCEPT !.swap = 0]
      BY <1>5 DEF FstabLine
    <3>. QED
      BY <3>1, <3>2
  <2>2. /\ FstabLine(t, line) \in Reading
        /\ FstabLine(t, line).mounted = t.mounted /\ FstabLine(t, line).driver = t.driver
    BY <1>3, <2>1 DEF Reading
  <2>. QED
    BY <1>1, <2>2 DEF ReadSoFar
<1>6. CASE ~(line[2] = "/" \/ line[1] \notin DOMAIN DeviceLba) /\ line[3] # "swap"
  <2>1. Mounting(line)
    BY <1>6 DEF Mounting
  <2>2. PICK lba \in Nat : lba = DeviceLba[line[1]]
    BY <1>6, BootAssumption
  <2>3. PICK fs : fs = Canonical(line[3])
    OBVIOUS
  <2>4. PICK s : s = [mounted |-> t.mounted, driver |-> t.driver, ok |-> TRUE]
    OBVIOUS
  <2>5. s \in Mounts /\ s.mounted = t.mounted /\ s.driver = t.driver
    BY <1>3, <2>4 DEF Mounts
  <2>6. PICK m : m = MountOn(s, line[2], fs, lba)
    OBVIOUS
  <2>7. MountedAs(s, m, line[2], fs, lba)
    BY <1>2, <2>5, <2>6, MountOne
  <2>8. FstabLine(t, line) = [t EXCEPT !.mounted = m.mounted, !.driver = m.driver]
    BY <1>6, <2>2, <2>3, <2>4, <2>6 DEF FstabLine
  <2>9. m.mounted \in Seq(BootMount) /\ m.driver \in [DiskTypes -> Nat]
    BY <2>7 DEF MountedAs, Mounts
  <2>10. /\ FstabLine(t, line) \in Reading
         /\ FstabLine(t, line).mounted = m.mounted /\ FstabLine(t, line).driver = m.driver
    BY <1>3, <2>8, <2>9 DEF Reading
  <2>11. \A i \in DOMAIN m.mounted :
            \/ i \in DOMAIN t.mounted /\ m.mounted[i] = t.mounted[i]
            \/ m.mounted[i] = [point |-> line[2], fs |-> fs, lba |-> lba]
    BY <2>5, <2>7, MountsAfter
  <2>12. ReadSoFar(FstabLine(t, line), ms, lines)
    <3>. SUFFICES ASSUME NEW i \in DOMAIN m.mounted
                  PROVE  \/ \E j \in DOMAIN ms : m.mounted[i] = ms[j]
                         \/ \E l \in DOMAIN lines : AskedBy(lines[l], m.mounted[i])
      BY <2>10 DEF ReadSoFar
    <3>1. CASE i \in DOMAIN t.mounted /\ m.mounted[i] = t.mounted[i]
      BY <3>1 DEF ReadSoFar
    <3>2. CASE m.mounted[i] = [point |-> line[2], fs |-> fs, lba |-> lba]
      <4>1. AskedBy(line, m.mounted[i])
        BY <2>1, <2>2, <2>3, <3>2 DEF AskedBy
      <4>. QED
        BY <1>1, <4>1
    <3>. QED
      BY <2>11, <3>1, <3>2
  <2>13. ASSUME DriversFit(t.mounted, t.driver), ApartOf(ms, lines)
         PROVE  DriversFit(FstabLine(t, line).mounted, FstabLine(t, line).driver)
    <3>1. ASSUME NEW i \in DOMAIN t.mounted, t.mounted[i].fs = fs, fs \in DiskTypes
          PROVE  t.mounted[i].lba = lba
      <4>1. CASE \E j \in DOMAIN ms : t.mounted[i] = ms[j]
        BY <1>1, <2>1, <2>2, <2>3, <2>13, <3>1, <4>1 DEF ApartOf
      <4>2. CASE \E l \in DOMAIN lines : AskedBy(lines[l], t.mounted[i])
        <5>1. PICK l \in DOMAIN lines : /\ Mounting(lines[l])
                                        /\ t.mounted[i].fs = Canonical(lines[l][3])
                                        /\ t.mounted[i].lba = DeviceLba[lines[l][1]]
          BY <4>2 DEF AskedBy
        <5>2. Canonical(lines[l][3]) = Canonical(lines[k][3]) /\ Canonical(lines[k][3]) \in DiskTypes
          BY <1>1, <2>3, <3>1, <5>1
        <5>3. DeviceLba[lines[l][1]] = DeviceLba[lines[k][1]]
          BY <1>1, <2>1, <2>13, <5>1, <5>2 DEF ApartOf
        <5>. QED
          BY <1>1, <2>2, <5>1, <5>3
      <4>. QED
        BY <4>1, <4>2 DEF ReadSoFar
    <3>. QED
      BY <2>5, <2>7, <2>10, <2>13, <3>1, MountIntact
  <2>. QED
    BY <1>1, <2>12, <2>13
<1>. QED
  BY <1>4, <1>5, <1>6

LEMMA TableRead ==
    ASSUME NEW s, NEW lines \in Table, ReadSoFar(s, s.mounted, lines)
    PROVE  /\ ReadSoFar(AfterLines(s, lines), s.mounted, lines)
           /\ DriversFit(s.mounted, s.driver) /\ ApartOf(s.mounted, lines) =>
                DriversFit(AfterLines(s, lines).mounted, AfterLines(s, lines).driver)
<1>. DEFINE n == Len(lines)
            Good(t) == /\ ReadSoFar(t, s.mounted, lines)
                       /\ DriversFit(s.mounted, s.driver) /\ ApartOf(s.mounted, lines) =>
                            DriversFit(t.mounted, t.driver)
            X == {t \in Reading : Good(t)}
            Next1(t, i) == FstabLine(t, lines[i])
            G == [z \in X \X (1 .. n) |-> Next1(z[1], z[2])]
            Rec(g) == g = [i \in 0 .. n |-> IF i = 0 THEN s ELSE Next1(g[i - 1], i)]
<1>1. n \in Nat /\ DOMAIN lines = 1 .. n
  BY DEF Table
<1>2. s \in X
  BY DEF ReadSoFar
<1>3. AfterLines(s, lines) = (CHOOSE g : Rec(g))[n]
  BY DEF AfterLines
<1>4. \A t \in X, i \in 1 .. n : Next1(t, i) \in X
  <2>. SUFFICES ASSUME NEW t \in Reading, Good(t), NEW i \in DOMAIN lines
                PROVE  FstabLine(t, lines[i]) \in Reading /\ Good(FstabLine(t, lines[i]))
    BY <1>1
  <2>1. ReadSoFar(FstabLine(t, lines[i]), s.mounted, lines)
    BY LineRead
  <2>2. DriversFit(t.mounted, t.driver) /\ ApartOf(s.mounted, lines) =>
            DriversFit(FstabLine(t, lines[i]).mounted, FstabLine(t, lines[i]).driver)
    BY LineRead
  <2>. QED
    BY <2>1, <2>2 DEF ReadSoFar
<1>5. \A t \in X, i \in 1 .. n : <<t, i>> \in X \X (1 .. n) /\ G[<<t, i>>] = Next1(t, i)
  OBVIOUS
<1>6. G \in [X \X (1 .. n) -> X]
  <2>. HIDE DEF X, Next1
  <2>. QED
    BY <1>4
<1>. HIDE DEF n, X, Next1, G
<1>7. PICK f : f \in [0 .. n -> X] /\ f[0] = s /\ \A i \in 1 .. n : f[i] = G[<<f[i - 1], i>>]
  <2>1. \E f : IsLoop(f, X, s, n, G)
    BY <1>1, <1>2, <1>6, Iterates
  <2>. QED
    BY <2>1 DEF IsLoop
<1>8. \A i \in 1 .. n : f[i] = Next1(f[i - 1], i)
  <2>1. \A i \in 1 .. n : i - 1 \in 0 .. n
    BY <1>1
  <2>. QED
    BY <1>5, <1>7, <2>1
<1>9. Rec(f)
  <2>1. \A i \in 0 .. n : i = 0 \/ i \in 1 .. n
    BY <1>1
  <2>2. \A i \in 0 .. n : f[i] = IF i = 0 THEN s ELSE Next1(f[i - 1], i)
    <3>1. \A i \in 1 .. n : i # 0
      BY <1>1
    <3>. QED
      BY <1>7, <1>8, <2>1, <3>1
  <2>3. f = [i \in 0 .. n |-> f[i]]
    BY <1>7
  <2>. QED
    BY <2>2, <2>3
<1>10. PICK g : g = (CHOOSE h : Rec(h)) /\ Rec(g)
  <2>. HIDE DEF Rec
  <2>. QED
    BY <1>9
<1>11. g[0] = s /\ \A i \in 1 .. n : g[i] = Next1(g[i - 1], i)
  <2>1. 0 \in 0 .. n /\ \A i \in 1 .. n : i \in 0 .. n /\ i # 0
    BY <1>1
  <2>. QED
    BY <1>10, <2>1
<1>. DEFINE S == {i \in 0 .. n : g[i] \in X}
<1>12. 0 \in S
  BY <1>1, <1>2, <1>11
<1>13. ASSUME NEW i \in 1 .. n, i - 1 \in S PROVE i \in S
  <2>1. i \in 0 .. n
    BY <1>1
  <2>. QED
    BY <1>4, <1>11, <1>13, <2>1
<1>14. 0 .. n \subseteq S
  <2>. HIDE DEF S
  <2>. QED
    BY <1>1, <1>12, <1>13, UpTo
<1>15. AfterLines(s, lines) \in X
  BY <1>1, <1>3, <1>10, <1>14
<1>. QED
  BY <1>15 DEF X
-----------------------------------------------------------------------------
(* The steps.                                                              *)

LEMMA SameInputs ==
    ASSUME UNCHANGED Inputs
    PROVE  /\ \A key, default : ValueOf(key, default)' = ValueOf(key, default)
           /\ fstab' = fstab /\ runnable' = runnable
BY DEF Inputs, ValueOf

LEMMA AttemptsAre ==
    ASSUME NEW c, c.lba \in Nat, NEW k \in DOMAIN Attempts(c)
    PROVE  /\ ~c.probe => Attempts(c)[k] = <<Canonical(c.fs), c.lba>>
           /\ c.probe => \E fs : \/ Attempts(c)[k] = <<fs, c.lba>>
                                 \/ c.lba = 0 /\ Attempts(c)[k] = <<fs, DeviceLba["/dev/hda2"]>>
<1>1. CASE ~c.probe
  <2>1. Attempts(c) = <<<<Canonical(c.fs), c.lba>>>>
    BY <1>1 DEF Attempts
  <2>. QED
    BY <1>1, <2>1
<1>2. CASE c.probe
  <2>1. PICK a : a = <<<<"biscuitfs", c.lba>>, <<"fat16", c.lba>>>>
    OBVIOUS
  <2>2. PICK b : b = IF c.lba = 0 THEN <<<<"biscuitfs", DeviceLba["/dev/hda2"]>>,
                                        <<"fat16", DeviceLba["/dev/hda2"]>>>>
                     ELSE <<>>
    OBVIOUS
  <2>3. Attempts(c) = a \o b
    BY <1>2, <2>1, <2>2 DEF Attempts
  <2>4. DeviceLba["/dev/hda2"] \in Nat
    BY BootAssumption
  <2>5. a \in Seq(DiskTypes \X Nat) /\ Len(a) = 2 /\ \A i \in 1 .. 2 : \E fs : a[i] = <<fs, c.lba>>
    BY <2>1 DEF DiskTypes
  <2>6. /\ b \in Seq(DiskTypes \X Nat) /\ Len(b) \in Nat
        /\ \A i \in 1 .. Len(b) : c.lba = 0 /\ \E fs : b[i] = <<fs, DeviceLba["/dev/hda2"]>>
    <3>1. CASE c.lba = 0
      <4>1. b = <<<<"biscuitfs", DeviceLba["/dev/hda2"]>>, <<"fat16", DeviceLba["/dev/hda2"]>>>>
        BY <2>2, <3>1
      <4>2. b \in Seq(DiskTypes \X Nat) /\ Len(b) = 2
        BY <2>4, <4>1 DEF DiskTypes
      <4>3. \A i \in 1 .. 2 : \E fs : b[i] = <<fs, DeviceLba["/dev/hda2"]>>
        BY <4>1
      <4>. QED
        BY <3>1, <4>2, <4>3
    <3>2. CASE c.lba # 0
      BY <2>2, <3>2
    <3>. QED
      BY <3>1, <3>2
  <2>7. /\ Len(Attempts(c)) = Len(a) + Len(b) /\ Attempts(c) \in Seq(DiskTypes \X Nat)
        /\ \A i \in 1 .. Len(a) + Len(b) :
             Attempts(c)[i] = IF i <= Len(a) THEN a[i] ELSE b[i - Len(a)]
    <3>1. a \in Seq(DiskTypes \X Nat) /\ b \in Seq(DiskTypes \X Nat)
      BY <2>5, <2>6
    <3>. QED
      BY ONLY <2>3, <3>1, ConcatProperties
  <2>8. k \in 1 .. 2 + Len(b)
    BY <2>5, <2>7
  <2>9. CASE k <= 2
    <3>1. Attempts(c)[k] = a[k] /\ k \in 1 .. 2
      BY <2>5, <2>7, <2>8, <2>9
    <3>. QED
      BY <1>2, <2>5, <3>1
  <2>10. CASE ~(k <= 2)
    <3>0. k - 2 \in 1 .. Len(b)
      <4>1. Len(b) \in Nat
        BY <2>6
      <4>. QED
        BY ONLY <2>8, <2>10, <4>1
    <3>1. Attempts(c)[k] = b[k - 2]
      <4>1. Len(a) = 2 /\ k \in 1 .. Len(a) + Len(b)
        BY <2>5, <2>8
      <4>. QED
        BY ONLY <2>7, <2>10, <4>1
    <3>. QED
      BY <1>2, <2>6, <3>0, <3>1
  <2>. QED
    BY <2>9, <2>10
<1>. QED
  BY <1>1, <1>2

LEMMA AttemptsTyped ==
    ASSUME NEW c, c.lba \in Nat
    PROVE  \E F : Attempts(c) \in Seq(F \X Nat)
<1>1. CASE ~c.probe
  <2>1. Attempts(c) = <<<<Canonical(c.fs), c.lba>>>>
    BY <1>1 DEF Attempts
  <2>2. Attempts(c) \in Seq({Canonical(c.fs)} \X Nat)
    BY <2>1
  <2>. QED
    BY <2>2
<1>2. CASE c.probe
  <2>1. DeviceLba["/dev/hda2"] \in Nat
    BY BootAssumption
  <2>2. <<<<"biscuitfs", c.lba>>, <<"fat16", c.lba>>>> \in Seq(DiskTypes \X Nat)
    BY DEF DiskTypes
  <2>3. (IF c.lba = 0 THEN <<<<"biscuitfs", DeviceLba["/dev/hda2"]>>,
                             <<"fat16", DeviceLba["/dev/hda2"]>>>>
         ELSE <<>>) \in Seq(DiskTypes \X Nat)
    <3>1. <<<<"biscuitfs", DeviceLba["/dev/hda2"]>>, <<"fat16", DeviceLba["/dev/hda2"]>>>>
          \in Seq(DiskTypes \X Nat)
      BY <2>1 DEF DiskTypes
    <3>2. <<>> \in Seq(DiskTypes \X Nat)
      OBVIOUS
    <3>. QED
      BY <3>1, <3>2
  <2>4. Attempts(c) \in Seq(DiskTypes \X Nat)
    BY <1>2, <2>2, <2>3, ConcatProperties DEF Attempts
  <2>. QED
    BY <2>4
<1>. QED
  BY <1>1, <1>2

LEMMA ConfigTyped == ASSUME Configured PROVE config.lba \in Nat
BY BootAssumption DEF Configured

LEMMA SameConfig ==
    ASSUME Configured, config' = config, cmdline' = cmdline PROVE Configured'
<1>1. ValueOf("root", "/dev/hda2")' = ValueOf("root", "/dev/hda2")
  BY DEF ValueOf
<1>2. ValueOf("rootfstype", "")' = ValueOf("rootfstype", "")
  BY DEF ValueOf
<1>. QED
  BY <1>1, <1>2 DEF Configured

LEMMA NoShell == <<>> # <<"shell">>
OBVIOUS

LEMMA BootStart == BootInit => BootRight /\ MountsIntact
<1>. SUFFICES ASSUME BootInit PROVE BootRight /\ MountsIntact
  OBVIOUS
<1>1. /\ phase = "args" /\ mounted = <<>> /\ DOMAIN mounted = {} /\ running = <<>>
      /\ config = DefaultConfig /\ swap_lba = 0 /\ fstab \in Fstabs
      /\ driver_lba = [fs \in DiskTypes |-> 0]
  BY DEF BootInit
<1>2. BootTypeOK
  BY <1>1 DEF BootTypeOK
<1>3. ShellLast
  BY <1>1, NoShell DEF ShellLast
<1>. QED
  BY <1>1, <1>2, <1>3 DEF BootRight, RootTried, MountsIntact

LEMMA ArgsStay ==
    ASSUME BootRight, MountsIntact, ReadArgs PROVE BootRight' /\ MountsIntact'
<1>1. /\ phase = "args" /\ phase' = "root" /\ config = DefaultConfig
      /\ UNCHANGED <<Inputs, mounted, driver_lba, swap_lba, running>>
      /\ mounted = <<>> /\ DOMAIN mounted = {} /\ running = <<>> /\ BootTypeOK
  <2>1. /\ phase = "args" /\ phase' = "root"
        /\ UNCHANGED <<Inputs, mounted, driver_lba, swap_lba, running>>
    BY DEF ReadArgs
  <2>2. config = DefaultConfig /\ mounted = <<>> /\ running = <<>> /\ BootTypeOK
    BY <2>1 DEF BootRight
  <2>3. DOMAIN mounted = {}
    BY <2>2
  <2>. QED
    BY <2>1, <2>2, <2>3
<1>2. config.device = "/dev/hda2" /\ config.fs = "biscuitfs" /\ config.lba = ROOT_LBA
  BY <1>1 DEF DefaultConfig
<1>3. Configured'
  <2>1. Configured' <=>
          config' = [device |-> ValueOf("root", "/dev/hda2"),
              fs |-> IF ValueOf("rootfstype", "") = "" THEN "biscuitfs"
                     ELSE Canonical(ValueOf("rootfstype", "")),
              lba |-> IF /\ ~Diskless(ValueOf("root", "/dev/hda2"))
                         /\ ValueOf("root", "/dev/hda2") \in DOMAIN DeviceLba
                      THEN DeviceLba[ValueOf("root", "/dev/hda2")] ELSE ROOT_LBA,
              probe |-> ValueOf("rootfstype", "") = "",
              diskless |-> Diskless(ValueOf("root", "/dev/hda2"))]
    BY <1>1 DEF Configured, Inputs, ValueOf
  <2>. QED
    BY <1>2, <2>1 DEF ReadArgs
<1>4. BootTypeOK'
  BY <1>1 DEF BootTypeOK, Inputs
<1>5. ShellLast'
  BY <1>1, NoShell DEF ShellLast
<1>. QED
  BY <1>1, <1>3, <1>4, <1>5 DEF BootRight, RootTried, MountsIntact

LEMMA SystemTyped == ASSUME BootTypeOK PROVE System \in Mounts
BY DEF BootTypeOK, System, Mounts

\* Between the command line and the first program only mounts change.
LEMMA OnlyMounts ==
    ASSUME BootRight, phase \notin {"args", "up"}, phase' \in {"proc", "fstab", "start"},
           UNCHANGED <<Inputs, config, running>>, swap_lba' \in Nat,
           mounted' \in Seq(BootMount), driver_lba' \in [DiskTypes -> Nat],
           RootTried(mounted')
    PROVE  BootRight'
<1>1. running = <<>> /\ Configured /\ BootTypeOK
  BY DEF BootRight
<1>2. Configured'
  BY <1>1, SameConfig DEF Inputs
<1>3. BootTypeOK'
  BY <1>1 DEF BootTypeOK, Inputs
<1>4. ShellLast'
  BY <1>1, NoShell DEF ShellLast
<1>5. RootTried(mounted)'
  BY DEF RootTried, Attempts
<1>. QED
  BY <1>1, <1>2, <1>3, <1>4, <1>5 DEF BootRight

LEMMA RootsStay ==
    ASSUME BootRight, MountsIntact, NEW there \in BOOLEAN, MountRoot(there)
    PROVE  BootRight' /\ MountsIntact'
<1>1. /\ phase = "root" /\ Configured /\ BootTypeOK
      /\ mounted = <<>> /\ DOMAIN mounted = {} /\ swap_lba \in Nat
      /\ UNCHANGED <<Inputs, config, swap_lba, running>>
  BY DEF MountRoot, BootRight, BootTypeOK
<1>2. PICK dev : dev = MountOn(System, "/dev", "devfs", 0)
  OBVIOUS
<1>3. PICK root : root = FirstOf(dev, Attempts(config))
  OBVIOUS
<1>4. /\ phase' \in {"proc", "fstab"}
      /\ \/ SystemBecomes(dev)
         \/ ~config.diskless /\ SystemBecomes(root)
  BY <1>2, <1>3 DEF MountRoot
<1>5. System \in Mounts /\ DOMAIN System.mounted = {}
  BY <1>1, SystemTyped DEF System
<1>6. MountedAs(System, dev, "/dev", "devfs", 0)
  BY <1>2, <1>5, MountOne
<1>7. \A i \in DOMAIN dev.mounted : dev.mounted[i] = [point |-> "/dev", fs |-> "devfs", lba |-> 0]
  BY <1>5, <1>6, MountsAfter
<1>8. \A i \in DOMAIN dev.mounted : dev.mounted[i].fs \notin DiskTypes /\ dev.mounted[i].point # "/"
  BY <1>7 DEF DiskTypes
<1>9. CASE SystemBecomes(dev)
  <2>1. mounted' = dev.mounted /\ driver_lba' = dev.driver /\ dev \in Mounts
    BY <1>6, <1>9 DEF SystemBecomes, MountedAs
  <2>2. mounted' \in Seq(BootMount) /\ driver_lba' \in [DiskTypes -> Nat]
    BY <2>1 DEF Mounts
  <2>3. RootTried(mounted') /\ MountsIntact'
    BY <1>8, <2>1 DEF RootTried, MountsIntact
  <2>. QED
    BY <1>1, <1>4, <2>2, <2>3, OnlyMounts
<1>10. CASE ~config.diskless /\ SystemBecomes(root)
  <2>0. dev \in Mounts
    BY <1>6 DEF MountedAs
  <2>1. PICK F : Attempts(config) \in Seq(F \X Nat)
    BY <1>1, ConfigTyped, AttemptsTyped
  <2>2. Trying(root, dev, Attempts(config))
    BY <1>3, <1>8, <2>0, <2>1, FirstFound
  <2>3. mounted' = root.mounted /\ driver_lba' = root.driver
    BY <1>10 DEF SystemBecomes
  <2>4. mounted' \in Seq(BootMount) /\ driver_lba' \in [DiskTypes -> Nat]
    BY <2>2, <2>3 DEF Trying, Mounts
  <2>5. MountsIntact'
    BY <2>2, <2>3 DEF Trying, DriversFit, MountsIntact
  <2>6. RootTried(mounted')
    <3>. SUFFICES ASSUME NEW i \in DOMAIN root.mounted, root.mounted[i].point = "/"
                  PROVE  \E k \in DOMAIN Attempts(config) :
                            Attempts(config)[k] = <<root.mounted[i].fs, root.mounted[i].lba>>
      BY <1>10, <2>3 DEF RootTried
    <3>1. PICK k \in DOMAIN Attempts(config) :
            root.mounted[i] = [point |-> "/", fs |-> Attempts(config)[k][1], lba |-> Attempts(config)[k][2]]
      BY <1>8, <2>2 DEF Trying
    <3>2. Attempts(config)[k] \in F \X Nat
      BY <2>1
    <3>. QED
      BY <3>1, <3>2
  <2>. QED
    BY <1>1, <1>4, <2>4, <2>5, <2>6, OnlyMounts
<1>. QED
  BY <1>4, <1>9, <1>10

\* /proc is mounted whether there is an fstab or not.
LEMMA ProcMounted ==
    ASSUME BootRight, NEW proc, proc = MountOn(System, "/proc", "procfs", 0)
    PROVE  /\ proc \in Mounts
           /\ \A i \in DOMAIN proc.mounted :
                \/ i \in DOMAIN mounted /\ proc.mounted[i] = mounted[i]
                \/ proc.mounted[i] = [point |-> "/proc", fs |-> "procfs", lba |-> 0]
           /\ RootTried(proc.mounted)
           /\ MountsIntact => DriversFit(proc.mounted, proc.driver)
<1>1. System \in Mounts /\ System.mounted = mounted /\ System.driver = driver_lba
  BY SystemTyped DEF BootRight, System
<1>2. MountedAs(System, proc, "/proc", "procfs", 0)
  BY <1>1, MountOne
<1>3. proc \in Mounts
  BY <1>2 DEF MountedAs
<1>4. \A i \in DOMAIN proc.mounted :
        \/ i \in DOMAIN mounted /\ proc.mounted[i] = mounted[i]
        \/ proc.mounted[i] = [point |-> "/proc", fs |-> "procfs", lba |-> 0]
  BY <1>1, <1>2, MountsAfter
<1>5. RootTried(proc.mounted)
  BY <1>4 DEF BootRight, RootTried
<1>6. ASSUME MountsIntact PROVE DriversFit(proc.mounted, proc.driver)
  <2>1. DriversFit(System.mounted, System.driver) /\ "procfs" \notin DiskTypes
    BY <1>1, <1>6 DEF DriversFit, MountsIntact, DiskTypes
  <2>. QED
    BY <1>1, <1>2, <2>1, MountIntact
<1>. QED
  BY <1>3, <1>4, <1>5, <1>6

LEMMA NoFstabsStay ==
    ASSUME BootRight, NoFstab PROVE BootRight' /\ (MountsIntact => MountsIntact')
<1>1. PICK proc : proc = MountOn(System, "/proc", "procfs", 0)
  OBVIOUS
<1>2. /\ phase = "proc" /\ phase' = "start" /\ mounted' = proc.mounted /\ driver_lba' = proc.driver
      /\ UNCHANGED <<Inputs, config, swap_lba, running>> /\ swap_lba \in Nat
  BY <1>1 DEF NoFstab, SystemBecomes, BootRight, BootTypeOK
<1>3. /\ proc \in Mounts /\ RootTried(proc.mounted)
      /\ MountsIntact => DriversFit(proc.mounted, proc.driver)
  BY <1>1, ProcMounted
<1>4. proc.mounted \in Seq(BootMount) /\ proc.driver \in [DiskTypes -> Nat]
  BY <1>3 DEF Mounts
<1>. QED
  BY <1>2, <1>3, <1>4, OnlyMounts DEF DriversFit, MountsIntact

LEMMA FstabsStay ==
    ASSUME BootRight, ApplyFstab
    PROVE  BootRight' /\ (MountsIntact /\ FstabApart => MountsIntact')
<1>1. PICK proc : proc = MountOn(System, "/proc", "procfs", 0)
  OBVIOUS
<1>2. PICK lines : lines = IF \E i \in DOMAIN mounted : mounted[i].point = "/" THEN fstab ELSE <<>>
  OBVIOUS
<1>3. PICK s : s = [mounted |-> proc.mounted, driver |-> proc.driver, swap |-> swap_lba]
  OBVIOUS
<1>4. PICK end : end = AfterLines(s, lines)
  OBVIOUS
<1>5. /\ phase = "fstab" /\ phase' = "start" /\ mounted' = end.mounted /\ driver_lba' = end.driver
      /\ swap_lba' = end.swap /\ UNCHANGED <<Inputs, config, running>>
      /\ swap_lba \in Nat /\ fstab \in Fstabs
  BY <1>1, <1>2, <1>3, <1>4 DEF ApplyFstab, SystemBecomes, BootRight, BootTypeOK
<1>6. /\ proc \in Mounts /\ RootTried(proc.mounted)
      /\ MountsIntact => DriversFit(proc.mounted, proc.driver)
      /\ \A i \in DOMAIN proc.mounted :
           \/ i \in DOMAIN mounted /\ proc.mounted[i] = mounted[i]
           \/ proc.mounted[i] = [point |-> "/proc", fs |-> "procfs", lba |-> 0]
  BY <1>1, ProcMounted
<1>7. lines \in Table
  <2>1. fstab \in Table
    BY <1>5, BootAssumption DEF Table
  <2>2. <<>> \in Table
    BY DEF Table
  <2>. QED
    BY <1>2, <2>1, <2>2
<1>8. s \in Reading /\ s.mounted = proc.mounted /\ s.driver = proc.driver
  <2>1. proc.mounted \in Seq(BootMount) /\ proc.driver \in [DiskTypes -> Nat]
    BY <1>6 DEF Mounts
  <2>. QED
    BY <1>3, <1>5, <2>1 DEF Reading
<1>9. ReadSoFar(s, s.mounted, lines)
  BY <1>8 DEF ReadSoFar
<1>10. /\ ReadSoFar(end, s.mounted, lines)
       /\ DriversFit(s.mounted, s.driver) /\ ApartOf(s.mounted, lines) => DriversFit(end.mounted, end.driver)
  BY <1>4, <1>7, <1>9, TableRead
<1>11. end.mounted \in Seq(BootMount) /\ end.driver \in [DiskTypes -> Nat] /\ end.swap \in Nat
  BY <1>10 DEF ReadSoFar, Reading
<1>12. RootTried(end.mounted)
  <2>. SUFFICES ASSUME NEW i \in DOMAIN end.mounted, end.mounted[i].point = "/"
                PROVE  /\ ~config.diskless
                       /\ \E k \in DOMAIN Attempts(config) :
                            Attempts(config)[k] = <<end.mounted[i].fs, end.mounted[i].lba>>
    BY DEF RootTried
  <2>1. ~(\E k \in DOMAIN lines : AskedBy(lines[k], end.mounted[i]))
    BY DEF AskedBy, Mounting
  <2>2. PICK j \in DOMAIN proc.mounted : end.mounted[i] = proc.mounted[j]
    BY <1>8, <1>10, <2>1 DEF ReadSoFar
  <2>. QED
    BY <1>6, <2>2 DEF RootTried
<1>13. ASSUME MountsIntact, FstabApart PROVE MountsIntact'
  <2>1. ApartOf(s.mounted, lines)
    <3>1. CASE lines = <<>>
      BY <3>1 DEF ApartOf
    <3>2. CASE lines = fstab
      <4>. SUFFICES ASSUME NEW l \in DOMAIN fstab, Mounting(fstab[l]), Canonical(fstab[l][3]) \in DiskTypes
                    PROVE  /\ \A i \in DOMAIN proc.mounted :
                                proc.mounted[i].fs = Canonical(fstab[l][3]) =>
                                  proc.mounted[i].lba = DeviceLba[fstab[l][1]]
                           /\ \A k \in DOMAIN fstab :
                                Mounting(fstab[k]) /\ Canonical(fstab[k][3]) = Canonical(fstab[l][3]) =>
                                  DeviceLba[fstab[k][1]] = DeviceLba[fstab[l][1]]
        BY <1>8, <3>2 DEF ApartOf
      <4>1. "procfs" \notin DiskTypes
        BY DEF DiskTypes
      <4>. QED
        BY <1>6, <1>13, <4>1 DEF FstabApart
    <3>. QED
      BY <1>2, <3>1, <3>2
  <2>2. DriversFit(end.mounted, end.driver)
    BY <1>6, <1>8, <1>10, <1>13, <2>1
  <2>. QED
    BY <1>5, <2>2 DEF DriversFit, MountsIntact
<1>14. BootRight'
  BY <1>5, <1>11, <1>12, OnlyMounts
<1>. QED
  BY <1>13, <1>14

LEMMA StartsStay ==
    ASSUME BootRight, StartFirst PROVE BootRight' /\ (MountsIntact => MountsIntact')
<1>1. /\ phase = "start" /\ phase' = "up" /\ UNCHANGED <<Inputs, config, mounted, driver_lba, swap_lba>>
      /\ BootTypeOK /\ Configured /\ RootTried(mounted)
  BY DEF StartFirst, BootRight
<1>2. PICK able : able = {i \in DOMAIN Candidates : /\ Candidates[i] \in runnable
                                                  /\ \E m \in DOMAIN mounted : mounted[m].point = "/"}
  OBVIOUS
<1>3. running' = <<"shell">> => able = {}
  <2>1. \A p : <<"program", p>> # <<"shell">>
    OBVIOUS
  <2>. QED
    BY <1>2, <2>1 DEF StartFirst
<1>4. able = {} =>
        RootMounts = {} \/ {ValueOf("init", "/sbin/init"), "/bin/init", "/bin/bash"} \cap runnable = {}
  <2>. SUFFICES ASSUME able = {}, NEW m \in DOMAIN mounted, mounted[m].point = "/"
                PROVE  {ValueOf("init", "/sbin/init"), "/bin/init", "/bin/bash"} \cap runnable = {}
    BY DEF RootMounts
  <2>1. \A i \in DOMAIN Candidates : Candidates[i] \notin runnable
    BY <1>2
  <2>2. /\ DOMAIN Candidates = 1 .. 3 /\ Candidates[1] = ValueOf("init", "/sbin/init")
        /\ Candidates[2] = "/bin/init" /\ Candidates[3] = "/bin/bash"
    BY DEF Candidates
  <2>3. 1 \in 1 .. 3 /\ 2 \in 1 .. 3 /\ 3 \in 1 .. 3
    OBVIOUS
  <2>. QED
    BY <2>1, <2>2, <2>3
<1>5. RootMounts' = RootMounts /\ runnable' = runnable
      /\ ValueOf("init", "/sbin/init")' = ValueOf("init", "/sbin/init")
  BY <1>1 DEF RootMounts, Inputs, ValueOf
<1>6. ShellLast'
  BY <1>3, <1>4, <1>5 DEF ShellLast
<1>7. Configured'
  BY <1>1, SameConfig DEF Inputs
<1>8. BootTypeOK' /\ RootTried(mounted)'
  BY <1>1 DEF BootTypeOK, Inputs, RootTried, Attempts
<1>9. MountsIntact => MountsIntact'
  BY <1>1 DEF MountsIntact
<1>. QED
  BY <1>1, <1>6, <1>7, <1>8, <1>9 DEF BootRight

\* The root that was tried is the root that was asked for.
LEMMA TriedIsAsked == ASSUME BootRight PROVE RootAsAsked
<1>. SUFFICES ASSUME NEW i \in DOMAIN mounted, mounted[i].point = "/", NEW m, m = mounted[i]
              PROVE  /\ ValueOf("rootfstype", "") # "" => m.fs = Canonical(ValueOf("rootfstype", ""))
                     /\ ValueOf("root", "") \in DOMAIN DeviceLba =>
                          \/ m.lba = DeviceLba[ValueOf("root", "")]
                          \/ /\ DeviceLba[ValueOf("root", "")] = 0 /\ m.lba = ROOT_LBA
                             /\ ValueOf("rootfstype", "") = ""
  BY DEF RootAsAsked, RootMounts
<1>1. phase \notin {"args", "root"}
  BY DEF BootRight
<1>2. Configured /\ config.lba \in Nat
  BY <1>1, ConfigTyped DEF BootRight
<1>3. PICK k \in DOMAIN Attempts(config) : ~config.diskless /\ Attempts(config)[k] = <<m.fs, m.lba>>
  BY DEF BootRight, RootTried
<1>4. PICK type, device : type = ValueOf("rootfstype", "") /\ device = ValueOf("root", "/dev/hda2")
  OBVIOUS
<1>5. /\ config.probe <=> type = ""
      /\ config.fs = IF type = "" THEN "biscuitfs" ELSE Canonical(type)
      /\ ~Diskless(device)
      /\ config.lba = IF device \in DOMAIN DeviceLba THEN DeviceLba[device] ELSE ROOT_LBA
  BY <1>2, <1>3, <1>4 DEF Configured
<1>6. DeviceLba["/dev/hda2"] = ROOT_LBA
  BY BootAssumption
<1>7. /\ type # "" => m.fs = Canonical(Canonical(type)) /\ m.lba = config.lba
      /\ type = "" => m.lba = config.lba \/ (config.lba = 0 /\ m.lba = ROOT_LBA)
  <2>1. type # "" => Attempts(config)[k] = <<Canonical(config.fs), config.lba>>
    BY <1>2, <1>5, AttemptsAre
  <2>2. type = "" => \E fs : \/ Attempts(config)[k] = <<fs, config.lba>>
                             \/ config.lba = 0 /\ Attempts(config)[k] = <<fs, ROOT_LBA>>
    BY <1>2, <1>5, <1>6, AttemptsAre
  <2>3. type # "" => m.fs = Canonical(config.fs) /\ m.lba = config.lba
    <3>1. CASE type = ""
      BY <3>1
    <3>2. CASE type # ""
      <4>1. <<m.fs, m.lba>> = <<Canonical(config.fs), config.lba>>
        BY <1>3, <2>1, <3>2
      <4>2. \A a, b, c, d : <<a, b>> = <<c, d>> => a = c /\ b = d
        OBVIOUS
      <4>. QED
        BY ONLY <4>1, <4>2
    <3>. QED
      BY <3>1, <3>2
  <2>4. type = "" => m.lba = config.lba \/ (config.lba = 0 /\ m.lba = ROOT_LBA)
    <3>1. CASE type # ""
      BY <3>1
    <3>2. CASE type = ""
      <4>1. PICK fs : \/ <<m.fs, m.lba>> = <<fs, config.lba>>
                      \/ config.lba = 0 /\ <<m.fs, m.lba>> = <<fs, ROOT_LBA>>
        BY <1>3, <2>2, <3>2
      <4>2. \A a, b, c, d : <<a, b>> = <<c, d>> => a = c /\ b = d
        OBVIOUS
      <4>. QED
        BY ONLY <4>1, <4>2
    <3>. QED
      BY <3>1, <3>2
  <2>. QED
    BY ONLY <1>5, <2>3, <2>4
<1>8. Canonical(Canonical(type)) = Canonical(type)
  BY DEF Canonical
<1>9. ASSUME ValueOf("root", "") \in DOMAIN DeviceLba
      PROVE  ValueOf("root", "") = device /\ config.lba = DeviceLba[ValueOf("root", "")]
  <2>1. ValueOf("root", "") # ""
    BY <1>9, BootAssumption
  <2>2. ValueOf("root", "") = device
    <3>1. PICK at : at = {p \in DOMAIN cmdline : cmdline[p][1] = "root" /\ cmdline[p][2] # ""}
      OBVIOUS
    <3>2. at # {}
      BY <2>1, <3>1 DEF ValueOf
    <3>3. ValueOf("root", "") = cmdline[CHOOSE p \in at : \A q \in at : p <= q][2]
      BY <3>1, <3>2 DEF ValueOf
    <3>4. ValueOf("root", "/dev/hda2") = cmdline[CHOOSE p \in at : \A q \in at : p <= q][2]
      BY <3>1, <3>2 DEF ValueOf
    <3>. QED
      BY <1>4, <3>3, <3>4
  <2>. QED
    BY <1>5, <1>9, <2>2
<1>. QED
  BY <1>4, <1>7, <1>8, <1>9

LEMMA BootSteps ==
    ASSUME BootRight, [BootNext]_bootVars
    PROVE  BootRight' /\ (MountsIntact /\ (phase = "fstab" => FstabApart) => MountsIntact')
<1>0. ASSUME UNCHANGED bootVars PROVE BootRight' /\ (MountsIntact => MountsIntact')
  <2>1. UNCHANGED <<phase, cmdline, content, fstab, runnable, config, mounted, driver_lba,
                    swap_lba, running>>
    BY <1>0 DEF bootVars
  <2>2. BootTypeOK' /\ (MountsIntact => MountsIntact')
    BY <2>1 DEF BootRight, BootTypeOK, MountsIntact
  <2>3. phase # "args" => Configured'
    BY <2>1, SameConfig DEF BootRight
  <2>4. RootTried(mounted)'
    BY <2>1 DEF BootRight, RootTried, Attempts
  <2>5. ShellLast'
    <3>1. ValueOf("init", "/sbin/init")' = ValueOf("init", "/sbin/init") /\ RootMounts' = RootMounts
      BY <2>1 DEF ValueOf, RootMounts
    <3>. QED
      BY <2>1, <3>1 DEF BootRight, ShellLast
  <2>. QED
    BY <2>1, <2>2, <2>3, <2>4, <2>5 DEF BootRight, DefaultConfig
<1>1. CASE ReadArgs
  <2>1. phase = "args" /\ mounted = <<>>
    BY <1>1 DEF ReadArgs, BootRight
  <2>2. MountsIntact
    BY <2>1 DEF MountsIntact
  <2>. QED
    BY <1>1, <2>2, ArgsStay
<1>2. ASSUME NEW there \in BOOLEAN, MountRoot(there) PROVE BootRight' /\ MountsIntact'
  <2>1. phase = "root" /\ mounted = <<>>
    BY <1>2 DEF MountRoot, BootRight
  <2>2. MountsIntact
    BY <2>1 DEF MountsIntact
  <2>. QED
    BY <1>2, <2>2, RootsStay
<1>3. CASE ApplyFstab
  <2>1. phase = "fstab"
    BY <1>3 DEF ApplyFstab
  <2>. QED
    BY <1>3, <2>1, FstabsStay
<1>4. CASE NoFstab
  BY <1>4, NoFstabsStay
<1>5. CASE StartFirst
  BY <1>5, StartsStay
<1>. QED
  BY <1>0, <1>1, <1>2, <1>3, <1>4, <1>5 DEF BootNext

\* Whatever the disks hold, the root is the one the command line asks for, and
\* the kernel's shell is the last resort (rootfs_mount_config,
\* kernel_bootstrap_first_user).
THEOREM RootKept == BootSpec => [](RootAsAsked /\ ShellLast)
<1>1. BootInit => BootRight
  BY BootStart
<1>2. BootRight /\ [BootNext]_bootVars => BootRight'
  BY BootSteps
<1>3. BootRight => RootAsAsked /\ ShellLast
  BY TriedIsAsked DEF BootRight
<1>. QED
  BY <1>1, <1>2, <1>3, PTL DEF BootSpec

\* Its mounts also stay what they were, when /etc/fstab does not mount a type
\* of the disk from a second partition: the one variable of such a driver
\* cannot serve two (rootfs_parse_fstab_line, vfs_mount).
THEOREM BootKept == BootSpec /\ [](phase = "fstab" => FstabApart) => []BootSound
<1>1. BootInit => BootRight /\ MountsIntact
  BY BootStart
<1>2. /\ BootRight /\ MountsIntact /\ (phase = "fstab" => FstabApart)
      /\ [BootNext]_bootVars
      => BootRight' /\ MountsIntact'
  BY BootSteps
<1>3. BootRight /\ MountsIntact => BootSound
  BY TriedIsAsked DEF BootRight, BootSound
<1>. QED
  BY <1>1, <1>2, <1>3, PTL DEF BootSpec
=============================================================================
