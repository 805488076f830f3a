--------------------------------- MODULE Heap ---------------------------------
(***************************************************************************)
(* The kernel heap (kernel/kheap.c): a list of blocks, each a header and a *)
(* payload, from which kheap_alloc takes the first that fits, splitting    *)
(* off what it does not need before and after.                             *)
(*                                                                         *)
(* A size is in units of half a header: a header takes HDR units and the   *)
(* smallest payload worth a block MIN.  The heap starts at address START.  *)
(***************************************************************************)
EXTENDS Integers, Sequences, FiniteSets

CONSTANTS HDR, MIN, PAGE, START, HEAP_SIZE,
          AllocSizes,     \* sizes that are asked for
          MaxLive         \* bound on the blocks in use

ASSUME HeapAssumption ==
    /\ {HDR, MIN, PAGE, HEAP_SIZE} \subseteq Nat \ {0} /\ START \in Nat
    /\ HEAP_SIZE > HDR /\ PAGE >= HDR + MIN /\ AllocSizes \subseteq Nat \ {0} /\ MaxLive \in Nat

VARIABLES blocks,   \* the list: [at, size, free], at being the header's address
          live      \* history: payload address -> size asked for, of what callers hold

heapVars == <<blocks, live>>

HeapInit ==
    /\ blocks = <<[at |-> START, size |-> HEAP_SIZE - HDR, free |-> TRUE]>>
    /\ live = <<>>

PageAlign(a) == ((a + PAGE - 1) \div PAGE) * PAGE

\* Where in block b the payload starts, and what is then left before and after.
\* An aligned payload leaves nothing before it, or room for a block.
PayloadAt(b, align) ==
    LET raw  == b.at + HDR
        up   == PageAlign(raw)
        left == up - raw
    IN IF ~align THEN raw
       ELSE IF left # 0 /\ left < HDR + MIN THEN up + PAGE
       ELSE up
Before(b, align)    == PayloadAt(b, align) - HDR - b.at
UsedBytes(b, n, align)  == PayloadAt(b, align) + n - b.at
After(b, n, align)  == HDR + b.size - UsedBytes(b, n, align)
Fits(b, n, align)   == b.free /\ After(b, n, align) >= 0

\* The blocks that b becomes.  Fault: the block that is split keeps its size.
Split_KeepsSize(b, n, align) ==
    LET at == PayloadAt(b, align) - HDR
        before == IF Before(b, align) >= HDR + MIN
                  THEN <<[at |-> b.at, size |-> Before(b, align) - HDR, free |-> TRUE]>> ELSE <<>>
    IN before \o <<[at |-> at, size |-> n + After(b, n, align), free |-> FALSE]>>
       \o (IF After(b, n, align) >= HDR + MIN
           THEN <<[at |-> at + HDR + n, size |-> After(b, n, align) - HDR, free |-> TRUE]>>
           ELSE <<>>)
Split(b, n, align) ==
    LET at == PayloadAt(b, align) - HDR
        rest == After(b, n, align)
        before == IF Before(b, align) >= HDR + MIN
                  THEN <<[at |-> b.at, size |-> Before(b, align) - HDR, free |-> TRUE]>> ELSE <<>>
    IN before \o
       IF rest >= HDR + MIN
       THEN <<[at |-> at, size |-> n, free |-> FALSE],
              [at |-> at + HDR + n, size |-> rest - HDR, free |-> TRUE]>>
       ELSE <<[at |-> at, size |-> n + rest, free |-> FALSE]>>

\* kheap_alloc
FirstFit(n, align) ==
    {i \in DOMAIN blocks : Fits(blocks[i], n, align)
                           /\ \A j \in 1 .. i - 1 : ~Fits(blocks[j], n, align)}
Alloc(n, align) ==
    /\ Cardinality(DOMAIN live) < MaxLive
    /\ \E i \in FirstFit(n, align) :
        /\ blocks' = SubSeq(blocks, 1, i - 1) \o Split(blocks[i], n, align)
                     \o SubSeq(blocks, i + 1, Len(blocks))
        /\ LET p == PayloadAt(blocks[i], align)
           IN live' = [q \in DOMAIN live \cup {p} |-> IF q = p THEN n ELSE live[q]]

\* kheap_free of what kheap_alloc gave: neighbours that are free become one
\* block.  Faults: a free block swallows what follows; nothing is joined.
Coalesced_Swallows(bs) ==
    LET joined[i \in 0 .. Len(bs)] ==
            IF i = 0 THEN <<>>
            ELSE LET done == joined[i - 1]
                 IN IF done # <<>> /\ done[Len(done)].free
                    THEN [done EXCEPT ![Len(done)].size = @ + HDR + bs[i].size]
                    ELSE Append(done, bs[i])
    IN joined[Len(bs)]
Coalesced(bs) ==
    LET joined[i \in 0 .. Len(bs)] ==
            IF i = 0 THEN <<>>
            ELSE LET done == joined[i - 1]
                     last == done[Len(done)]
                 IN IF done # <<>> /\ last.free /\ bs[i].free
                    THEN [done EXCEPT ![Len(done)].size = @ + HDR + bs[i].size]
                    ELSE Append(done, bs[i])
    IN joined[Len(bs)]
Release_NotCoalesced(p) ==
    /\ p \in DOMAIN live
    /\ blocks' = [i \in DOMAIN blocks |->
                     IF blocks[i].at = p - HDR THEN [blocks[i] EXCEPT !.free = TRUE] ELSE blocks[i]]
    /\ live' = [q \in DOMAIN live \ {p} |-> live[q]]
Release(p) ==
    /\ p \in DOMAIN live
    /\ blocks' = Coalesced([i \in DOMAIN blocks |->
                     IF blocks[i].at = p - HDR THEN [blocks[i] EXCEPT !.free = TRUE] ELSE blocks[i]])
    /\ live' = [q \in DOMAIN live \ {p} |-> live[q]]

HeapNext ==
    \/ \E n \in AllocSizes, align \in BOOLEAN : Alloc(n, align)
    \/ \E p \in DOMAIN live : Release(p)

HeapSpec == HeapInit /\ [][HeapNext]_heapVars

-----------------------------------------------------------------------------
\* The blocks cover the heap without a gap or an overlap, whatever was split,
\* aligned and freed in which order.
HeapTiled ==
    /\ blocks[1].at = START
    /\ \A i \in DOMAIN blocks :
        blocks[i].at + HDR + blocks[i].size
            = IF i = Len(blocks) THEN START + HEAP_SIZE ELSE blocks[i + 1].at

\* What a caller holds lies in a block of its own that is marked used, is as
\* large as it asked for, and no other block is marked used.
HoldersApart ==
    /\ \A p \in DOMAIN live : \E i \in DOMAIN blocks :
        blocks[i].at = p - HDR /\ ~blocks[i].free /\ blocks[i].size >= live[p]
    /\ Cardinality({i \in DOMAIN blocks : ~blocks[i].free}) = Cardinality(DOMAIN live)

\* No two neighbours are free: with nothing in use the heap is one block
\* again, so that memory is never lost to small pieces for good.
NoSplinters == \A i \in 1 .. Len(blocks) - 1 : ~(blocks[i].free /\ blocks[i + 1].free)

\* The heap's list tiles the heap, keeps holders apart and joins what is free
\* (kheap_alloc, kheap_free).
HeapSound == HeapTiled /\ HoldersApart /\ NoSplinters
=============================================================================
