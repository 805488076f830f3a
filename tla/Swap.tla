--------------------------------- MODULE Swap ---------------------------------
(***************************************************************************)
(* Swap space (kernel/swap.c, tools/mkswap_blueyfs.c): a region of the     *)
(* disk whose first page is a header and whose other pages are slots for   *)
(* pages of memory.  No part of the kernel pages out yet: the operations   *)
(* are called by whoever may.                                              *)
(*                                                                         *)
(* The disk is a sequence of pages, the region its first REGION pages; a   *)
(* page whose writing was cut short holds Torn.                            *)
(***************************************************************************)
EXTENDS Integers, FiniteSets

CONSTANTS SWAP_MAX_PAGES, REGION, DISK,   \* pages of the region and of the disk
          PageData                            \* what a page of memory may hold

ASSUME SwapAssumption ==
    /\ {SWAP_MAX_PAGES, REGION, DISK} \subseteq Nat
    /\ 2 <= REGION /\ REGION <= DISK
    /\ {"torn", "other"} \cap PageData = {}

VARIABLES pages,      \* what the pages hold; page 0 the total that its header states
          total, used, active,     \* swap_total, swap_bitmap, swap_active
          swapped    \* history: slot -> what its owner put there

swapVars == <<pages, total, used, active, swapped>>

NoHeader == -1
Slots == 0 .. SWAP_MAX_PAGES - 1
PageOf(slot) == slot + 1          \* slot_to_lba

SwapInit ==
    /\ pages = [header |-> NoHeader, pages |-> [p \in 1 .. DISK - 1 |-> "other"]]
    /\ total = 0 /\ used = {} /\ active = FALSE
    /\ swapped = <<>>

\* mkswap, before the system starts.  Fault: the header does not count.
MkSwap_CountsHeader ==
    /\ ~active /\ REGION >= 2
    /\ pages' = [pages EXCEPT !.header = REGION]
    /\ UNCHANGED <<total, used, active, swapped>>
MkSwap ==
    /\ ~active /\ REGION >= 2
    /\ pages' = [pages EXCEPT !.header = REGION - 1]
    /\ UNCHANGED <<total, used, active, swapped>>

Least(a, b) == IF a < b THEN a ELSE b

\* swap_init(start, pages): boot, or a second line of /etc/fstab.  Whoever had
\* a page in the swap space has lost it.
Activate(readable) ==
    /\ used' = {} /\ swapped' = <<>>
    /\ active' = (readable /\ pages.header # NoHeader)
    /\ total' = IF active' THEN Least(pages.header, SWAP_MAX_PAGES) ELSE SWAP_MAX_PAGES
    /\ UNCHANGED pages

\* bitmap_find_free: the lowest free slot below the total.
FreeSwapSlot == {s \in Slots : /\ s < total /\ s \notin used
                           /\ \A r \in Slots : r < s => r \in used}

\* swap_out: the page is written before the slot is taken.  Fault: the slot
\* is not taken.
SwapOut_NotTaken(data, written) ==
    /\ active /\ Cardinality(used) < total
    /\ \E s \in FreeSwapSlot :
        /\ pages' = [pages EXCEPT !.pages[PageOf(s)] = IF written THEN data ELSE "torn"]
        /\ swapped' = IF ~written THEN swapped
                      ELSE [r \in DOMAIN swapped \cup {s} |-> IF r = s THEN data ELSE swapped[r]]
    /\ UNCHANGED <<total, used, active>>
SwapOut(data, written) ==
    /\ active /\ Cardinality(used) < total
    /\ \E s \in FreeSwapSlot :
        /\ pages' = [pages EXCEPT !.pages[PageOf(s)] = IF written THEN data ELSE "torn"]
        /\ used' = IF written THEN used \cup {s} ELSE used
        /\ swapped' = IF ~written THEN swapped
                      ELSE [r \in DOMAIN swapped \cup {s} |-> IF r = s THEN data ELSE swapped[r]]
    /\ UNCHANGED <<total, active>>

Gone(s) == swapped' = [r \in DOMAIN swapped \ {s} |-> swapped[r]]

\* swap_in: a page that cannot be read keeps its slot.  swap_free: of any slot.
SwapIn(s, readable) ==
    /\ active /\ s < total /\ s \in used
    /\ IF readable THEN used' = used \ {s} /\ Gone(s) ELSE UNCHANGED <<used, swapped>>
    /\ UNCHANGED <<pages, total, active>>
SwapFree(s) ==
    /\ active /\ s < total
    /\ used' = used \ {s} /\ Gone(s)
    /\ UNCHANGED <<pages, total, active>>

SwapNext ==
    \/ MkSwap
    \/ \E readable \in BOOLEAN : Activate(readable)
    \/ \E data \in PageData, written \in BOOLEAN : SwapOut(data, written)
    \/ \E s \in Slots, readable \in BOOLEAN : SwapIn(s, readable)
    \/ \E s \in Slots : SwapFree(s)

SwapSpec == SwapInit /\ [][SwapNext]_swapVars

-----------------------------------------------------------------------------
\* Every slot that someone owns is marked used and still holds what was put
\* there, whatever was written, freed or failed in the meantime.
SlotsIntact ==
    /\ DOMAIN swapped = used
    /\ \A s \in used : pages.pages[PageOf(s)] = swapped[s]

\* What lies on the disk behind the swap region is never written.
BehindRegion == \A p \in REGION .. DISK - 1 : pages.pages[p] = "other"

\* Pages come back from swap as they went, and nothing behind the region is
\* written (swap_out, swap_in, mkswap).
SwapSound == SlotsIntact /\ BehindRegion
=============================================================================
