------------------------------ MODULE UserMemory ------------------------------
(***************************************************************************)
(* The memory of user programs: frames and page directories                *)
(* (kernel/paging.c), brk, mmap, munmap and mprotect (kernel/syscall.c),   *)
(* stacks that grow on a page fault, fork's copy, and the loader           *)
(* (kernel/elf.c).  Who owns a directory is the subject of ProcTable.      *)
(*                                                                         *)
(* Addresses are page numbers, modulo LAST + 1; the program break counts   *)
(* half pages, since it need not be aligned.  A page table covers TABLE    *)
(* pages.  A directory starts with the kernel's page tables and gets its   *)
(* own copy of one when it first maps a page there.  The kernel's tables   *)
(* map one user page, the signal trampoline.                               *)
(***************************************************************************)
EXTENDS Integers, Sequences, FiniteSets

CONSTANTS Frames,            \* numbers of the frames above the kernel's
          Dirs, Tasks,       \* page directories, and processes and threads
          LAST, TABLE,
          TRAMPOLINE,        \* SIGNAL_TRAMPOLINE_ADDR
          MMAP_BASE,         \* PROCESS_USER_MMAP_BASE
          STACK_BASE, STACK_SIZE, STACK_STRIDE, PREFAULT_PAGES,
          Images,            \* programs: [segments, interp], sequences of <<first, last page>>
          Threads,           \* whether programs create threads
          HeapMayFail,       \* whether kheap_alloc may fail in the loader
          TouchedPages,           \* pages that programs write to and protect
          MaxMmap, MaxBrk, MaxStacks   \* bounds: pages, half pages, loads

ASSUME MemoryAssumption ==
    /\ Frames \subseteq Nat \ {0} /\ IsFiniteSet(Frames) /\ Frames # {}
    /\ Dirs \subseteq Nat \ {0} /\ {Threads, HeapMayFail} \subseteq BOOLEAN
    /\ {LAST, TABLE, TRAMPOLINE, MMAP_BASE, STACK_BASE, STACK_SIZE, STACK_STRIDE,
        PREFAULT_PAGES, MaxMmap, MaxBrk, MaxStacks} \subseteq Nat
    /\ TABLE > 0 /\ TRAMPOLINE \in 0 .. LAST /\ PREFAULT_PAGES < STACK_SIZE

VARIABLES mem,       \* frames in use, what they hold, and the directories
          tasks,     \* task -> its directory and its layout, or Nobody
          stacks,    \* stacks laid out so far (elf_next_stack_base)
          seen,      \* history: directory -> the tasks whose writes it may show
          loaded     \* the directory the processor uses, 0 for the kernel's

memVars == <<mem, tasks, stacks, seen, loaded>>

Pages   == 0 .. LAST
Zero    == 0                      \* what a cleared frame holds; else who wrote it
Nobody  == [dir |-> 0, base |-> 0, brk |-> 0, mmap |-> 0, stack |-> 0]
NoDir   == [live |-> FALSE, tables |-> {}, map |-> <<>>]
Lowest(S) == CHOOSE x \in S : \A y \in S : x <= y
\* A loop over from .. to - 1 that changes the memory.
Loop(Step(_, _), m, from, to) ==
    LET after[v \in from - 1 .. to - 1] == IF v < from THEN m ELSE Step(after[v - 1], v)
    IN IF to <= from THEN m ELSE after[to - 1]
PageUp(half) == (half + 1) \div 2

TrampolineFrame == Lowest(Frames)     \* the first frame allocated, at boot
KernelMap == [v \in {TRAMPOLINE} |-> [frame |-> TrampolineFrame, w |-> FALSE]]
InTables(ts) == {v \in Pages : v \div TABLE \in ts}

-----------------------------------------------------------------------------
(* Frames and directories.  Each operator takes and gives the memory; ok   *)
(* says that no frame was missing so far.                                  *)

\* What maps page v in directory d: paging_virt_to_phys.
EntryOf(m, d, v) ==
    CASE v \div TABLE \in m.dirs[d].tables ->
            IF v \in DOMAIN m.dirs[d].map THEN {m.dirs[d].map[v]} ELSE {}
      [] OTHER -> IF v \in DOMAIN KernelMap THEN {KernelMap[v]} ELSE {}

\* paging_ensure_page_table: a private copy of the kernel's table.
OwnTable(dir, v) ==
    IF v \div TABLE \in dir.tables THEN dir
    ELSE LET copied == InTables({v \div TABLE}) \cap DOMAIN KernelMap IN
         [dir EXCEPT !.tables = @ \cup {v \div TABLE},
                     !.map = [u \in DOMAIN @ \cup copied |->
                                 IF u \in copied THEN KernelMap[u] ELSE @[u]]]

\* pmm_alloc_frame and paging_map_in_directory.  What was mapped is forgotten.
MapPage(m, d, v, w, data) ==
    LET free == Frames \ m.used IN
    IF ~m.ok THEN m
    ELSE IF free = {} THEN [m EXCEPT !.ok = FALSE]
    ELSE LET f == Lowest(free)
             dir == OwnTable(m.dirs[d], v) IN
         [m EXCEPT !.used = @ \cup {f}, !.data[f] = data,
                   !.dirs[d] = [dir EXCEPT !.map =
                       [u \in DOMAIN @ \cup {v} |->
                           IF u = v THEN [frame |-> f, w |-> w] ELSE @[u]]]]

\* syscall_map_user_pages: pages that are mapped already are left alone.
\* Fault: the frame is not cleared.
MapUser_Dirty(m, d, v, w) ==
    IF EntryOf(m, d, v) # {} \/ Frames \subseteq m.used THEN MapPage(m, d, v, w, Zero)
    ELSE MapPage(m, d, v, w, m.data[Lowest(Frames \ m.used)])
MapUser(m, d, v, w) ==
    IF EntryOf(m, d, v) # {} THEN m ELSE MapPage(m, d, v, w, Zero)
MapUserPages(m, d, from, to, w) ==
    Loop(LAMBDA n, v : MapUser(n, d, v, w), m, from, to)

\* paging_unmap_in_directory, for a page that the directory maps itself.
\* Fault: the frame is kept.
UnmapPage_KeepsFrame(m, d, v) ==
    [m EXCEPT !.dirs[d].map = [u \in DOMAIN @ \ {v} |-> @[u]]]
UnmapPage(m, d, v) ==
    IF v \notin DOMAIN m.dirs[d].map THEN m
    ELSE [m EXCEPT !.used = @ \ {m.dirs[d].map[v].frame},
                   !.dirs[d].map = [u \in DOMAIN @ \ {v} |-> @[u]]]
UnmapPages(m, d, from, to) ==
    Loop(LAMBDA n, v : UnmapPage(n, d, v), m, from, to)

\* paging_destroy_address_space
Destroy(m, d) ==
    [m EXCEPT !.used = @ \ {e.frame : e \in {m.dirs[d].map[v] : v \in DOMAIN m.dirs[d].map}},
              !.dirs[d] = NoDir]
CreateSpace(m, d) == [m EXCEPT !.dirs[d] = [NoDir EXCEPT !.live = TRUE]]

\* paging_clone_address_space: a frame of its own for each page.
ClonePage(m, s, d, v) ==
    IF v \notin DOMAIN m.dirs[s].map THEN m
    ELSE LET e == m.dirs[s].map[v] IN MapPage(m, d, v, e.w, m.data[e.frame])
CloneSpace(m, s, d) ==
    LET copy == Loop(LAMBDA n, v : ClonePage(n, s, d, v), CreateSpace(m, d), 0, LAST + 1)
    IN IF copy.ok THEN copy ELSE Destroy(copy, d)

FreeDirs == {d \in Dirs : ~mem.dirs[d].live}
NewDir == {d \in FreeDirs : \A e \in FreeDirs : d <= e}
Fresh(m) == [m EXCEPT !.ok = TRUE]

-----------------------------------------------------------------------------
(* The loader.                                                             *)

\* elf_stream_load_metadata_into_address_space.  It maps every page of a
\* segment anew.
LoadSegment(m, d, seg) ==
    Loop(LAMBDA n, v : MapPage(n, d, v, TRUE, Zero), m, seg[1], seg[2] + 1)
LoadSegments(m, d, segs) ==
    Loop(LAMBDA n, i : LoadSegment(n, d, segs[i]), m, 1, Len(segs) + 1)

StackBase(n) == (STACK_BASE + n * STACK_STRIDE) % (LAST + 1)
StackPage(base, i) == (base + STACK_SIZE - i) % (LAST + 1)

\* elf_map_stack_pages: the top pages of the stack.
MapStack(m, d, base) ==
    Loop(LAMBDA n, i : MapPage(n, d, StackPage(base, i), TRUE, Zero), m, 1, PREFAULT_PAGES + 1)

\* The page after the last segment of the program and of its interpreter.
ImageEnd(image) ==
    LET all == image.segments \o image.interp IN
    CHOOSE end \in {all[i][2] + 1 : i \in DOMAIN all} : \A i \in DOMAIN all : all[i][2] < end

\* elf_load_image.  A failure destroys the directory.
Load(m, d, image, base) ==
    LET program == LoadSegments(CreateSpace(m, d), d, image.segments)
        interp  == LoadSegments(program, d, image.interp)
        full    == MapStack(interp, d, base)
    IN IF full.ok THEN full ELSE Destroy(full, d)

\* A stack is laid out unless the load failed before.
LaysOutStack(m, d, image) ==
    LoadSegments(LoadSegments(CreateSpace(m, d), d, image.segments), d, image.interp).ok

\* process_set_memory_layout
Layout(d, image, base) ==
    [dir |-> d, base |-> 2 * ImageEnd(image), brk |-> 2 * ImageEnd(image),
     mmap |-> MMAP_BASE, stack |-> base]

Sharing(t) == {u \in Tasks \ {t} : tasks[u].dir = tasks[t].dir}
Alive(t) == tasks[t].dir # 0
Free == {t \in Tasks : ~Alive(t)}
NewTask == {t \in Free : \A u \in Free : t <= u}

-----------------------------------------------------------------------------
MemoryInit ==
    /\ mem = [ok |-> TRUE, used |-> {TrampolineFrame}, data |-> [f \in Frames |-> Zero],
              dirs |-> [d \in Dirs |-> NoDir]]
    /\ tasks = [t \in Tasks |-> Nobody]
    /\ stacks = 0
    /\ seen = [d \in Dirs |-> {}]
    /\ loaded = 0

\* elf_exec: the kernel starts a program.
Start(t, image) ==
    /\ t \in NewTask /\ stacks < MaxStacks
    /\ \E d \in NewDir :
        LET m == Load(Fresh(mem), d, image, StackBase(stacks)) IN
        /\ mem' = m
        /\ stacks' = stacks + (IF LaysOutStack(Fresh(mem), d, image) THEN 1 ELSE 0)
        /\ tasks' = IF m.ok THEN [tasks EXCEPT ![t] = Layout(d, image, StackBase(stacks))]
                    ELSE tasks
        /\ seen' = [seen EXCEPT ![d] = {}]
    /\ loaded' = 0

\* sys_execve of a process that shares its memory with nobody (see ProcTable
\* for the others): the old directory goes when the new one is complete.
Exec(t, image) ==
    /\ Alive(t) /\ Sharing(t) = {} /\ stacks < MaxStacks
    /\ \E d \in NewDir :
        LET m == Load(Fresh(mem), d, image, StackBase(stacks)) IN
        /\ stacks' = stacks + (IF LaysOutStack(Fresh(mem), d, image) THEN 1 ELSE 0)
        /\ mem' = IF m.ok THEN Destroy(m, tasks[t].dir) ELSE m
        /\ tasks' = IF m.ok THEN [tasks EXCEPT ![t] = Layout(d, image, StackBase(stacks))]
                    ELSE tasks
        /\ seen' = [seen EXCEPT ![d] = {}]
        /\ loaded' = IF m.ok THEN d ELSE tasks[t].dir

\* elf_build_initial_stack without memory for the argument vectors: it
\* returns with the new directory loaded, and elf_load_image destroys that.
ExecNoHeap(t, image) ==
    /\ HeapMayFail /\ Alive(t) /\ stacks < MaxStacks
    /\ \E d \in NewDir :
        LET m == Load(Fresh(mem), d, image, StackBase(stacks)) IN
        /\ m.ok
        /\ mem' = Destroy(m, d)
        /\ loaded' = d
    /\ stacks' = stacks + 1
    /\ UNCHANGED <<tasks, seen>>

\* sys_fork
Fork(t, u) ==
    /\ Alive(t) /\ u \in NewTask
    /\ \E d \in NewDir :
        LET m == CloneSpace(Fresh(mem), tasks[t].dir, d) IN
        /\ mem' = m
        /\ tasks' = IF m.ok THEN [tasks EXCEPT ![u] = [tasks[t] EXCEPT !.dir = d]] ELSE tasks
        /\ seen' = [seen EXCEPT ![d] = IF m.ok THEN seen[tasks[t].dir] ELSE {}]
    /\ loaded' = tasks[t].dir
    /\ UNCHANGED stacks

\* sys_clone with CLONE_VM: the layout is copied, the directory shared.
Clone(t, u) ==
    /\ Threads /\ Alive(t) /\ u \in NewTask
    /\ tasks' = [tasks EXCEPT ![u] = tasks[t]]
    /\ loaded' = tasks[t].dir
    /\ UNCHANGED <<mem, stacks, seen>>

\* Exit and reaping: the last task of a directory takes it along.
Exit(t) ==
    /\ Alive(t)
    /\ tasks' = [tasks EXCEPT ![t] = Nobody]
    /\ mem' = IF Sharing(t) = {} THEN Destroy(Fresh(mem), tasks[t].dir) ELSE Fresh(mem)
    /\ loaded' = 0
    /\ UNCHANGED <<stacks, seen>>

-----------------------------------------------------------------------------
\* Changes the memory of t's directory, and its layout.
TaskBecomes(t, m, layout) ==
    /\ mem' = m
    /\ tasks' = [tasks EXCEPT ![t] = layout]
    /\ loaded' = tasks[t].dir
    /\ UNCHANGED <<stacks, seen>>

\* sys_brk.  Shrinking moves the break and keeps the pages.  Fault: the
\* break moves although the pages are missing.
Brk_Anyway(t, half) ==
    /\ Alive(t) /\ half >= tasks[t].base
    /\ LET m == MapUserPages(Fresh(mem), tasks[t].dir, PageUp(tasks[t].brk), PageUp(half), TRUE)
       IN TaskBecomes(t, m, [tasks[t] EXCEPT !.brk = half])
Brk(t, half) ==
    /\ Alive(t) /\ half >= tasks[t].base
    /\ LET m == MapUserPages(Fresh(mem), tasks[t].dir, PageUp(tasks[t].brk), PageUp(half), TRUE)
       IN TaskBecomes(t, m, [tasks[t] EXCEPT !.brk = IF m.ok THEN half ELSE @])

\* sys_mmap at an address the kernel chooses: one page stays free after each
\* mapping, and a mapping that fails keeps its addresses and pages.
Mmap(t, len, w) ==
    /\ Alive(t) /\ tasks[t].mmap + len <= MMAP_BASE + MaxMmap
    /\ LET from == tasks[t].mmap
       IN TaskBecomes(t, MapUserPages(Fresh(mem), tasks[t].dir, from, from + len, w),
                  [tasks[t] EXCEPT !.mmap = from + len + 1])

\* sys_mmap with MAP_FIXED: what was there is unmapped first, before the
\* other arguments are looked at.  Programs do so inside what mmap gave them.
MmapFixed(t, v, w, valid) ==
    /\ Alive(t) /\ v < tasks[t].mmap
    /\ LET empty == UnmapPages(Fresh(mem), tasks[t].dir, v, v + 1)
       IN TaskBecomes(t, IF valid THEN MapUserPages(empty, tasks[t].dir, v, v + 1, w) ELSE empty,
                  tasks[t])

\* sys_munmap, sys_mprotect
Munmap(t, v) ==
    /\ Alive(t) /\ v \in DOMAIN mem.dirs[tasks[t].dir].map
    /\ TaskBecomes(t, UnmapPage(Fresh(mem), tasks[t].dir, v), tasks[t])
Mprotect(t, v, w) ==
    /\ Alive(t) /\ v \in DOMAIN mem.dirs[tasks[t].dir].map
    /\ TaskBecomes(t, [Fresh(mem) EXCEPT !.dirs[tasks[t].dir].map[v].w = w], tasks[t])

\* page_fault_handler: the stack grows, down to its guard page.  A task that
\* gets no frame is killed.
Offsets == 1 .. STACK_SIZE - 1
StackGrows(t, i) ==
    /\ Alive(t)
    /\ LET v == StackPage(tasks[t].stack, i)
           m == MapPage(Fresh(mem), tasks[t].dir, v, TRUE, Zero)
       IN /\ EntryOf(mem, tasks[t].dir, v) = {}
          /\ IF m.ok THEN TaskBecomes(t, m, tasks[t]) ELSE Exit(t)

\* The program writes to a page that it may write to.
Write(t, v) ==
    /\ Alive(t) /\ v \in DOMAIN mem.dirs[tasks[t].dir].map
    /\ LET e == mem.dirs[tasks[t].dir].map[v] IN
       /\ e.w
       /\ mem' = [Fresh(mem) EXCEPT !.data[e.frame] = t]
    /\ seen' = [seen EXCEPT ![tasks[t].dir] = @ \cup {t}]
    /\ loaded' = tasks[t].dir
    /\ UNCHANGED <<tasks, stacks>>

Mappable == {v \in Pages : v \in MMAP_BASE .. MMAP_BASE + MaxMmap - 1}

MemoryNext ==
    \/ \E t \in Tasks, image \in Images : Start(t, image) \/ Exec(t, image)
                                         \/ ExecNoHeap(t, image)
    \/ \E t, u \in Tasks : Fork(t, u) \/ Clone(t, u)
    \/ \E t \in Tasks : Exit(t)
    \/ \E t \in Tasks, half \in 0 .. MaxBrk : Brk(t, half)
    \/ \E t \in Tasks, len \in 1 .. MaxMmap, w \in BOOLEAN : Mmap(t, len, w)
    \/ \E t \in Tasks, v \in Mappable, w, valid \in BOOLEAN : MmapFixed(t, v, w, valid)
    \/ \E t \in Tasks, v \in Mappable : Munmap(t, v)
    \/ \E t \in Tasks, v \in TouchedPages, w \in BOOLEAN : Mprotect(t, v, w)
    \/ \E t \in Tasks, i \in Offsets : StackGrows(t, i)
    \/ \E t \in Tasks, v \in TouchedPages : Write(t, v)

MemorySpec == MemoryInit /\ [][MemoryNext]_memVars

-----------------------------------------------------------------------------
Mapped == {p \in Dirs \X Pages : p[2] \in DOMAIN mem.dirs[p[1]].map}
FrameAt(p) == mem.dirs[p[1]].map[p[2]].frame
\* Every frame in use is mapped by exactly one page of one directory (or is
\* the trampoline's), and every frame that is mapped is in use: the memory of
\* two programs never mixes, and a failed load, fork, mmap or brk loses none.
FramesExact ==
    /\ \A p, q \in Mapped : FrameAt(p) = FrameAt(q) => p = q
    /\ mem.used = {FrameAt(p) : p \in Mapped} \cup {TrampolineFrame}

\* What a program finds in its memory was written by itself, or before a fork
\* by an ancestor: frames are cleared when they change hands.
NoForeignData ==
    \A p \in Mapped : mem.data[FrameAt(p)] \in {Zero} \cup seen[p[1]]

\* All pages below the program break are mapped, whatever brk, fork and exec
\* failed for lack of memory before.
BreakMapped ==
    \A t \in Tasks : Alive(t) =>
        \A v \in PageUp(tasks[t].base) .. PageUp(tasks[t].brk) - 1 :
            EntryOf(mem, tasks[t].dir, v) # {}

\* Every frame in use is at one place, shows only its user's data, and lies
\* under all of the break (paging_map_user_page, sys_brk).
MemorySound == FramesExact /\ NoForeignData /\ BreakMapped

\* The kernel places a new mapping where nothing is mapped yet.
MmapFresh ==
    [][\A t \in Tasks :
        (Alive(t) /\ tasks'[t].dir = tasks[t].dir /\ tasks'[t].mmap > tasks[t].mmap) =>
            \A v \in tasks[t].mmap .. tasks'[t].mmap - 2 : EntryOf(mem, tasks[t].dir, v) = {}]_memVars

\* signal.c: the page of the trampoline "is part of kernel_page_dir (PDE 511)
\* and is inherited automatically by every new address space": its frame
\* belongs to the kernel for ever.
TrampolineKept == TrampolineFrame \in mem.used

\* The directory that the processor uses exists.
LoadedIsLive == loaded # 0 => mem.dirs[loaded].live
=============================================================================
