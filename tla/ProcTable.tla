------------------------------ MODULE ProcTable ------------------------------
(***************************************************************************)
(* The process table of the BlueyOS kernel: kernel/process.c, the run      *)
(* queue and trap exit of kernel/scheduler.c, the sending and the default  *)
(* delivery of signals in kernel/signal.c, and the system calls of         *)
(* kernel/syscall.c that create, stop, kill, replace and wait for          *)
(* processes.                                                              *)
(*                                                                         *)
(* The machine has one CPU and enters the kernel through interrupt gates,  *)
(* so nothing interleaves with kernel code.  The variable kpc says which   *)
(* kernel routine runs next: a system call or an interrupt, taken at       *)
(* kpc = "user", is followed by the kernel steps it calls, and the last of *)
(* them returns to user mode (or to the idle loop, current = 0).           *)
(*                                                                         *)
(* Abstractions: a process identifier stands for its process_t; the lists  *)
(* are sets (proc_list is always in descending pid order, because          *)
(* process_alloc_common pushes at its head and pids only grow); the choice *)
(* of the next process is any READY one (module Cfs has the exact rule);   *)
(* sleep deadlines are left out (module Cfs); signals have their default   *)
(* action.  The kernel's own idle thread "bandit-idle" is never picked and *)
(* is left out.                                                            *)
(***************************************************************************)
EXTENDS Naturals, FiniteSets

CONSTANTS
    MaxPid,     \* bound on next_pid: how many processes a behaviour creates
    NStacks,    \* MAX_PROCESSES, the number of kernel stacks
    NDirs,      \* how many page directories the physical memory has room for
    Calls,      \* what the user programs of this instance do
    Groups      \* the process groups they form and signal

AllCalls == {"fork", "vfork", "thread", "exec", "execshared", "execfail",
             "exit", "wait", "untraced", "sleep", "futex", "kill", "term",
             "stop", "stopzombie", "tstp", "cont", "pgrp", "setpgid", "fault"}

ASSUME ConstantsAssumption ==
    /\ MaxPid \in Nat \ {0} /\ NStacks \in Nat \ {0} /\ NDirs \in Nat \ {0}
    /\ Calls \subseteq AllCalls
    /\ Groups \subseteq 1 .. MaxPid

Pids == 1 .. MaxPid
PidOrNone == 0 .. MaxPid
Stacks == 1 .. NStacks      \* proc_kernel_stacks
Dirs == 1 .. NDirs

\* proc_state_t; "FREE" is a process_t not yet allocated, or given back to
\* the heap by process_reap.
States == {"READY", "RUNNING", "SLEEPING", "WAITING", "STOPPED", "ZOMBIE",
           "DEAD", "FREE"}

\* Signals that stay pending until the process is next dispatched.
Pendable == {"TERM", "TSTP"}
Signals == Pendable \cup {"KILL", "STOP", "CONT"}

\* The fields of process_t that decide control flow.
Pcb == [state : States, parent : PidOrNone, pgid : PidOrNone,
        thread : BOOLEAN,           \* PROC_FLAG_THREAD
        vforkvm : BOOLEAN,          \* PROC_FLAG_VFORK_SHARED_VM
        dir : 0 .. NDirs,           \* page_dir
        stack : 0 .. NStacks,       \* stack_base
        vfork_child : PidOrNone,    \* vfork_child_pid
        wait_pid : PidOrNone,       \* 0 is "any child"
        untraced : BOOLEAN,         \* wait_options & WUNTRACED
        stop : BOOLEAN,             \* stop_signal # 0
        pending : SUBSET Pendable,  \* pending_signals
        futex : PidOrNone,          \* futex_wait_addr
        ctid : PidOrNone]           \* clear_child_tid

FreePcb == [state |-> "FREE", parent |-> 0, pgid |-> 0, thread |-> FALSE,
            vforkvm |-> FALSE, dir |-> 0, stack |-> 0,
            vfork_child |-> 0, wait_pid |-> 0, untraced |-> FALSE,
            stop |-> FALSE, pending |-> {}, futex |-> 0, ctid |-> 0]

VARIABLES
    pcb,        \* the process_t of every pid
    list,       \* proc_list
    runq,       \* run_queue
    deferred,   \* proc_deferred_reap
    current,    \* proc_current, 0 in the idle fallback
    next_pid,
    used,       \* proc_kernel_stack_used
    dirs,       \* page directories that are allocated
    cr3,        \* the directory the CPU has loaded
    kpc,        \* the kernel routine that runs next
    arg,        \* the process that routine works on
    ret,        \* where process_mark_exited returns to
    pgsig       \* the group and signal of signal_send_pgrp

vars == <<pcb, list, runq, deferred, current, next_pid, used, dirs, cr3, kpc,
          arg, ret, pgsig>>

NoPgsig == [pg |-> 0, sig |-> "none"]

TypeOK ==
    /\ pcb \in [Pids -> Pcb]
    /\ list \subseteq Pids /\ runq \subseteq Pids /\ deferred \subseteq Pids
    /\ current \in PidOrNone
    /\ next_pid \in 1 .. MaxPid + 1
    /\ used \subseteq Stacks /\ dirs \subseteq Dirs /\ cr3 \in Dirs
    /\ kpc \in {"user", "die", "trap", "pick", "dispatch", "pgrp", "pgnext", "halt"}
    /\ arg \in PidOrNone
    /\ ret \in {"trap", "pick", "pgnext", "halt"}
    /\ pgsig \in [pg : PidOrNone, sig : Signals \cup {"none"}]

\* The state in which kernel_bootstrap_first_user enters the first user
\* process (init, whose parent_pid is 0 because no process was current).
Init ==
    /\ pcb = [p \in Pids |->
                IF p = 1 THEN [FreePcb EXCEPT !.state = "RUNNING", !.pgid = 1,
                                              !.dir = 1, !.stack = 1]
                ELSE FreePcb]
    /\ list = {1} /\ runq = {1} /\ deferred = {}
    /\ current = 1 /\ next_pid = 2
    /\ used = {1} /\ dirs = {1} /\ cr3 = 1
    /\ kpc = "user" /\ arg = 0 /\ ret = "trap" /\ pgsig = NoPgsig

-----------------------------------------------------------------------------
(* What the kernel routines do to the process table.  Each operator maps a *)
(* table t to the table the routine leaves; `list` is proc_list when it    *)
(* is called.                                                              *)

\* The element a scan of proc_list meets first: pids descend along the list.
IsFirst(p, S) == p \in S /\ \A q \in S : q <= p

\* Faulty variants, one per property, are named Operator_Fault and stand before
\* the operator they would replace; nothing else refers to them.

HasSharedPageDir_Never(t, x, L) == FALSE

\* process_has_shared_page_dir, when proc_list is L.
HasSharedPageDir(t, x, L) ==
    \E r \in L \ {x} : t[r].dir = t[x].dir /\ t[r].state # "DEAD"

ReleaseVforkParent_Forgets(t, v) ==
    LET pa == t[v].parent IN
    IF t[v].vforkvm /\ pa \in list /\ t[pa].vfork_child = v /\ t[pa].state = "WAITING"
    THEN [t EXCEPT ![pa].state = "READY"] ELSE t
ReleaseVforkParent_Resumes(t, v) ==
    LET pa == t[v].parent IN
    IF t[v].vforkvm /\ pa \in list /\ t[pa].vfork_child = v
    THEN [t EXCEPT ![pa].vfork_child = 0, ![pa].state = "RUNNING"] ELSE t

\* process_release_vfork_parent.
ReleaseVforkParent(t, v) ==
    LET pa == t[v].parent IN
    IF t[v].vforkvm /\ pa \in list /\ t[pa].vfork_child = v
    THEN [t EXCEPT ![pa].vfork_child = 0,
                   ![pa].state = IF @ = "WAITING" THEN "READY" ELSE @]
    ELSE t

WaitMatches_NoVforkGuard(t, pa, c) ==
    /\ ~t[c].thread /\ t[pa].state = "WAITING"
    /\ t[pa].wait_pid \in {0, c} /\ t[c].parent = pa

\* process_wait_matches.
WaitMatches(t, pa, c) ==
    /\ ~t[c].thread
    /\ t[pa].state = "WAITING"
    /\ t[pa].vfork_child = 0
    /\ t[pa].wait_pid \in {0, c}
    /\ t[c].parent = pa

\* The parent's half of process_complete_wait and of
\* process_notify_stopped_parent: it is READY with the answer in eax.
AnswerWait(t, pa) ==
    [t EXCEPT ![pa].state = "READY", ![pa].wait_pid = 0, ![pa].untraced = FALSE]

NotifyStoppedParent_Silent(t, c) == t

\* process_notify_stopped_parent.
NotifyStoppedParent(t, c) ==
    LET pa == t[c].parent IN
    IF pa \in list /\ t[pa].untraced /\ WaitMatches(t, pa, c)
    THEN [AnswerWait(t, pa) EXCEPT ![c].stop = FALSE]
    ELSE t

\* SIGSTOP, and the default action of the job-control stops.
Stop(t, c) ==
    IF t[c].state = "STOPPED" THEN t
    ELSE NotifyStoppedParent([t EXCEPT ![c].state = "STOPPED", ![c].stop = TRUE], c)

FutexWaiters(t, a, d) ==
    {q \in list : t[q].state = "WAITING" /\ t[q].futex = a /\ t[q].dir = d}

\* process_wake_futex: a private futex belongs to an address space; one
\* waiter is woken, the first in the list, or all of them.
WakeFutex(t, a, d, all) ==
    LET ws == IF a = 0 THEN {} ELSE FutexWaiters(t, a, d) IN
    [q \in Pids |-> IF q \in ws /\ (all \/ IsFirst(q, ws))
                    THEN [t[q] EXCEPT !.state = "READY", !.futex = 0]
                    ELSE t[q]]

SignalSend_ContPends(t, q, sig) ==
    IF sig = "STOP" THEN Stop(t, q) ELSE [t EXCEPT ![q].pending = @ \cup {sig}]
SignalSend_ContAny(t, q, sig) ==
    CASE sig = "STOP" -> Stop(t, q)
      [] sig = "CONT" -> [t EXCEPT ![q].state = "READY"]
      [] OTHER -> [t EXCEPT ![q].pending = @ \cup ({sig} \cap Pendable)]

\* signal_send_pid for every signal but SIGKILL.
SignalSend(t, q, sig) ==
    CASE sig = "STOP" -> Stop(t, q)
      [] sig = "CONT" -> IF t[q].state \in {"STOPPED", "WAITING"}
                         THEN [t EXCEPT ![q].state = "READY"] ELSE t
      [] OTHER -> [t EXCEPT ![q].pending = @ \cup ({sig} \cap Pendable)]

\* The table after process_mark_exited(v) has made v a zombie, cleared and
\* woken its clear_child_tid futex and released its vfork parent.
AfterDeath(v) ==
    LET zombie == [pcb EXCEPT ![v].state = "ZOMBIE", ![v].pending = {},
                              ![v].ctid = 0]
    IN  ReleaseVforkParent(WakeFutex(zombie, pcb[v].ctid, pcb[v].dir, FALSE), v)

\* A thread leaves the table at once, and so does a process whose parent
\* waits for it; any other stays a zombie.
AnswersWait(v) ==
    LET pa == pcb[v].parent IN pa \in list /\ WaitMatches(AfterDeath(v), pa, v)
LeavesAtDeath(v) == pcb[v].thread \/ AnswersWait(v)

-----------------------------------------------------------------------------
(* Steps shared by the handlers.                                           *)

GoTo(label, p) == kpc' = label /\ arg' = p

\* process_mark_exited(v) runs next and returns to r.
Die(v, r) == GoTo("die", v) /\ ret' = r

\* process_reap of every process of X, the rest of the handler having made
\* the table t and the list L; scheduler_remove is part of it.
Reap(X, t, L, R) ==
    /\ pcb' = [p \in Pids |-> IF p \in X THEN FreePcb ELSE t[p]]
    /\ list' = L \ X
    /\ runq' = R \ X
    /\ deferred' = deferred \ X
DirsDestroyed_None(X, t, L) == {}
DirsDestroyed(X, t, L) ==
    {pcb[x].dir : x \in {y \in X : ~HasSharedPageDir(t, y, L)}}
StacksFreed_None(X) == {}
StacksFreed(X) == {pcb[x].stack : x \in X}

Reapable_None(p) == {}

\* process_reap_deferred leaves the current process p alone.
Reapable(p) == deferred \ {p}

-----------------------------------------------------------------------------
(* System calls of the current process.                                    *)

InCall(c) == kpc = "user" /\ current # 0 /\ c \in Calls

Allocate_ReusesPid(s) ==
    /\ next_pid <= MaxPid
    /\ s \notin used /\ \A x \in Stacks \ used : s <= x
    /\ UNCHANGED next_pid

\* process_alloc_common and process_alloc_kernel_stack.
ChildOf(p, d, s) ==
    [FreePcb EXCEPT !.state = "READY", !.parent = p, !.pgid = pcb[p].pgid,
                    !.thread = pcb[p].thread, !.vforkvm = pcb[p].vforkvm,
                    !.dir = d, !.stack = s]
Allocate(s) ==
    /\ next_pid <= MaxPid
    /\ s \notin used /\ \A x \in Stacks \ used : s <= x
    /\ next_pid' = next_pid + 1

\* paging_create_address_space found a free frame.
FreshDir(d) == d \notin dirs /\ \A x \in Dirs \ dirs : d <= x

\* sys_fork: the child gets a copy of the address space.
Fork ==
    /\ InCall("fork")
    /\ \E d \in Dirs, s \in Stacks :
        /\ Allocate(s) /\ FreshDir(d)
        /\ pcb' = [pcb EXCEPT ![next_pid] = ChildOf(current, d, s)]
        /\ dirs' = dirs \cup {d}
        /\ used' = used \cup {s}
    /\ list' = list \cup {next_pid}
    /\ runq' = runq \cup {next_pid}
    /\ GoTo("trap", 0)
    /\ UNCHANGED <<deferred, current, cr3, ret, pgsig>>

\* fork, vfork or clone when no kernel stack is free: the pid is used up,
\* the process_t and any copied address space are given back (ENOMEM).
ForkFails ==
    /\ \/ InCall("fork")
       \/ InCall("thread")
       \/ InCall("vfork") /\ pcb[current].vfork_child = 0
    /\ next_pid <= MaxPid /\ used = Stacks
    /\ next_pid' = next_pid + 1
    /\ GoTo("trap", 0)
    /\ UNCHANGED <<pcb, list, runq, deferred, current, used, dirs, cr3, ret, pgsig>>

\* sys_vfork: the child borrows the address space and runs at once, the
\* parent waits for it.
Vfork ==
    /\ InCall("vfork")
    /\ pcb[current].vfork_child = 0
    /\ \E s \in Stacks :
        LET child == [ChildOf(current, pcb[current].dir, s) EXCEPT
                          !.state = "RUNNING", !.vforkvm = TRUE]
            t == [pcb EXCEPT ![next_pid] = child,
                             ![current].state = "WAITING",
                             ![current].vfork_child = next_pid,
                             ![current].wait_pid = 0,
                             ![current].untraced = FALSE]
            L == list \cup {next_pid}
            X == Reapable(next_pid)
        IN  /\ Allocate(s)
            /\ Reap(X, t, L, runq \cup {next_pid})
            /\ dirs' = dirs \ DirsDestroyed(X, t, L)
            /\ used' = (used \cup {s}) \ StacksFreed(X)
    /\ cr3' = pcb[current].dir
    /\ current' = next_pid
    /\ GoTo("user", 0)
    /\ UNCHANGED <<ret, pgsig>>

\* sys_clone of a thread; when the TLS descriptor or the tid cannot be
\* accessed (faulty) the child dies before it enters the run queue.
CloneThread(faulty) ==
    /\ InCall("thread")
    /\ \E s \in Stacks :
        /\ Allocate(s)
        /\ pcb' = [pcb EXCEPT ![next_pid] =
                      [ChildOf(current, pcb[current].dir, s) EXCEPT
                          !.thread = TRUE, !.parent = pcb[current].parent,
                          !.ctid = IF faulty THEN 0 ELSE next_pid]]
        /\ used' = used \cup {s}
    /\ list' = list \cup {next_pid}
    /\ runq' = IF faulty THEN runq ELSE runq \cup {next_pid}
    /\ IF faulty THEN Die(next_pid, "trap") ELSE GoTo("trap", 0) /\ UNCHANGED ret
    /\ UNCHANGED <<deferred, current, dirs, cr3, pgsig>>

\* sys_execve that succeeds: the process moves to the new image's address
\* space, a vfork parent is released, and the old address space is
\* destroyed unless it was borrowed.  "execshared" is the call of a process
\* whose address space some other process still refers to.
Exec ==
    /\ InCall(IF ~pcb[current].vforkvm /\ HasSharedPageDir(pcb, current, list)
              THEN "execshared" ELSE "exec")
    /\ \E d \in Dirs :
        LET me == pcb[current]
            t == [ReleaseVforkParent(pcb, current) EXCEPT
                      ![current].state = "READY", ![current].dir = d,
                      ![current].vforkvm = FALSE, ![current].pending = {}]
            X == Reapable(current)
        IN  /\ FreshDir(d)
            /\ Reap(X, t, list, runq)
            /\ dirs' = ((dirs \cup {d}) \ DirsDestroyed(X, t, list))
                            \ (IF me.vforkvm THEN {} ELSE {me.dir})
            /\ used' = used \ StacksFreed(X)
            /\ cr3' = d
    /\ GoTo("trap", 0)
    /\ UNCHANGED <<current, next_pid, ret, pgsig>>

\* sys_execve that fails: process_vfork_execve_failed releases the parent.
ExecFails ==
    /\ InCall("execfail")
    /\ pcb' = ReleaseVforkParent(pcb, current)
    /\ GoTo("trap", 0)
    /\ UNCHANGED <<list, runq, deferred, current, next_pid, used, dirs, cr3, ret, pgsig>>

Exit ==
    /\ InCall("exit")
    /\ Die(current, "trap")
    /\ UNCHANGED <<pcb, list, runq, deferred, current, next_pid, used, dirs, cr3, pgsig>>

\* A page fault that no stack growth can cure: page_fault_handler.
FatalFault ==
    /\ InCall("fault")
    /\ Die(current, "halt")
    /\ UNCHANGED <<pcb, list, runq, deferred, current, next_pid, used, dirs, cr3, pgsig>>

WaitFor_AnyParent(w) == {c \in list : ~pcb[c].thread /\ w \in {0, c}}

\* process_waitpid(w, untraced): the children it looks at and those of them
\* that have something to report.
WaitFor(w) == {c \in list : ~pcb[c].thread /\ pcb[c].parent = current /\ w \in {0, c}}
Reports_StopsOnly(w, untraced) == {c \in WaitFor(w) : untraced /\ pcb[c].stop}
Reports(w, untraced) ==
    {c \in WaitFor(w) : pcb[c].state = "ZOMBIE" \/ (untraced /\ pcb[c].stop)}

\* The first child with news is reaped, or its stop is reported and forgotten.
WaitReports(w, untraced) ==
    /\ InCall(IF untraced THEN "untraced" ELSE "wait")
    /\ \E c \in list :
        LET dead == pcb[c].state = "ZOMBIE"
            X == Reapable(current) \cup (IF dead THEN {c} ELSE {})
            t == IF dead THEN AnswerWait(pcb, current)
                 ELSE [pcb EXCEPT ![c].stop = FALSE]
        IN  /\ IsFirst(c, Reports(w, untraced))
            /\ Reap(X, t, list, runq)
            /\ dirs' = dirs \ DirsDestroyed(X, t, list)
            /\ used' = used \ StacksFreed(X)
    /\ GoTo("trap", 0)
    /\ UNCHANGED <<current, next_pid, cr3, ret, pgsig>>

\* No news: ECHILD without a child, 0 with WNOHANG, otherwise it blocks.
WaitFindsNothing(w, untraced, blocks) ==
    /\ InCall(IF untraced THEN "untraced" ELSE "wait")
    /\ Reports(w, untraced) = {}
    /\ blocks => WaitFor(w) # {}
    /\ LET X == Reapable(current)
           t == IF blocks THEN [pcb EXCEPT ![current].state = "WAITING",
                                           ![current].wait_pid = w,
                                           ![current].untraced = untraced]
                ELSE pcb
       IN  /\ Reap(X, t, list, runq)
           /\ dirs' = dirs \ DirsDestroyed(X, t, list)
           /\ used' = used \ StacksFreed(X)
    /\ GoTo("trap", 0)
    /\ UNCHANGED <<current, next_pid, cr3, ret, pgsig>>

Sleep ==
    /\ InCall("sleep")
    /\ pcb' = [pcb EXCEPT ![current].state = "SLEEPING"]
    /\ GoTo("trap", 0)
    /\ UNCHANGED <<list, runq, deferred, current, next_pid, used, dirs, cr3, ret, pgsig>>

\* sys_futex: FUTEX_WAIT on address a whose value is as expected, and
\* FUTEX_WAKE of one or of all waiters.
FutexWait(a) ==
    /\ InCall("futex")
    /\ pcb' = [pcb EXCEPT ![current].state = "WAITING", ![current].futex = a]
    /\ GoTo("trap", 0)
    /\ UNCHANGED <<list, runq, deferred, current, next_pid, used, dirs, cr3, ret, pgsig>>
FutexWake(a, all) ==
    /\ InCall("futex")
    /\ FutexWaiters(pcb, a, pcb[current].dir) # {}
    /\ pcb' = WakeFutex(pcb, a, pcb[current].dir, all)
    /\ GoTo("trap", 0)
    /\ UNCHANGED <<list, runq, deferred, current, next_pid, used, dirs, cr3, ret, pgsig>>

\* sys_setpgid: no check of who asks for whom.
Setpgid(q, g) ==
    /\ InCall("setpgid")
    /\ q \in list
    /\ pcb' = [pcb EXCEPT ![q].pgid = g]
    /\ GoTo("trap", 0)
    /\ UNCHANGED <<list, runq, deferred, current, next_pid, used, dirs, cr3, ret, pgsig>>

-----------------------------------------------------------------------------
(* Sending signals.                                                        *)

\* The calls that send a signal to one process.
CallFor(q, sig) ==
    CASE sig = "KILL" -> "kill"
      [] sig = "TERM" -> "term"
      [] sig = "TSTP" -> "tstp"
      [] sig = "CONT" -> "cont"
      [] sig = "STOP" -> IF pcb[q].state = "ZOMBIE" THEN "stopzombie" ELSE "stop"

\* signal_send_pid: SIGKILL goes straight to process_mark_exited, which
\* ignores a zombie.
Kill(q, sig) ==
    /\ q \in list
    /\ InCall(CallFor(q, sig))
    /\ IF sig = "KILL"
       THEN /\ pcb[q].state # "ZOMBIE"
            /\ Die(q, "trap") /\ UNCHANGED pcb
       ELSE /\ pcb' = SignalSend(pcb, q, sig)
            /\ GoTo("trap", 0) /\ UNCHANGED ret
    /\ UNCHANGED <<list, runq, deferred, current, next_pid, used, dirs, cr3, pgsig>>

\* signal_send_pgrp, from kill(2) or from the keyboard interrupt of ^C.
KillPgrp(g, sig) ==
    /\ kpc = "user" /\ "pgrp" \in Calls
    /\ \/ sig = "TERM"
       \/ current # 0 /\ \A q \in list : CallFor(q, sig) \in Calls
    /\ \E q \in list : IsFirst(q, list) /\ GoTo("pgrp", q)
    /\ pgsig' = [pg |-> g, sig |-> sig]
    /\ UNCHANGED <<pcb, list, runq, deferred, current, next_pid, used, dirs, cr3, ret>>

\* One turn of its loop over proc_list, at the process arg ...
PgrpSend ==
    /\ kpc = "pgrp"
    /\ IF pcb[arg].pgid = pgsig.pg /\ pgsig.sig = "KILL" /\ pcb[arg].state # "ZOMBIE"
       THEN Die(arg, "pgnext") /\ UNCHANGED pcb
       ELSE /\ pcb' = IF pcb[arg].pgid = pgsig.pg
                      THEN SignalSend(pcb, arg, pgsig.sig) ELSE pcb
            /\ GoTo("pgnext", arg) /\ UNCHANGED ret
    /\ UNCHANGED <<list, runq, deferred, current, next_pid, used, dirs, cr3, pgsig>>

\* Fault: it does not move on from a process of another group.
PgrpNext_Stays ==
    /\ kpc = "pgnext"
    /\ LET rest == IF arg \notin list THEN {}
                   ELSE {q \in list : q < arg \/ (q = arg /\ pcb[q].pgid # pgsig.pg)}
       IN  \/ rest = {} /\ GoTo("trap", 0) /\ pgsig' = NoPgsig
           \/ \E q \in rest : IsFirst(q, rest) /\ GoTo("pgrp", q) /\ UNCHANGED pgsig
    /\ UNCHANGED <<pcb, list, runq, deferred, current, next_pid, used, dirs, cr3, ret>>

\* ... and p = p->next: process_remove_from_list has cleared the link of a
\* process that left the list in the meantime.
PgrpNext ==
    /\ kpc = "pgnext"
    /\ LET rest == IF arg \in list THEN {q \in list : q < arg} ELSE {}
       IN  \/ rest = {} /\ GoTo("trap", 0) /\ pgsig' = NoPgsig
           \/ \E q \in rest : IsFirst(q, rest) /\ GoTo("pgrp", q) /\ UNCHANGED pgsig
    /\ UNCHANGED <<pcb, list, runq, deferred, current, next_pid, used, dirs, cr3, ret>>

\* process_mark_exited(arg).
MarkExited ==
    /\ kpc = "die"
    /\ LET pa == pcb[arg].parent
           t == AfterDeath(arg)
       IN  IF LeavesAtDeath(arg)
           THEN /\ pcb' = [(IF pcb[arg].thread THEN t ELSE AnswerWait(t, pa))
                               EXCEPT ![arg].state = "DEAD"]
                /\ list' = list \ {arg}
                /\ runq' = runq \ {arg}
                /\ deferred' = deferred \cup {arg}
           ELSE /\ pcb' = IF pa \in list /\ t[pa].state = "WAITING"
                                         /\ t[pa].vfork_child = 0
                          THEN [t EXCEPT ![pa].state = "READY"] ELSE t
                /\ UNCHANGED <<list, runq, deferred>>
    /\ GoTo(ret, IF ret = "pgnext" THEN arg ELSE 0)
    /\ ret' = "trap"
    /\ UNCHANGED <<current, next_pid, used, dirs, cr3, pgsig>>

-----------------------------------------------------------------------------
(* Interrupts and the trap exit.                                           *)

\* IRQ0: scheduler_tick wakes the sleepers whose time has come and the
\* futex waiters whose deadline has passed.  Any other interrupt, and a
\* system call that only fails, is the case of nobody woken.
Timer(woken) ==
    /\ kpc \in {"user", "halt"}
    /\ \A q \in woken : q \in runq /\ \/ pcb[q].state = "SLEEPING"
                                      \/ pcb[q].state = "WAITING" /\ pcb[q].futex # 0
    /\ pcb' = [q \in Pids |->
                 IF q \notin woken THEN pcb[q]
                 ELSE IF pcb[q].state = "SLEEPING" THEN [pcb[q] EXCEPT !.state = "READY"]
                 ELSE [pcb[q] EXCEPT !.state = "READY", !.futex = 0]]
    /\ GoTo(IF kpc = "halt" THEN "halt" ELSE "trap", 0)
    /\ UNCHANGED <<list, runq, deferred, current, next_pid, used, dirs, cr3, ret, pgsig>>

HandleTrap_KeepsRunning ==
    /\ kpc = "trap"
    /\ GoTo("pick", 0)
    /\ UNCHANGED <<pcb, list, runq, deferred, current, next_pid, used, dirs, cr3, ret, pgsig>>

\* scheduler_handle_trap: the outgoing process becomes READY if it ran on.
HandleTrap ==
    /\ kpc = "trap"
    /\ pcb' = IF current # 0 /\ pcb[current].state = "RUNNING"
              THEN [pcb EXCEPT ![current].state = "READY"] ELSE pcb
    /\ GoTo("pick", 0)
    /\ UNCHANGED <<list, runq, deferred, current, next_pid, used, dirs, cr3, ret, pgsig>>

Runnable == {p \in runq : pcb[p].state = "READY"}

PickNext_KeepsCr3(p) ==
    /\ kpc = "pick"
    /\ p \in Runnable
    /\ GoTo("dispatch", p)
    /\ UNCHANGED <<pcb, list, runq, deferred, current, next_pid, used, dirs, cr3, ret, pgsig>>
PickNext(p) ==
    /\ kpc = "pick"
    /\ p \in Runnable
    /\ cr3' = pcb[p].dir
    /\ GoTo("dispatch", p)
    /\ UNCHANGED <<pcb, list, runq, deferred, current, next_pid, used, dirs, ret, pgsig>>

\* Nobody can run: the idle fallback, in whatever address space is loaded.
PickIdle ==
    /\ kpc = "pick"
    /\ Runnable = {}
    /\ current' = 0
    /\ LET X == Reapable(0) IN
        /\ Reap(X, pcb, list, runq)
        /\ dirs' = dirs \ DirsDestroyed(X, pcb, list)
        /\ used' = used \ StacksFreed(X)
    /\ GoTo("user", 0)
    /\ UNCHANGED <<next_pid, cr3, ret, pgsig>>

\* signal_next_pending: a vfork child keeps its signals until it has execed.
NextSignal(p) ==
    IF pcb[p].vforkvm \/ pcb[p].pending = {} THEN "none"
    ELSE IF "TERM" \in pcb[p].pending THEN "TERM" ELSE "TSTP"

\* signal_dispatch_pending on the picked process: it dies, it stops, ...
DispatchSignal ==
    /\ kpc = "dispatch"
    /\ NextSignal(arg) # "none"
    /\ LET t == [pcb EXCEPT ![arg].pending = @ \ {NextSignal(arg)}]
       IN  IF NextSignal(arg) = "TERM"
           THEN pcb' = t /\ Die(arg, "pick")
           ELSE pcb' = Stop(t, arg) /\ GoTo("pick", 0) /\ UNCHANGED ret
    /\ UNCHANGED <<list, runq, deferred, current, next_pid, used, dirs, cr3, pgsig>>

\* ... or it runs.
Run ==
    /\ kpc = "dispatch"
    /\ NextSignal(arg) = "none"
    /\ current' = arg
    /\ LET t == [pcb EXCEPT ![arg].state = "RUNNING"]
           X == Reapable(arg)
       IN  /\ Reap(X, t, list, runq)
           /\ dirs' = dirs \ DirsDestroyed(X, t, list)
           /\ used' = used \ StacksFreed(X)
    /\ GoTo("user", 0)
    /\ UNCHANGED <<next_pid, cr3, ret, pgsig>>

-----------------------------------------------------------------------------
Syscall ==
    \/ Fork \/ ForkFails \/ Vfork \/ Exec \/ ExecFails \/ Exit \/ FatalFault \/ Sleep
    \/ \E faulty \in BOOLEAN : CloneThread(faulty)
    \/ \E w \in PidOrNone, untraced \in BOOLEAN :
        \/ WaitReports(w, untraced)
        \/ \E blocks \in BOOLEAN : WaitFindsNothing(w, untraced, blocks)
    \/ \E a \in Pids : FutexWait(a) \/ \E all \in BOOLEAN : FutexWake(a, all)
    \/ \E q \in Pids, g \in Groups : Setpgid(q, g)
    \/ \E q \in Pids, sig \in Signals : Kill(q, sig)

Interrupt ==
    \/ \E woken \in SUBSET Pids : Timer(woken)
    \/ \E g \in Groups, sig \in Signals : KillPgrp(g, sig)

\* What the kernel does next, whatever user programs and devices do.
KernelStep ==
    \/ MarkExited \/ PgrpSend \/ PgrpNext \/ HandleTrap \/ PickIdle
    \/ DispatchSignal \/ Run
    \/ \E p \in Pids : PickNext(p)

Next == Syscall \/ Interrupt \/ KernelStep

Spec == Init /\ [][Next]_vars

\* The CPU executes kernel code, and the timer keeps interrupting.
FairSpec == Spec /\ WF_vars(KernelStep) /\ WF_vars(Interrupt)

-----------------------------------------------------------------------------
(* Properties.                                                             *)

Allocated == list \cup deferred
Alive(p) == p \in list /\ pcb[p].state # "ZOMBIE"

\* The lists partition the processes that exist: proc_list holds exactly
\* those that are not DEAD, the deferred-reap list exactly the DEAD ones, so
\* the sched_next link is never needed by the run queue and by the
\* deferred-reap list at once; and nothing DEAD survives a return to user
\* mode (process_enqueue_deferred_reap, process_reap_deferred).
QueuesConsistent ==
    /\ runq \subseteq list
    /\ \A p \in Pids : /\ p \in list <=> pcb[p].state \notin {"DEAD", "FREE"}
                       /\ p \in deferred <=> pcb[p].state = "DEAD"
    /\ kpc = "user" => deferred = {}

\* Only the current process is RUNNING, and user mode executes a RUNNING
\* process in its own address space (scheduler_handle_trap, sys_vfork).
CurrentRuns ==
    /\ \A p \in list : pcb[p].state = "RUNNING" => p = current
    /\ kpc = "user" /\ current # 0 =>
            /\ current \in runq
            /\ pcb[current].state = "RUNNING" /\ cr3 = pcb[current].dir

\* Every kernel stack in use belongs to exactly one process that exists:
\* none is leaked on an error path, freed twice or shared
\* (process_alloc_kernel_stack, process_free_kernel_stack).
StacksConserved ==
    /\ used = {pcb[p].stack : p \in Allocated}
    /\ used \subseteq Stacks
    /\ \A p, q \in Allocated : pcb[p].stack = pcb[q].stack => p = q

\* The kernel routines are called on processes they may be called on: what
\* process_mark_exited kills is on the list and not a zombie, the group loop
\* of signal_send_pgrp stands on a process of the list, the process being
\* dispatched is READY in the run queue and in its own address space, and
\* nobody is RUNNING while the scheduler chooses.
KernelStepsSound ==
    /\ kpc = "die" => arg \in list /\ pcb[arg].state # "ZOMBIE"
    /\ kpc = "pgrp" => arg \in list
    /\ kpc = "dispatch" => /\ arg \in runq /\ pcb[arg].state = "READY"
                           /\ cr3 = pcb[arg].dir
    /\ kpc \in {"pick", "dispatch"} \/ (kpc = "die" /\ ret = "pick") =>
            \A p \in list : pcb[p].state # "RUNNING"

\* A pid is never given out twice, and a process never lacks an address
\* space (process_alloc_common, sys_execve).
PidsSound ==
    /\ \A p \in Pids : p >= next_pid => pcb[p].state = "FREE"
    /\ \A p \in list : pcb[p].dir # 0

\* A process blocked in waitpid.
InWait(p) ==
    /\ p \in list /\ pcb[p].state = "WAITING"
    /\ pcb[p].vfork_child = 0 /\ pcb[p].futex = 0
WaitedChild(p, c) ==
    c \in list /\ ~pcb[c].thread /\ pcb[c].parent = p /\ pcb[p].wait_pid \in {0, c}

\* No exit is lost: a process blocked in waitpid has no zombie child that the
\* call asked for (process_mark_exited completes the wait it matches).
NoLostExit ==
    \A p \in Pids : InWait(p) =>
        \A c \in Pids : WaitedChild(p, c) => pcb[c].state # "ZOMBIE"

\* Nobody waits for nothing: a process blocked in waitpid has a child that
\* can still end the wait.
WaiterHasChild == \A p \in Pids : InWait(p) => \E c \in Pids : WaitedChild(p, c)

\* No stop report is lost: a process blocked in waitpid(WUNTRACED) has no
\* child asked for with an unreported stop (process_notify_stopped_parent).
NoLostStop ==
    \A p \in Pids : InWait(p) /\ pcb[p].untraced =>
        \A c \in Pids : WaitedChild(p, c) => ~pcb[c].stop

\* No process has a page directory that paging_destroy_address_space has
\* already destroyed (process_reap, sys_execve).
DirsLive == \A p \in Allocated : pcb[p].dir \in dirs

\* Reaping destroys no directory twice: two DEAD processes that share one
\* still share it with a process on the list (process_reap).  It holds as long
\* as at most one member of a thread group dies between two returns to user
\* mode, which signals that stay pending do not respect.
DirsDestroyedOnce ==
    \A p, q \in deferred : p # q /\ pcb[p].dir = pcb[q].dir =>
        HasSharedPageDir(pcb, p, list)

\* The CPU never runs, not even in the idle fallback, on a directory that
\* has been destroyed under it (process_set_current).
LoadedDirLive == cr3 \in dirs

\* No page directory outlives the last process that uses it.
DirsNotLeaked == \A d \in dirs : \E p \in Allocated : pcb[p].dir = d

\* While a vfork child lives in its parent's address space the parent does
\* not run (process_wait_matches, process_release_vfork_parent).
VforkParentHeld ==
    \A c \in Pids : Alive(c) /\ pcb[c].vforkvm =>
        LET pa == pcb[c].parent IN
        pa \in list /\ pcb[pa].dir = pcb[c].dir =>
            pcb[pa].state \notin {"READY", "RUNNING"}

\* A vfork parent is never forgotten: it waits only for a child that is
\* alive and will release it.
VforkChildAlive ==
    \A p \in list : pcb[p].vfork_child # 0 =>
        /\ Alive(pcb[p].vfork_child)
        /\ pcb[pcb[p].vfork_child].parent = p /\ pcb[pcb[p].vfork_child].vforkvm

\* vfork holds the parent exactly as long as its child uses the memory of both
\* (process_create_vfork, process_release_vfork_parent).
VforkSound == VforkParentHeld /\ VforkChildAlive

\* A process that has finished never comes back: a ZOMBIE can only be
\* reaped, a DEAD process only freed.
DeathIsFinal ==
    [][\A p \in Pids :
        /\ pcb[p].state = "ZOMBIE" => pcb'[p].state \in {"ZOMBIE", "FREE"}
        /\ pcb[p].state = "DEAD" => pcb'[p].state \in {"DEAD", "FREE"}]_vars

\* What a parent learns of its children is neither lost nor taken back: exits
\* and stops reach it, it sleeps only for a child that can still report, and
\* the dead stay dead (process_mark_exited, sys_waitpid, signal_send).
DeathReported ==
    /\ [](NoLostExit /\ NoLostStop /\ WaiterHasChild)
    /\ DeathIsFinal

\* What kill(-pgid, SIGKILL) promises: when the loop is over, every member
\* of the group that was on the list is dead.
GroupKilled ==
    kpc = "pgnext" /\ pgsig.sig = "KILL" /\ (arg \notin list \/ \A q \in list : q >= arg) =>
        \A q \in list : pcb[q].pgid = pgsig.pg => pcb[q].state = "ZOMBIE"

\* Whatever is dead is freed: a DEAD process does not stay on the
\* deferred-reap list, a kernel stack is always given back, unless a fatal
\* fault has parked the CPU.
DeadFreed == \A p \in Pids : pcb[p].state = "DEAD" ~> pcb[p].state = "FREE" \/ kpc = "halt"

\* The CPU is not lost: when some process is READY the kernel returns to
\* user mode, and it idles there only if nobody is READY any more (each
\* candidate was stopped or killed by a pending signal on its way).
CpuNotLost ==
    Runnable # {} ~> kpc = "user" /\ (current # 0 \/ Runnable = {})

\* Nothing but a fatal fault (page_fault_handler) loses the CPU.
CpuKept ==
    Runnable # {} ~> \/ kpc = "halt"
                     \/ kpc = "user" /\ (current # 0 \/ Runnable = {})

=============================================================================
