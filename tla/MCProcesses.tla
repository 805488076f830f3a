---------------------------- MODULE MCProcesses ----------------------------
(* Four programs over one process table: job control, vfork, threads, and  *)
(* process groups.  They differ in the calls the processes make and in the *)
(* kernel stacks and page directories there are.                           *)
EXTENDS ProcTable

VARIABLE program

JobCalls    == {"fork", "exit", "wait", "untraced", "kill", "stop", "cont"}
VforkCalls  == {"vfork", "exec", "exit", "wait", "kill", "stop", "fault"}
ThreadCalls == {"thread", "fork", "exec", "exit", "wait", "untraced", "kill", "stop"}

JobsTable    == INSTANCE ProcTable WITH NStacks <- 3, Calls <- JobCalls
VforkTable   == INSTANCE ProcTable WITH NStacks <- 3, Calls <- VforkCalls
ThreadsTable == INSTANCE ProcTable WITH NDirs <- 2, Calls <- ThreadCalls

ProcessesInit == Init /\ program \in {"jobs", "vfork", "threads", "groups"}

\* The vfork program creates one process fewer, the groups program two.
ProcessesNext ==
    \/ program = "jobs" /\ JobsTable!Next /\ UNCHANGED program
    \/ program = "vfork" /\ VforkTable!Next /\ next_pid' < MaxPid + 1 /\ UNCHANGED program
    \/ program = "groups" /\ Next /\ next_pid' < MaxPid /\ UNCHANGED program
    \/ program = "threads" /\ ThreadsTable!Next /\ UNCHANGED program

Processes == ProcessesInit /\ [][ProcessesNext]_<<vars, program>>

(* Where no process shares a directory by vfork, no page directory outlives
   the last process that uses it (process_reap, sys_execve). *)
DirsReclaimed == program # "vfork" => DirsNotLeaked

(* Where no process shares a directory with a thread, the CPU never runs on
   a directory that has been destroyed under it (process_set_current). *)
LoadedDirKept == program # "threads" => LoadedDirLive

(* A page directory goes with the last of those who use it, it goes once, and
   not while the CPU has it loaded (process_has_shared_page_dir, process_reap). *)
DirsSound == DirsReclaimed /\ LoadedDirKept /\ DirsDestroyedOnce
=============================================================================
