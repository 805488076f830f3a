SPECIFICATION FairSpec
CONSTANTS
    MaxPid = 3
    NStacks = 2
    NDirs = 2
    Calls = {"fork", "vfork", "thread", "exec", "execfail", "exit", "wait", "term", "sleep", "futex", "fault", "setpgid", "pgrp"}
    Groups = {2}
INVARIANTS
    QueuesConsistent
    CurrentRuns
    StacksConserved
    KernelStepsSound
    PidsSound
PROPERTIES
    DeadFreed
    CpuKept
