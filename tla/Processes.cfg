SPECIFICATION Processes
CONSTANTS
    MaxPid = 4
    NStacks = 4
    NDirs = 3
    Calls = {"fork", "exit", "wait", "untraced", "kill", "stop", "setpgid", "pgrp", "fault"}
    Groups = {1, 2, 3, 4}
INVARIANTS
    TypeOK
    DirsLive
    DirsSound
    VforkSound
PROPERTIES
    DeathReported
