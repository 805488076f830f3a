SPECIFICATION Spec
CONSTANTS
    MaxPid = 3
    NStacks = 3
    NDirs = 3
    Calls = {"fork", "exit", "wait", "kill", "pgrp", "setpgid"}
    Groups = {1, 2, 3}
INVARIANTS
    GroupKilled
