SPECIFICATION FairSpec
CONSTANTS
    MaxPid = 2
    NStacks = 2
    NDirs = 2
    Calls = {"fork", "exit", "sleep", "fault"}
    Groups = {1}
PROPERTIES
    CpuNotLost
