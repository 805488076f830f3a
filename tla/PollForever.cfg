SPECIFICATION PollSpec
CONSTANTS
    PollFds <- WatchedFds
    Callers = {1}
    Timeouts <- Waits
PROPERTIES
    PollEnds
CHECK_DEADLOCK FALSE
