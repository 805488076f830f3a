----------------------------- MODULE MCServices -----------------------------
(* The parts of the kernel that make somebody wait: descriptors, poll and    *)
(* select, the log, and the network's loopback, each under the fairness that *)
(* its code justifies.  In one behaviour one part moves; the others stand    *)
(* where they start.                                                         *)
EXTENDS Descriptors, Poll, Syslog, IpStack, TLC

CONSTANTS p1, p2, n1, n2

VARIABLE part

WatchedFds == 0 :> "stdin" @@ 3 :> "pipe"
WatchTimes == {Forever, 0, 2}

ServicesVars == <<descVars, pollVars, logVars, ipVars, part>>

ServicesInit ==
    /\ DescInit /\ PollInit /\ LogInit /\ IpInit
    /\ part \in {"descriptors", "poll", "log", "ip"}

DescriptorsMove == part = "descriptors" /\ DescNext /\ UNCHANGED <<pollVars, logVars, ipVars, part>>
PollMoves       == part = "poll" /\ PollNext /\ UNCHANGED <<descVars, logVars, ipVars, part>>
LogMoves        == part = "log" /\ LogNext /\ UNCHANGED <<descVars, pollVars, ipVars, part>>
IpMoves         == part = "ip" /\ IpNext /\ UNCHANGED <<descVars, pollVars, logVars, part>>

\* These may come to rest, at their bounds or with the machine off.
Rest == part \in {"poll", "log", "ip"} /\ UNCHANGED ServicesVars

ServicesNext == DescriptorsMove \/ PollMoves \/ LogMoves \/ IpMoves \/ Rest

Fairness ==
    /\ \A p \in Procs : WF_descVars(part = "descriptors" /\ ReadAgain(p))
    /\ WF_pollVars(part = "poll" /\ TimePasses)
    /\ \A c \in Callers : WF_pollVars(part = "poll" /\ CallStep(c))
    /\ WF_logVars(part = "log" /\ FlushStep)
    /\ WF_ipVars(part = "ip" /\ LoopHandle)

Services == ServicesInit /\ [][ServicesNext]_ServicesVars /\ Fairness
=============================================================================
