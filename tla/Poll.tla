---------------------------------- MODULE Poll ----------------------------------
(***************************************************************************)
(* Waiting for one of several descriptors: poll (kernel/poll.c) and        *)
(* select, pselect6 (kernel/syscall.c).  A call that has to wait puts the  *)
(* caller to sleep for a while and is then made again from the beginning,  *)
(* with the arguments that are in the caller's memory then: the trap       *)
(* returns to the instruction that made it.                                *)
(*                                                                         *)
(* A descriptor is its kind; whether it is readable or writable is a       *)
(* choice of the environment, as far as its kind can be either.  Time      *)
(* passes in ticks of 50 ms, the longest that poll sleeps.                 *)
(***************************************************************************)
EXTENDS Integers, FiniteSets

CONSTANTS PollFds,          \* [descriptor -> kind]
          Callers,
          Timeouts      \* in ticks, or Forever

Forever == -1
Kinds   == {"stdin", "stdout", "tty", "devev", "socket", "pipe", "file", "closed"}
Events  == {"in", "out"}
Asked   == (SUBSET ((DOMAIN PollFds) \X Events)) \ {{}}    \* pairs of a descriptor and an event

ASSUME PollAssumption ==
    /\ \A fd \in DOMAIN PollFds : PollFds[fd] \in Kinds
    /\ Timeouts \subseteq Nat \cup {Forever}

VARIABLES ready,     \* pairs: what the environment has made ready
          call,      \* of each caller: the call, its timeout, what its memory asks for
          asked,     \* history: what it asked for in the first place
          wake,      \* ticks until it wakes
          waited,    \* ticks since the call, as far as the longest timeout
          result     \* of the last call: the call, pairs, ticks it took, its timeout

pollVars == <<ready, call, asked, wake, waited, result>>

\* poll_check_fd
Always(fd, kinds) == IF PollFds[fd] \in kinds THEN {"out"} ELSE {}
Checked(fd) ==
    IF PollFds[fd] \in {"file", "closed"} THEN Events
    ELSE {e \in Events : <<fd, e>> \in ready} \cup Always(fd, {"stdout", "tty"})

\* The tests of sys_select, which are others for the device channel and for a
\* descriptor that is not open.
Selected(fd) ==
    IF PollFds[fd] = "file" THEN Events
    ELSE IF PollFds[fd] = "closed" THEN {}
    ELSE {e \in Events : <<fd, e>> \in ready} \cup Always(fd, {"stdout", "tty", "devev"})

Found(op, pairs) ==
    {x \in pairs : x[2] \in (IF op = "poll" THEN Checked(x[1]) ELSE Selected(x[1]))}

\* What the environment can make ready.
CanBe(fd) == CASE PollFds[fd] \in {"stdin", "tty", "devev"} -> {"in"}
               [] PollFds[fd] \in {"socket", "pipe"} -> Events
               [] OTHER -> {}

NoCall   == [op |-> "none", timeout |-> 0, pairs |-> {}]
NoResult == [op |-> "none", pairs |-> {}, took |-> 0, timeout |-> 0]
Longest  == CHOOSE t \in Timeouts \cup {1} : \A u \in Timeouts : u <= t

PollInit ==
    /\ ready = {}
    /\ call = [c \in Callers |-> NoCall] /\ asked = [c \in Callers |-> {}]
    /\ wake = [c \in Callers |-> 0] /\ waited = [c \in Callers |-> 0]
    /\ result = [c \in Callers |-> NoResult]

Ask(c) ==
    /\ call[c] = NoCall /\ wake[c] = 0
    /\ \E op \in {"poll", "select"}, pairs \in Asked, t \in Timeouts :
         /\ call' = [call EXCEPT ![c] = [op |-> op, timeout |-> t, pairs |-> pairs]]
         /\ asked' = [asked EXCEPT ![c] = pairs]
    /\ waited' = [waited EXCEPT ![c] = 0]
    /\ result' = [result EXCEPT ![c] = NoResult]
    /\ UNCHANGED <<ready, wake>>

Returns(c, pairs) ==
    /\ result' = [result EXCEPT ![c] = [op |-> call[c].op, pairs |-> pairs, took |-> waited[c],
                                        timeout |-> call[c].timeout]]
    /\ call' = [call EXCEPT ![c] = NoCall]
    /\ asked' = [asked EXCEPT ![c] = {}]

Proceeds(c, op) == call[c].op = op /\ wake[c] = 0
Sleeps(c, t) == wake' = [wake EXCEPT ![c] = t]

\* kernel_poll: it sleeps for a tick at most, whatever the timeout.
PollCall(c) ==
    /\ Proceeds(c, "poll")
    /\ LET found == Found("poll", call[c].pairs) IN
       IF found # {} \/ call[c].timeout = 0
       THEN Returns(c, found) /\ UNCHANGED wake
       ELSE Sleeps(c, 1) /\ UNCHANGED <<call, asked, result>>
    /\ UNCHANGED <<ready, waited>>

\* sys_select without a timeout: a sleep and a restart, for which the caller's
\* sets are left as they are.  Fault: they are cleared.
SelectAgain_ClearsSets(c) == Sleeps(c, 1) /\ call' = [call EXCEPT ![c].pairs = {}]
SelectAgain(c) == Sleeps(c, 1) /\ UNCHANGED call

\* With one: the sets are cleared, the caller sleeps the timeout out, and the
\* call is over.  Faults: a restart here, too; a sleep of whole seconds.
SelectSleeps_Restarts(c) == Sleeps(c, 1) /\ UNCHANGED call
SelectSleeps_WholeSeconds(c) ==
    /\ Sleeps(c, 0)
    /\ call' = [call EXCEPT ![c].op = "return", ![c].pairs = {}]
SelectSleeps(c) ==
    /\ Sleeps(c, call[c].timeout)
    /\ call' = [call EXCEPT ![c].op = "return", ![c].pairs = {}]

SelectCall(c) ==
    /\ Proceeds(c, "select")
    /\ LET found == Found("select", call[c].pairs) IN
       \/ /\ found # {} \/ call[c].timeout = 0
          /\ Returns(c, found) /\ UNCHANGED wake
       \/ /\ found = {} /\ call[c].timeout = Forever
          /\ SelectAgain(c) /\ UNCHANGED <<asked, result>>
       \/ /\ found = {} /\ call[c].timeout > 0
          /\ SelectSleeps(c) /\ UNCHANGED <<asked, result>>
    /\ UNCHANGED <<ready, waited>>
SelectReturns(c) ==
    /\ Proceeds(c, "return")
    /\ Returns(c, {})
    /\ UNCHANGED <<ready, wake, waited>>

\* scheduler_tick wakes the sleepers.
TimePasses ==
    /\ wake' = [c \in Callers |-> IF wake[c] = 0 THEN 0 ELSE wake[c] - 1]
    /\ waited' = [c \in Callers |-> IF call[c] = NoCall \/ waited[c] = Longest THEN waited[c]
                                    ELSE waited[c] + 1]
    /\ UNCHANGED <<ready, call, asked, result>>

\* Data, room, events, or a reader that was faster.
Environment ==
    /\ \E fd \in DOMAIN PollFds : \E e \in CanBe(fd) :
         ready' = IF <<fd, e>> \in ready THEN ready \ {<<fd, e>>} ELSE ready \cup {<<fd, e>>}
    /\ UNCHANGED <<call, asked, wake, waited, result>>

CallStep(c) == PollCall(c) \/ SelectCall(c) \/ SelectReturns(c)
PollNext == \/ \E c \in Callers : Ask(c) \/ CallStep(c)
            \/ TimePasses \/ Environment

\* The clock ticks, and a caller that is awake gets to run.
PollSpec == /\ PollInit /\ [][PollNext]_pollVars
            /\ WF_pollVars(TimePasses)
            /\ \A c \in Callers : WF_pollVars(CallStep(c))

-----------------------------------------------------------------------------
\* Nobody waits for ever for what is there: a descriptor that is ready, and
\* stays so, is reported to all who asked for it, however often the call was
\* made again in between.
ReadySeen ==
    \A c \in Callers :
        ~<>[](/\ call[c].op \in {"poll", "select"}
              /\ \E x \in asked[c] : x \in ready)

\* A select with a timeout comes back.
SelectEnds ==
    \A c \in Callers :
        call[c].op \in {"select", "return"} /\ call[c].timeout >= 0 ~> call[c].op = "none"

\* And not before its time, when it has nothing to report.
NotTooEarly ==
    \A c \in Callers :
        result[c].op # "none" /\ result[c].pairs = {} => result[c].took >= result[c].timeout

\* poll and select do not sleep on what is ready, select with a timeout ends,
\* and an empty answer does not come early (poll_execute, sys_select).
SelectRight == []NotTooEarly /\ ReadySeen /\ SelectEnds

\* "Returns the number of fds with non-zero revents, 0 on timeout": a poll
\* with a timeout comes back.
PollEnds ==
    \A c \in Callers : call[c].op = "poll" /\ call[c].timeout >= 0 ~> call[c].op # "poll"
=============================================================================
