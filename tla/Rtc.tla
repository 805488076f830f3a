---------------------------------- MODULE Rtc ----------------------------------
(***************************************************************************)
(* Time (kernel/rtc.c, kernel/timer.c): the clock chip, read register by   *)
(* register while it runs on, and the time of day that the kernel derives  *)
(* from the last reading and its timer ticks.                              *)
(*                                                                         *)
(* A second has TICKS ticks.  The chip's registers are those of a small    *)
(* calendar: MINUTE seconds to the minute, HOURS minutes to the day; the   *)
(* conversion of real dates, and of the formats in which the chip gives    *)
(* them, are operators of their own.                                       *)
(***************************************************************************)
EXTENDS Integers, Sequences, FiniteSets

CONSTANTS TICKS, MINUTE, HOURS,
          SYNC, RETRY,       \* RTC_SYNC_INTERVAL_MS, RTC_RETRY_INTERVAL_MS, in ticks
          ATTEMPTS,          \* readings before rtc_poll gives up
          MaxTime,           \* bound on the time, in ticks
          MaxPoll,           \* bound on the length of one poll, in ticks
          Years, Formats     \* years and formats to be converted

ASSUME RtcAssumption ==
    /\ {TICKS, MINUTE, HOURS, SYNC, RETRY, ATTEMPTS} \subseteq Nat \ {0}
    /\ {MaxTime, MaxPoll} \subseteq Nat /\ MaxPoll < TICKS * MINUTE
    /\ Years \subseteq 1970 .. 2069 /\ Formats \subseteq [bcd : BOOLEAN, h24 : BOOLEAN]

VARIABLES now,       \* the time since the chip's epoch, in ticks
          ticks,     \* rtc_monotonic_ms: the ticks that were counted
          irqOn,     \* interrupts are enabled (the end of kernel_main)
          \* rtc_base_unix, rtc_base_ms, rtc_synced; and, as history, whether
          \* the chip or a system call set it, with interrupts on
          base,
          lastPoll, pending,
          poll,      \* the reading in progress
          told       \* history: the latest time of day from the chip that was given out

rtcVars == <<now, ticks, irqOn, base, lastPoll, pending, poll, told>>

Second(t)   == t \div TICKS
Registers   == <<"sec", "min", "day">>
Register(t) == [sec |-> Second(t) % MINUTE,
                min |-> (Second(t) \div MINUTE) % HOURS,
                day |-> Second(t) \div (MINUTE * HOURS)]
Decode(r) == (r.day * HOURS + r.min) * MINUTE + r.sec
NoSample == [sec |-> 0, min |-> 0, day |-> 0]
NoPoll == [active |-> FALSE, left |-> 0, reg |-> 0, half |-> 1,
           first |-> NoSample, second |-> NoSample, since |-> 0]
NewPoll(t) == [NoPoll EXCEPT !.active = TRUE, !.left = ATTEMPTS, !.since = t]

\* The chip changes its registers in the first tick of a second, and says so
\* in the tick before.
Updating(t) == t % TICKS = TICKS - 1

\* rtc_estimated_unix
Estimated(b, t) == b.unix + (t - b.at) \div TICKS

\* rtc_accept_hardware_time.  Fault: the ticks before the reading count too.
Accepted_KeepsStart(unix, by) ==
    [base EXCEPT !.unix = unix, !.synced = TRUE, !.by = by]
Accepted(unix, by) == [unix |-> unix, at |-> ticks, synced |-> TRUE, by |-> by]

RtcInit ==
    /\ now \in 0 .. TICKS - 1
    /\ ticks = 0 /\ irqOn = FALSE
    /\ base = [unix |-> 0, at |-> 0, synced |-> FALSE, by |-> "none"]
    /\ lastPoll = 0 /\ pending = FALSE
    /\ poll = NewPoll(now)    \* rtc_init
    /\ told = 0

\* timer_callback and rtc_notify_tick; a tick that comes while interrupts are
\* disabled is not counted.  A reading may be held up by interrupts.
Tick ==
    /\ now < MaxTime /\ (poll.active => now - poll.since < MaxPoll)
    /\ now' = now + 1
    /\ ticks' = IF irqOn THEN ticks + 1 ELSE ticks
    /\ pending' = \/ pending
                  \/ irqOn /\ ticks + 1 - lastPoll >= (IF base.synced THEN SYNC ELSE RETRY)
    /\ UNCHANGED <<irqOn, base, lastPoll, poll, told>>

\* rtc_init has returned; at the latest at the end of kernel_main.
EnableInterrupts ==
    /\ ~irqOn /\ ~poll.active
    /\ irqOn' = TRUE
    /\ UNCHANGED <<now, ticks, base, lastPoll, pending, poll, told>>

\* rtc_poll, by the kernel's shell: at its prompt and for "date".  (The idle
\* task would call rtc_poll_if_pending, and is never scheduled.)
StartPoll ==
    /\ irqOn /\ ~poll.active
    /\ pending' = FALSE /\ lastPoll' = ticks
    /\ poll' = NewPoll(now)
    /\ UNCHANGED <<now, ticks, irqOn, base, told>>

SampleAgain(p) == IF p.left <= 1 THEN NoPoll
                  ELSE [p EXCEPT !.left = @ - 1, !.reg = 0, !.half = 1]

\* rtc_cmos_read_sample: not while the chip is updating.
StartSample ==
    /\ poll.active /\ poll.reg = 0
    /\ poll' = IF Updating(now) THEN SampleAgain(poll) ELSE [poll EXCEPT !.reg = 1]
    /\ UNCHANGED <<now, ticks, irqOn, base, lastPoll, pending, told>>

\* rtc_cmos_samples_match.  Fault: only the first register is compared.
SamplesMatch_First(p) == p.first.sec = p.second.sec
SamplesMatch(p) == p.first = p.second

\* One register; after the last one the second sample, or the comparison and
\* rtc_accept_hardware_time.
ReadRegister ==
    /\ poll.active /\ poll.reg > 0
    /\ LET name == Registers[poll.reg]
           value == Register(now)[name]
           got  == IF poll.half = 1
                   THEN [poll EXCEPT !.reg = @ + 1, !.first[name] = value]
                   ELSE [poll EXCEPT !.reg = @ + 1, !.second[name] = value]
           done == poll.reg = Len(Registers) /\ poll.half = 2
       IN
       /\ poll' = CASE poll.reg < Len(Registers) -> got
                    [] ~done /\ poll.reg = Len(Registers) -> [got EXCEPT !.reg = 0, !.half = 2]
                    [] done /\ ~SamplesMatch(got) -> SampleAgain(got)
                    [] OTHER -> NoPoll
       /\ base' = IF done /\ SamplesMatch(got)
                  THEN Accepted(Decode(got.first), IF irqOn THEN "chip" ELSE "boot")
                  ELSE base
    /\ UNCHANGED <<now, ticks, irqOn, lastPoll, pending, told>>

\* rtc_get_unix_time, by clock_gettime and the like
GetTime ==
    /\ base.synced /\ ~poll.active /\ base.by # "call"
    /\ told' = Estimated(base, ticks)
    /\ UNCHANGED <<now, ticks, irqOn, base, lastPoll, pending, poll>>

\* settimeofday and clock_settime, by root: a time of day that is late or
\* early.  The chip is not told, and the next reading undoes it.
SetTime ==
    /\ irqOn /\ ~poll.active
    /\ \E unix \in {0, Second(now) + 1} : base' = Accepted(unix, "call")
    /\ UNCHANGED <<now, ticks, irqOn, lastPoll, pending, poll, told>>

RtcNext == \/ Tick \/ EnableInterrupts \/ StartPoll \/ StartSample
           \/ ReadRegister \/ GetTime \/ SetTime

RtcSpec == RtcInit /\ [][RtcNext]_rtcVars

-----------------------------------------------------------------------------
(* Dates.                                                                  *)

Leap(y) == (y % 4 = 0 /\ y % 100 # 0) \/ y % 400 = 0
MonthDays(y, m) == CASE m = 2 -> IF Leap(y) THEN 29 ELSE 28
                     [] m \in {4, 6, 9, 11} -> 30
                     [] OTHER -> 31
DaysBeforeMonth == <<0, 31, 59, 90, 120, 151, 181, 212, 243, 273, 304, 334>>

\* The days of rtc_datetime_to_unix: of the years, of the months, of February
\* in a leap year.  Fault: that day also counts in January and February.
YearDays == [y \in 1970 .. 2070 |-> 365 * (y - 1970)
               + Cardinality({x \in 1970 .. y - 1 : Leap(x)})]
DaysToDate_LeapEarly(y, m, d) ==
    YearDays[y] + DaysBeforeMonth[m] + (IF Leap(y) THEN 1 ELSE 0) + d - 1
DaysToDate(y, m, d) ==
    YearDays[y] + DaysBeforeMonth[m] + (IF m > 2 /\ Leap(y) THEN 1 ELSE 0) + d - 1

\* How the chip writes a number, and an hour: with a PM flag in twelve-hour
\* mode.
Bcd(n) == (n \div 10) * 16 + (n % 10)
ChipHour(h, f) ==
    LET shown == IF f.h24 THEN h ELSE IF h % 12 = 0 THEN 12 ELSE h % 12
        digits == IF f.bcd THEN Bcd(shown) ELSE shown
    IN digits + (IF ~f.h24 /\ h >= 12 THEN 128 ELSE 0)

\* What rtc_arch_read_unix_seconds makes of it.  Fault: the flag takes part
\* in the conversion.
FromBcd(v) == (v \div 16) * 10 + (v % 16)
KernelHour_FlagKept(v, f) ==
    LET plain == IF f.bcd THEN FromBcd(v) ELSE v
    IN IF ~f.h24 /\ plain >= 128 THEN ((plain % 128) + 12) % 24 ELSE plain
KernelHour(v, f) ==
    LET plain == IF f.bcd THEN FromBcd(v % 128) + (v \div 128) * 128 ELSE v
    IN IF ~f.h24 /\ plain >= 128 THEN ((plain % 128) + 12) % 24 ELSE plain
KernelYear(yy) == IF yy < 70 THEN 2000 + yy ELSE 1900 + yy

NextDate(y, m, d) == IF d < MonthDays(y, m) THEN <<y, m, d + 1>>
                     ELSE IF m < 12 THEN <<y, m + 1, 1>> ELSE <<y + 1, 1, 1>>

-----------------------------------------------------------------------------
\* The time that is taken from the chip is one that it showed while it was
\* read: a reading that was interrupted by a change is never put together
\* from before and after.
ReadingWhole ==
    [][base' # base /\ poll.active =>
          /\ base'.unix \in Second(poll.since) .. Second(now)
          /\ base'.at = ticks]_rtcVars

\* Unless it is set by a system call, the time of day never goes back,
\* although the chip's seconds and the ticks do not begin together and each
\* reading starts the count anew.
NeverBack ==
    [][told' >= told]_rtcVars

\* The time of day that comes from the chip is never ahead of it, and behind
\* it by no more than the length of a reading and the second that had begun.
\* (A reading with interrupts disabled may be behind by the length of the
\* boot as well.)
Accurate ==
    /\ base.by \in {"chip", "boot"} => Estimated(base, ticks) <= Second(now)
    /\ base.by = "chip" =>
         Estimated(base, ticks) >= Second(now) - 1 - ((MaxPoll + TICKS - 1) \div TICKS)

\* Every date of the calendar is one day after the date before, and a
\* two-digit year means the year it was written for.
DatesRight ==
    /\ DaysToDate(1970, 1, 1) = 0
    /\ \A y \in Years, m \in 1 .. 12 : \A d \in 1 .. MonthDays(y, m) :
        /\ LET next == NextDate(y, m, d)
           IN DaysToDate(next[1], next[2], next[3]) = DaysToDate(y, m, d) + 1
        /\ KernelYear(y % 100) = y

\* The hours of the morning and of the evening are told apart, whatever way
\* the chip writes them; at noon and midnight in 24-hour mode only.
HoursRight ==
    \A f \in Formats, h \in 0 .. 23 :
        h % 12 # 0 \/ f.h24 => KernelHour(ChipHour(h, f), f) = h

\* The time of day is a reading of one second, converted as the calendar has
\* it, within the polls' distance of the chip, and never goes back
\* (rtc_arch_read_unix_seconds, rtc_estimate_unix_seconds).
ClockSound == [](Accurate /\ DatesRight /\ HoursRight) /\ ReadingWhole /\ NeverBack
=============================================================================
