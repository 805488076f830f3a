--------------------------------- MODULE Syslog ---------------------------------
(***************************************************************************)
(* The kernel log (kernel/syslog.c): a ring of the latest messages, fed by *)
(* syslog_write and by a hook that collects what kprintf prints; read by   *)
(* the syslog system call, and written to /var/log/kernel.log at boot, by  *)
(* sync and on the way to a reboot.                                        *)
(*                                                                         *)
(* A printed character is the number of its turn, Newline a newline.  A    *)
(* message in the log file, or in a reader's buffer, is a line of LINE     *)
(* characters <<sequence number, place>>.  Messages are formatted and      *)
(* shown on the console without an effect on the log: left out.            *)
(***************************************************************************)
EXTENDS Integers, Sequences, FiniteSets

CONSTANTS ENTRIES,      \* SYSLOG_RING_ENTRIES
          HOOK_BUF,     \* KPRINTF_HOOK_BUF
          LINE,         \* characters of a rendered message
          DISK_ROOM,    \* characters the disk takes
          DebugBuild,   \* make DEBUG=1: each vfs_write prints a line of its own
          BufSizes,     \* sizes of the readers' buffers
          MaxSeq, MaxTyped, MaxErrors   \* bounds on messages, characters, disk errors

ASSUME SyslogAssumption ==
    /\ {ENTRIES, LINE} \subseteq Nat \ {0} /\ HOOK_BUF \in Nat \ {0, 1}
    /\ {DISK_ROOM, MaxSeq, MaxTyped, MaxErrors} \subseteq Nat
    /\ BufSizes \subseteq Nat \ {0} /\ DebugBuild \in BOOLEAN

VARIABLES log,       \* [ring, head, count, seq]
          hookBuf,   \* kprintf_hook_buf
          typed,     \* number of characters printed
          reader,    \* what the last reader got, and its buffer's size
          file,      \* /var/log/kernel.log
          flush,     \* syslog_flush_to_fs in progress, and who called it
          power,     \* "on", "off" at the end of sys_reboot
          errors,    \* disk errors so far
          \* history: the texts that the hook has logged, all messages, and
          \* the messages that the file lost to a disk error
          caught, written, lost

logVars == <<log, hookBuf, typed, reader, file, flush, power, errors, caught, written, lost>>

Newline == 0
NoEntry == [seq |-> -1, text |-> <<>>]

\* syslog_write_loc_va.  Fault: the count goes on past the size of the ring.
Logged_CountsAll(l, text) ==
    [ring  |-> [l.ring EXCEPT ![l.head % ENTRIES] = [seq |-> l.seq, text |-> text]],
     head  |-> l.head + 1,
     count |-> l.count + 1,
     seq   |-> l.seq + 1]
Logged(l, text) ==
    [ring  |-> [l.ring EXCEPT ![l.head % ENTRIES] = [seq |-> l.seq, text |-> text]],
     head  |-> l.head + 1,
     count |-> IF l.count < ENTRIES THEN l.count + 1 ELSE l.count,
     seq   |-> l.seq + 1]

\* The i-th of the n latest messages.
Latest(l, n, i) == l.ring[(l.head - n + i) % ENTRIES]

NoFlush == [pc |-> "idle", by |-> "none", n |-> 0, start |-> 0, i |-> 0, done |-> 0,
            seq |-> 0, direct |-> FALSE, snap |-> <<>>]

\* syslog_init and syslog_install_kprintf_hook
LogInit ==
    /\ log = [ring |-> [k \in 0 .. ENTRIES - 1 |-> NoEntry], head |-> 0, count |-> 0, seq |-> 0]
    /\ hookBuf = <<>> /\ typed = 0
    /\ reader = [size |-> 1, text |-> <<>>, seq |-> 0]
    /\ file = <<>> /\ flush = NoFlush /\ power = "on" /\ errors = 0
    /\ caught = <<>> /\ written = <<>> /\ lost = {}

\* The kernel does one thing at a time: nothing is printed during a flush but
\* by the flush itself.
LogIdle == flush.pc = "idle" /\ power = "on"

\* kprintf_syslog_hook, one character.  Fault: the character that fills the
\* buffer is dropped.
Collected_DropsLast(buf, c) == IF Len(buf) < HOOK_BUF - 2 THEN Append(buf, c) ELSE buf
Collected(buf, c) == IF Len(buf) < HOOK_BUF - 1 THEN Append(buf, c) ELSE buf
Text(buf) == IF buf[Len(buf)] = Newline THEN SubSeq(buf, 1, Len(buf) - 1) ELSE buf
Full(buf) == Len(buf) >= HOOK_BUF - 1
KPrintf(newline) ==
    /\ LogIdle /\ log.seq < MaxSeq /\ (newline \/ typed < MaxTyped)
    /\ typed' = IF newline THEN typed ELSE typed + 1
    /\ LET buf == Collected(hookBuf, IF newline THEN Newline ELSE typed + 1) IN
       IF newline \/ Full(buf)
       THEN /\ hookBuf' = <<>>
            /\ IF Text(buf) = <<>> THEN UNCHANGED <<log, caught, written>>
               ELSE /\ log' = Logged(log, Text(buf))
                    /\ caught' = caught \o Text(buf)
                    /\ written' = Append(written, Text(buf))
       ELSE hookBuf' = buf /\ UNCHANGED <<log, caught, written>>
    /\ UNCHANGED <<reader, file, flush, power, errors, lost>>

\* syslog_write by the rest of the kernel
SyslogWrite ==
    /\ LogIdle /\ log.seq < MaxSeq
    /\ log' = Logged(log, <<>>) /\ written' = Append(written, <<>>)
    /\ UNCHANGED <<hookBuf, typed, reader, file, flush, power, errors, caught, lost>>

\* syslog_read_entries, for sys_syslog: a snapshot, as much of it as fits.
\* (No memory for the snapshot: the call fails.)  Fault: from the beginning of
\* the ring.
LineOf(e) == [k \in 1 .. LINE |-> <<e.seq, k>>]
Entries_FromZero(l) == [i \in 1 .. l.count |-> l.ring[i - 1]]
Entries(l) == [i \in 1 .. l.count |-> Latest(l, l.count, i - 1)]
Rendered(es) == [k \in 1 .. Len(es) * LINE |-> LineOf(es[(k - 1) \div LINE + 1])[((k - 1) % LINE) + 1]]
SyslogRead(size) ==
    /\ LogIdle
    /\ reader' = [size |-> size, seq |-> log.seq,
                  text |-> LET all == Rendered(Entries(log)) IN
                           SubSeq(all, 1, IF Len(all) < size THEN Len(all) ELSE size - 1)]
    /\ UNCHANGED <<log, hookBuf, typed, file, flush, power, errors, caught, written, lost>>

\* The line of the i-th message is rendered when it is its turn.
Begun(f, l) == IF f.i = f.n THEN f
               ELSE [f EXCEPT !.seq = IF f.direct THEN l.ring[(f.start + f.i) % ENTRIES].seq
                                      ELSE f.snap[f.i + 1].seq]

\* syslog_flush_to_fs, from the end of kernel_main, sys_sync or sys_reboot:
\* the log file is truncated; without memory for a snapshot the ring itself
\* is written.  (The file may fail to open: nothing happens then.)
FlushStart(by) ==
    /\ LogIdle
    /\ file' = <<>> /\ lost' = {}
    /\ \E direct \in BOOLEAN :
         flush' = IF log.count = 0 THEN [NoFlush EXCEPT !.pc = "closed", !.by = by]
                  ELSE Begun([pc |-> "write", by |-> by, n |-> log.count, i |-> 0, done |-> 0,
                              start |-> (log.head - log.count) % ENTRIES, seq |-> 0,
                              direct |-> direct,
                              snap |-> IF direct THEN <<>> ELSE Entries(log)], log)
    /\ UNCHANGED <<log, hookBuf, typed, reader, power, errors, caught, written>>

\* One vfs_write of what is left of the line: all of it or what the disk has
\* room for, or an error, after which the rest of the line is given up.
\* Fault: its successors begin where it ended.
NextLine_KeepsPlace == Begun([flush EXCEPT !.i = @ + 1, !.done = LINE], log')
NextLine == Begun([flush EXCEPT !.i = @ + 1, !.done = 0], log')
WriteFails ==
    /\ flush.pc = "write" /\ flush.i < flush.n /\ errors < MaxErrors
    /\ UNCHANGED log
    /\ errors' = errors + 1 /\ flush' = NextLine
    /\ lost' = lost \cup {flush.seq}
    /\ UNCHANGED <<hookBuf, typed, reader, file, power, caught, written>>
Room == DISK_ROOM - Len(file)
WriteSome ==
    /\ flush.pc = "write" /\ flush.i < flush.n
    /\ IF DebugBuild /\ log.seq < MaxSeq + ENTRIES
       THEN log' = Logged(log, <<>>) /\ written' = Append(written, <<>>)
       ELSE UNCHANGED <<log, written>>
    /\ LET left == LINE - flush.done
           r    == IF left < Room THEN left ELSE Room
           line == LineOf([seq |-> flush.seq])
       IN
       /\ file' = file \o SubSeq(line, flush.done + 1, flush.done + r)
       /\ flush' = IF r = left THEN NextLine ELSE [flush EXCEPT !.done = @ + r]
    /\ UNCHANGED <<hookBuf, typed, reader, power, errors, caught, lost>>

\* The file is closed, and that is logged; an empty log is closed in silence.
FlushEnd ==
    /\ \/ /\ flush.pc = "write" /\ flush.i = flush.n
          /\ log' = Logged(log, <<>>) /\ written' = Append(written, <<>>)
       \/ flush.pc = "closed" /\ UNCHANGED <<log, written>>
    /\ flush' = [flush EXCEPT !.pc = "synced"]
    /\ UNCHANGED <<hookBuf, typed, reader, file, power, errors, caught, lost>>

\* What follows the flush: nothing, or the end of sys_reboot.  Fault: no
\* reboot when the flush met an error.
Return_OnError ==
    /\ flush.pc = "synced"
    /\ power' = IF flush.by = "reboot" /\ lost = {} THEN "off" ELSE power
    /\ flush' = NoFlush
    /\ UNCHANGED <<log, hookBuf, typed, reader, file, errors, caught, written, lost>>
Return ==
    /\ flush.pc = "synced"
    /\ power' = IF flush.by = "reboot" THEN "off" ELSE power
    /\ flush' = NoFlush
    /\ UNCHANGED <<log, hookBuf, typed, reader, file, errors, caught, written, lost>>

FlushStep == WriteFails \/ WriteSome \/ FlushEnd \/ Return
LogNext ==
    \/ \E newline \in BOOLEAN : KPrintf(newline)
    \/ SyslogWrite
    \/ \E size \in BufSizes : SyslogRead(size)
    \/ log.seq < MaxSeq /\ \E by \in {"sync", "reboot"} : FlushStart(by)
    \/ FlushStep

\* A system call runs to its end.
LogSpec == LogInit /\ [][LogNext]_logVars /\ WF_logVars(FlushStep)

-----------------------------------------------------------------------------
\* A reader gets the latest messages, oldest first, none twice and none left
\* out, cut off at the end of its buffer and nowhere else.
ReaderGetsTail ==
    LET n == IF reader.seq < ENTRIES THEN reader.seq ELSE ENTRIES
        all == [k \in 1 .. n * LINE |-> <<reader.seq - n + ((k - 1) \div LINE), ((k - 1) % LINE) + 1>>]
    IN reader.text = SubSeq(all, 1, IF Len(all) < reader.size THEN Len(all) ELSE reader.size - 1)

\* A message in the ring is the one that was logged under its number, and the
\* ring holds the latest ones.
RingIsLatest ==
    \A k \in 0 .. log.count - 1 :
        /\ Latest(log, log.count, k).seq = log.seq - log.count + k
        /\ Latest(log, log.count, k).text = written[log.seq - log.count + k + 1]

\* What kprintf prints is logged without a gap and in order, however it is cut
\* into lines by newlines and by a full buffer.
PrintedIsCaught == caught \o hookBuf = [k \in 1 .. typed |-> k]

\* A flushed file holds every message that was in the ring when the flush
\* began, in order and whole, but for the lines that met a disk error.
FileIsTail ==
    flush.pc = "synced" =>
        /\ \A k \in 1 .. Len(file) - 1 :
                \/ file[k + 1] = <<file[k][1], file[k][2] + 1>>
                \/ /\ file[k + 1][2] = 1 /\ file[k + 1][1] > file[k][1]
                   /\ file[k][2] = LINE \/ file[k][1] \in lost
                   /\ \A s \in file[k][1] + 1 .. file[k + 1][1] - 1 : s \in lost
        /\ Cardinality({file[k][1] : k \in 1 .. Len(file)} \cup lost) = flush.n

\* What was printed is collected, the ring holds the latest of it, and its
\* reader and the file get the end of that (syslog_write, syslog_flush_to_fs).
LogSound == PrintedIsCaught /\ RingIsLatest /\ ReaderGetsTail /\ FileIsTail

\* A reboot ends with the power off, whatever the disk does.
RebootCompletes == flush.by = "reboot" ~> power = "off"
=============================================================================
