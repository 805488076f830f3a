------------------------------- MODULE Console -------------------------------
(***************************************************************************)
(* The console: keyboard interrupts (drivers/keyboard.c), the virtual      *)
(* terminals with their line discipline (kernel/tty.c), and the event that *)
(* Ctrl+Alt+Del sends to the supervisor.                                   *)
(*                                                                         *)
(* A key of the right-hand block sends two bytes, each with an interrupt   *)
(* of its own, and readers and terminal settings get in between.  What is  *)
(* typed is a number, counted up to MaxKeys, so that order shows; echo and *)
(* the screen are left out.                                                *)
(***************************************************************************)
EXTENDS Integers, Sequences, FiniteSets, SequencesExt

CONSTANTS NUM_VTYS, TTY_LINE_BUF_SIZE, TTY_INPUT_BUF_SIZE,
          Keys,      \* keys that are held: some of "lctrl", "rctrl", "lalt", "del"
          MaxKeys,   \* bound on the characters typed
          MaxEvents  \* events that the channel keeps

ASSUME ConsoleAssumption ==
    /\ Keys \subseteq {"lctrl", "rctrl", "lalt", "del"}
    /\ {NUM_VTYS, TTY_LINE_BUF_SIZE, TTY_INPUT_BUF_SIZE, MaxKeys, MaxEvents} \subseteq Nat \ {0}

VARIABLES down,     \* keys that are physically held
          wire,     \* bytes the keyboard has yet to deliver
          kb,       \* the driver's idea of the modifier keys
          active_vt,
          con,      \* tty_consoles
          typed,    \* history: characters typed so far
          origin,   \* history: the terminal each was typed on
          last,     \* history: the last character read from each terminal
          events,   \* Ctrl+Alt+Del events the supervisor has not read, up to MaxEvents
          chord     \* history: an event was sent for the chord that is held

conVars == <<down, wire, kb, active_vt, con, typed, origin, last, events, chord>>
ttyVars == <<con, typed, origin, last>>

VTs       == 0 .. NUM_VTYS - 1
Extended  == {"rctrl", "del"}                    \* keys with the prefix E0
Chars     == {"ch", "nl", "bs", "intr"}
Code(k)   == CASE k \in {"lctrl", "rctrl"} -> "ctrl" [] k = "lalt" -> "alt" [] OTHER -> k

ConInit ==
    /\ down = {} /\ wire = <<>>
    /\ kb = [ctrl_left |-> FALSE, ctrl_right |-> FALSE, alt_left |-> FALSE, alt_right |-> FALSE,
             e0_prefix |-> FALSE, cad_latched |-> FALSE]
    /\ active_vt = 0
    /\ con = [v \in VTs |-> [line |-> <<>>, input |-> <<>>, icanon |-> TRUE,
                             lost |-> FALSE, raw |-> FALSE]]
    /\ typed = 0 /\ origin = <<>>
    /\ last = [v \in VTs |-> 0]
    /\ events = 0 /\ chord = FALSE

-----------------------------------------------------------------------------
\* The keyboard: a key goes down, repeats while it is held, and comes up.
Bytes(k, release) == (IF k \in Extended THEN <<<<"e0", FALSE>>>> ELSE <<>>) \o <<<<Code(k), release>>>>

Press(k) ==
    /\ wire = <<>>
    /\ down' = down \cup {k} /\ wire' = Bytes(k, FALSE)
    /\ UNCHANGED <<kb, active_vt, ttyVars, events, chord>>
Release(k) ==
    /\ wire = <<>> /\ k \in down
    /\ down' = down \ {k} /\ wire' = Bytes(k, TRUE)
    /\ chord' = FALSE
    /\ UNCHANGED <<kb, active_vt, ttyVars, events>>

\* Alt and a function key, or a key that types a character.
PressF(v) ==
    /\ wire = <<>> /\ wire' = <<<<"f", v>>>>
    /\ UNCHANGED <<down, kb, active_vt, ttyVars, events, chord>>
PressChar(c) ==
    /\ wire = <<>> /\ wire' = <<<<"char", c>>>>
    /\ UNCHANGED <<down, kb, active_vt, ttyVars, events, chord>>

-----------------------------------------------------------------------------
(* tty_input_char on the active terminal.                                  *)

\* tty_input_push_vt: what does not fit in the ring is dropped.
Push(c, seq) ==
    LET room == TTY_INPUT_BUF_SIZE - 1 - Len(c.input)
        n    == IF Len(seq) < room THEN Len(seq) ELSE room
    IN  [c EXCEPT !.input = @ \o SubSeq(seq, 1, n), !.lost = @ \/ n < Len(seq)]

LineDone(c, key) == [Push(c, c.line \o <<key>>) EXCEPT !.line = <<>>]

\* Fault: a character goes straight to the reader.
AddToLine_Unbuffered(c, key) == Push(c, <<key>>)
AddToLine(c, key) ==
    IF Len(c.line) + 1 < TTY_LINE_BUF_SIZE THEN [c EXCEPT !.line = Append(@, key)] ELSE c

InputChar(c, ch, key) ==
    CASE ch = "intr" -> [c EXCEPT !.line = <<>>]
      [] ch # "intr" /\ ~c.icanon -> Push(c, <<key>>)
      [] ch = "bs" /\ c.icanon -> [c EXCEPT !.line = IF @ = <<>> THEN @ ELSE Front(@)]
      [] ch = "nl" /\ c.icanon -> LineDone(c, key)
      [] ch = "ch" /\ c.icanon -> AddToLine(c, key)

TtyInputChar(ch) ==
    /\ typed < MaxKeys
    /\ typed' = typed + 1
    /\ origin' = Append(origin, active_vt)
    /\ con' = [con EXCEPT ![active_vt] = InputChar(@, ch, [no |-> typed + 1, nl |-> ch = "nl"])]

\* kb_irq_handler for one byte.  Fault: the prefix outlives its byte.
Modifier(code, release) ==
    IF code = "ctrl"
    THEN IF kb.e0_prefix THEN [kb EXCEPT !.ctrl_right = ~release] ELSE [kb EXCEPT !.ctrl_left = ~release]
    ELSE IF kb.e0_prefix THEN [kb EXCEPT !.alt_right = ~release] ELSE [kb EXCEPT !.alt_left = ~release]
AfterByte_KeepsPrefix(k) == k
AfterByte(k) == [k EXCEPT !.e0_prefix = FALSE]

HasCtrl == kb.ctrl_left \/ kb.ctrl_right
HasAlt  == kb.alt_left \/ kb.alt_right

PrefixIrq ==
    /\ wire # <<>> /\ Head(wire) = <<"e0", FALSE>>
    /\ kb' = [kb EXCEPT !.e0_prefix = TRUE]
    /\ wire' = Tail(wire)
    /\ UNCHANGED <<down, active_vt, ttyVars, events, chord>>

ModifierIrq(code, release) ==
    /\ wire # <<>> /\ Head(wire) = <<code, release>> /\ code \in {"ctrl", "alt"}
    /\ kb' = AfterByte([Modifier(code, release) EXCEPT
                            !.cad_latched = IF release THEN FALSE ELSE @])
    /\ wire' = Tail(wire)
    /\ UNCHANGED <<down, active_vt, ttyVars, events, chord>>

\* Fault: every repetition of Del is a new chord.
Chord_NotLatched == kb.e0_prefix /\ HasCtrl /\ HasAlt
Chord == kb.e0_prefix /\ HasCtrl /\ HasAlt /\ ~kb.cad_latched
DelIrq(release) ==
    /\ wire # <<>> /\ Head(wire) = <<"del", release>>
    /\ kb' = AfterByte([kb EXCEPT !.cad_latched =
                IF release THEN @ /\ ~kb.e0_prefix ELSE @ \/ Chord])
    /\ events' = IF ~release /\ Chord /\ events < MaxEvents THEN events + 1 ELSE events
    /\ chord' = (chord \/ (~release /\ Chord))
    /\ wire' = Tail(wire)
    /\ UNCHANGED <<down, active_vt, ttyVars>>

\* The supervisor reads an event from the channel.
ReadEvent ==
    /\ events > 0 /\ events' = events - 1
    /\ UNCHANGED <<down, wire, kb, active_vt, ttyVars, chord>>

FunctionIrq ==
    /\ wire # <<>> /\ Head(wire)[1] = "f"
    /\ active_vt' = IF HasAlt /\ ~kb.e0_prefix THEN Head(wire)[2] ELSE active_vt
    /\ kb' = AfterByte(kb) /\ wire' = Tail(wire)
    /\ UNCHANGED <<down, ttyVars, events, chord>>

CharIrq ==
    /\ wire # <<>> /\ Head(wire)[1] = "char"
    /\ TtyInputChar(Head(wire)[2])
    /\ kb' = AfterByte(kb) /\ wire' = Tail(wire)
    /\ UNCHANGED <<down, active_vt, last, events, chord>>

\* tty_poll_input_sources: what comes over the serial line, when a reader
\* or poll looks.
SerialChar(c) ==
    /\ TtyInputChar(c)
    /\ UNCHANGED <<down, wire, kb, active_vt, last, events, chord>>

-----------------------------------------------------------------------------
\* tty_read_vt_nb: what is there, in canonical mode to the end of a line.
ReadLen(c, len) ==
    CHOOSE n \in 1 .. len :
        /\ n <= Len(c.input)
        /\ \A i \in 1 .. n - 1 : ~(c.icanon /\ c.input[i].nl)
        /\ n = len \/ n = Len(c.input) \/ (c.icanon /\ c.input[n].nl)
\* Fault: what was read stays.
TtyRead_KeepsLast(v, len) ==
    /\ con[v].input # <<>>
    /\ LET n == ReadLen(con[v], len)
       IN  /\ last' = [last EXCEPT ![v] = con[v].input[n].no]
           /\ con' = [con EXCEPT ![v].input = SubSeq(@, n, Len(@))]
    /\ UNCHANGED <<down, wire, kb, active_vt, typed, origin, events, chord>>
TtyRead(v, len) ==
    /\ con[v].input # <<>>
    /\ LET n == ReadLen(con[v], len)
       IN  /\ last' = [last EXCEPT ![v] = con[v].input[n].no]
           /\ con' = [con EXCEPT ![v].input = SubSeq(@, n + 1, Len(@))]
    /\ UNCHANGED <<down, wire, kb, active_vt, typed, origin, events, chord>>

\* TCSETS: characters of an unfinished line stay in it.
SetTermios(v, icanon) ==
    /\ con' = [con EXCEPT ![v].icanon = icanon, ![v].raw = @ \/ ~icanon]
    /\ UNCHANGED <<down, wire, kb, active_vt, typed, origin, last, events, chord>>

ConNext ==
    \/ \E k \in Keys : Press(k) \/ Release(k)
    \/ \E v \in VTs : PressF(v)
    \/ \E c \in Chars : PressChar(c) \/ SerialChar(c)
    \/ PrefixIrq \/ ReadEvent \/ FunctionIrq \/ CharIrq
    \/ \E r \in BOOLEAN : DelIrq(r) \/ \E c \in {"ctrl", "alt"} : ModifierIrq(c, r)
    \/ \E v \in VTs, len \in 1 .. TTY_INPUT_BUF_SIZE : TtyRead(v, len)
    \/ \E v \in VTs, b \in BOOLEAN : SetTermios(v, b)

ConSpec == ConInit /\ [][ConNext]_conVars

-----------------------------------------------------------------------------
\* When no byte is on its way the driver knows which modifiers are held, and
\* left from right, whatever order they went down and up in (kb_irq_handler).
ModifiersTrue ==
    wire = <<>> =>
        /\ kb.ctrl_left <=> "lctrl" \in down
        /\ kb.ctrl_right <=> "rctrl" \in down
        /\ kb.alt_left <=> "lalt" \in down
        /\ ~kb.alt_right /\ ~kb.e0_prefix

\* The supervisor gets one Ctrl+Alt+Del for a chord, only while it is held,
\* and none for its repetitions (cad_latched).
OneEventPerChord ==
    [][events' > events =>
        /\ ~chord
        /\ {"lctrl", "rctrl"} \cap down # {} /\ {"lalt", "del"} \subseteq down]_conVars

\* Each terminal gives its readers what was typed there, and as long as it
\* stays canonical in the order in which it was typed and nothing twice:
\* erased, interrupted or dropped characters are gaps (tty_input_char,
\* tty_switch_vt).  A change of mode in the middle of a line lets later
\* characters overtake the line.
Pending(v) == con[v].input \o con[v].line
KeysInOrder ==
    \A v \in VTs : \A i \in DOMAIN Pending(v) :
        /\ origin[Pending(v)[i].no] = v
        /\ ~con[v].raw => /\ last[v] < Pending(v)[i].no
                          /\ i > 1 => Pending(v)[i - 1].no < Pending(v)[i].no

\* In canonical mode a reader finds whole lines only, as long as the ring
\* has not been full.
LinesWhole ==
    \A v \in VTs : ~con[v].raw /\ ~con[v].lost /\ con[v].input # <<>> => Last(con[v].input).nl

\* What is typed arrives: with the modifiers held, on its terminal, in order,
\* as whole lines, and a chord as one event (keyboard_irq, tty_input_char).
TypingKept == [](ModifiersTrue /\ KeysInOrder /\ LinesWhole) /\ OneEventPerChord
=============================================================================
