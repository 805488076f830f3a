-------------------------------- MODULE Cards --------------------------------
(***************************************************************************)
(* Network interfaces: the registry (drivers/net/network.c), the queue of  *)
(* "lo" (drivers/net/loopback.c) and the descriptor rings that the e1000   *)
(* driver shares with its card (drivers/net/e1000.c).                      *)
(*                                                                         *)
(* A frame is its number.  The card is external: it sends from the tail    *)
(* and fills at the head of its rings, and takes equal head and tail for   *)
(* nothing to do.                                                          *)
(***************************************************************************)
EXTENDS Integers, Sequences, FiniteSets

CONSTANTS LOOP_LEN,            \* LOOPBACK_QUEUE_LEN
          NUM_DESC,            \* E1000_NUM_RX_DESC, E1000_NUM_TX_DESC
          NET_MAX_INTERFACES,
          Drivers,             \* drivers with a card
          MaxFrames            \* bound on the frames of each queue

ASSUME CardsAssumption ==
    /\ {LOOP_LEN, NUM_DESC, NET_MAX_INTERFACES, MaxFrames} \subseteq Nat \ {0}
    /\ NUM_DESC > 1

VARIABLES lo,      \* ring of "lo", with what was accepted and what was taken
          tx,      \* transmit ring
          rx,      \* receive ring
          ifaces   \* registered interfaces, with their names

cardVars == <<lo, tx, rx, ifaces>>

LoIndex == 0 .. LOOP_LEN - 1
Desc == 0 .. NUM_DESC - 1
Following(i, n) == (i + 1) % n

CardInit ==
    /\ lo = [queue |-> [i \in LoIndex |-> 0], head |-> 0, tail |-> 0, in |-> 0, out |-> <<>>]
    /\ tx = [buffer |-> [d \in Desc |-> 0], dd |-> Desc, head |-> 0, tail |-> 0,
             in |-> 0, out |-> <<>>]
    /\ rx = [buffer |-> [d \in Desc |-> 0], dd |-> {}, head |-> 0, tail |-> NUM_DESC - 1,
             in |-> 0, out |-> <<>>]
    /\ ifaces = <<>>

-----------------------------------------------------------------------------
(* The registry: a nameless interface gets the first free name, and keeps  *)
(* it; one whose name is taken is refused.                                 *)
Name(driver) == {ifaces[k].name : k \in {j \in DOMAIN ifaces : ifaces[j].driver = driver}}
CardNames == {ifaces[k].name : k \in DOMAIN ifaces}
EthName == {n \in 0 .. NET_MAX_INTERFACES - 1 : n \notin CardNames /\ \A m \in 0 .. n - 1 : m \in CardNames}
\* Fault: the name is the number of interfaces so far.
RegisterInterface_Counts(driver, up) ==
    /\ Len(ifaces) < NET_MAX_INTERFACES
    /\ ifaces' = Append(ifaces, [driver |-> driver, up |-> up, name |-> 0])
    /\ UNCHANGED <<lo, tx, rx>>
RegisterInterface(driver, up) ==
    /\ Len(ifaces) < NET_MAX_INTERFACES
    /\ Name(driver) = {}
    /\ \E n \in EthName : ifaces' = Append(ifaces, [driver |-> driver, up |-> up, name |-> n])
    /\ UNCHANGED <<lo, tx, rx>>

-----------------------------------------------------------------------------
(* "lo": one slot stays free.                                              *)
\* Fault: the queue is full only when every slot is.
LoopbackSend_NeverFull ==
    /\ lo.in < MaxFrames
    /\ lo' = [lo EXCEPT !.queue[lo.head] = lo.in + 1, !.in = @ + 1,
                        !.head = Following(@, LOOP_LEN)]
    /\ UNCHANGED <<tx, rx, ifaces>>
LoopbackSend ==
    /\ lo.in < MaxFrames
    /\ Following(lo.head, LOOP_LEN) # lo.tail
    /\ lo' = [lo EXCEPT !.queue[lo.head] = lo.in + 1, !.in = @ + 1,
                        !.head = Following(@, LOOP_LEN)]
    /\ UNCHANGED <<tx, rx, ifaces>>
LoopbackRecv ==
    /\ lo.head # lo.tail
    /\ lo' = [lo EXCEPT !.out = Append(@, lo.queue[lo.tail]), !.tail = Following(@, LOOP_LEN)]
    /\ UNCHANGED <<tx, rx, ifaces>>

-----------------------------------------------------------------------------
(* e1000.  A descriptor is the driver's when its "done" bit is set.        *)
E1000Send ==
    /\ tx.in < MaxFrames
    /\ tx.tail \in tx.dd
    /\ tx' = [tx EXCEPT !.buffer[tx.tail] = tx.in + 1, !.dd = @ \ {tx.tail}, !.in = @ + 1,
                        !.tail = Following(@, NUM_DESC)]
    /\ UNCHANGED <<lo, rx, ifaces>>
\* The card sends.
CardSends ==
    /\ tx.head # tx.tail
    /\ tx' = [tx EXCEPT !.out = Append(@, tx.buffer[tx.head]), !.dd = @ \cup {tx.head},
                        !.head = Following(@, NUM_DESC)]
    /\ UNCHANGED <<lo, rx, ifaces>>

\* The card receives.
CardReceives ==
    /\ rx.in < MaxFrames /\ rx.head # rx.tail
    /\ rx' = [rx EXCEPT !.buffer[rx.head] = rx.in + 1, !.dd = @ \cup {rx.head}, !.in = @ + 1,
                        !.head = Following(@, NUM_DESC)]
    /\ UNCHANGED <<lo, tx, ifaces>>
E1000Recv ==
    LET next == Following(rx.tail, NUM_DESC) IN
    /\ next \in rx.dd
    /\ rx' = [rx EXCEPT !.out = Append(@, rx.buffer[next]), !.dd = @ \ {next}, !.tail = next]
    /\ UNCHANGED <<lo, tx, ifaces>>

CardNext ==
    \/ LoopbackSend \/ LoopbackRecv \/ E1000Send \/ CardSends \/ CardReceives \/ E1000Recv
    \/ \E driver \in Drivers, up \in BOOLEAN : RegisterInterface(driver, up)
CardSpec == CardInit /\ [][CardNext]_cardVars

-----------------------------------------------------------------------------
InOrder(ring) == \A k \in DOMAIN ring.out : ring.out[k] = k

(* Each of the three rings, wrapped around as often as it may be, hands    *)
(* over the frames put into it: each once, in order, none written over     *)
(* before the other side has taken it.                                     *)
RingsFifo ==
    /\ InOrder(lo) /\ (lo.head = lo.tail => Len(lo.out) = lo.in)
    /\ InOrder(tx)
    /\ InOrder(rx) /\ (rx.dd = {} => Len(rx.out) = rx.in)

(* Two interfaces never have one name: net_get_interface finds every one.  *)
NamesUnique == Cardinality(CardNames) = Len(ifaces)

\* Rings keep the order of frames and lose none they accepted, and cards have
\* names of their own (e1000_send, loopback_poll, net_register_interface).
CardsSound == RingsFifo /\ NamesUnique
=============================================================================
