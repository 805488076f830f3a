----------------------------- MODULE InetSockets -----------------------------
(***************************************************************************)
(* Internet and control sockets (kernel/socket.c) and the sub-sockets they *)
(* stand for: UDP (net/udp.c), raw ICMP (net/icmp.c), netctl.  Unix-domain *)
(* sockets share the table: module Sockets.                                *)
(*                                                                         *)
(* Of a packet only the port it was sent to matters, and, as a ghost,      *)
(* whether it came while the sub-socket was open (`fresh`).                *)
(***************************************************************************)
EXTENDS Integers, FiniteSets, Sequences

CONSTANTS INET_SOCKETS,    \* SOCKET_MAX_COUNT
          SUB_SOCKETS,     \* UDP_MAX_SOCKETS, ICMP_MAX_SOCKETS, NETCTL_MAX_SOCKETS
          Ports,           \* ports that programs bind
          Ephemeral        \* ephemeral ports, in the order they are given out

ASSUME InetAssumption ==
    /\ {INET_SOCKETS, SUB_SOCKETS} \subseteq Nat \ {0}
    /\ Ephemeral \in Seq(Nat) /\ Ephemeral # <<>> /\ Ports \subseteq Nat
    /\ Ports \cap {Ephemeral[k] : k \in DOMAIN Ephemeral} = {}

VARIABLES isock,          \* sockets: domain and type, references, sub-socket
          sub,            \* sub-sockets of each kind
          udp_ephemeral,
          irefs           \* descriptors of each socket, over all processes

inetVars == <<isock, sub, udp_ephemeral, irefs>>

Kinds == {"udp", "icmp", "ctl"}
ISock == 1 .. INET_SOCKETS
Sub == 1 .. SUB_SOCKETS
AllPorts == Ports \cup {Ephemeral[k] : k \in DOMAIN Ephemeral}
NoSocket == [used |-> FALSE, kind |-> "udp", id |-> 0, refcount |-> 0]
NoSub == [active |-> FALSE, port |-> 0, rx_ready |-> FALSE, to |-> 0, fresh |-> FALSE]

InetInit ==
    /\ isock = [s \in ISock |-> NoSocket]
    /\ sub = [k \in Kinds |-> [u \in Sub |-> NoSub]]
    /\ udp_ephemeral = 1
    /\ irefs = [s \in ISock |-> 0]

-----------------------------------------------------------------------------
(* Sub-sockets.                                                            *)
\* udp_open, icmp_open, netctl_socket_create: the lowest free slot.
LowestFree(slots) ==
    {u \in Sub : ~slots[u].active /\ \A v \in Sub : v < u => slots[v].active}
\* Fault: what the slot's last owner did not read stays there.
Opened_Stale(kind, u, port) ==
    [sub EXCEPT ![kind][u] = [@ EXCEPT !.active = TRUE, !.port = port, !.fresh = FALSE]]
Opened(kind, u, port) ==
    [sub EXCEPT ![kind][u] = [NoSub EXCEPT !.active = TRUE, !.port = port]]
\* udp_close leaves the rest of the slot as it is.
ClosedSub(kind, u) == [sub EXCEPT ![kind][u].active = FALSE]
PortFor(kind) == IF kind = "udp" THEN Ephemeral[udp_ephemeral] ELSE 0
NextEphemeral(kind) ==
    IF kind = "udp" THEN (udp_ephemeral % Cardinality(DOMAIN Ephemeral)) + 1 ELSE udp_ephemeral

-----------------------------------------------------------------------------
(* Sockets.                                                                *)
FreeSocket(s) == ~isock[s].used /\ \A t \in ISock : t < s => isock[t].used

\* socket_create and sys_socket_open.  Without a free sub-socket, or a free
\* descriptor, what was allocated is freed again; only the ephemeral port is
\* used up.
InetOpen(s, kind) ==
    \E u \in LowestFree(sub[kind]) :
        /\ FreeSocket(s)
        /\ sub' = Opened(kind, u, PortFor(kind))
        /\ udp_ephemeral' = NextEphemeral(kind)
        /\ isock' = [isock EXCEPT ![s] = [used |-> TRUE, kind |-> kind, id |-> u, refcount |-> 1]]
        /\ irefs' = [irefs EXCEPT ![s] = 1]
OpenNoFd(kind) ==
    \E u \in LowestFree(sub[kind]) :
        /\ \E s \in ISock : FreeSocket(s)
        /\ sub' = [Opened(kind, u, PortFor(kind)) EXCEPT ![kind][u].active = FALSE]
        /\ udp_ephemeral' = NextEphemeral(kind)
        /\ UNCHANGED <<isock, irefs>>

InetAddRef(s) ==
    /\ isock[s].used /\ irefs[s] = 1
    /\ isock' = [isock EXCEPT ![s].refcount = @ + 1]
    /\ irefs' = [irefs EXCEPT ![s] = @ + 1]
    /\ UNCHANGED <<sub, udp_ephemeral>>

\* socket_inet_bind closes the UDP socket it has and opens another: the slot
\* just left, or a lower one.  Fault: it keeps the one it has too.
InetBind_Leaks(s, port) ==
    \E u \in LowestFree(sub["udp"]) :
        /\ isock[s].used /\ isock[s].kind = "udp" /\ irefs[s] > 0
        /\ sub' = Opened("udp", u, port)
        /\ isock' = [isock EXCEPT ![s].id = u]
        /\ UNCHANGED <<udp_ephemeral, irefs>>
InetBind(s, port) ==
    LET closed == ClosedSub("udp", isock[s].id) IN
    \E u \in LowestFree(closed["udp"]) :
        /\ isock[s].used /\ isock[s].kind = "udp" /\ irefs[s] > 0
        /\ sub' = [closed EXCEPT !["udp"][u] = Opened("udp", u, port)["udp"][u]]
        /\ isock' = [isock EXCEPT ![s].id = u]
        /\ UNCHANGED <<udp_ephemeral, irefs>>

\* socket_close
InetClose(s) ==
    /\ isock[s].used /\ irefs[s] > 0
    /\ irefs' = [irefs EXCEPT ![s] = @ - 1]
    /\ IF isock[s].refcount > 1
       THEN isock' = [isock EXCEPT ![s].refcount = @ - 1] /\ UNCHANGED sub
       ELSE /\ isock' = [isock EXCEPT ![s] = NoSocket]
            /\ sub' = ClosedSub(isock[s].kind, isock[s].id)
    /\ UNCHANGED udp_ephemeral

\* udp_recv, icmp_recv
InetRecv(s) ==
    LET kind == isock[s].kind  u == isock[s].id IN
    /\ isock[s].used /\ irefs[s] > 0 /\ kind # "ctl"
    /\ sub[kind][u].active /\ sub[kind][u].rx_ready
    /\ sub' = [sub EXCEPT ![kind][u].rx_ready = FALSE]
    /\ UNCHANGED <<isock, udp_ephemeral, irefs>>

-----------------------------------------------------------------------------
(* Packets.  udp_handle gives a datagram to the first socket of its port,  *)
(* over the one that is still there; icmp_raw_deliver gives a packet to    *)
(* every raw socket that has none.                                         *)
Filled(s, to) == [s EXCEPT !.rx_ready = TRUE, !.to = to, !.fresh = TRUE]
UdpHandle(port) ==
    LET here == {u \in Sub : sub["udp"][u].active /\ sub["udp"][u].port = port} IN
    /\ sub' = [sub EXCEPT !["udp"] = [u \in Sub |->
                IF u \in here /\ \A v \in here : u <= v THEN Filled(@[u], port) ELSE @[u]]]
    /\ UNCHANGED <<isock, udp_ephemeral, irefs>>
IcmpDeliver ==
    /\ sub' = [sub EXCEPT !["icmp"] = [u \in Sub |->
                IF @[u].active /\ ~@[u].rx_ready THEN Filled(@[u], 0) ELSE @[u]]]
    /\ UNCHANGED <<isock, udp_ephemeral, irefs>>

InetNext ==
    \/ IcmpDeliver \/ \E port \in AllPorts : UdpHandle(port)
    \/ \E kind \in Kinds : OpenNoFd(kind) \/ \E s \in ISock : InetOpen(s, kind)
    \/ \E s \in ISock : InetAddRef(s) \/ InetClose(s) \/ InetRecv(s)
                        \/ \E port \in Ports : InetBind(s, port)
InetSpec == InetInit /\ [][InetNext]_inetVars

-----------------------------------------------------------------------------
(* Every sub-socket in use belongs to exactly one socket that is open, and *)
(* every open socket has one: none leaks over opens that fail half way,    *)
(* binds, shared descriptors and closes, and none is shared.               *)
SubsocketsOwned ==
    /\ \A k \in Kinds : \A u \in Sub : sub[k][u].active =>
            Cardinality({s \in ISock : isock[s].used /\ isock[s].kind = k /\ isock[s].id = u}) = 1
    /\ \A s \in ISock : isock[s].used => sub[isock[s].kind][isock[s].id].active
    /\ \A s \in ISock : isock[s].used <=> irefs[s] > 0

(* What a program can read from a socket came after the socket was opened  *)
(* or bound, and to its port: a slot used again shows nothing of its past. *)
NoStalePacket ==
    \A k \in {"udp", "icmp"} : \A u \in Sub :
        sub[k][u].active /\ sub[k][u].rx_ready => sub[k][u].fresh /\ sub[k][u].to = sub[k][u].port

\* A sub-socket belongs to one socket, goes with it, and starts empty
\* (socket_inet_bind, socket_close, udp_open).
SubsocketsSound == SubsocketsOwned /\ NoStalePacket
=============================================================================
