--------------------------------- MODULE Tcp ---------------------------------
(***************************************************************************)
(* The TCP client (net/tcp.c): connecting, sending, receiving and closing  *)
(* over a network that may lose, repeat and reorder segments, with a peer  *)
(* that follows the protocol.                                              *)
(*                                                                         *)
(* A segment carries at most one byte (TCP_MSS = 1); a byte is the port of *)
(* the connection it was sent on and its number in the stream.  Every      *)
(* initial sequence number is 0.                                           *)
(***************************************************************************)
EXTENDS Integers, Sequences, FiniteSets, SequencesExt

CONSTANTS TCP_MAX_SOCKETS, TCP_RECV_BUF_SIZE, TCP_WINDOW,
          MaxConns,    \* bound on the connections attempted: one port each
          MaxBytes,    \* bound on the bytes of each stream, by port
          MaxInFlight, \* bound on the segments in flight, in each direction
          MaxFaults    \* bound on the segments lost, repeated or overtaken

ASSUME TcpAssumption ==
    /\ {TCP_MAX_SOCKETS, TCP_RECV_BUF_SIZE, TCP_WINDOW, MaxConns, MaxInFlight} \subseteq Nat \ {0}
    /\ MaxFaults \in Nat
    /\ MaxBytes \in [1 .. MaxConns -> Nat]

VARIABLES tcp_sockets,
          tcp_next_port,
          connecting,        \* socket whose tcp_connect is polling; 0: none
          peers,             \* the other end of each connection
          toPeer, toClient,  \* segments in flight
          read,              \* history: bytes a program has read of each connection
          sentBytes,         \* history: bytes a program has sent on each
          faults             \* faults so far; a byte dropped by a full buffer is one

tcpVars == <<tcp_sockets, tcp_next_port, connecting, peers, toPeer, toClient, read, sentBytes, faults>>

TcpSock == 1 .. TCP_MAX_SOCKETS
Port == 1 .. MaxConns
FreeSock == [active |-> FALSE, state |-> "CLOSED", port |-> 0,
             snd_una |-> 0, snd_nxt |-> 0, rcv_nxt |-> 0, recv |-> <<>>]

TcpInit ==
    /\ tcp_sockets = [s \in TcpSock |-> FreeSock]
    /\ tcp_next_port = 1 /\ connecting = 0
    /\ peers = [p \in Port |-> [state |-> "listen", got |-> 0, out |-> 0, acked |-> 1]]
    /\ toPeer = <<>> /\ toClient = <<>>
    /\ read = [p \in Port |-> <<>>] /\ sentBytes = [p \in Port |-> 0]
    /\ faults = 0

\* tcp_send_segment: the flags, the sequence number of its first byte, the
\* next one expected, and how many bytes it carries.
Segment(s, flags, len) ==
    [port |-> s.port, flags |-> flags, seq |-> s.snd_nxt, ack |-> s.rcv_nxt, len |-> len]
Sends(seg) ==
    /\ Len(toPeer) < MaxInFlight
    /\ toPeer' = Append(toPeer, seg)

-----------------------------------------------------------------------------
(* Calls.  ip_send fails for want of the peer's hardware address.  Then a  *)
(* connection attempt fails; every other sender ignores it, so that the    *)
(* segment is lost.                                                        *)
FirstFree(i) == ~tcp_sockets[i].active /\ \A j \in TcpSock : j < i => tcp_sockets[j].active
TcpConnect(i) ==
    LET s == [FreeSock EXCEPT !.active = TRUE, !.state = "SYN_SENT", !.port = tcp_next_port] IN
    /\ connecting = 0 /\ FirstFree(i) /\ tcp_next_port <= MaxConns
    /\ Sends(Segment(s, {"SYN"}, 0))
    /\ tcp_sockets' = [tcp_sockets EXCEPT ![i] = [s EXCEPT !.snd_nxt = 1]]
    /\ connecting' = i /\ tcp_next_port' = tcp_next_port + 1
    /\ UNCHANGED <<peers, toClient, read, sentBytes, faults>>
ConnectFails ==
    /\ connecting = 0 /\ tcp_next_port <= MaxConns /\ \E i \in TcpSock : FirstFree(i)
    /\ tcp_next_port' = tcp_next_port + 1
    /\ UNCHANGED <<tcp_sockets, connecting, peers, toPeer, toClient, read, sentBytes, faults>>
\* tcp_connect stops polling: established, or at the end of its patience.
ConnectReturns ==
    /\ connecting # 0
    /\ connecting' = 0
    /\ IF tcp_sockets[connecting].state = "SYN_SENT"
       THEN tcp_sockets' = [tcp_sockets EXCEPT ![connecting].active = FALSE,
                                               ![connecting].state = "CLOSED"]
       ELSE UNCHANGED tcp_sockets
    /\ UNCHANGED <<tcp_next_port, peers, toPeer, toClient, read, sentBytes, faults>>

TcpSend(i) ==
    LET s == tcp_sockets[i] IN
    /\ connecting = 0 /\ s.active /\ s.state = "ESTABLISHED" /\ sentBytes[s.port] < MaxBytes[s.port]
    /\ Sends(Segment(s, {"ACK", "PSH"}, 1))
    /\ tcp_sockets' = [tcp_sockets EXCEPT ![i].snd_nxt = @ + 1]
    /\ sentBytes' = [sentBytes EXCEPT ![s.port] = @ + 1]
    /\ UNCHANGED <<tcp_next_port, connecting, peers, toClient, read, faults>>

\* tcp_recv returns what there is, once there is something.
TcpRecv(i, n) ==
    LET s == tcp_sockets[i] IN
    /\ connecting = 0 /\ s.active /\ n \in 1 .. Len(s.recv)
    /\ tcp_sockets' = [tcp_sockets EXCEPT ![i].recv = SubSeq(@, n + 1, Len(@))]
    /\ read' = [read EXCEPT ![s.port] = @ \o SubSeq(s.recv, 1, n)]
    /\ UNCHANGED <<tcp_next_port, connecting, peers, toPeer, toClient, sentBytes, faults>>

\* tcp_close forgets the connection as soon as its FIN is sent, so that the
\* states FIN_WAIT_1 to TIME_WAIT are left before a segment can meet them.
TcpClose(i) ==
    LET s == tcp_sockets[i] IN
    /\ connecting = 0 /\ s.active
    /\ IF s.state \in {"ESTABLISHED", "CLOSE_WAIT"}
       THEN Sends(Segment(s, {"FIN", "ACK"}, 0)) ELSE UNCHANGED toPeer
    /\ tcp_sockets' = [tcp_sockets EXCEPT ![i].active = FALSE, ![i].state = "CLOSED"]
    /\ UNCHANGED <<tcp_next_port, connecting, peers, toClient, read, sentBytes, faults>>

\* tcp_tick sends a SYN again, from the sequence number it had.
\* Fault: it takes a new one.
TcpTick_NewSequence(i) ==
    /\ tcp_sockets[i].active /\ tcp_sockets[i].state = "SYN_SENT"
    /\ Sends(Segment(tcp_sockets[i], {"SYN"}, 0))
    /\ tcp_sockets' = [tcp_sockets EXCEPT ![i].snd_nxt = @ + 1]
    /\ UNCHANGED <<tcp_next_port, connecting, peers, toClient, read, sentBytes, faults>>
TcpTick(i) ==
    LET s == [tcp_sockets[i] EXCEPT !.snd_nxt = tcp_sockets[i].snd_una] IN
    /\ s.active /\ s.state = "SYN_SENT"
    /\ Sends(Segment(s, {"SYN"}, 0))
    /\ tcp_sockets' = [tcp_sockets EXCEPT ![i] = [s EXCEPT !.snd_nxt = @ + 1]]
    /\ UNCHANGED <<tcp_next_port, connecting, peers, toClient, read, sentBytes, faults>>

-----------------------------------------------------------------------------
(* tcp_handle: segment number n of those in flight arrives.                *)
Take(queue, n) == SubSeq(queue, 1, n - 1) \o SubSeq(queue, n + 1, Len(queue))
\* Fault: the peer's address is enough.
Connected_ByHost(i, seg) == tcp_sockets[i].active
Connected(i, seg) == tcp_sockets[i].active /\ tcp_sockets[i].port = seg.port
Byte(seg) == <<seg.port, seg.seq>>

\* Fault: the buffer is filled from the front.
Stored_Front(s, seg) ==
    IF seg.len = 0 \/ Len(s.recv) = TCP_RECV_BUF_SIZE THEN s.recv ELSE <<Byte(seg)>> \o s.recv
\* rbuf_push drops what does not fit.  No sequence number is looked at.
Stored(s, seg) ==
    IF seg.len = 0 \/ Len(s.recv) = TCP_RECV_BUF_SIZE THEN s.recv ELSE Append(s.recv, Byte(seg))
Dropped(s, seg) == seg.len = 1 /\ Len(s.recv) = TCP_RECV_BUF_SIZE

Synchronize(i, seg) ==
    LET s == [tcp_sockets[i] EXCEPT !.rcv_nxt = seg.seq + 1, !.snd_una = seg.ack,
                                    !.state = "ESTABLISHED"] IN
    /\ tcp_sockets[i].state = "SYN_SENT" /\ {"SYN", "ACK"} \subseteq seg.flags
    /\ tcp_sockets' = [tcp_sockets EXCEPT ![i] = s]
    /\ Sends(Segment(s, {"ACK"}, 0))
    /\ UNCHANGED faults
\* A FIN and a payload are acknowledged each by a segment; the model sends
\* the second.
Receive(i, seg) ==
    LET old == tcp_sockets[i]
        fin == IF "FIN" \in seg.flags THEN 1 ELSE 0
        s == [old EXCEPT !.snd_una = IF "ACK" \in seg.flags THEN seg.ack ELSE @,
                         !.recv = Stored(old, seg),
                         !.rcv_nxt = @ + seg.len + fin,
                         !.state = IF fin = 1 THEN "CLOSE_WAIT" ELSE @] IN
    /\ old.state \in {"ESTABLISHED", "CLOSE_WAIT"}
    /\ tcp_sockets' = [tcp_sockets EXCEPT ![i] = s]
    /\ IF seg.len + fin > 0 THEN Sends(Segment(s, {"ACK"}, 0)) ELSE UNCHANGED toPeer
    /\ faults' = IF Dropped(old, seg) THEN faults + 1 ELSE faults
Ignore(seg) ==
    /\ \A i \in TcpSock : ~Connected(i, seg) \/ tcp_sockets[i].state \notin
            (IF {"SYN", "ACK"} \subseteq seg.flags THEN {"SYN_SENT"} ELSE {})
                \cup {"ESTABLISHED", "CLOSE_WAIT"}
    /\ UNCHANGED <<tcp_sockets, toPeer, faults>>
TcpHandle ==
    /\ toClient # <<>>
    /\ LET seg == Head(toClient) IN
        \/ Ignore(seg)
        \/ \E i \in TcpSock : Connected(i, seg) /\ (Synchronize(i, seg) \/ Receive(i, seg))
    /\ toClient' = Tail(toClient)
    /\ UNCHANGED <<tcp_next_port, connecting, peers, read, sentBytes>>

-----------------------------------------------------------------------------
(* The peer: it answers SYNs, accepts bytes in order, and sends within the *)
(* window what was not acknowledged, again if need be.                     *)
PeerSegment(p, flags, seq, len) ==
    [port |-> p, flags |-> flags, seq |-> seq, ack |-> peers'[p].got, len |-> len]
PeerHandle ==
    /\ toPeer # <<>>
    /\ LET seg == Head(toPeer)  p == seg.port  old == peers[p] IN
        IF "SYN" \in seg.flags
        THEN /\ peers' = [peers EXCEPT ![p] =
                    IF old.state = "listen" THEN [old EXCEPT !.state = "open", !.got = seg.seq + 1]
                    ELSE old]
             /\ Len(toClient) < MaxInFlight
             /\ toClient' = Append(toClient, PeerSegment(p, {"SYN", "ACK"}, 0, 0))
        ELSE /\ peers' = [peers EXCEPT ![p] =
                    [old EXCEPT !.got = IF seg.seq = @ THEN @ + seg.len ELSE @,
                                !.acked = IF seg.ack > @ THEN seg.ack ELSE @]]
             /\ UNCHANGED toClient
    /\ toPeer' = Tail(toPeer)
    /\ UNCHANGED <<tcp_sockets, tcp_next_port, connecting, read, sentBytes, faults>>
PeerSend(p) ==
    LET old == peers[p] IN
    /\ old.state = "open" /\ old.out < MaxBytes[p] /\ old.out + 1 - old.acked < TCP_WINDOW
    /\ Len(toClient) < MaxInFlight
    /\ peers' = [peers EXCEPT ![p].out = @ + 1]
    /\ toClient' = Append(toClient, PeerSegment(p, {"ACK"}, old.out + 1, 1))
    /\ UNCHANGED <<tcp_sockets, tcp_next_port, connecting, toPeer, read, sentBytes, faults>>
\* A retransmission that the receiver has to recognise counts as a fault.
PeerResend(p) ==
    LET old == peers[p] IN
    /\ old.state = "open" /\ old.acked <= old.out /\ faults < MaxFaults
    /\ Len(toClient) < MaxInFlight
    /\ toClient' = Append(toClient, [port |-> p, flags |-> {"ACK"}, seq |-> old.acked,
                                     ack |-> old.got, len |-> 1])
    /\ faults' = faults + 1
    /\ UNCHANGED <<tcp_sockets, tcp_next_port, connecting, peers, toPeer, read, sentBytes>>
PeerCloses(p) ==
    /\ peers[p].state = "open" /\ Len(toClient) < MaxInFlight
    /\ peers' = [peers EXCEPT ![p].state = "finished"]
    /\ toClient' = Append(toClient, PeerSegment(p, {"FIN", "ACK"}, peers[p].out + 1, 0))
    /\ UNCHANGED <<tcp_sockets, tcp_next_port, connecting, toPeer, read, sentBytes, faults>>

\* The network loses, repeats or holds back a segment.
NetworkFault ==
    /\ faults < MaxFaults /\ faults' = faults + 1
    /\ \/ toClient' \in UNION {{Take(toClient, n), Append(toClient, toClient[n]),
                                Append(Take(toClient, n), toClient[n])} : n \in DOMAIN toClient}
          /\ Len(toClient') <= MaxInFlight /\ UNCHANGED toPeer
       \/ toPeer' \in {Take(toPeer, n) : n \in DOMAIN toPeer} /\ UNCHANGED toClient
    /\ UNCHANGED <<tcp_sockets, tcp_next_port, connecting, peers, read, sentBytes>>

-----------------------------------------------------------------------------
Program ==
    \/ ConnectFails \/ ConnectReturns
    \/ \E i \in TcpSock :
        \/ TcpConnect(i) \/ TcpSend(i) \/ TcpClose(i) \/ TcpTick(i)
        \/ \E n \in 1 .. TCP_RECV_BUF_SIZE : TcpRecv(i, n)
Network ==
    \/ TcpHandle \/ PeerHandle \/ NetworkFault
    \/ \E p \in Port : PeerSend(p) \/ PeerResend(p) \/ PeerCloses(p)
TcpNext == Program \/ Network
TcpSpec == TcpInit /\ [][TcpNext]_tcpVars

-----------------------------------------------------------------------------
Unread(i) == tcp_sockets[i].recv
InStream(bytes, p) == \A k \in DOMAIN bytes : bytes[k] = <<p, k>>

(* However late, twice or out of order segments come, a program never      *)
(* reads a byte of an earlier connection that had its socket.              *)
NoCrossTalk ==
    /\ \A p \in Port : \A b \in ToSet(read[p]) : b[1] = p
    /\ \A i \in TcpSock : tcp_sockets[i].active =>
            \A b \in ToSet(Unread(i)) : b[1] = tcp_sockets[i].port

(* On a network that delivers each segment once and in order, and as long  *)
(* as the buffer has room, a program receives the first bytes of the       *)
(* peer's stream ("reliable, ordered", tcp.c).                             *)
OrderedIfFaithful ==
    faults = 0 =>
        /\ \A p \in Port : InStream(read[p], p)
        /\ \A i \in TcpSock : tcp_sockets[i].active =>
                InStream(read[tcp_sockets[i].port] \o Unread(i), tcp_sockets[i].port)

(* On such a network the peer has every byte sent once no segment is on    *)
(* its way, whether or not the SYN had to be sent again.                   *)
PeerHasAll ==
    (faults = 0 /\ toPeer = <<>>) =>
        \A p \in Port : sentBytes[p] > 0 => peers[p].got = sentBytes[p] + 1

\* Streams do not mix, and over a network without faults each end has all the
\* other sent, in order (tcp_handle_segment, tcp_send, tcp_tick).
StreamsSound == NoCrossTalk /\ OrderedIfFaithful /\ PeerHasAll
=============================================================================
