------------------------------- MODULE IpStack -------------------------------
(***************************************************************************)
(* ARP (net/arp.c), IP (net/ip.c), echo (net/icmp.c) and the polling loop  *)
(* (net/tcpip.c): the table of hardware addresses, the choice of the next  *)
(* hop, and the packets a host sends to itself.                            *)
(*                                                                         *)
(* Time passes between frames only: a frame is handled, with the frames it *)
(* makes the kernel send, in one step.                                     *)
(***************************************************************************)
EXTENDS Integers, Sequences, FiniteSets

CONSTANTS ARP_TABLE_SIZE,
          LOOPBACK_QUEUE_LEN,
          Neighbours,   \* addresses on the subnet, the gateway among them
          Remotes,      \* addresses beyond the gateway
          Gateway,
          Macs,         \* hardware addresses
          Self,         \* the host's address
          Loop,         \* an address of the loopback network
          MaxSelfSends  \* bound on the packets a program sends to Loop

ASSUME IpAssumption ==
    /\ {ARP_TABLE_SIZE, LOOPBACK_QUEUE_LEN, MaxSelfSends} \subseteq Nat \ {0}
    /\ Gateway \in Neighbours /\ Neighbours \cap Remotes = {}
    /\ {Self, Loop} \cap (Neighbours \cup Remotes) = {} /\ Self # Loop

VARIABLES arp_table, arp_count,
          loopback,    \* packets on their way through "lo"
          sent,        \* the last frame sent on the wire
          heard,       \* history: the last hardware address heard of each host
          selfSends    \* history: packets a program has sent to Loop

ipVars == <<arp_table, arp_count, loopback, sent, heard, selfSends>>

Hosts == Neighbours \cup Remotes
Entry == 0 .. ARP_TABLE_SIZE - 1
Unset == "none"
Zero == "00"      \* the hardware address of loopback
NoFrame == [kind |-> "none", mac |-> "none", dst |-> "none"]
Frame(kind, mac, dst) == [kind |-> kind, mac |-> mac, dst |-> dst]

IpInit ==
    /\ arp_table = [e \in Entry |-> [ip |-> Unset, mac |-> Zero]]
    /\ arp_count = 0
    /\ loopback = <<>> /\ sent = NoFrame
    /\ heard = [h \in Hosts |-> Unset] /\ selfSends = 0

-----------------------------------------------------------------------------
(* The table: an entry is brought up to date in place; a new one takes the *)
(* place of the oldest.                                                    *)
\* Fault: a new one is made whenever something is heard.
Learned_Appends(table, ip, mac) ==
    [table EXCEPT ![arp_count % ARP_TABLE_SIZE] = [ip |-> ip, mac |-> mac]]
Known(table, ip) == {e \in Entry : table[e].ip = ip}
Learned(table, ip, mac) ==
    IF Known(table, ip) # {}
    THEN [e \in Entry |-> IF table[e].ip = ip THEN [table[e] EXCEPT !.mac = mac] ELSE table[e]]
    ELSE [table EXCEPT ![arp_count % ARP_TABLE_SIZE] = [ip |-> ip, mac |-> mac]]
Learn(ip, mac) ==
    /\ arp_table' = Learned(arp_table, ip, mac)
    /\ arp_count' = IF Known(arp_table, ip) # {} THEN arp_count
                    ELSE (arp_count + 1) % ARP_TABLE_SIZE
    /\ heard' = IF ip \in Hosts THEN [heard EXCEPT ![ip] = mac] ELSE heard
\* arp_lookup: the first entry.
Lookup(table, ip) ==
    LET known == Known(table, ip) IN
    IF known = {} THEN Unset ELSE table[CHOOSE e \in known : \A f \in known : e <= f].mac

-----------------------------------------------------------------------------
(* ip_send: what goes out on the wire for a packet to dst.  Without the    *)
(* next hop's hardware address the packet is lost, and asked for instead.  *)
NextHop_Direct(dst) == dst
NextHop(dst) == IF dst \in Neighbours \cup {Self} THEN dst ELSE Gateway
OnWire(table, dst) ==
    IF Lookup(table, NextHop(dst)) = Unset THEN Frame("arp request", "broadcast", NextHop(dst))
    ELSE Frame("ip", Lookup(table, NextHop(dst)), dst)

\* A program sends to another host.
IpSend(dst) ==
    /\ sent' = OnWire(arp_table, dst)
    /\ UNCHANGED <<arp_table, arp_count, loopback, heard, selfSends>>

\* It sends to itself: the frame joins the queue of "lo" if there is room.
Queued(queue, kind) ==
    IF Len(queue) < LOOPBACK_QUEUE_LEN - 1 THEN Append(queue, kind) ELSE queue
IpSendSelf(kind) ==
    /\ selfSends < MaxSelfSends
    /\ selfSends' = selfSends + 1
    /\ loopback' = Queued(loopback, kind)
    /\ UNCHANGED <<arp_table, arp_count, sent, heard>>

-----------------------------------------------------------------------------
(* Frames that tcpip_poll takes from the card.                             *)
ArpHandle(ip, mac, oper, target) ==
    /\ Learn(ip, mac)
    /\ sent' = IF oper = "request" /\ target = Self THEN Frame("arp reply", mac, ip) ELSE sent
    /\ UNCHANGED <<loopback, selfSends>>

\* An IP packet for this host.  The hardware address is learned before the
\* packet is handled: an echo request can be answered at once.  A packet from
\* beyond the gateway makes an entry too, with the gateway's address.
\* Fault: it is learned after.
IpHandle_AnswersFirst(ip, mac, kind) ==
    /\ ip \in Remotes => mac = heard[Gateway]
    /\ Learn(ip, mac)
    /\ sent' = IF kind = "echo request" THEN OnWire(arp_table, ip) ELSE sent
    /\ UNCHANGED <<loopback, selfSends>>
IpHandle(ip, mac, kind) ==
    /\ ip \in Remotes => mac = heard[Gateway]
    /\ Learn(ip, mac)
    /\ sent' = IF kind = "echo request" THEN OnWire(Learned(arp_table, ip, mac), ip) ELSE sent
    /\ UNCHANGED <<loopback, selfSends>>

\* tcpip_poll takes a frame from "lo".
\* Fault: an answer is answered.
LoopHandle_AnswersAnswers ==
    /\ loopback # <<>>
    /\ Learn(Loop, Zero)
    /\ loopback' = IF Head(loopback) = "other" THEN Tail(loopback)
                   ELSE Queued(Tail(loopback), "echo reply")
    /\ UNCHANGED <<sent, selfSends>>
LoopHandle ==
    /\ loopback # <<>>
    /\ Learn(Loop, Zero)
    /\ loopback' = IF Head(loopback) = "echo request" THEN Queued(Tail(loopback), "echo reply")
                   ELSE Tail(loopback)
    /\ UNCHANGED <<sent, selfSends>>

IpNext ==
    \/ LoopHandle
    \/ \E kind \in {"echo request", "other"} : IpSendSelf(kind)
    \/ \E dst \in Hosts : IpSend(dst)
    \/ \E ip \in Hosts, mac \in Macs :
        \/ \E kind \in {"echo request", "other"} : IpHandle(ip, mac, kind)
        \/ ip \in Neighbours /\ \E oper \in {"request", "reply"}, target \in {Self, Gateway} :
                ArpHandle(ip, mac, oper, target)
\* The loop that polls comes round again and again.
IpSpec == IpInit /\ [][IpNext]_ipVars /\ WF_ipVars(LoopHandle)

-----------------------------------------------------------------------------
(* A host that changed its card is reached at once: whatever was evicted   *)
(* and learned again, a lookup gives what was heard last or nothing.       *)
LookupIsLatest == \A h \in Hosts : Lookup(arp_table, h) \in {Unset, heard[h]}

(* A frame for a host beyond the gateway goes to the gateway, although the *)
(* table has an entry for that host.                                       *)
RemoteViaGateway ==
    [][sent' # sent /\ sent'.kind = "ip" /\ sent'.dst \in Remotes
        => sent'.mac = heard'[Gateway]]_ipVars

(* A neighbour's echo request is answered by the step that handles it, to  *)
(* the card it came from, also when the neighbour was never heard before   *)
(* or has a new card.                                                      *)
EchoAnswered ==
    [][\A h \in Neighbours, mac \in Macs :
        IpHandle(h, mac, "echo request") => sent' = Frame("ip", mac, h)]_ipVars

(* Packets to itself do not keep the host busy for ever: the queue empties *)
(* once the programs stop sending.                                         *)
LoopbackDrains == <>[](loopback = <<>>)

\* Packets go to the latest address of their next hop, an echo request is
\* answered to the sender, and the loopback queue empties (arp_lookup, ip_send,
\* icmp_handle, loopback_poll).
PacketsArrive == []LookupIsLatest /\ RemoteViaGateway /\ EchoAnswered /\ LoopbackDrains
=============================================================================
