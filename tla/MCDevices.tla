----------------------------- MODULE MCDevices -----------------------------
(* What comes in from outside: keys on the consoles, and the network: its    *)
(* addresses and routes with the sockets that tell of them, TCP, the cards.  *)
(* In one behaviour one part moves; the others stand where they start.       *)
EXTENDS Console, Netctl, Tcp, Cards

VARIABLE part

Streams == <<2, 1>>

DevicesVars == <<conVars, netctlVars, tcpVars, cardVars, part>>

DevicesInit ==
    /\ ConInit /\ NetctlInit /\ TcpInit /\ CardInit
    /\ part \in {"console", "addresses", "routes", "tcp", "cards"}

ConsolesMove == /\ part = "console" /\ ConNext
                /\ UNCHANGED <<netctlVars, tcpVars, cardVars, part>>
\* Addresses with sockets that listen, and routes without.
AddressesMove == /\ part = "addresses" /\ (DeviceNext \/ SocketNext \/ AddrNext)
                 /\ UNCHANGED <<conVars, tcpVars, cardVars, part>>
RoutesMove == /\ part = "routes" /\ (DeviceNext \/ SocketNext \/ RouteNext)
              /\ \A i \in DOMAIN devices' : devices'[i].carrier = FALSE
              /\ \A s \in Ctl : ctl'[s].groups = {}
              /\ UNCHANGED <<conVars, tcpVars, cardVars, part>>
TcpMoves == /\ part = "tcp" /\ TcpNext
            /\ UNCHANGED <<conVars, netctlVars, cardVars, part>>
CardsMove == /\ part = "cards" /\ CardNext
             /\ UNCHANGED <<conVars, netctlVars, tcpVars, part>>

\* Each of them may come to rest, at its bounds.
Rest == UNCHANGED DevicesVars

DevicesNext == ConsolesMove \/ AddressesMove \/ RoutesMove \/ TcpMoves
                 \/ CardsMove \/ Rest

DevicesSpec == DevicesInit /\ [][DevicesNext]_DevicesVars
=============================================================================
