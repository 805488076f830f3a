------------------------------- MODULE Netctl -------------------------------
(***************************************************************************)
(* The network control plane: devices, addresses and routes               *)
(* (kernel/netdev.c) and the control sockets (kernel/netctl.c) over which  *)
(* programs change them, list them and are told of changes.                *)
(*                                                                         *)
(* A message is two cells of the receive ring, its head (1) and its rest   *)
(* (2), so that a short read can leave half of one.  An address has        *)
(* AddrBits bits.  No driver of the repository calls netdev_register yet;  *)
(* Register, Unregister and SetCarrier are its interface to them.          *)
(***************************************************************************)
EXTENDS Integers, FiniteSets, Sequences, SequencesExt

CONSTANTS NETDEV_MAX_DEVICES, NETDEV_MAX_ADDRS, NETDEV_MAX_ROUTES,
          NETCTL_MAX_SOCKETS, NETCTL_SOCKET_BUFFER,
          AddrBits, \* width of an address
          Metrics,  \* metrics of routes
          MaxIf     \* bound on the devices ever registered

ASSUME NetctlAssumption ==
    /\ {NETDEV_MAX_DEVICES, NETDEV_MAX_ADDRS, NETDEV_MAX_ROUTES, NETCTL_MAX_SOCKETS,
        NETCTL_SOCKET_BUFFER, AddrBits, MaxIf} \subseteq Nat \ {0}
    /\ Metrics \subseteq Nat

VARIABLES devices,       \* ifindex -> its flag and carrier, for those registered
          next_ifindex,
          addresses,     \* set of <<ifindex, address>>
          routes,        \* slots
          ctl,           \* control sockets
          knows          \* history: the addresses of each interface as the messages
                         \* sent to a socket tell them: {} unknown, or {the set}

netctlVars == <<devices, next_ifindex, addresses, routes, ctl, knows>>

IPv4 == 0 .. 2 ^ AddrBits - 1
Ctl == 1 .. NETCTL_MAX_SOCKETS
Slot == 1 .. NETDEV_MAX_ROUTES
If == 1 .. MaxIf
Groups == {"link", "addr", "route"}
NoRoute == [used |-> FALSE, dest |-> 0, prefix_len |-> 0, oif |-> 0, metric |-> 0]
RouteOf(d, p, o, m) == [used |-> TRUE, dest |-> d, prefix_len |-> p, oif |-> o, metric |-> m]
ClosedCtl == [used |-> FALSE, groups |-> {}, rx |-> <<>>]
Nothing == [i \in If |-> {}]

NetctlInit ==
    /\ devices = << >> /\ next_ifindex = 1
    /\ addresses = {}
    /\ routes = [r \in Slot |-> NoRoute]
    /\ ctl = [s \in Ctl |-> ClosedCtl]
    /\ knows = [s \in Ctl |-> Nothing]

Registered(i) == i \in DOMAIN devices
AddrsOf(i) == {a \in IPv4 : <<i, a>> \in addresses}

-----------------------------------------------------------------------------
(* Messages.  A socket without room for the whole message is skipped, and  *)
(* nothing tells its reader.                                               *)
Room(c, s) == Len(c[s].rx) + 2 <= NETCTL_SOCKET_BUFFER
Hears(c, s, group) == c[s].used /\ group \in c[s].groups

\* Fault: as much as fits is written.
Put_Partly(c, s) ==
    IF Room(c, s) THEN [c EXCEPT ![s].rx = @ \o <<1, 2>>]
    ELSE IF Len(c[s].rx) < NETCTL_SOCKET_BUFFER THEN [c EXCEPT ![s].rx = Append(@, 1)] ELSE c
Put(c, s) == IF Room(c, s) THEN [c EXCEPT ![s].rx = @ \o <<1, 2>>] ELSE c

\* netctl_notify: the message says which addresses of interface i are gone
\* and which are new.
Notify(group) ==
    [s \in Ctl |-> IF Hears(ctl, s, group) THEN Put(ctl, s)[s] ELSE ctl[s]]
Told(group, i, gone, new) ==
    [s \in Ctl |->
        IF ~Hears(ctl, s, group) THEN knows[s]
        ELSE IF ~Room(ctl, s) THEN Nothing
        ELSE [knows[s] EXCEPT ![i] = {(known \ gone) \cup new : known \in @}]]

-----------------------------------------------------------------------------
(* Devices.                                                                *)
Register ==
    /\ Cardinality(DOMAIN devices) < NETDEV_MAX_DEVICES /\ next_ifindex <= MaxIf
    /\ devices' = [i \in DOMAIN devices \cup {next_ifindex} |->
                    IF i = next_ifindex THEN [flag |-> FALSE, carrier |-> FALSE] ELSE devices[i]]
    /\ next_ifindex' = next_ifindex + 1
    /\ ctl' = Notify("link") /\ knows' = Told("link", next_ifindex, {}, {})
    /\ UNCHANGED <<addresses, routes>>

\* Removing a device removes its addresses and routes without a message for
\* each: the one about the device stands for them.
\* Fault: the routes through the device stay.
Unregister_KeepsRoutes(i) ==
    /\ Registered(i)
    /\ devices' = [j \in DOMAIN devices \ {i} |-> devices[j]]
    /\ addresses' = {e \in addresses : e[1] # i}
    /\ ctl' = Notify("link") /\ knows' = Told("link", i, IPv4, {})
    /\ UNCHANGED <<next_ifindex, routes>>
Unregister(i) ==
    /\ Registered(i)
    /\ devices' = [j \in DOMAIN devices \ {i} |-> devices[j]]
    /\ addresses' = {e \in addresses : e[1] # i}
    /\ routes' = [r \in Slot |-> IF routes[r].used /\ routes[r].oif = i
                                 THEN [routes[r] EXCEPT !.used = FALSE] ELSE routes[r]]
    /\ ctl' = Notify("link") /\ knows' = Told("link", i, IPv4, {})
    /\ UNCHANGED next_ifindex

\* netdev_set_carrier sets the flag too, and is silent when the carrier is
\* what it was.
SetCarrier(i, on) ==
    /\ Registered(i)
    /\ devices' = [devices EXCEPT ![i] = [flag |-> on, carrier |-> on]]
    /\ IF devices[i].carrier # on
       THEN ctl' = Notify("link") /\ knows' = Told("link", i, {}, {})
       ELSE UNCHANGED <<ctl, knows>>
    /\ UNCHANGED <<next_ifindex, addresses, routes>>

-----------------------------------------------------------------------------
(* Control sockets.                                                        *)
CtlCreate(s) ==
    /\ ~ctl[s].used /\ \A t \in Ctl : t < s => ctl[t].used
    /\ ctl' = [ctl EXCEPT ![s] = [ClosedCtl EXCEPT !.used = TRUE]]
    /\ knows' = [knows EXCEPT ![s] = Nothing]
    /\ UNCHANGED <<devices, next_ifindex, addresses, routes>>
CtlBind(s, groups) ==
    /\ ctl[s].used
    /\ ctl' = [ctl EXCEPT ![s].groups = groups]
    /\ knows' = [knows EXCEPT ![s] = Nothing]
    /\ UNCHANGED <<devices, next_ifindex, addresses, routes>>
CtlClose(s) ==
    /\ ctl[s].used
    /\ ctl' = [ctl EXCEPT ![s] = ClosedCtl]
    /\ knows' = [knows EXCEPT ![s] = Nothing]
    /\ UNCHANGED <<devices, next_ifindex, addresses, routes>>
\* netctl_socket_recv copies as many bytes as are asked for and there.
CtlRecv(s, n) ==
    /\ ctl[s].used /\ ctl[s].rx # <<>>
    /\ ctl' = [ctl EXCEPT ![s].rx = IF n < Len(@) THEN SubSeq(@, n + 1, Len(@)) ELSE <<>>]
    /\ UNCHANGED <<devices, next_ifindex, addresses, routes, knows>>

-----------------------------------------------------------------------------
(* Requests (netctl_socket_send).  The request is carried out and its      *)
(* subscribers are told; then the answer goes to the sender, or, without   *)
(* room for it, the send fails although the change stays.                  *)
Changed(s, group, i, gone, new) ==
    /\ ctl' = Put(Notify(group), s)
    /\ knows' = Told(group, i, gone, new)
\* An error answer, NOOP, GET_VERSION, NETDEV_LIST, NETDEV_GET, ROUTE_LIST.
Refuse(s) ==
    /\ ctl[s].used
    /\ ctl' = Put(ctl, s)
    /\ UNCHANGED <<devices, next_ifindex, addresses, routes, knows>>

SetFlags(s, i, on) ==
    /\ ctl[s].used /\ Registered(i)
    /\ devices' = [devices EXCEPT ![i].flag = on]
    /\ IF devices[i].flag # on THEN Changed(s, "link", i, {}, {})
       ELSE ctl' = Put(ctl, s) /\ UNCHANGED knows
    /\ UNCHANGED <<next_ifindex, addresses, routes>>

\* Fault: those who asked for address events are not told.
AddrFree == Cardinality(addresses) < NETDEV_MAX_DEVICES * NETDEV_MAX_ADDRS
AddrNew_Deaf(s, i, a) ==
    /\ ctl[s].used /\ Registered(i) /\ <<i, a>> \notin addresses /\ AddrFree
    /\ addresses' = addresses \cup {<<i, a>>}
    /\ Changed(s, "route", i, {}, {a})
    /\ UNCHANGED <<devices, next_ifindex, routes>>
AddrNew(s, i, a) ==
    /\ ctl[s].used /\ Registered(i) /\ <<i, a>> \notin addresses /\ AddrFree
    /\ addresses' = addresses \cup {<<i, a>>}
    /\ Changed(s, "addr", i, {}, {a})
    /\ UNCHANGED <<devices, next_ifindex, routes>>
AddrDel(s, i, a) ==
    /\ ctl[s].used /\ <<i, a>> \in addresses
    /\ addresses' = addresses \ {<<i, a>>}
    /\ Changed(s, "addr", i, {a}, {})
    /\ UNCHANGED <<devices, next_ifindex, routes>>

\* The list stops at NETDEV_MAX_ADDRS entries, although one interface may
\* hold more: a full list does not say what the addresses are.
AddrList(s, i) ==
    /\ ctl[s].used
    /\ ctl' = Put(ctl, s)
    /\ knows' = [knows EXCEPT ![s] =
            IF ~Room(ctl, s) THEN @
            ELSE [@ EXCEPT ![i] = IF Cardinality(AddrsOf(i)) < NETDEV_MAX_ADDRS
                                  THEN {AddrsOf(i)} ELSE {}]]
    /\ UNCHANGED <<devices, next_ifindex, addresses, routes>>

FreeRoute(r) == ~routes[r].used /\ \A q \in Slot : q < r => routes[q].used
RouteNew(s, r, route) ==
    /\ ctl[s].used /\ FreeRoute(r)
    /\ route.oif = 0 \/ Registered(route.oif)
    /\ routes' = [routes EXCEPT ![r] = route]
    /\ ctl' = Put(Notify("route"), s)
    /\ UNCHANGED <<devices, next_ifindex, addresses, knows>>
Selected(r, d, p) == routes[r].used /\ routes[r].prefix_len = p /\ routes[r].dest = d
RouteDel(s, r) ==
    /\ ctl[s].used /\ routes[r].used
    /\ \A q \in Slot : q < r => ~Selected(q, routes[r].dest, routes[r].prefix_len)
    /\ routes' = [routes EXCEPT ![r].used = FALSE]
    /\ ctl' = Put(Notify("route"), s)
    /\ UNCHANGED <<devices, next_ifindex, addresses, knows>>

-----------------------------------------------------------------------------
(* netdev_route_lookup: the longest prefix, then the lowest metric, found  *)
(* in one pass over the slots; 0 when no route matches.                    *)
RouteMatches(r, d) ==
    LET unit == 2 ^ (AddrBits - routes[r].prefix_len) IN
    routes[r].used /\ routes[r].dest \div unit = d \div unit

\* Fault: a lower metric wins over a longer prefix.
Better_ByMetric(r, best) == best = 0 \/ routes[r].metric < routes[best].metric
Better(r, best) ==
    \/ best = 0 \/ routes[r].prefix_len > routes[best].prefix_len
    \/ routes[r].prefix_len = routes[best].prefix_len /\ routes[r].metric < routes[best].metric
RouteLookup(d) ==
    LET best[r \in 0 .. NETDEV_MAX_ROUTES] ==
            IF r = 0 THEN 0
            ELSE IF RouteMatches(r, d) /\ Better(r, best[r - 1]) THEN r ELSE best[r - 1]
    IN  best[NETDEV_MAX_ROUTES]

-----------------------------------------------------------------------------
DeviceNext ==
    \/ Register
    \/ \E i \in If : Unregister(i) \/ \E on \in BOOLEAN : SetCarrier(i, on)
SocketNext ==
    \E s \in Ctl :
        \/ CtlCreate(s) \/ CtlClose(s) \/ Refuse(s)
        \/ \E groups \in SUBSET Groups : CtlBind(s, groups)
        \/ \E n \in 1 .. NETCTL_SOCKET_BUFFER : CtlRecv(s, n)
AddrNext ==
    \E s \in Ctl, i \in If :
        \/ AddrList(s, i) \/ \E on \in BOOLEAN : SetFlags(s, i, on)
        \/ \E a \in IPv4 : AddrNew(s, i, a) \/ AddrDel(s, i, a)
RouteNext ==
    \E s \in Ctl, r \in Slot :
        \/ RouteDel(s, r)
        \/ \E d \in IPv4, p \in 0 .. AddrBits, o \in If \cup {0}, m \in Metrics :
            RouteNew(s, r, RouteOf(d, p, o, m))

NetctlNext == DeviceNext \/ SocketNext \/ AddrNext \/ RouteNext
NetctlSpec == NetctlInit /\ [][NetctlNext]_netctlVars

-----------------------------------------------------------------------------
(* What a program that subscribes to link and address events and then asks *)
(* for the list knows is the truth, as long as no message of either was    *)
(* dropped: netdev_addr_add and _del, the list and the removal of a device *)
(* together tell it everything.                                            *)
MirrorExact ==
    \A s \in Ctl, i \in If :
        (ctl[s].used /\ {"link", "addr"} \subseteq ctl[s].groups)
            => knows[s][i] \subseteq {AddrsOf(i)}

(* Full rings, short reads and several writers leave whole messages in the *)
(* ring, after what remains of the one being read (netctl.c, "preserve     *)
(* framing in the RX ring").                                               *)
Framing ==
    \A s \in Ctl : LET rx == ctl[s].rx IN
        /\ Len(rx) <= NETCTL_SOCKET_BUFFER
        /\ rx # <<>> => rx[Len(rx)] = 2
        /\ \A k \in 1 .. Len(rx) - 1 : rx[k] # rx[k + 1]

(* No address and no route names an interface that is gone, whatever the   *)
(* order of registrations, removals and requests.                          *)
NoStaleInterface ==
    /\ \A e \in addresses : Registered(e[1])
    /\ \A r \in Slot : routes[r].used /\ routes[r].oif # 0 => Registered(routes[r].oif)

(* The one pass of netdev_route_lookup finds a route that no other one     *)
(* beats, however the slots were filled, freed and filled again.           *)
LookupIsBest ==
    \A d \in IPv4 : LET best == RouteLookup(d) IN
        IF best = 0 THEN \A r \in Slot : ~RouteMatches(r, d)
        ELSE /\ RouteMatches(best, d)
             /\ \A r \in Slot : RouteMatches(r, d) =>
                    \/ routes[r].prefix_len < routes[best].prefix_len
                    \/ /\ routes[r].prefix_len = routes[best].prefix_len
                       /\ routes[r].metric >= routes[best].metric

\* Addresses and routes are of interfaces that exist, the best route wins, and
\* a control socket hears whole messages that keep its copy exact
\* (netdev_unregister, netdev_route_lookup, netctl_broadcast).
InterfacesSound == NoStaleInterface /\ LookupIsBest /\ MirrorExact /\ Framing
=============================================================================
