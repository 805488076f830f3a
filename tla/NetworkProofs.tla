---------------------------- MODULE NetworkProofs ----------------------------
(***************************************************************************)
(* Proofs about the network: Sockets, InetSockets, Cards, Netctl and Tcp,  *)
(* for tables of every size and any number of calls.                       *)
(*                                                                         *)
(* Internet sockets first: a sub-socket belongs to one socket.  Its        *)
(* invariant gives "one" as existence and uniqueness, which the library's  *)
(* facts turn into the cardinality that InetSockets states.                *)
(***************************************************************************)
EXTENDS Sockets, InetSockets, Cards, Netctl, Tcp, Loops, FiniteSetTheorems, SequenceTheorems

SubRec == [active : BOOLEAN, port : Nat, rx_ready : BOOLEAN, to : Nat, fresh : BOOLEAN]
InetRec == [used : BOOLEAN, kind : Kinds, id : Nat, refcount : Nat]

InetTypeOK ==
    /\ isock \in [ISock -> InetRec]
    /\ sub \in [Kinds -> [Sub -> SubRec]]
    /\ udp_ephemeral \in 1 .. Len(Ephemeral)
    /\ irefs \in [ISock -> Nat]

\* Socket s stands for sub-socket u of kind k.
Stands(s, k, u) == isock[s].used /\ isock[s].kind = k /\ isock[s].id = u

InetRefs == \A s \in ISock : /\ isock[s].refcount = irefs[s]
                             /\ isock[s].used <=> irefs[s] > 0
HasSub == \A s \in ISock : isock[s].used =>
            isock[s].id \in Sub /\ sub[isock[s].kind][isock[s].id].active
HasOwner == \A k \in Kinds : \A u \in Sub :
            sub[k][u].active => \E s \in ISock : Stands(s, k, u)
OneOwner == \A s, t \in ISock : \A k \in Kinds : \A u \in Sub :
            Stands(s, k, u) /\ Stands(t, k, u) => s = t
RawNoPort == \A u \in Sub : sub["icmp"][u].port = 0

InetInv == /\ InetTypeOK /\ InetRefs /\ HasSub /\ HasOwner /\ OneOwner
           /\ RawNoPort /\ NoStalePacket

LEMMA InetSizes == INET_SOCKETS \in Nat /\ SUB_SOCKETS \in Nat
                   /\ Len(Ephemeral) \in Nat \ {0}
BY InetAssumption, EmptySeq, LenProperties

LEMMA KindsDiffer == /\ "udp" \in Kinds /\ "icmp" \in Kinds /\ "ctl" \in Kinds
                     /\ "udp" # "icmp" /\ "udp" # "ctl"
BY DEF Kinds

LEMMA PortForOk ==
    ASSUME InetTypeOK, NEW kind \in Kinds
    PROVE PortFor(kind) \in Nat /\ (kind = "icmp" => PortFor(kind) = 0)
<1>1. Ephemeral[udp_ephemeral] \in Nat
  BY InetAssumption, ElementOfSeq DEF InetTypeOK
<1>. QED
  BY <1>1 DEF PortFor

LEMMA NextEphemeralOk ==
    ASSUME InetTypeOK, NEW kind \in Kinds PROVE NextEphemeral(kind) \in 1 .. Len(Ephemeral)
<1>1. DOMAIN Ephemeral = 1 .. Len(Ephemeral)
  BY InetAssumption
<1>2. Cardinality(DOMAIN Ephemeral) = Len(Ephemeral)
  BY <1>1, InetSizes, FS_Interval
<1>. QED
  BY <1>2, InetSizes DEF NextEphemeral, InetTypeOK

\* What sub[kind][u] = rec does to the sub-sockets.
LEMMA SubUpdate ==
    ASSUME NEW old \in [Kinds -> [Sub -> SubRec]], NEW kind \in Kinds, NEW u \in Sub,
           NEW rec \in SubRec
    PROVE  LET new == [old EXCEPT ![kind][u] = rec] IN
           /\ new \in [Kinds -> [Sub -> SubRec]]
           /\ new[kind][u] = rec
           /\ \A k \in Kinds, v \in Sub : <<k, v>> # <<kind, u>> => new[k][v] = old[k][v]
OBVIOUS

LEMMA SubField ==
    ASSUME NEW old \in [Kinds -> [Sub -> SubRec]], NEW kind \in Kinds, NEW u \in Sub,
           NEW rec \in SubRec, NEW on \in BOOLEAN
    PROVE  /\ [rec EXCEPT !.active = on] \in SubRec
           /\ [rec EXCEPT !.active = on].active = on
           /\ [rec EXCEPT !.active = on].port = rec.port
           /\ [[old EXCEPT ![kind][u] = rec] EXCEPT ![kind][u].active = on]
                = [old EXCEPT ![kind][u] = [rec EXCEPT !.active = on]]
           /\ [old EXCEPT ![kind][u].active = on]
                = [old EXCEPT ![kind][u] = [old[kind][u] EXCEPT !.active = on]]
BY DEF SubRec

\* One field of a socket changes.
LEMMA SockField ==
    ASSUME NEW old \in [ISock -> InetRec], NEW s \in ISock, NEW n \in Nat
    PROVE  /\ [old EXCEPT ![s].refcount = n] \in [ISock -> InetRec]
           /\ [old EXCEPT ![s].refcount = n][s] = [old[s] EXCEPT !.refcount = n]
           /\ [old EXCEPT ![s].id = n] \in [ISock -> InetRec]
           /\ [old EXCEPT ![s].id = n][s] = [old[s] EXCEPT !.id = n]
BY DEF InetRec

\* Opened, and a slot opened and closed at once.
Empty(port) == [NoSub EXCEPT !.active = TRUE, !.port = port]
LEMMA OpenedIs ==
    ASSUME NEW kind \in Kinds, NEW u \in Sub, NEW port \in Nat
    PROVE  /\ Empty(port) \in SubRec /\ Empty(port).active /\ ~Empty(port).rx_ready
           /\ Empty(port).port = port
           /\ Opened(kind, u, port) = [sub EXCEPT ![kind][u] = Empty(port)]
BY DEF Opened, Empty, NoSub, SubRec

LEMMA InetInitInv == ASSUME InetInit PROVE InetInv
<1>. USE InetSizes DEF InetInit, NoSocket, NoSub
<1>1. InetTypeOK
  BY DEF InetTypeOK, InetRec, SubRec, Kinds
<1>. QED
  BY <1>1, KindsDiffer
     DEF InetInv, InetRefs, HasSub, HasOwner, OneOwner, RawNoPort, NoStalePacket, Stands

\* A sub-socket that nobody stands for is free.
LEMMA InetOpenInv ==
    ASSUME InetInv, NEW kind \in Kinds, NEW s \in ISock, InetOpen(s, kind) PROVE InetInv'
<1>1. PICK u \in LowestFree(sub[kind]) :
        /\ FreeSocket(s)
        /\ sub' = Opened(kind, u, PortFor(kind))
        /\ udp_ephemeral' = NextEphemeral(kind)
        /\ isock' = [isock EXCEPT ![s] = [used |-> TRUE, kind |-> kind, id |-> u, refcount |-> 1]]
        /\ irefs' = [irefs EXCEPT ![s] = 1]
  BY DEF InetOpen
<1>2. u \in Sub /\ ~sub[kind][u].active
  BY <1>1 DEF LowestFree
<1>3. ~isock[s].used
  BY <1>1 DEF FreeSocket
<1>. DEFINE rec == Empty(PortFor(kind))
<1>4. InetTypeOK
  BY DEF InetInv
<1>5. /\ rec \in SubRec /\ rec.active /\ ~rec.rx_ready /\ rec.port = PortFor(kind)
      /\ sub' = [sub EXCEPT ![kind][u] = rec]
  BY <1>1, <1>2, <1>4, PortForOk, OpenedIs
<1>. HIDE DEF rec
<1>6. /\ sub' \in [Kinds -> [Sub -> SubRec]]
      /\ sub'[kind][u] = rec
      /\ \A k \in Kinds, v \in Sub : <<k, v>> # <<kind, u>> => sub'[k][v] = sub[k][v]
  BY <1>2, <1>4, <1>5, SubUpdate DEF InetTypeOK
<1>7. InetTypeOK'
  BY <1>1, <1>2, <1>4, <1>6, NextEphemeralOk DEF InetTypeOK, InetRec, Sub
<1>8. InetRefs'
  BY <1>1, <1>4 DEF InetInv, InetRefs, InetTypeOK
<1>9. HasSub'
  BY <1>1, <1>2, <1>3, <1>4, <1>5, <1>6 DEF InetInv, HasSub, InetTypeOK, InetRec
<1>10. HasOwner'
  <2>. SUFFICES ASSUME NEW k \in Kinds, NEW v \in Sub, sub'[k][v].active
                PROVE \E t \in ISock : Stands(t, k, v)'
    BY DEF HasOwner
  <2>1. CASE <<k, v>> = <<kind, u>>
    BY <2>1, <1>1, <1>4 DEF Stands, InetTypeOK
  <2>2. CASE <<k, v>> # <<kind, u>>
    <3>1. PICK t \in ISock : Stands(t, k, v)
      BY <2>2, <1>6 DEF InetInv, HasOwner
    <3>2. t # s /\ isock'[t] = isock[t]
      BY <3>1, <1>1, <1>3, <1>4 DEF Stands, InetTypeOK
    <3>. QED
      BY <3>1, <3>2 DEF Stands
  <2>. QED
    BY <2>1, <2>2
<1>11. OneOwner'
  BY <1>1, <1>2, <1>3, <1>4 DEF InetInv, OneOwner, HasSub, Stands, InetTypeOK, InetRec
<1>12. RawNoPort'
  BY <1>4, <1>5, <1>6, PortForOk, KindsDiffer DEF InetInv, RawNoPort
<1>13. NoStalePacket'
  BY <1>5, <1>6, KindsDiffer DEF InetInv, NoStalePacket
<1>. QED
  BY <1>7, <1>8, <1>9, <1>10, <1>11, <1>12, <1>13 DEF InetInv

\* A step of the sub-sockets that leaves the sockets and who is active alone.
LEMMA SocketsStay ==
    ASSUME InetInv, UNCHANGED <<isock, irefs>>,
           udp_ephemeral' \in 1 .. Len(Ephemeral),
           sub' \in [Kinds -> [Sub -> SubRec]],
           \A k \in Kinds, v \in Sub : sub'[k][v].active = sub[k][v].active
    PROVE  InetTypeOK' /\ InetRefs' /\ HasSub' /\ HasOwner' /\ OneOwner'
<1>1. InetTypeOK' /\ InetRefs' /\ HasSub' /\ OneOwner'
  BY DEF InetInv, InetTypeOK, InetRec, InetRefs, HasSub, OneOwner, Stands
<1>2. HasOwner'
  BY DEF InetInv, HasOwner, Stands
<1>. QED
  BY <1>1, <1>2

LEMMA OpenNoFdInv ==
    ASSUME InetInv, NEW kind \in Kinds, OpenNoFd(kind) PROVE InetInv'
<1>1. PICK u \in LowestFree(sub[kind]) :
        /\ sub' = [Opened(kind, u, PortFor(kind)) EXCEPT ![kind][u].active = FALSE]
        /\ udp_ephemeral' = NextEphemeral(kind)
        /\ UNCHANGED <<isock, irefs>>
  BY DEF OpenNoFd
<1>2. u \in Sub /\ ~sub[kind][u].active
  BY <1>1 DEF LowestFree
<1>3. InetTypeOK
  BY DEF InetInv
<1>. DEFINE rec == Empty(PortFor(kind))
            left == [rec EXCEPT !.active = FALSE]
<1>4. /\ rec \in SubRec /\ Opened(kind, u, PortFor(kind)) = [sub EXCEPT ![kind][u] = rec]
  BY <1>2, <1>3, PortForOk, OpenedIs
<1>5. left \in SubRec /\ left.active = FALSE /\ ~left.rx_ready /\ left.port = PortFor(kind)
  BY <1>3, PortForOk DEF Empty, NoSub, SubRec
<1>. HIDE DEF rec
<1>. DEFINE mid == Opened(kind, u, PortFor(kind))
<1>6. /\ mid \in [Kinds -> [Sub -> SubRec]] /\ mid[kind][u] = rec
      /\ \A k \in Kinds, v \in Sub : <<k, v>> # <<kind, u>> => mid[k][v] = sub[k][v]
  BY <1>2, <1>3, <1>4, SubUpdate DEF InetTypeOK
<1>. HIDE DEF mid
<1>7. /\ sub' \in [Kinds -> [Sub -> SubRec]] /\ sub'[kind][u] = left
      /\ \A k \in Kinds, v \in Sub : <<k, v>> # <<kind, u>> => sub'[k][v] = sub[k][v]
  <2>1. sub' = [mid EXCEPT ![kind][u].active = FALSE]
    BY <1>1 DEF mid
  <2>2. sub' = [mid EXCEPT ![kind][u] = left]
    BY ONLY <1>2, <1>6, <2>1, kind \in Kinds, SubField DEF left
  <2>. HIDE DEF left
  <2>. QED
    BY <1>2, <1>5, <1>6, <2>2, SubUpdate
<1>. HIDE DEF left
<1>8. \A k \in Kinds, v \in Sub : sub'[k][v].active = sub[k][v].active
  <2>1. sub[kind][u].active = FALSE
    BY <1>2, <1>3 DEF InetTypeOK, SubRec
  <2>. QED
    BY <2>1, <1>5, <1>7
<1>9. InetTypeOK' /\ InetRefs' /\ HasSub' /\ HasOwner' /\ OneOwner'
  BY <1>1, <1>3, <1>7, <1>8, NextEphemeralOk, SocketsStay
<1>10. RawNoPort'
  BY <1>3, <1>5, <1>7, PortForOk, KindsDiffer DEF InetInv, RawNoPort
<1>11. NoStalePacket'
  BY <1>5, <1>7, KindsDiffer DEF InetInv, NoStalePacket
<1>. QED
  BY <1>9, <1>10, <1>11 DEF InetInv

LEMMA InetAddRefInv == ASSUME InetInv, NEW s \in ISock, InetAddRef(s) PROVE InetInv'
<1>. USE DEF InetAddRef, InetInv
<1>1. \A t \in ISock : /\ isock'[t].used = isock[t].used /\ isock'[t].kind = isock[t].kind
                       /\ isock'[t].id = isock[t].id
  BY DEF InetTypeOK, InetRec
<1>2. InetTypeOK'
  <2>1. isock[s].refcount + 1 \in Nat
    BY DEF InetTypeOK, InetRec
  <2>2. isock' \in [ISock -> InetRec]
    <3>1. isock \in [ISock -> InetRec] /\ isock' = [isock EXCEPT ![s].refcount = @ + 1]
      BY DEF InetTypeOK
    <3>. QED
      BY ONLY <2>1, <3>1, SockField
  <2>. QED
    BY <2>2 DEF InetTypeOK
<1>3. InetRefs'
  BY DEF InetTypeOK, InetRec, InetRefs
<1>4. HasSub' /\ OneOwner'
  BY <1>1 DEF HasSub, OneOwner, Stands
<1>5. HasOwner'
  BY <1>1 DEF HasOwner, Stands
<1>6. RawNoPort' /\ NoStalePacket'
  BY DEF RawNoPort, NoStalePacket
<1>. QED
  BY <1>2, <1>3, <1>4, <1>5, <1>6

LEMMA InetBindInv ==
    ASSUME InetInv, NEW s \in ISock, NEW port \in Ports, InetBind(s, port) PROVE InetInv'
<1>. DEFINE i == isock[s].id
            closed == ClosedSub("udp", i)
            rec == Empty(port)
<1>0. InetTypeOK /\ isock[s].used /\ isock[s].kind = "udp" /\ irefs[s] > 0
  BY DEF InetBind, InetInv
<1>1. i \in Sub /\ sub["udp"][i].active /\ port \in Nat
  BY <1>0, InetAssumption DEF InetInv, HasSub
<1>2. /\ closed \in [Kinds -> [Sub -> SubRec]]
      /\ closed["udp"][i] = [sub["udp"][i] EXCEPT !.active = FALSE]
      /\ \A k \in Kinds, v \in Sub : <<k, v>> # <<"udp", i>> => closed[k][v] = sub[k][v]
  <2>. DEFINE off == [sub["udp"][i] EXCEPT !.active = FALSE]
  <2>. HIDE DEF i
  <2>1. sub["udp"][i] \in SubRec
    BY <1>0, <1>1, KindsDiffer DEF InetTypeOK
  <2>2. closed = [sub EXCEPT !["udp"][i] = off] /\ off \in SubRec
    BY <1>0, <1>1, <2>1, KindsDiffer, SubField DEF ClosedSub, InetTypeOK
  <2>. HIDE DEF closed, off
  <2>3. /\ closed \in [Kinds -> [Sub -> SubRec]] /\ closed["udp"][i] = off
        /\ \A k \in Kinds, v \in Sub : <<k, v>> # <<"udp", i>> => closed[k][v] = sub[k][v]
    BY <1>0, <1>1, <2>2, KindsDiffer, SubUpdate DEF InetTypeOK
  <2>. QED
    BY <2>3 DEF off
<1>3. PICK u \in LowestFree(closed["udp"]) :
        /\ sub' = [closed EXCEPT !["udp"][u] = Opened("udp", u, port)["udp"][u]]
        /\ isock' = [isock EXCEPT ![s].id = u]
        /\ UNCHANGED <<udp_ephemeral, irefs>>
  BY DEF InetBind
<1>4. u \in Sub /\ ~closed["udp"][u].active
  BY <1>3 DEF LowestFree
<1>5. rec \in SubRec /\ rec.active /\ ~rec.rx_ready /\ Opened("udp", u, port)["udp"][u] = rec
  BY <1>0, <1>1, <1>4, OpenedIs, KindsDiffer, SubUpdate DEF InetTypeOK
<1>. HIDE DEF closed, rec, i
<1>6. /\ sub' \in [Kinds -> [Sub -> SubRec]] /\ sub'["udp"][u] = rec
      /\ \A k \in Kinds, v \in Sub : <<k, v>> # <<"udp", u>> => sub'[k][v] = closed[k][v]
  <2>. sub' = [closed EXCEPT !["udp"][u] = rec]
    BY <1>3, <1>5
  <2>. QED
    BY <1>2, <1>4, <1>5, KindsDiffer, SubUpdate
\* The slot it had is closed, the one it takes was free or is the same.
<1>7. \A v \in Sub : v # u => /\ v = i => ~sub'["udp"][v].active
                              /\ v # i => sub'["udp"][v] = sub["udp"][v]
  <2>1. ~closed["udp"][i].active
    <3>1. sub["udp"][i] \in SubRec
      BY <1>0, <1>1, KindsDiffer DEF InetTypeOK
    <3>. QED
      BY <3>1, <1>2 DEF SubRec
  <2>2. ASSUME NEW v \in Sub, v # u PROVE sub'["udp"][v] = closed["udp"][v]
    BY <2>2, <1>6, KindsDiffer
  <2>3. ASSUME NEW v \in Sub, v # i PROVE closed["udp"][v] = sub["udp"][v]
    BY <2>3, <1>2, KindsDiffer
  <2>. QED
    BY <2>1, <2>2, <2>3
<1>8. \A k \in Kinds : k # "udp" => \A v \in Sub : sub'[k][v] = sub[k][v]
  BY <1>2, <1>6
<1>9. u = i \/ ~sub["udp"][u].active
  BY <1>2, <1>4, KindsDiffer
<1>10. /\ \A t \in ISock : t # s => isock'[t] = isock[t]
       /\ isock'[s].used /\ isock'[s].kind = "udp" /\ isock'[s].id = u
       /\ isock'[s].refcount = isock[s].refcount
  BY <1>0, <1>3 DEF InetTypeOK, InetRec
<1>11. InetTypeOK'
  <2>1. u \in Nat /\ isock \in [ISock -> InetRec]
    BY <1>0, <1>4 DEF InetTypeOK, Sub
  <2>2. isock' \in [ISock -> InetRec]
    BY ONLY <1>3, <2>1, s \in ISock, SockField
  <2>. QED
    BY <1>0, <1>3, <1>6, <2>2 DEF InetTypeOK
<1>12. InetRefs'
  BY <1>0, <1>3, <1>10 DEF InetRefs, InetInv
<1>13. \A t \in ISock : t # s /\ isock[t].used /\ isock[t].kind = "udp" =>
            isock[t].id \in Sub /\ isock[t].id # i /\ isock[t].id # u
  BY <1>0, <1>1, <1>9, KindsDiffer DEF InetInv, HasSub, OneOwner, Stands, i
<1>14. HasSub'
  <2>. SUFFICES ASSUME NEW t \in ISock, isock'[t].used
                PROVE isock'[t].id \in Sub /\ sub'[isock'[t].kind][isock'[t].id].active
    BY DEF HasSub
  <2>1. CASE t = s
    BY <2>1, <1>4, <1>5, <1>6, <1>10
  <2>2. CASE t # s
    <3>1. isock[t].kind \in Kinds
      BY <1>0 DEF InetTypeOK, InetRec
    <3>. QED
      BY <2>2, <3>1, <1>7, <1>8, <1>10, <1>13 DEF InetInv, HasSub
  <2>. QED
    BY <2>1, <2>2
<1>15. HasOwner'
  <2>. SUFFICES ASSUME NEW k \in Kinds, NEW v \in Sub, sub'[k][v].active
                PROVE \E t \in ISock : Stands(t, k, v)'
    BY DEF HasOwner
  <2>1. CASE k = "udp" /\ v = u
    BY <2>1, <1>10 DEF Stands
  <2>2. CASE ~(k = "udp" /\ v = u)
    <3>1. sub[k][v].active /\ ~(k = "udp" /\ v = i)
      BY <2>2, <1>7, <1>8
    <3>2. PICK t \in ISock : Stands(t, k, v)
      BY <3>1 DEF InetInv, HasOwner
    <3>3. t # s
      BY <3>1, <3>2, <1>0 DEF Stands, i
    <3>. QED
      BY <3>2, <3>3, <1>10 DEF Stands
  <2>. QED
    BY <2>1, <2>2
<1>16. OneOwner'
  BY <1>10, <1>13 DEF InetInv, OneOwner, Stands
<1>17. RawNoPort'
  BY <1>8, KindsDiffer DEF InetInv, RawNoPort
<1>18. NoStalePacket'
  BY <1>5, <1>6, <1>7, <1>8, KindsDiffer DEF InetInv, NoStalePacket
<1>. QED
  BY <1>11, <1>12, <1>14, <1>15, <1>16, <1>17, <1>18 DEF InetInv

LEMMA InetCloseInv == ASSUME InetInv, NEW s \in ISock, InetClose(s) PROVE InetInv'
<1>1. /\ InetTypeOK /\ isock[s].used /\ irefs[s] > 0
      /\ irefs' = [irefs EXCEPT ![s] = @ - 1] /\ UNCHANGED udp_ephemeral
  BY DEF InetClose, InetInv
<1>2. CASE isock[s].refcount > 1
  <2>1. isock' = [isock EXCEPT ![s].refcount = @ - 1] /\ UNCHANGED sub
    BY <1>2 DEF InetClose
  <2>2. \A t \in ISock : /\ isock'[t].used = isock[t].used /\ isock'[t].kind = isock[t].kind
                         /\ isock'[t].id = isock[t].id
    BY <1>1, <2>1 DEF InetTypeOK, InetRec
  <2>3. InetTypeOK'
    <3>1. isock[s].refcount - 1 \in Nat /\ irefs[s] - 1 \in Nat
      BY <1>1, <1>2 DEF InetTypeOK, InetRec
    <3>. QED
      BY <1>1, <2>1, <3>1, SockField DEF InetTypeOK
  <2>4. InetRefs'
    BY <1>1, <1>2, <2>1 DEF InetTypeOK, InetRec, InetRefs, InetInv
  <2>5. HasSub' /\ OneOwner'
    BY <2>1, <2>2 DEF InetInv, HasSub, OneOwner, Stands
  <2>6. HasOwner'
    BY <2>1, <2>2 DEF InetInv, HasOwner, Stands
  <2>7. RawNoPort' /\ NoStalePacket'
    BY <2>1 DEF InetInv, RawNoPort, NoStalePacket
  <2>. QED
    BY <2>3, <2>4, <2>5, <2>6, <2>7 DEF InetInv
<1>3. CASE ~(isock[s].refcount > 1)
  <2>. DEFINE k0 == isock[s].kind
              i == isock[s].id
              rec == [sub[k0][i] EXCEPT !.active = FALSE]
  <2>1. isock' = [isock EXCEPT ![s] = NoSocket] /\ sub' = ClosedSub(k0, i)
    BY <1>3 DEF InetClose
  <2>2. k0 \in Kinds /\ i \in Sub /\ sub[k0][i] \in SubRec
    BY <1>1 DEF InetInv, HasSub, InetTypeOK, InetRec
  <2>3. rec \in SubRec /\ ~rec.active /\ rec.port = sub[k0][i].port
    BY <2>2 DEF SubRec
  <2>4. sub' = [sub EXCEPT ![k0][i] = rec]
    BY <1>1, <2>1, <2>2 DEF ClosedSub, InetTypeOK
  <2>5. irefs[s] = 1
    BY <1>1, <1>3 DEF InetInv, InetRefs, InetTypeOK
  <2>. HIDE DEF k0, i, rec
  <2>6. /\ sub' \in [Kinds -> [Sub -> SubRec]] /\ sub'[k0][i] = rec
        /\ \A k \in Kinds, v \in Sub : <<k, v>> # <<k0, i>> => sub'[k][v] = sub[k][v]
    BY <1>1, <2>2, <2>3, <2>4, SubUpdate DEF InetTypeOK
  <2>7. /\ ~isock'[s].used /\ isock'[s].refcount = 0
        /\ \A t \in ISock : t # s => isock'[t] = isock[t]
    BY <1>1, <2>1 DEF InetTypeOK, NoSocket
  <2>8. \A t \in ISock : t # s /\ isock[t].used => <<isock[t].kind, isock[t].id>> # <<k0, i>>
    BY <1>1, <2>2 DEF InetInv, OneOwner, Stands, k0, i
  <2>9. InetTypeOK'
    BY <1>1, <2>1, <2>6, KindsDiffer DEF InetTypeOK, InetRec, NoSocket
  <2>10. InetRefs'
    BY <1>1, <2>5, <2>7 DEF InetInv, InetRefs, InetTypeOK
  <2>11. HasSub'
    <3>. SUFFICES ASSUME NEW t \in ISock, isock'[t].used
                  PROVE isock'[t].id \in Sub /\ sub'[isock'[t].kind][isock'[t].id].active
      BY DEF HasSub
    <3>1. t # s /\ isock'[t] = isock[t] /\ isock[t].kind \in Kinds /\ isock[t].id \in Sub
          /\ sub[isock[t].kind][isock[t].id].active
      BY <1>1, <2>7 DEF InetInv, HasSub, InetTypeOK, InetRec
    <3>2. <<isock[t].kind, isock[t].id>> # <<k0, i>>
      BY <3>1, <2>8
    <3>. QED
      BY <3>1, <3>2, <2>6
  <2>12. HasOwner'
    <3>. SUFFICES ASSUME NEW k \in Kinds, NEW v \in Sub, sub'[k][v].active
                  PROVE \E t \in ISock : Stands(t, k, v)'
      BY DEF HasOwner
    <3>1. <<k, v>> # <<k0, i>> /\ sub[k][v].active
      BY <2>3, <2>6
    <3>2. PICK t \in ISock : Stands(t, k, v)
      BY <3>1 DEF InetInv, HasOwner
    <3>3. t # s
      BY <3>1, <3>2 DEF Stands, k0, i
    <3>. QED
      BY <3>2, <3>3, <2>7 DEF Stands
  <2>13. OneOwner'
    BY <2>7 DEF InetInv, OneOwner, Stands
  <2>14. RawNoPort'
    <3>. SUFFICES ASSUME NEW u \in Sub PROVE sub'["icmp"][u].port = 0
      BY DEF RawNoPort
    <3>1. sub["icmp"][u].port = 0
      BY DEF InetInv, RawNoPort
    <3>2. CASE <<"icmp", u>> = <<k0, i>>
      BY <2>3, <2>6, <3>1, <3>2
    <3>3. CASE <<"icmp", u>> # <<k0, i>>
      BY <2>6, <3>1, <3>3, KindsDiffer
    <3>. QED
      BY <3>2, <3>3
  <2>15. NoStalePacket'
    <3>. SUFFICES ASSUME NEW k \in {"udp", "icmp"}, NEW u \in Sub,
                         sub'[k][u].active, sub'[k][u].rx_ready
                  PROVE sub'[k][u].fresh /\ sub'[k][u].to = sub'[k][u].port
      BY DEF NoStalePacket
    <3>1. <<k, u>> # <<k0, i>>
      BY <2>3, <2>6
    <3>. QED
      BY <2>6, <3>1, KindsDiffer DEF InetInv, NoStalePacket
  <2>. QED
    BY <2>9, <2>10, <2>11, <2>12, <2>13, <2>14, <2>15 DEF InetInv
<1>. QED
  BY <1>2, <1>3

LEMMA InetRecvInv == ASSUME InetInv, NEW s \in ISock, InetRecv(s) PROVE InetInv'
<1>. DEFINE k0 == isock[s].kind
            i == isock[s].id
            rec == [sub[k0][i] EXCEPT !.rx_ready = FALSE]
<1>1. /\ InetTypeOK /\ isock[s].used /\ UNCHANGED <<isock, udp_ephemeral, irefs>>
      /\ sub' = [sub EXCEPT ![k0][i].rx_ready = FALSE]
  BY DEF InetRecv, InetInv
<1>2. k0 \in Kinds /\ i \in Sub /\ sub[k0][i] \in SubRec
  BY <1>1 DEF InetInv, HasSub, InetTypeOK, InetRec
<1>. HIDE DEF k0, i
<1>3. /\ rec \in SubRec /\ rec.active = sub[k0][i].active
      /\ rec.port = sub[k0][i].port /\ ~rec.rx_ready
  BY <1>2 DEF SubRec
<1>4. sub' = [sub EXCEPT ![k0][i] = rec]
  BY <1>1, <1>2 DEF InetTypeOK
<1>. HIDE DEF rec
<1>5. /\ sub' \in [Kinds -> [Sub -> SubRec]] /\ sub'[k0][i] = rec
      /\ \A k \in Kinds, v \in Sub : <<k, v>> # <<k0, i>> => sub'[k][v] = sub[k][v]
  <2>1. sub \in [Kinds -> [Sub -> SubRec]] /\ rec \in SubRec
    BY <1>1, <1>3 DEF InetTypeOK
  <2>. QED
    BY ONLY <1>2, <1>4, <2>1, SubUpdate
<1>6. \A k \in Kinds, v \in Sub : sub'[k][v].active = sub[k][v].active
                                  /\ sub'[k][v].port = sub[k][v].port
  BY <1>3, <1>5
<1>7. InetTypeOK' /\ InetRefs' /\ HasSub' /\ HasOwner' /\ OneOwner'
  BY <1>1, <1>5, <1>6, SocketsStay DEF InetTypeOK
<1>8. RawNoPort'
  BY <1>6, KindsDiffer DEF InetInv, RawNoPort
<1>9. NoStalePacket'
  <2>. SUFFICES ASSUME NEW k \in {"udp", "icmp"}, NEW u \in Sub,
                       sub'[k][u].active, sub'[k][u].rx_ready
                PROVE sub'[k][u].fresh /\ sub'[k][u].to = sub'[k][u].port
    BY DEF NoStalePacket
  <2>. QED
    BY <1>3, <1>5, KindsDiffer DEF InetInv, NoStalePacket
<1>. QED
  BY <1>7, <1>8, <1>9 DEF InetInv

\* A packet fills one sub-socket or some of them, for the port it was sent to.
LEMMA FilledIs ==
    ASSUME NEW r \in SubRec, NEW to \in Nat
    PROVE  /\ Filled(r, to) \in SubRec /\ Filled(r, to).active = r.active
           /\ Filled(r, to).port = r.port /\ Filled(r, to).fresh /\ Filled(r, to).to = to
BY DEF Filled, SubRec

LEMMA DeliveryInv ==
    ASSUME InetInv, UNCHANGED <<isock, udp_ephemeral, irefs>>,
           NEW kind \in {"udp", "icmp"}, NEW hit \in SUBSET Sub, NEW port \in Nat,
           \A u \in hit : sub[kind][u].port = port,
           sub' = [sub EXCEPT ![kind] =
                    [u \in Sub |-> IF u \in hit THEN Filled(sub[kind][u], port) ELSE sub[kind][u]]]
    PROVE  InetInv'
<1>1. InetTypeOK /\ kind \in Kinds
  BY KindsDiffer DEF InetInv
<1>2. \A k \in Kinds, u \in Sub : sub[k][u] \in SubRec
  BY <1>1 DEF InetTypeOK
<1>3. \A u \in Sub : sub'[kind][u] = IF u \in hit THEN Filled(sub[kind][u], port)
                                     ELSE sub[kind][u]
  BY <1>1 DEF InetTypeOK
<1>4. \A k \in Kinds : k # kind => sub'[k] = sub[k]
  BY <1>1 DEF InetTypeOK
<1>5. sub' \in [Kinds -> [Sub -> SubRec]]
  <2>1. [u \in Sub |-> IF u \in hit THEN Filled(sub[kind][u], port) ELSE sub[kind][u]]
            \in [Sub -> SubRec]
    BY <1>1, <1>2, FilledIs
  <2>. QED
    BY <1>1, <2>1 DEF InetTypeOK
<1>6. \A k \in Kinds, u \in Sub : sub'[k][u].active = sub[k][u].active
                                  /\ sub'[k][u].port = sub[k][u].port
  BY <1>1, <1>2, <1>3, <1>4, FilledIs
<1>7. InetTypeOK' /\ InetRefs' /\ HasSub' /\ HasOwner' /\ OneOwner'
  BY <1>1, <1>5, <1>6, SocketsStay DEF InetTypeOK
<1>8. RawNoPort'
  BY <1>6, KindsDiffer DEF InetInv, RawNoPort
<1>9. NoStalePacket'
  <2>. SUFFICES ASSUME NEW k \in {"udp", "icmp"}, NEW u \in Sub,
                       sub'[k][u].active, sub'[k][u].rx_ready
                PROVE sub'[k][u].fresh /\ sub'[k][u].to = sub'[k][u].port
    BY DEF NoStalePacket
  <2>1. CASE k = kind /\ u \in hit
    BY <2>1, <1>1, <1>2, <1>3, FilledIs
  <2>2. CASE ~(k = kind /\ u \in hit)
    <3>1. sub'[k][u] = sub[k][u]
      BY <2>2, <1>3, <1>4, KindsDiffer
    <3>. QED
      BY <3>1 DEF InetInv, NoStalePacket
  <2>. QED
    BY <2>1, <2>2
<1>. QED
  BY <1>7, <1>8, <1>9 DEF InetInv

LEMMA UdpHandleInv ==
    ASSUME InetInv, NEW port \in AllPorts, UdpHandle(port) PROVE InetInv'
<1>. DEFINE here == {u \in Sub : sub["udp"][u].active /\ sub["udp"][u].port = port}
            hit == {u \in here : \A v \in here : u <= v}
<1>1. port \in Nat
  BY InetAssumption, ElementOfSeq DEF AllPorts
<1>2. sub' = [sub EXCEPT !["udp"] =
                [u \in Sub |-> IF u \in hit THEN Filled(sub["udp"][u], port) ELSE sub["udp"][u]]]
  BY KindsDiffer DEF UdpHandle, InetInv, InetTypeOK
<1>3. hit \in SUBSET Sub /\ \A u \in hit : sub["udp"][u].port = port
  OBVIOUS
<1>4. UNCHANGED <<isock, udp_ephemeral, irefs>>
  BY DEF UdpHandle
<1>. HIDE DEF hit
<1>. QED
  BY <1>1, <1>2, <1>3, <1>4, DeliveryInv

LEMMA IcmpDeliverInv == ASSUME InetInv, IcmpDeliver PROVE InetInv'
<1>. DEFINE hit == {u \in Sub : sub["icmp"][u].active /\ ~sub["icmp"][u].rx_ready}
<1>1. sub' = [sub EXCEPT !["icmp"] =
                [u \in Sub |-> IF u \in hit THEN Filled(sub["icmp"][u], 0) ELSE sub["icmp"][u]]]
  BY KindsDiffer DEF IcmpDeliver, InetInv, InetTypeOK
<1>2. hit \in SUBSET Sub /\ \A u \in hit : sub["icmp"][u].port = 0
  BY DEF InetInv, RawNoPort
<1>3. UNCHANGED <<isock, udp_ephemeral, irefs>>
  BY DEF IcmpDeliver
<1>. HIDE DEF hit
<1>. QED
  BY <1>1, <1>2, <1>3, DeliveryInv

LEMMA InetNextInv == ASSUME InetInv, [InetNext]_inetVars PROVE InetInv'
<1>1. ASSUME NEW port \in AllPorts, UdpHandle(port) PROVE InetInv'
  BY <1>1, UdpHandleInv
<1>2. CASE IcmpDeliver
  BY <1>2, IcmpDeliverInv
<1>3. ASSUME NEW kind \in Kinds, OpenNoFd(kind) PROVE InetInv'
  BY <1>3, OpenNoFdInv
<1>4. ASSUME NEW kind \in Kinds, NEW s \in ISock, InetOpen(s, kind) PROVE InetInv'
  BY <1>4, InetOpenInv
<1>5. ASSUME NEW s \in ISock, InetAddRef(s) PROVE InetInv'
  BY <1>5, InetAddRefInv
<1>6. ASSUME NEW s \in ISock, InetClose(s) PROVE InetInv'
  BY <1>6, InetCloseInv
<1>7. ASSUME NEW s \in ISock, InetRecv(s) PROVE InetInv'
  BY <1>7, InetRecvInv
<1>8. ASSUME NEW s \in ISock, NEW port \in Ports, InetBind(s, port) PROVE InetInv'
  BY <1>8, InetBindInv
<1>9. CASE UNCHANGED inetVars
  BY <1>9 DEF inetVars, InetInv, InetTypeOK, InetRefs, HasSub, HasOwner, OneOwner, RawNoPort,
              NoStalePacket, Stands
<1>. QED
  BY <1>1, <1>2, <1>3, <1>4, <1>5, <1>6, <1>7, <1>8, <1>9 DEF InetNext

\* Existence and uniqueness are the cardinality one.
LEMMA InetInvOwned == ASSUME InetInv PROVE SubsocketsOwned
<1>1. ASSUME NEW k \in Kinds, NEW u \in Sub, sub[k][u].active
      PROVE  Cardinality({s \in ISock : isock[s].used /\ isock[s].kind = k /\ isock[s].id = u}) = 1
  <2>. DEFINE owners == {s \in ISock : isock[s].used /\ isock[s].kind = k /\ isock[s].id = u}
  <2>1. PICK s \in ISock : Stands(s, k, u)
    BY <1>1 DEF InetInv, HasOwner
  <2>2. owners = {s}
    BY <2>1 DEF InetInv, OneOwner, Stands
  <2>. QED
    BY <2>2, FS_Singleton
<1>. QED
  BY <1>1 DEF SubsocketsOwned, InetInv, HasSub, InetRefs

\* Over opens that fail half way, binds that move a socket to another
\* sub-socket, shared descriptors and closes, every sub-socket in use belongs
\* to exactly one open socket, and what can be read from one came for it
\* (kernel/socket.c, net/udp.c, net/icmp.c).
THEOREM SubsocketsBelong == InetSpec => []SubsocketsSound
<1>1. InetInit => InetInv
  BY InetInitInv
<1>2. InetInv /\ [InetNext]_inetVars => InetInv'
  BY InetNextInv
<1>3. InetInv => SubsocketsSound
  BY InetInvOwned DEF SubsocketsSound, InetInv
<1>. QED
  BY <1>1, <1>2, <1>3, PTL DEF InetSpec
-----------------------------------------------------------------------------
(* Unix-domain sockets.                                                    *)

States == {"init", "bound", "listening", "pending", "connected"}
SomePath == SocketPaths \cup {"none"}
SockRec == [used : BOOLEAN, refcount : Nat, type : {"stream", "dgram"}, state : States,
            peer : 0 .. SOCKET_MAX_COUNT, closed : BOOLEAN, backlog : Nat, pending : Seq(Sock),
            path : SomePath, rx : Seq(Sock \X Nat), src : SomePath]

SockTypeOK ==
    /\ socket_table \in [Sock -> SockRec]
    /\ held \in [Sock -> Nat] /\ born \in [Sock -> Nat]

Joined    == {t \in Sock : socket_table[t].used /\ socket_table[t].state = "connected"}
Listening == {t \in Sock : socket_table[t].used /\ socket_table[t].state = "listening"}
Waiting   == {t \in Sock : socket_table[t].used /\ socket_table[t].state = "pending"}
Named     == {t \in Sock : socket_table[t].used /\ socket_table[t].state \in {"bound", "listening"}}

FreeIsReset == \A s \in Sock : ~socket_table[s].used => socket_table[s] = Unused

NamesRight == \A s, t \in Named : socket_table[s].path = socket_table[t].path => s = t

\* A queue is no longer than its backlog, only a listener has one, and the
\* sockets in the queues wait, each at one place of one queue.
QueuesRight ==
    /\ \A l \in Sock : /\ Len(socket_table[l].pending) <= socket_table[l].backlog
                       /\ Len(socket_table[l].pending) > 0 => l \in Listening
    /\ \A l \in Sock : \A i \in 1 .. Len(socket_table[l].pending) :
            socket_table[l].pending[i] \in Waiting
    /\ \A l, m \in Sock :
        \A i \in 1 .. Len(socket_table[l].pending), j \in 1 .. Len(socket_table[m].pending) :
            socket_table[l].pending[i] = socket_table[m].pending[j] => l = m /\ i = j

PeersRight ==
    /\ \A s \in Sock \ Joined : socket_table[s].peer = 0 /\ ~socket_table[s].closed
    /\ \A s \in Joined :
        /\ socket_table[s].peer = 0 => socket_table[s].closed
        /\ socket_table[s].peer # 0 =>
              /\ socket_table[s].peer \in Joined
              /\ socket_table[socket_table[s].peer].peer = s /\ ~socket_table[s].closed

\* A stream socket that is not connected has received nothing; what a
\* connected one has received has one sender, its peer while it has one.
BytesRight ==
    \A s \in Sock : socket_table[s].type = "stream" =>
        /\ s \notin Joined => Len(socket_table[s].rx) = 0
        /\ \A i, j \in 1 .. Len(socket_table[s].rx) : socket_table[s].rx[i] = socket_table[s].rx[j]
        /\ socket_table[s].peer # 0 => \A i \in 1 .. Len(socket_table[s].rx) :
              socket_table[s].rx[i] = <<socket_table[s].peer, born[socket_table[s].peer]>>

SockInv == /\ SockTypeOK /\ FreeIsReset /\ SocketRefsExact /\ NamesRight /\ QueuesRight
           /\ PeersRight /\ BytesRight

LEMMA SockSize == SOCKET_MAX_COUNT \in Nat
BY SocketsAssumption

LEMMA UnusedRec ==
    /\ Unused \in SockRec
    /\ ~Unused.used /\ Unused.refcount = 0 /\ Unused.type = "stream" /\ Unused.state = "init"
    /\ Unused.peer = 0 /\ Unused.closed = FALSE /\ Unused.backlog = 0 /\ Unused.pending = <<>>
    /\ Unused.path = "none" /\ Unused.rx = <<>> /\ Unused.src = "none"
<1>1. <<>> \in Seq(Sock) /\ <<>> \in Seq(Sock \X Nat)
  OBVIOUS
<1>. QED
  BY <1>1, SockSize DEF Unused, SockRec, States, SomePath

\* Every socket as a record, with the types of its fields.
LEMMA FieldTypes ==
    ASSUME SockTypeOK, NEW s \in Sock
    PROVE  LET r == socket_table[s] IN
           /\ r \in SockRec /\ r.used \in BOOLEAN /\ r.refcount \in Nat
           /\ r.type \in {"stream", "dgram"} /\ r.state \in States
           /\ r.peer \in 0 .. SOCKET_MAX_COUNT /\ r.closed \in BOOLEAN /\ r.backlog \in Nat
           /\ r.pending \in Seq(Sock) /\ r.path \in SomePath
           /\ r.rx \in Seq(Sock \X Nat) /\ r.src \in SomePath
           /\ Len(r.pending) \in Nat /\ Len(r.rx) \in Nat
BY DEF SockTypeOK, SockRec

LEMMA SockInitInv == ASSUME SockInit PROVE SockInv
<1>1. SockTypeOK
  BY UnusedRec DEF SockInit, SockTypeOK
<1>2. \A s \in Sock : socket_table[s] = Unused /\ held[s] = 0
  BY DEF SockInit
<1>3. Len(<<>>) = 0
  BY EmptySeq
<1>4. Joined = {} /\ Listening = {} /\ Named = {}
  BY <1>2, UnusedRec DEF Joined, Listening, Named
<1>5. FreeIsReset /\ SocketRefsExact /\ NamesRight /\ PeersRight
  BY <1>2, <1>4, UnusedRec DEF FreeIsReset, SocketRefsExact, NamesRight, PeersRight
<1>6. QueuesRight /\ BytesRight
  BY <1>2, <1>3, UnusedRec DEF QueuesRight, BytesRight
<1>. QED
  BY <1>1, <1>5, <1>6 DEF SockInv

-----------------------------------------------------------------------------
(* What a step leaves alone, part by part.                                 *)

Same(s) == socket_table'[s] = socket_table[s]

LEMMA NamesStay ==
    ASSUME SockInv, Named' \subseteq Named,
           \A t \in Named' : socket_table'[t].path = socket_table[t].path
    PROVE  NamesRight'
BY DEF SockInv, NamesRight

LEMMA QueuesStay ==
    ASSUME SockInv, SockTypeOK',
           \A t \in Sock : socket_table'[t].pending = socket_table[t].pending,
           Listening \subseteq Listening', Waiting \subseteq Waiting',
           \A t \in Listening : socket_table'[t].backlog = socket_table[t].backlog
    PROVE  QueuesRight'
<1>1. \A t \in Sock : /\ Len(socket_table[t].pending) \in Nat
                      /\ socket_table'[t].backlog \in Nat
  BY FieldTypes DEF SockInv, SockTypeOK, SockRec
<1>2. \A l \in Sock : /\ Len(socket_table'[l].pending) <= socket_table'[l].backlog
                      /\ Len(socket_table'[l].pending) > 0 => l \in Listening'
  <2>. SUFFICES ASSUME NEW l \in Sock
                PROVE  /\ Len(socket_table[l].pending) <= socket_table'[l].backlog
                       /\ Len(socket_table[l].pending) > 0 => l \in Listening'
    OBVIOUS
  <2>1. CASE l \in Listening
    BY <2>1 DEF SockInv, QueuesRight
  <2>2. CASE l \notin Listening
    BY <1>1, <2>2 DEF SockInv, QueuesRight
  <2>. QED
    BY <2>1, <2>2
<1>3. \A l \in Sock : \A i \in 1 .. Len(socket_table'[l].pending) :
            socket_table'[l].pending[i] \in Waiting'
  BY DEF SockInv, QueuesRight
<1>4. \A l, m \in Sock :
        \A i \in 1 .. Len(socket_table'[l].pending), j \in 1 .. Len(socket_table'[m].pending) :
            socket_table'[l].pending[i] = socket_table'[m].pending[j] => l = m /\ i = j
  BY SMTT(30) DEF SockInv, QueuesRight
<1>. QED
  BY <1>2, <1>3, <1>4 DEF QueuesRight

LEMMA PeersStay ==
    ASSUME SockInv, SockTypeOK', Joined' = Joined,
           \A t \in Sock : /\ socket_table'[t].peer = socket_table[t].peer
                           /\ socket_table'[t].closed = socket_table[t].closed
    PROVE  PeersRight'
<1>1. Joined \subseteq Sock
  BY DEF Joined
<1>. QED
  BY <1>1 DEF SockInv, PeersRight

\* A peer keeps its number as long as it is in use.
LEMMA BytesStay ==
    ASSUME SockInv, SockTypeOK', Joined \subseteq Joined',
           \A t \in Sock : socket_table'[t].type = "stream" =>
                /\ socket_table[t].type = "stream"
                /\ socket_table'[t].rx = socket_table[t].rx
                /\ socket_table'[t].peer = socket_table[t].peer,
           \A t \in Sock : socket_table[t].used => born'[t] = born[t]
    PROVE  BytesRight'
<1>1. \A t \in Sock : socket_table[t].peer # 0 =>
            socket_table[t].peer \in Sock /\ socket_table[socket_table[t].peer].used
  BY DEF SockInv, PeersRight, Joined
<1>. QED
  BY <1>1 DEF SockInv, BytesRight

LEMMA OneChanges ==
    ASSUME SockTypeOK, NEW s \in Sock, NEW r \in SockRec,
           socket_table' = [socket_table EXCEPT ![s] = r]
    PROVE  /\ socket_table' \in [Sock -> SockRec] /\ socket_table'[s] = r
           /\ \A t \in Sock : t # s => socket_table'[t] = socket_table[t]
BY DEF SockTypeOK

-----------------------------------------------------------------------------
(* The operations.                                                         *)

\* A socket as it starts, with n references to come.
Born(type, state, peer) ==
    [Unused EXCEPT !.used = TRUE, !.refcount = 1, !.type = type, !.state = state, !.peer = peer]
LEMMA SocketOpenInv ==
    ASSUME SockInv, NEW s \in Sock, NEW type \in {"stream", "dgram"}, SocketOpen(s, type)
    PROVE  SockInv'
<1>. DEFINE r == [Unused EXCEPT !.used = TRUE, !.refcount = 1, !.type = type]
<1>0. SockTypeOK /\ socket_table[s] = Unused /\ ~socket_table[s].used
  BY DEF SockInv, SocketOpen, Fresh, Unallocated, FreeIsReset
<1>1. /\ socket_table' = [socket_table EXCEPT ![s] = r]
      /\ held' = [held EXCEPT ![s] = 1] /\ born' = [born EXCEPT ![s] = @ + 1]
  BY DEF SocketOpen
<1>2. /\ r \in SockRec /\ r.used /\ r.refcount = 1 /\ r.type = type /\ r.state = "init"
      /\ r.peer = 0 /\ r.closed = FALSE /\ r.backlog = 0 /\ r.pending = <<>> /\ r.rx = <<>>
  BY ONLY UnusedRec, type \in {"stream", "dgram"} DEF SockRec
<1>. HIDE DEF r
<1>3. /\ socket_table' \in [Sock -> SockRec] /\ socket_table'[s] = r
      /\ \A t \in Sock : t # s => socket_table'[t] = socket_table[t]
  BY <1>0, <1>1, <1>2, OneChanges
<1>4. SockTypeOK'
  BY <1>0, <1>1, <1>3 DEF SockTypeOK
<1>5. FreeIsReset' /\ SocketRefsExact'
  BY <1>0, <1>1, <1>2, <1>3 DEF SockInv, FreeIsReset, SocketRefsExact, SockTypeOK
<1>6. /\ Joined' = Joined /\ Listening' = Listening /\ Waiting' = Waiting
      /\ Named' = Named /\ s \notin Named /\ s \notin Joined /\ s \notin Listening
  BY <1>0, <1>2, <1>3 DEF Joined, Listening, Waiting, Named
<1>7. NamesRight'
  BY <1>3, <1>6, NamesStay DEF Named
<1>8. QueuesRight'
  <2>1. \A t \in Sock : socket_table'[t].pending = socket_table[t].pending
    BY <1>0, <1>2, <1>3, UnusedRec
  <2>2. \A t \in Listening : socket_table'[t].backlog = socket_table[t].backlog
    BY <1>3, <1>6 DEF Listening
  <2>. QED
    BY <1>4, <1>6, <2>1, <2>2, QueuesStay
<1>9. PeersRight'
  BY <1>0, <1>2, <1>3, <1>4, <1>6, UnusedRec, PeersStay
<1>10. BytesRight'
  <2>1. \A t \in Sock : socket_table[t].used => born'[t] = born[t]
    BY <1>0, <1>1 DEF SockTypeOK
  <2>. QED
    BY <2>1, <1>0, <1>2, <1>3, <1>4, <1>6, UnusedRec, BytesStay
<1>. QED
  BY <1>4, <1>5, <1>7, <1>8, <1>9, <1>10 DEF SockInv

\* A step that changes one socket's record and none of its connections.
LEMMA SmallStep ==
    ASSUME SockInv, NEW s \in Sock, NEW r \in SockRec, socket_table[s].used, r.used,
           socket_table' = [socket_table EXCEPT ![s] = r],
           r.peer = socket_table[s].peer, r.closed = socket_table[s].closed,
           r.pending = socket_table[s].pending,
           socket_table[s].state \in {"connected", "listening", "pending"}
                => r.state = socket_table[s].state /\ r.backlog = socket_table[s].backlog,
           r.state \in {"connected", "pending"} => r.state = socket_table[s].state,
           UNCHANGED born
    PROVE  /\ socket_table' \in [Sock -> SockRec] /\ socket_table'[s] = r
           /\ \A t \in Sock : t # s => socket_table'[t] = socket_table[t]
           /\ Joined' = Joined /\ Listening \subseteq Listening' /\ Waiting' = Waiting
           /\ FreeIsReset'
           /\ (held' \in [Sock -> Nat] => QueuesRight' /\ PeersRight' /\ SockTypeOK')
<1>0. SockTypeOK
  BY DEF SockInv
<1>1. /\ socket_table' \in [Sock -> SockRec] /\ socket_table'[s] = r
      /\ \A t \in Sock : t # s => socket_table'[t] = socket_table[t]
  BY <1>0, OneChanges
<1>2. Joined' = Joined /\ Listening \subseteq Listening' /\ Waiting' = Waiting
  BY <1>1 DEF Joined, Listening, Waiting
<1>3. FreeIsReset'
  BY <1>1 DEF SockInv, FreeIsReset
<1>4. ASSUME held' \in [Sock -> Nat] PROVE QueuesRight' /\ PeersRight' /\ SockTypeOK'
  <2>1. SockTypeOK'
    BY <1>0, <1>1, <1>4 DEF SockTypeOK
  <2>2. \A t \in Listening : socket_table'[t].backlog = socket_table[t].backlog
    BY <1>1 DEF Listening
  <2>3. QueuesRight'
    BY <1>1, <1>2, <2>1, <2>2, QueuesStay
  <2>4. PeersRight'
    BY <1>1, <1>2, <2>1, PeersStay
  <2>. QED
    BY <2>1, <2>3, <2>4
<1>. QED
  BY <1>1, <1>2, <1>3, <1>4

LEMMA AddRefInv == ASSUME SockInv, NEW s \in Sock, AddRef(s) PROVE SockInv'
<1>. DEFINE r == [socket_table[s] EXCEPT !.refcount = @ + 1]
<1>0. SockTypeOK /\ socket_table[s].used
  BY DEF SockInv, AddRef, Live
<1>1. /\ socket_table' = [socket_table EXCEPT ![s] = r]
      /\ held' = [held EXCEPT ![s] = @ + 1] /\ UNCHANGED born
  BY DEF AddRef
<1>2. /\ r \in SockRec /\ r.used /\ r.refcount = socket_table[s].refcount + 1
      /\ r.type = socket_table[s].type /\ r.state = socket_table[s].state
      /\ r.peer = socket_table[s].peer /\ r.closed = socket_table[s].closed
      /\ r.backlog = socket_table[s].backlog /\ r.pending = socket_table[s].pending
      /\ r.rx = socket_table[s].rx /\ r.path = socket_table[s].path
  <2>1. socket_table[s] \in SockRec
    BY <1>0, FieldTypes
  <2>. QED
    BY ONLY SMTT(30), <1>0, <2>1 DEF SockRec
<1>. HIDE DEF r
<1>3. held' \in [Sock -> Nat]
  BY <1>0, <1>1 DEF SockTypeOK
<1>4. /\ socket_table'[s] = r /\ \A t \in Sock : t # s => socket_table'[t] = socket_table[t]
      /\ Joined' = Joined /\ FreeIsReset' /\ QueuesRight' /\ PeersRight' /\ SockTypeOK'
  BY <1>0, <1>1, <1>2, <1>3, SmallStep
<1>5. SocketRefsExact'
  BY <1>0, <1>1, <1>2, <1>4 DEF SockInv, SocketRefsExact, SockTypeOK
<1>6. NamesRight'
  BY <1>0, <1>2, <1>4, NamesStay DEF Named
<1>7. BytesRight'
  BY <1>1, <1>2, <1>4, BytesStay
<1>. QED
  BY <1>4, <1>5, <1>6, <1>7 DEF SockInv

LEMMA BindInv ==
    ASSUME SockInv, NEW s \in Sock, NEW path \in SocketPaths, Bind(s, path) PROVE SockInv'
<1>. DEFINE r == [socket_table[s] EXCEPT !.path = path, !.state = "bound"]
<1>0. /\ SockTypeOK /\ socket_table[s].used /\ socket_table[s].state \in {"init", "bound"}
      /\ \A t \in Named : socket_table[t].path # path
  BY DEF SockInv, Bind, Is, Live, PathInUse, Named
<1>1. /\ socket_table' = [socket_table EXCEPT ![s] = r] /\ UNCHANGED <<held, born>>
  BY <1>0 DEF Bind, SockTypeOK, SockRec
<1>2. /\ r \in SockRec /\ r.used /\ r.refcount = socket_table[s].refcount
      /\ r.type = socket_table[s].type /\ r.state = "bound"
      /\ r.peer = socket_table[s].peer /\ r.closed = socket_table[s].closed
      /\ r.backlog = socket_table[s].backlog /\ r.pending = socket_table[s].pending
      /\ r.rx = socket_table[s].rx /\ r.path = path
  BY <1>0, FieldTypes DEF SockRec, States, SomePath
<1>. HIDE DEF r
<1>3. held' \in [Sock -> Nat]
  BY <1>0, <1>1 DEF SockTypeOK
<1>4. /\ socket_table'[s] = r /\ \A t \in Sock : t # s => socket_table'[t] = socket_table[t]
      /\ Joined' = Joined /\ FreeIsReset' /\ QueuesRight' /\ PeersRight' /\ SockTypeOK'
  BY <1>0, <1>1, <1>2, <1>3, SmallStep
<1>5. SocketRefsExact'
  BY <1>0, <1>1, <1>2, <1>4 DEF SockInv, SocketRefsExact, SockTypeOK
<1>6. NamesRight'
  BY <1>0, <1>2, <1>4 DEF SockInv, NamesRight, Named
<1>7. BytesRight'
  BY <1>1, <1>2, <1>4, BytesStay
<1>. QED
  BY <1>4, <1>5, <1>6, <1>7 DEF SockInv

LEMMA ListenInv ==
    ASSUME SockInv, NEW s \in Sock, NEW b \in 1 .. SOCKET_BACKLOG_MAX, Listen(s, b)
    PROVE  SockInv'
<1>. DEFINE r == [socket_table[s] EXCEPT !.backlog = b, !.state = "listening"]
<1>0. SockTypeOK /\ socket_table[s].used /\ socket_table[s].state = "bound" /\ b \in Nat
  BY SocketsAssumption DEF SockInv, Listen, Is, Live
<1>1. /\ socket_table' = [socket_table EXCEPT ![s] = r] /\ UNCHANGED <<held, born>>
  BY <1>0 DEF Listen, SockTypeOK, SockRec
<1>2. /\ r \in SockRec /\ r.used /\ r.refcount = socket_table[s].refcount
      /\ r.type = socket_table[s].type /\ r.state = "listening"
      /\ r.peer = socket_table[s].peer /\ r.closed = socket_table[s].closed
      /\ r.pending = socket_table[s].pending
      /\ r.rx = socket_table[s].rx /\ r.path = socket_table[s].path
  BY <1>0, FieldTypes DEF SockRec, States
<1>. HIDE DEF r
<1>3. held' \in [Sock -> Nat]
  BY <1>0, <1>1 DEF SockTypeOK
<1>4. /\ socket_table'[s] = r /\ \A t \in Sock : t # s => socket_table'[t] = socket_table[t]
      /\ Joined' = Joined /\ FreeIsReset' /\ QueuesRight' /\ PeersRight' /\ SockTypeOK'
  BY <1>0, <1>1, <1>2, <1>3, SmallStep
<1>5. SocketRefsExact'
  BY <1>0, <1>1, <1>2, <1>4 DEF SockInv, SocketRefsExact, SockTypeOK
<1>6. NamesRight'
  BY <1>0, <1>2, <1>4, NamesStay DEF Named
<1>7. BytesRight'
  BY <1>1, <1>2, <1>4, BytesStay
<1>. QED
  BY <1>4, <1>5, <1>6, <1>7 DEF SockInv

\* A client that was in no queue is in one now, at its end.
LEMMA ConnectInv ==
    ASSUME SockInv, NEW s \in Sock, NEW path \in SocketPaths, Connect(s, path) PROVE SockInv'
<1>1. PICK l \in FirstAt(path, "listening", {"stream", "dgram"}) :
        /\ Len(socket_table[l].pending) < socket_table[l].backlog
        /\ socket_table' = [socket_table EXCEPT
                ![l].pending = Append(@, s), ![s].state = "pending"]
  BY DEF Connect
<1>2. /\ SockTypeOK /\ socket_table[s].used /\ socket_table[s].state \in {"init", "bound"}
      /\ UNCHANGED <<held, born>>
  BY DEF SockInv, Connect, Is, Live
<1>3. l \in Sock /\ l \in Listening /\ l # s
  BY <1>1, <1>2 DEF FirstAt, Is, Live, Listening
<1>. DEFINE q == socket_table[l].pending
            rl == [socket_table[l] EXCEPT !.pending = Append(q, s)]
            rs == [socket_table[s] EXCEPT !.state = "pending"]
<1>4. /\ q \in Seq(Sock) /\ Append(q, s) \in Seq(Sock) /\ Len(q) \in Nat
      /\ Len(Append(q, s)) = Len(q) + 1 /\ Append(q, s)[Len(q) + 1] = s
      /\ \A i \in 1 .. Len(q) : Append(q, s)[i] = q[i]
  BY <1>2, <1>3, FieldTypes, AppendProperties
<1>5. socket_table' = [socket_table EXCEPT ![l] = rl, ![s] = rs]
  BY <1>1, <1>2, <1>3 DEF SockTypeOK
<1>6. /\ rl \in SockRec /\ rs \in SockRec
      /\ rl.pending = Append(q, s) /\ rs.state = "pending"
      /\ rl.state = socket_table[l].state /\ rs.pending = socket_table[s].pending
      /\ \A f \in {"used", "refcount", "type", "peer", "closed", "backlog", "path", "rx"} :
            rl[f] = socket_table[l][f] /\ rs[f] = socket_table[s][f]
  <2>1. socket_table[l] \in SockRec /\ socket_table[s] \in SockRec
    BY <1>2, <1>3, FieldTypes
  <2>. QED
    BY <1>4, <2>1 DEF SockRec, States
<1>. HIDE DEF rl, rs
<1>7. /\ socket_table' \in [Sock -> SockRec]
      /\ socket_table'[l] = rl /\ socket_table'[s] = rs
      /\ \A t \in Sock : t # s /\ t # l => socket_table'[t] = socket_table[t]
  BY <1>2, <1>3, <1>5, <1>6 DEF SockTypeOK
<1>8. \A t \in Sock : \A f \in {"used", "refcount", "type", "peer", "closed", "backlog", "path", "rx"} :
        socket_table'[t][f] = socket_table[t][f]
  BY <1>6, <1>7
<1>9. \A t \in Sock : /\ socket_table'[t].used = socket_table[t].used
                      /\ socket_table'[t].refcount = socket_table[t].refcount
                      /\ socket_table'[t].type = socket_table[t].type
                      /\ socket_table'[t].peer = socket_table[t].peer
                      /\ socket_table'[t].closed = socket_table[t].closed
                      /\ socket_table'[t].backlog = socket_table[t].backlog
                      /\ socket_table'[t].path = socket_table[t].path
                      /\ socket_table'[t].rx = socket_table[t].rx
                      /\ t # s => socket_table'[t].state = socket_table[t].state
                      /\ t # l => socket_table'[t].pending = socket_table[t].pending
  BY <1>6, <1>7, <1>8
<1>10. SockTypeOK'
  BY <1>2, <1>7 DEF SockTypeOK
<1>11. /\ Joined' = Joined /\ Listening' = Listening /\ Waiting' = Waiting \cup {s}
       /\ Named' \subseteq Named /\ s \notin Waiting /\ s \notin Listening
  BY <1>2, <1>6, <1>7, <1>9 DEF Joined, Listening, Waiting, Named
<1>12. FreeIsReset'
  <2>1. \A t \in Sock : ~socket_table[t].used => t # s /\ t # l
    BY <1>2, <1>3 DEF Listening
  <2>. QED
    BY <1>7, <1>9, <2>1 DEF SockInv, FreeIsReset
<1>13. SocketRefsExact'
  BY <1>2, <1>9 DEF SockInv, SocketRefsExact
<1>14. NamesRight'
  BY <1>9, <1>11, NamesStay DEF Named
<1>15. QueuesRight'
  <2>. DEFINE Q(t) == socket_table[t].pending
              N(t) == socket_table'[t].pending
  <2>1. \A t \in Sock : Len(Q(t)) \in Nat /\ socket_table[t].backlog \in Nat
    BY <1>2, FieldTypes
  <2>2. N(l) = Append(q, s) /\ \A t \in Sock : t # l => N(t) = Q(t)
    BY <1>6, <1>7, <1>9
  <2>3. \A t \in Sock : \A i \in 1 .. Len(Q(t)) : Q(t)[i] \in Waiting /\ Q(t)[i] # s
    BY <1>11 DEF SockInv, QueuesRight
  <2>4. \A t, m \in Sock : \A i \in 1 .. Len(Q(t)), j \in 1 .. Len(Q(m)) :
            Q(t)[i] = Q(m)[j] => t = m /\ i = j
    BY DEF SockInv, QueuesRight
  <2>5. \A t \in Sock : \A i \in 1 .. Len(N(t)) :
            \/ i \in 1 .. Len(Q(t)) /\ N(t)[i] = Q(t)[i]
            \/ t = l /\ i = Len(q) + 1 /\ N(t)[i] = s
    <3>. SUFFICES ASSUME NEW t \in Sock, NEW i \in 1 .. Len(N(t))
                  PROVE  \/ i \in 1 .. Len(Q(t)) /\ N(t)[i] = Q(t)[i]
                         \/ t = l /\ i = Len(q) + 1 /\ N(t)[i] = s
      OBVIOUS
    <3>1. CASE t = l
      BY SMTT(30), <1>4, <2>2, <3>1
    <3>2. CASE t # l
      BY <2>2, <3>2
    <3>. QED
      BY <3>1, <3>2
  <2>6. \A t \in Sock : Len(N(t)) <= socket_table'[t].backlog
                        /\ (Len(N(t)) > 0 => t \in Listening')
    <3>. SUFFICES ASSUME NEW t \in Sock
                  PROVE  Len(N(t)) <= socket_table'[t].backlog
                         /\ (Len(N(t)) > 0 => t \in Listening')
      OBVIOUS
    <3>0. socket_table'[t].backlog = socket_table[t].backlog
      BY <1>9
    <3>1. CASE t = l
      BY <1>1, <1>3, <1>4, <1>11, <2>1, <2>2, <3>0, <3>1
    <3>2. CASE t # l
      BY <1>11, <2>2, <3>0, <3>2 DEF SockInv, QueuesRight
    <3>. QED
      BY <3>1, <3>2
  <2>. HIDE DEF Q, N, q
  <2>7. \A t \in Sock : \A i \in 1 .. Len(N(t)) : N(t)[i] \in Waiting'
    BY <1>11, <2>3, <2>5
  <2>8. \A t, m \in Sock : \A i \in 1 .. Len(N(t)), j \in 1 .. Len(N(m)) :
            N(t)[i] = N(m)[j] => t = m /\ i = j
    BY <2>3, <2>4, <2>5
  <2>. QED
    BY <2>6, <2>7, <2>8 DEF QueuesRight, N
<1>16. PeersRight'
  BY <1>9, <1>10, <1>11, PeersStay
<1>17. BytesRight'
  BY <1>2, <1>9, <1>10, <1>11, BytesStay
<1>. QED
  BY <1>10, <1>12, <1>13, <1>14, <1>15, <1>16, <1>17 DEF SockInv

\* The first client leaves a queue; what else waited goes on waiting.
LEMMA QueuePops ==
    ASSUME SockInv, SockTypeOK', NEW l \in Listening, Len(socket_table[l].pending) > 0,
           socket_table'[l].pending = Tail(socket_table[l].pending),
           \A t \in Sock : t # l => socket_table'[t].pending = socket_table[t].pending,
           Listening \subseteq Listening', Waiting \ {Head(socket_table[l].pending)} \subseteq Waiting',
           \A t \in Listening : socket_table'[t].backlog = socket_table[t].backlog
    PROVE  QueuesRight'
<1>. DEFINE Q(t) == socket_table[t].pending
            N(t) == socket_table'[t].pending
            d(t) == IF t = l THEN 1 ELSE 0
<1>0. l \in Sock
  BY DEF Listening
<1>1. \A t \in Sock : Q(t) \in Seq(Sock) /\ Len(Q(t)) \in Nat /\ socket_table'[t].backlog \in Nat
  BY FieldTypes DEF SockInv, SockTypeOK, SockRec
<1>2. /\ Head(Q(l)) = Q(l)[1] /\ N(l) = Tail(Q(l)) /\ Len(N(l)) = Len(Q(l)) - 1
      /\ \A i \in 1 .. Len(N(l)) : N(l)[i] = Q(l)[i + 1]
  <2>1. Q(l) # <<>>
    BY <1>0, <1>1, EmptySeq
  <2>. QED
    BY <1>0, <1>1, <2>1, HeadTailProperties
<1>3. \A t \in Sock : t # l => N(t) = Q(t)
  OBVIOUS
<1>5. \A t \in Sock : \A i \in 1 .. Len(Q(t)) : Q(t)[i] \in Waiting
  BY DEF SockInv, QueuesRight
<1>6. \A t, m \in Sock : \A i \in 1 .. Len(Q(t)), j \in 1 .. Len(Q(m)) :
            Q(t)[i] = Q(m)[j] => t = m /\ i = j
  BY DEF SockInv, QueuesRight
<1>7. \A t \in Sock : Len(Q(t)) <= socket_table[t].backlog /\ (Len(Q(t)) > 0 => t \in Listening)
  BY DEF SockInv, QueuesRight
<1>22. Len(Q(l)) > 0
  OBVIOUS
<1>. HIDE DEF Q, N
<1>20. d(l) = 1 /\ (\A t \in Sock : t # l => d(t) = 0) /\ (\A t \in Sock : d(t) \in {0, 1})
  OBVIOUS
<1>. HIDE DEF d
<1>21. \A i \in 1 .. Len(N(l)) : i + 1 \in 1 .. Len(Q(l)) /\ N(l)[i] = Q(l)[i + 1]
  <2>1. Len(Q(l)) \in Nat
    BY <1>0, <1>1
  <2>. QED
    BY <1>2, <2>1
<1>4. \A t \in Sock : \A i \in 1 .. Len(N(t)) :
            i + d(t) \in 1 .. Len(Q(t)) /\ N(t)[i] = Q(t)[i + d(t)]
  <2>. SUFFICES ASSUME NEW t \in Sock, NEW i \in 1 .. Len(N(t))
                PROVE  i + d(t) \in 1 .. Len(Q(t)) /\ N(t)[i] = Q(t)[i + d(t)]
    OBVIOUS
  <2>1. CASE t = l
    BY ONLY i \in 1 .. Len(N(t)), <1>20, <1>21, <2>1
  <2>2. CASE t # l
    <3>1. N(t) = Q(t) /\ d(t) = 0 /\ i + d(t) = i
      BY <1>3, <1>20, <2>2
    <3>. QED
      BY <3>1
  <2>. QED
    BY <2>1, <2>2
<1>8. \A t \in Sock : Len(N(t)) <= socket_table'[t].backlog
                      /\ (Len(N(t)) > 0 => t \in Listening')
  <2>. SUFFICES ASSUME NEW t \in Sock
                PROVE  Len(N(t)) <= socket_table'[t].backlog
                       /\ (Len(N(t)) > 0 => t \in Listening')
    OBVIOUS
  <2>1. Len(N(t)) <= Len(Q(t)) /\ Len(N(t)) \in Int /\ Len(Q(t)) \in Nat
    <3>1. CASE t = l
      BY <1>0, <1>1, <1>2, <3>1
    <3>2. CASE t # l
      BY <1>1, <1>3, <3>2
    <3>. QED
      BY <3>1, <3>2
  <2>3. CASE t \in Listening
    <3>1. socket_table'[t].backlog = socket_table[t].backlog
      BY <2>3
    <3>. QED
      BY <1>1, <1>7, <2>1, <2>3, <3>1
  <2>4. CASE t \notin Listening
    BY <1>1, <1>7, <2>1, <2>4
  <2>. QED
    BY <2>3, <2>4
\* What is left in a queue is not the client that was first in its.
<1>9. \A t \in Sock : \A i \in 1 .. Len(N(t)) : N(t)[i] # Head(Q(l))
  <2>. SUFFICES ASSUME NEW t \in Sock, NEW i \in 1 .. Len(N(t)), N(t)[i] = Q(l)[1]
                PROVE  FALSE
    BY <1>2
  <2>1. Q(t)[i + d(t)] = Q(l)[1] /\ i + d(t) \in 1 .. Len(Q(t)) /\ 1 \in 1 .. Len(Q(l))
    BY <1>0, <1>1, <1>4, <1>22
  <2>2. t = l /\ i + d(t) = 1
    BY <1>0, <1>6, <2>1
  <2>3. i + 1 = 1 /\ i \in Int /\ i >= 1
    BY <1>20, <2>2
  <2>. QED
    BY <2>3
<1>10. \A t \in Sock : \A i \in 1 .. Len(N(t)) : N(t)[i] \in Waiting'
  <2>. SUFFICES ASSUME NEW t \in Sock, NEW i \in 1 .. Len(N(t)) PROVE N(t)[i] \in Waiting'
    OBVIOUS
  <2>1. N(t)[i] \in Waiting
    <3>1. i + d(t) \in 1 .. Len(Q(t)) /\ N(t)[i] = Q(t)[i + d(t)]
      BY <1>4
    <3>2. \A j \in 1 .. Len(Q(t)) : Q(t)[j] \in Waiting
      BY ONLY <1>5, t \in Sock
    <3>. QED
      BY ONLY <3>1, <3>2
  <2>2. N(t)[i] # Head(Q(l)) /\ Waiting \ {Head(Q(l))} \subseteq Waiting'
    BY <1>9 DEF Q
  <2>. QED
    BY <2>1, <2>2
<1>11. \A t, m \in Sock : \A i \in 1 .. Len(N(t)), j \in 1 .. Len(N(m)) :
            N(t)[i] = N(m)[j] => t = m /\ i = j
  <2>. SUFFICES ASSUME NEW t \in Sock, NEW m \in Sock,
                       NEW i \in 1 .. Len(N(t)), NEW j \in 1 .. Len(N(m)), N(t)[i] = N(m)[j]
                PROVE  t = m /\ i = j
    OBVIOUS
  <2>1. /\ Q(t)[i + d(t)] = Q(m)[j + d(m)]
        /\ i + d(t) \in 1 .. Len(Q(t)) /\ j + d(m) \in 1 .. Len(Q(m))
    BY <1>4
  <2>2. t = m /\ i + d(t) = j + d(m)
    BY <1>6, <2>1
  <2>3. d(t) \in Int /\ i \in Int /\ j \in Int /\ i + d(t) = j + d(t)
    BY <1>20, <2>2
  <2>. QED
    BY <2>2, <2>3
<1>. QED
  BY <1>8, <1>10, <1>11 DEF QueuesRight, N

\* The first client of a queue waits.
LEMMA FirstClient ==
    ASSUME SockInv, NEW l \in Sock, socket_table[l].pending # <<>>
    PROVE  LET c == Head(socket_table[l].pending) IN
           /\ c \in Sock /\ c \in Waiting /\ Len(socket_table[l].pending) > 0
           /\ l \in Listening /\ c \notin Listening /\ c \notin Joined /\ c \notin Named
           /\ Tail(socket_table[l].pending) \in Seq(Sock)
<1>1. /\ socket_table[l].pending \in Seq(Sock)
  BY FieldTypes DEF SockInv
<1>2. /\ Head(socket_table[l].pending) = socket_table[l].pending[1]
      /\ Len(socket_table[l].pending) \in Nat \ {0}
      /\ Tail(socket_table[l].pending) \in Seq(Sock)
  BY <1>1, EmptySeq, HeadTailProperties
<1>3. socket_table[l].pending[1] \in Waiting /\ l \in Listening
  BY <1>2 DEF SockInv, QueuesRight
<1>. QED
  BY <1>2, <1>3 DEF Waiting, Listening, Joined, Named

LEMMA AcceptFailsInv == ASSUME SockInv, NEW l \in Sock, AcceptFails(l) PROVE SockInv'
<1>. DEFINE r == [socket_table[l] EXCEPT !.pending = Tail(socket_table[l].pending)]
<1>0. /\ SockTypeOK /\ UNCHANGED <<held, born>> /\ socket_table[l].pending # <<>>
      /\ socket_table' = [socket_table EXCEPT ![l] = r]
  BY DEF SockInv, AcceptFails
<1>1. /\ l \in Listening /\ Len(socket_table[l].pending) > 0
      /\ Tail(socket_table[l].pending) \in Seq(Sock)
  BY <1>0, FirstClient
<1>2. /\ r \in SockRec /\ r.used = socket_table[l].used /\ r.refcount = socket_table[l].refcount
      /\ r.type = socket_table[l].type /\ r.state = socket_table[l].state
      /\ r.peer = socket_table[l].peer /\ r.closed = socket_table[l].closed
      /\ r.backlog = socket_table[l].backlog /\ r.pending = Tail(socket_table[l].pending)
      /\ r.rx = socket_table[l].rx /\ r.path = socket_table[l].path
  <2>1. socket_table[l] \in SockRec
    BY <1>0, FieldTypes
  <2>. QED
    BY ONLY <1>1, <2>1 DEF SockRec
<1>. HIDE DEF r
<1>3. /\ socket_table' \in [Sock -> SockRec] /\ socket_table'[l] = r
      /\ \A t \in Sock : t # l => socket_table'[t] = socket_table[t]
  BY <1>0, <1>2, OneChanges
<1>4. SockTypeOK'
  BY <1>0, <1>3 DEF SockTypeOK
<1>5. /\ Joined' = Joined /\ Listening' = Listening /\ Waiting' = Waiting /\ Named' = Named
  BY <1>2, <1>3 DEF Joined, Listening, Waiting, Named
<1>6. FreeIsReset' /\ SocketRefsExact'
  BY <1>0, <1>1, <1>2, <1>3 DEF SockInv, FreeIsReset, SocketRefsExact, Listening
<1>7. NamesRight'
  BY <1>2, <1>3, <1>5, NamesStay DEF Named
<1>8. QueuesRight'
  <2>1. \A t \in Listening : socket_table'[t].backlog = socket_table[t].backlog
    BY <1>2, <1>3 DEF Listening
  <2>2. socket_table'[l].pending = Tail(socket_table[l].pending)
    BY <1>2, <1>3
  <2>. QED
    BY <1>1, <1>3, <1>4, <1>5, <2>1, <2>2, QueuePops
<1>9. PeersRight'
  BY <1>2, <1>3, <1>4, <1>5, PeersStay
<1>10. BytesRight'
  BY <1>0, <1>2, <1>3, <1>4, <1>5, BytesStay
<1>. QED
  BY <1>4, <1>6, <1>7, <1>8, <1>9, <1>10 DEF SockInv
\* A client that has been accepted names the new end, and that one the client.
LEMMA AcceptInv ==
    ASSUME SockInv, NEW l \in Sock, NEW n \in Sock, Accept(l, n) PROVE SockInv'
<1>. DEFINE c == Head(socket_table[l].pending)
            rl == [socket_table[l] EXCEPT !.pending = Tail(socket_table[l].pending)]
            rc == [socket_table[c] EXCEPT !.state = "connected", !.peer = n]
            rn == Born(socket_table[l].type, "connected", c)
<1>0. /\ SockTypeOK /\ socket_table[l].pending # <<>>
      /\ ~socket_table[n].used /\ socket_table[n] = Unused
      /\ held' = [held EXCEPT ![n] = 1] /\ born' = [born EXCEPT ![n] = @ + 1]
  BY DEF SockInv, FreeIsReset, Accept, Fresh, Unallocated
<1>1. /\ c \in Sock /\ c \in Waiting /\ l \in Listening /\ Len(socket_table[l].pending) > 0
      /\ c \notin Listening /\ c \notin Joined /\ c \notin Named
      /\ Tail(socket_table[l].pending) \in Seq(Sock)
  BY <1>0, FirstClient
<1>2. /\ socket_table[c].used /\ socket_table[c].state = "pending"
      /\ socket_table[l].used /\ socket_table[l].state = "listening"
      /\ n # c /\ n # l /\ c # l
  BY <1>0, <1>1 DEF Waiting, Listening
<1>3. socket_table' = [socket_table EXCEPT ![l] = rl, ![c] = rc, ![n] = rn]
  <2>1. socket_table' = [socket_table EXCEPT ![l].pending = Tail(@),
            ![c].state = "connected", ![c].peer = n,
            ![n] = [Unused EXCEPT !.used = TRUE, !.refcount = 1, !.type = socket_table[l].type,
                                  !.state = "connected", !.peer = c]]
    BY DEF Accept
  <2>. HIDE DEF c
  <2>. QED
    BY <1>0, <1>1, <1>2, <2>1 DEF SockTypeOK, Born, Unused
<1>. HIDE DEF c
<1>4. /\ socket_table[l] \in SockRec /\ socket_table[c] \in SockRec
      /\ socket_table[l].type \in {"stream", "dgram"}
      /\ n \in 0 .. SOCKET_MAX_COUNT /\ c \in 0 .. SOCKET_MAX_COUNT /\ n # 0 /\ c # 0
  BY <1>0, <1>1, FieldTypes, SockSize DEF Sock
<1>5. /\ rl \in SockRec /\ rl.used = socket_table[l].used /\ rl.refcount = socket_table[l].refcount
      /\ rl.type = socket_table[l].type /\ rl.state = socket_table[l].state
      /\ rl.peer = socket_table[l].peer /\ rl.closed = socket_table[l].closed
      /\ rl.backlog = socket_table[l].backlog /\ rl.pending = Tail(socket_table[l].pending)
      /\ rl.rx = socket_table[l].rx /\ rl.path = socket_table[l].path
  BY ONLY <1>1, <1>4 DEF SockRec
<1>6. /\ rc \in SockRec /\ rc.used = socket_table[c].used /\ rc.refcount = socket_table[c].refcount
      /\ rc.type = socket_table[c].type /\ rc.state = "connected"
      /\ rc.peer = n /\ rc.closed = socket_table[c].closed
      /\ rc.backlog = socket_table[c].backlog /\ rc.pending = socket_table[c].pending
      /\ rc.rx = socket_table[c].rx
  BY ONLY <1>4 DEF SockRec, States
<1>7. /\ rn \in SockRec /\ rn.used /\ rn.refcount = 1 /\ rn.type = socket_table[l].type
      /\ rn.state = "connected" /\ rn.peer = c /\ rn.closed = FALSE /\ rn.backlog = 0
      /\ rn.pending = <<>> /\ rn.rx = <<>>
  <2>1. "connected" \in States /\ <<>> \in Seq(Sock) /\ <<>> \in Seq(Sock \X Nat)
    BY DEF States
  <2>. QED
    BY ONLY <1>4, <2>1 DEF Born, Unused, SockRec, SomePath
<1>. HIDE DEF rl, rc, rn
<1>8. /\ socket_table' \in [Sock -> SockRec]
      /\ socket_table'[l] = rl /\ socket_table'[c] = rc /\ socket_table'[n] = rn
      /\ \A t \in Sock : t # l /\ t # c /\ t # n => socket_table'[t] = socket_table[t]
  BY <1>0, <1>1, <1>2, <1>3, <1>5, <1>6, <1>7 DEF SockTypeOK
<1>9. SockTypeOK'
  <2>1. held' \in [Sock -> Nat] /\ born' \in [Sock -> Nat]
    BY ONLY <1>0 DEF SockTypeOK
  <2>. QED
    BY ONLY <1>8, <2>1 DEF SockTypeOK
<1>10. /\ Joined' = Joined \cup {c, n} /\ Listening' = Listening /\ Waiting' = Waiting \ {c}
       /\ Named' = Named /\ n \notin Named /\ n \notin Joined /\ n \notin Listening
  <2>1. /\ socket_table'[c].used /\ socket_table'[c].state = "connected"
        /\ socket_table'[n].used /\ socket_table'[n].state = "connected"
        /\ \A t \in Sock : t # c /\ t # n => /\ socket_table'[t].used = socket_table[t].used
                                           /\ socket_table'[t].state = socket_table[t].state
    BY ONLY <1>2, <1>5, <1>6, <1>7, <1>8
  <2>. QED
    BY ONLY <1>0, <1>1, <1>2, <2>1, n \in Sock DEF Joined, Listening, Waiting, Named
<1>11. FreeIsReset' /\ SocketRefsExact'
  <2>1. FreeIsReset'
    <3>1. socket_table'[l].used /\ socket_table'[c].used /\ socket_table'[n].used
      BY ONLY <1>2, <1>5, <1>6, <1>7, <1>8
    <3>. QED
      BY <1>8, <3>1 DEF SockInv, FreeIsReset
  <2>2. /\ held'[n] = 1 /\ socket_table'[n].used /\ socket_table'[n].refcount = 1
        /\ \A t \in Sock : t # n => /\ held'[t] = held[t]
                                  /\ socket_table'[t].used = socket_table[t].used
                                  /\ socket_table'[t].refcount = socket_table[t].refcount
    BY ONLY ZenonT(60), <1>0, <1>2, <1>5, <1>6, <1>7, <1>8, n \in Sock DEF SockTypeOK
  <2>. QED
    BY <2>1, <2>2 DEF SockInv, SocketRefsExact
<1>12. NamesRight'
  BY <1>1, <1>5, <1>8, <1>10, NamesStay DEF Named
<1>13. QueuesRight'
  <2>1. \A t \in Listening : socket_table'[t].backlog = socket_table[t].backlog
    BY <1>1, <1>5, <1>8, <1>10 DEF Listening
  <2>2. /\ socket_table'[l].pending = Tail(socket_table[l].pending)
        /\ \A t \in Sock : t # l => socket_table'[t].pending = socket_table[t].pending
    BY <1>0, <1>5, <1>6, <1>7, <1>8, UnusedRec
  <2>3. Waiting \ {Head(socket_table[l].pending)} \subseteq Waiting'
    BY <1>10 DEF c
  <2>. QED
    BY <1>1, <1>9, <1>10, <2>1, <2>2, <2>3, QueuePops
<1>14. PeersRight'
  <2>1. \A t \in Sock \ Joined' : socket_table'[t].peer = 0 /\ ~socket_table'[t].closed
    BY <1>5, <1>8, <1>10 DEF SockInv, PeersRight
  <2>2. /\ socket_table'[c].peer = n /\ ~socket_table'[c].closed
        /\ socket_table'[n].peer = c /\ ~socket_table'[n].closed
    BY <1>1, <1>6, <1>7, <1>8 DEF SockInv, PeersRight
  <2>3. \A t \in Joined : socket_table'[t] = socket_table[t] /\ t # c /\ t # n
    BY <1>1, <1>2, <1>8, <1>10 DEF Joined
  <2>4. \A t \in Joined' :
            /\ socket_table'[t].peer = 0 => socket_table'[t].closed
            /\ socket_table'[t].peer # 0 =>
                  /\ socket_table'[t].peer \in Joined'
                  /\ socket_table'[socket_table'[t].peer].peer = t /\ ~socket_table'[t].closed
    BY <1>4, <1>10, <2>2, <2>3 DEF SockInv, PeersRight
  <2>. QED
    BY <2>1, <2>4 DEF PeersRight
<1>15. BytesRight'
  <2>. SUFFICES ASSUME NEW t \in Sock, socket_table'[t].type = "stream"
                PROVE  /\ t \notin Joined' => Len(socket_table'[t].rx) = 0
                       /\ \A i, j \in 1 .. Len(socket_table'[t].rx) :
                            socket_table'[t].rx[i] = socket_table'[t].rx[j]
                       /\ socket_table'[t].peer # 0 => \A i \in 1 .. Len(socket_table'[t].rx) :
                            socket_table'[t].rx[i]
                                = <<socket_table'[t].peer, born'[socket_table'[t].peer]>>
    BY DEF BytesRight
  <2>1. CASE t = n
    BY <1>7, <1>8, <2>1, EmptySeq
  <2>2. CASE t = c
    BY <1>1, <1>6, <1>8, <2>2 DEF SockInv, BytesRight
  <2>3. CASE t # n /\ t # c
    <3>1. /\ socket_table'[t].type = socket_table[t].type
          /\ socket_table'[t].rx = socket_table[t].rx
          /\ socket_table'[t].peer = socket_table[t].peer
          /\ t \notin Joined' => t \notin Joined
      BY <1>5, <1>8, <1>10, <2>3
    <3>2. socket_table[t].peer # 0 => born'[socket_table[t].peer] = born[socket_table[t].peer]
      <4>1. socket_table[t].peer # 0 => socket_table[t].peer \in Joined
        BY DEF SockInv, PeersRight
      <4>. QED
        BY <1>0, <1>10, <4>1 DEF SockTypeOK, Joined
    <3>. QED
      BY <3>1, <3>2 DEF SockInv, BytesRight
  <2>. QED
    BY <2>1, <2>2, <2>3
<1>. QED
  BY <1>9, <1>11, <1>12, <1>13, <1>14, <1>15 DEF SockInv

LEMMA AcceptNoFdInv == ASSUME SockInv, NEW l \in Sock, AcceptNoFd(l) PROVE SockInv'
<1>. DEFINE c == Head(socket_table[l].pending)
            rl == [socket_table[l] EXCEPT !.pending = Tail(socket_table[l].pending)]
            rc == [socket_table[c] EXCEPT !.state = "connected", !.peer = 0, !.closed = TRUE]
<1>0. /\ SockTypeOK /\ socket_table[l].pending # <<>> /\ UNCHANGED <<held, born>>
  BY DEF SockInv, AcceptNoFd
<1>1. /\ c \in Sock /\ c \in Waiting /\ l \in Listening /\ Len(socket_table[l].pending) > 0
      /\ c \notin Listening /\ c \notin Joined /\ c \notin Named
      /\ Tail(socket_table[l].pending) \in Seq(Sock)
  BY <1>0, FirstClient
<1>2. /\ socket_table[c].used /\ socket_table[c].state = "pending"
      /\ socket_table[l].used /\ socket_table[l].state = "listening" /\ c # l
  BY <1>0, <1>1 DEF Waiting, Listening
<1>3. socket_table' = [socket_table EXCEPT ![l] = rl, ![c] = rc]
  <2>1. socket_table' = [socket_table EXCEPT ![l].pending = Tail(@),
            ![c].state = "connected", ![c].peer = 0, ![c].closed = TRUE]
    BY DEF AcceptNoFd
  <2>. HIDE DEF c
  <2>. QED
    BY <1>0, <1>1, <1>2, <2>1 DEF SockTypeOK
<1>. HIDE DEF c
<1>4. socket_table[l] \in SockRec /\ socket_table[c] \in SockRec
  BY <1>0, <1>1, FieldTypes
<1>5. /\ rl \in SockRec /\ rl.used = socket_table[l].used /\ rl.refcount = socket_table[l].refcount
      /\ rl.type = socket_table[l].type /\ rl.state = socket_table[l].state
      /\ rl.peer = socket_table[l].peer /\ rl.closed = socket_table[l].closed
      /\ rl.backlog = socket_table[l].backlog /\ rl.pending = Tail(socket_table[l].pending)
      /\ rl.rx = socket_table[l].rx /\ rl.path = socket_table[l].path
  BY ONLY <1>1, <1>4 DEF SockRec
<1>6. /\ rc \in SockRec /\ rc.used = socket_table[c].used /\ rc.refcount = socket_table[c].refcount
      /\ rc.type = socket_table[c].type /\ rc.state = "connected"
      /\ rc.peer = 0 /\ rc.closed = TRUE
      /\ rc.backlog = socket_table[c].backlog /\ rc.pending = socket_table[c].pending
      /\ rc.rx = socket_table[c].rx
  <2>1. 0 \in 0 .. SOCKET_MAX_COUNT /\ "connected" \in States /\ TRUE \in BOOLEAN
    BY ONLY SockSize DEF States
  <2>. QED
    BY ONLY <1>4, <2>1 DEF SockRec
<1>. HIDE DEF rl, rc
<1>8. /\ socket_table' \in [Sock -> SockRec]
      /\ socket_table'[l] = rl /\ socket_table'[c] = rc
      /\ \A t \in Sock : t # l /\ t # c => socket_table'[t] = socket_table[t]
  BY <1>0, <1>1, <1>2, <1>3, <1>5, <1>6 DEF SockTypeOK
<1>9. SockTypeOK'
  BY <1>0, <1>8 DEF SockTypeOK
<1>10. /\ Joined' = Joined \cup {c} /\ Listening' = Listening /\ Waiting' = Waiting \ {c}
       /\ Named' = Named
  <2>1. /\ socket_table'[c].used /\ socket_table'[c].state = "connected"
        /\ \A t \in Sock : t # c => /\ socket_table'[t].used = socket_table[t].used
                                  /\ socket_table'[t].state = socket_table[t].state
    BY ONLY <1>2, <1>5, <1>6, <1>8
  <2>. QED
    BY ONLY <1>1, <1>2, <2>1 DEF Joined, Listening, Waiting, Named
<1>11. FreeIsReset' /\ SocketRefsExact'
  <2>1. FreeIsReset'
    BY <1>2, <1>5, <1>6, <1>8 DEF SockInv, FreeIsReset
  <2>2. \A t \in Sock : /\ held'[t] = held[t]
                        /\ socket_table'[t].used = socket_table[t].used
                        /\ socket_table'[t].refcount = socket_table[t].refcount
    BY ONLY <1>0, <1>2, <1>5, <1>6, <1>8
  <2>. QED
    BY <2>2, <2>1 DEF SockInv, SocketRefsExact
<1>12. NamesRight'
  BY <1>1, <1>5, <1>8, <1>10, NamesStay DEF Named
<1>13. QueuesRight'
  <2>1. \A t \in Listening : socket_table'[t].backlog = socket_table[t].backlog
    BY <1>1, <1>5, <1>8, <1>10 DEF Listening
  <2>2. /\ socket_table'[l].pending = Tail(socket_table[l].pending)
        /\ \A t \in Sock : t # l => socket_table'[t].pending = socket_table[t].pending
    BY <1>0, <1>5, <1>6, <1>8
  <2>3. Waiting \ {Head(socket_table[l].pending)} \subseteq Waiting'
    BY <1>10 DEF c
  <2>. QED
    BY <1>1, <1>9, <1>10, <2>1, <2>2, <2>3, QueuePops
<1>14. PeersRight'
  <2>1. \A t \in Sock \ Joined' : socket_table'[t].peer = 0 /\ ~socket_table'[t].closed
    BY <1>5, <1>8, <1>10 DEF SockInv, PeersRight
  <2>2. socket_table'[c].peer = 0 /\ socket_table'[c].closed
    BY <1>1, <1>6, <1>8
  <2>3. \A t \in Joined : socket_table'[t] = socket_table[t] /\ t # c
    BY <1>1, <1>2, <1>8, <1>10 DEF Joined
  <2>4. \A t \in Joined' :
            /\ socket_table'[t].peer = 0 => socket_table'[t].closed
            /\ socket_table'[t].peer # 0 =>
                  /\ socket_table'[t].peer \in Joined'
                  /\ socket_table'[socket_table'[t].peer].peer = t /\ ~socket_table'[t].closed
    BY <1>10, <2>2, <2>3 DEF SockInv, PeersRight
  <2>. QED
    BY <2>1, <2>4 DEF PeersRight
<1>15. BytesRight'
  <2>1. \A t \in Sock : /\ socket_table'[t].rx = socket_table[t].rx
                        /\ socket_table'[t].type = socket_table[t].type
                        /\ socket_table'[t].peer = socket_table[t].peer \/ socket_table'[t].peer = 0
    BY <1>5, <1>6, <1>8
  <2>. QED
    BY SMTT(30), <1>0, <1>10, <2>1 DEF SockInv, BytesRight
<1>. QED
  BY <1>9, <1>11, <1>12, <1>13, <1>14, <1>15 DEF SockInv
\* One descriptor of several goes.
LEMMA ClosePartInv ==
    ASSUME SockInv, NEW s \in Sock, SocketClose(s), socket_table[s].refcount > 1
    PROVE  SockInv'
<1>. DEFINE r == [socket_table[s] EXCEPT !.refcount = @ - 1]
<1>0. SockTypeOK /\ socket_table[s].used /\ socket_table[s].refcount \in Nat /\ held[s] \in Nat
  BY DEF SockInv, SocketClose, Live, SockTypeOK, SockRec
<1>1. /\ socket_table' = [socket_table EXCEPT ![s] = r]
      /\ held' = [held EXCEPT ![s] = @ - 1] /\ UNCHANGED born
      /\ held[s] = socket_table[s].refcount
  BY DEF SocketClose, SockInv, SocketRefsExact
<1>2. /\ r \in SockRec /\ r.used /\ r.refcount = socket_table[s].refcount - 1
      /\ r.type = socket_table[s].type /\ r.state = socket_table[s].state
      /\ r.peer = socket_table[s].peer /\ r.closed = socket_table[s].closed
      /\ r.backlog = socket_table[s].backlog /\ r.pending = socket_table[s].pending
      /\ r.rx = socket_table[s].rx /\ r.path = socket_table[s].path
  <2>1. socket_table[s] \in SockRec /\ socket_table[s].refcount - 1 \in Nat
    BY <1>0, FieldTypes
  <2>. QED
    BY ONLY <1>0, <2>1 DEF SockRec
<1>. HIDE DEF r
<1>3. held' \in [Sock -> Nat]
  BY <1>0, <1>1 DEF SockTypeOK
<1>4. /\ socket_table'[s] = r /\ \A t \in Sock : t # s => socket_table'[t] = socket_table[t]
      /\ Joined' = Joined /\ FreeIsReset' /\ QueuesRight' /\ PeersRight' /\ SockTypeOK'
  BY <1>0, <1>1, <1>2, <1>3, SmallStep
<1>5. SocketRefsExact'
  BY <1>0, <1>1, <1>2, <1>4 DEF SockInv, SocketRefsExact, SockTypeOK
<1>6. NamesRight'
  BY <1>0, <1>2, <1>4, NamesStay DEF Named
<1>7. BytesRight'
  BY <1>1, <1>2, <1>4, BytesStay
<1>. QED
  BY <1>4, <1>5, <1>6, <1>7 DEF SockInv

\* The last descriptor goes: the slot is free again and the peer is told.
LEMMA CloseLastInv ==
    ASSUME Patient, SockInv, NEW s \in Sock, SocketClose(s), ~(socket_table[s].refcount > 1)
    PROVE  SockInv'
<1>. DEFINE p == socket_table[s].peer
            rp == [socket_table[p] EXCEPT !.peer = 0, !.closed = TRUE]
<1>0. /\ SockTypeOK /\ socket_table[s].used /\ held[s] = 1 /\ socket_table[s].refcount = 1
      /\ held' = [held EXCEPT ![s] = @ - 1] /\ UNCHANGED born
  <2>1. held[s] \in Nat /\ held[s] > 0 /\ held[s] = socket_table[s].refcount
    BY DEF SockInv, SockTypeOK, SocketClose, SocketRefsExact
  <2>2. held[s] = 1 /\ socket_table[s].refcount = 1
    BY ONLY <2>1, ~(socket_table[s].refcount > 1)
  <2>3. SockTypeOK /\ socket_table[s].used
    BY DEF SockInv, SocketClose, Live
  <2>4. held' = [held EXCEPT ![s] = @ - 1] /\ UNCHANGED born
    BY DEF SocketClose
  <2>. QED
    BY ONLY <2>2, <2>3, <2>4
<1>1. socket_table' = [t \in Sock |->
                IF t = s THEN Unused ELSE IF t = p /\ Live(p) THEN rp ELSE socket_table[t]]
  BY DEF SocketClose
<1>2. /\ p # 0 => /\ p \in Joined /\ s \in Joined /\ socket_table[p].peer = s
                  /\ p \in Sock /\ Live(p)
  <2>1. SUFFICES ASSUME p # 0
                 PROVE  /\ p \in Joined /\ s \in Joined /\ socket_table[p].peer = s
                        /\ p \in Sock /\ Live(p)
    OBVIOUS
  <2>2. p \in Joined /\ s \in Joined /\ socket_table[p].peer = s
    BY <2>1 DEF SockInv, PeersRight
  <2>. QED
    BY <2>2 DEF Joined, Live
<1>3. p = 0 => ~Live(p)
  BY DEF Live, Sock
<1>4. p # 0 => /\ rp \in SockRec /\ rp.used = socket_table[p].used
               /\ rp.refcount = socket_table[p].refcount
               /\ rp.type = socket_table[p].type /\ rp.state = socket_table[p].state
               /\ rp.peer = 0 /\ rp.closed = TRUE
               /\ rp.backlog = socket_table[p].backlog /\ rp.pending = socket_table[p].pending
               /\ rp.rx = socket_table[p].rx /\ rp.path = socket_table[p].path
  <2>1. p # 0 => socket_table[p] \in SockRec
    BY <1>0, <1>2, FieldTypes
  <2>2. 0 \in 0 .. SOCKET_MAX_COUNT /\ TRUE \in BOOLEAN
    BY SockSize
  <2>. QED
    BY ONLY <2>1, <2>2 DEF SockRec
<1>5. /\ socket_table'[s] = Unused
      /\ p # 0 /\ p # s => socket_table'[p] = rp
      /\ \A t \in Sock : t # s /\ (p = 0 \/ t # p) => socket_table'[t] = socket_table[t]
  BY ONLY <1>1, <1>2, <1>3, s \in Sock
<1>6. socket_table' \in [Sock -> SockRec]
  <2>1. \A t \in Sock : socket_table'[t] \in SockRec
    BY <1>0, <1>2, <1>4, <1>5, UnusedRec DEF SockTypeOK
  <2>. QED
    BY ONLY <1>1, <2>1
<1>. HIDE DEF rp
<1>7. \A t \in Sock : t # s =>
        /\ socket_table'[t].used = socket_table[t].used
        /\ socket_table'[t].refcount = socket_table[t].refcount
        /\ socket_table'[t].type = socket_table[t].type
        /\ socket_table'[t].state = socket_table[t].state
        /\ socket_table'[t].backlog = socket_table[t].backlog
        /\ socket_table'[t].pending = socket_table[t].pending
        /\ socket_table'[t].rx = socket_table[t].rx
        /\ socket_table'[t].path = socket_table[t].path
  BY ONLY <1>2, <1>4, <1>5
<1>8. SockTypeOK'
  <2>1. held' \in [Sock -> Nat]
    BY ONLY <1>0 DEF SockTypeOK
  <2>. QED
    BY <1>0, <1>6, <2>1 DEF SockTypeOK
<1>9. /\ Joined' = Joined \ {s} /\ Listening' = Listening \ {s}
      /\ Waiting' = Waiting \ {s} /\ Named' = Named \ {s}
  <2>1. ~socket_table'[s].used
    BY <1>5, UnusedRec
  <2>. QED
    BY ONLY <1>7, <2>1 DEF Joined, Listening, Waiting, Named
<1>10. FreeIsReset'
  <2>1. p # 0 /\ p # s => socket_table'[p].used
    BY <1>2, <1>7 DEF Joined
  <2>. QED
    BY <1>5, <2>1 DEF SockInv, FreeIsReset
<1>11. SocketRefsExact'
  <2>1. held'[s] = 0 /\ \A t \in Sock : t # s => held'[t] = held[t]
    BY ONLY <1>0, s \in Sock DEF SockTypeOK
  <2>. QED
    BY <1>5, <1>7, <2>1, UnusedRec DEF SockInv, SocketRefsExact
<1>12. NamesRight'
  BY <1>7, <1>9, NamesStay DEF Named
<1>13. QueuesRight'
  <2>. DEFINE Q(t) == socket_table[t].pending
              N(t) == socket_table'[t].pending
  <2>1. \A t \in Sock : \A i \in 1 .. Len(Q(t)) : Q(t)[i] # s
    <3>1. ~GivesUp(s)
      BY DEF SocketClose
    <3>2. \A t \in Sock : Q(t) \in Seq(Sock)
      BY <1>0, FieldTypes
    <3>. QED
      BY <1>0, <3>1, <3>2 DEF GivesUp, ToSet
  <2>2. \A t \in Sock : Len(N(t)) = 0 \/ (N(t) = Q(t) /\ t # s)
    BY <1>5, <1>7, UnusedRec, EmptySeq
  <2>3. \A t \in Sock : /\ Len(N(t)) <= socket_table'[t].backlog
                        /\ Len(N(t)) > 0 => t \in Listening'
    <3>. SUFFICES ASSUME NEW t \in Sock
                  PROVE  /\ Len(N(t)) <= socket_table'[t].backlog
                         /\ Len(N(t)) > 0 => t \in Listening'
      OBVIOUS
    <3>1. CASE t = s
      BY <1>5, <3>1, UnusedRec, EmptySeq
    <3>2. CASE t # s
      BY <1>7, <1>9, <3>2 DEF SockInv, QueuesRight
    <3>. QED
      BY <3>1, <3>2
  <2>4. \A t \in Sock : \A i \in 1 .. Len(Q(t)) : Q(t)[i] \in Waiting
    BY DEF SockInv, QueuesRight
  <2>5. \A t, m \in Sock : \A i \in 1 .. Len(Q(t)), j \in 1 .. Len(Q(m)) :
            Q(t)[i] = Q(m)[j] => t = m /\ i = j
    BY DEF SockInv, QueuesRight
  <2>. HIDE DEF Q, N
  <2>6. \A t \in Sock : \A i \in 1 .. Len(N(t)) : N(t) = Q(t)
    BY <2>2
  <2>7. \A t \in Sock : \A i \in 1 .. Len(N(t)) : N(t)[i] \in Waiting'
    BY <1>9, <2>1, <2>4, <2>6
  <2>8. \A t, m \in Sock : \A i \in 1 .. Len(N(t)), j \in 1 .. Len(N(m)) :
            N(t)[i] = N(m)[j] => t = m /\ i = j
    BY <2>5, <2>6
  <2>. QED
    BY <2>3, <2>7, <2>8 DEF QueuesRight, N
<1>14. PeersRight'
  <2>1. \A t \in Sock \ Joined' : socket_table'[t].peer = 0 /\ ~socket_table'[t].closed
    BY <1>2, <1>5, <1>9, UnusedRec DEF SockInv, PeersRight
  <2>2. p # 0 /\ p # s => socket_table'[p].peer = 0 /\ socket_table'[p].closed
    BY <1>2, <1>4, <1>5
  <2>3. ASSUME NEW t \in Joined', p = 0 \/ t # p
        PROVE  /\ socket_table'[t].peer = 0 => socket_table'[t].closed
               /\ socket_table'[t].peer # 0 =>
                  /\ socket_table'[t].peer \in Joined'
                  /\ socket_table'[socket_table'[t].peer].peer = t /\ ~socket_table'[t].closed
    <3>1. t \in Sock /\ t \in Joined /\ t # s
      BY <1>9 DEF Joined
    <3>2. socket_table'[t] = socket_table[t]
      BY <1>5, <2>3, <3>1
    <3>3. CASE socket_table[t].peer = 0
      BY <3>1, <3>2, <3>3 DEF SockInv, PeersRight
    <3>4. CASE socket_table[t].peer # 0
      <4>. DEFINE q == socket_table[t].peer
      <4>1. q \in Joined /\ socket_table[q].peer = t /\ ~socket_table[t].closed /\ q \in Sock
        BY <3>1, <3>4 DEF SockInv, PeersRight, Joined
      <4>2. q # s
        BY <2>3, <3>1, <3>4, <4>1 DEF Joined, Sock
      <4>3. p = 0 \/ q # p
        BY <1>2, <3>1, <4>1
      <4>4. socket_table'[q] = socket_table[q] /\ q \in Joined'
        BY <1>5, <1>9, <4>1, <4>2, <4>3
      <4>5. socket_table'[t].peer = q /\ socket_table'[t].closed = socket_table[t].closed
        BY <3>2
      <4>. HIDE DEF q
      <4>. QED
        BY ONLY <3>4, <4>1, <4>4, <4>5 DEF q
    <3>. QED
      BY <3>3, <3>4
  <2>4. \A t \in Joined' : t # s
    BY <1>9
  <2>. QED
    BY <2>1, <2>2, <2>3, <2>4 DEF PeersRight
<1>15. BytesRight'
  <2>1. /\ Len(socket_table'[s].rx) = 0 /\ s \notin Joined' /\ socket_table'[s].peer = 0
    BY <1>5, <1>9, UnusedRec, EmptySeq
  <2>2. \A t \in Sock : t # s =>
            socket_table'[t].peer = socket_table[t].peer \/ socket_table'[t].peer = 0
    BY <1>2, <1>4, <1>5
  <2>. QED
    BY <1>0, <1>7, <1>9, <2>1, <2>2 DEF SockInv, BytesRight
<1>. QED
  BY <1>8, <1>10, <1>11, <1>12, <1>13, <1>14, <1>15 DEF SockInv

-----------------------------------------------------------------------------
\* A step that changes what one socket has received, and nothing else.
LEMMA ReceivedChanges ==
    ASSUME SockInv, NEW s \in Sock, socket_table[s].used, NEW ring \in Seq(Sock \X Nat),
           NEW src \in SomePath, UNCHANGED <<held, born>>,
           socket_table' = [socket_table EXCEPT ![s].rx = ring, ![s].src = src],
           socket_table[s].type = "stream" =>
                /\ s \notin Joined => Len(ring) = 0
                /\ \A i, j \in 1 .. Len(ring) : ring[i] = ring[j]
                /\ socket_table[s].peer # 0 => \A i \in 1 .. Len(ring) :
                      ring[i] = <<socket_table[s].peer, born[socket_table[s].peer]>>
    PROVE  SockInv'
<1>. DEFINE r == [socket_table[s] EXCEPT !.rx = ring, !.src = src]
<1>0. SockTypeOK /\ socket_table[s] \in SockRec
  BY FieldTypes DEF SockInv
<1>1. socket_table' = [socket_table EXCEPT ![s] = r]
  BY <1>0 DEF SockTypeOK
<1>2. /\ r \in SockRec /\ r.used /\ r.refcount = socket_table[s].refcount
      /\ r.type = socket_table[s].type /\ r.state = socket_table[s].state
      /\ r.peer = socket_table[s].peer /\ r.closed = socket_table[s].closed
      /\ r.backlog = socket_table[s].backlog /\ r.pending = socket_table[s].pending
      /\ r.rx = ring /\ r.path = socket_table[s].path
  BY ONLY <1>0, socket_table[s].used, ring \in Seq(Sock \X Nat), src \in SomePath DEF SockRec
<1>. HIDE DEF r
<1>3. held' \in [Sock -> Nat]
  BY <1>0 DEF SockTypeOK
<1>4. /\ socket_table'[s] = r /\ \A t \in Sock : t # s => socket_table'[t] = socket_table[t]
      /\ Joined' = Joined /\ FreeIsReset' /\ QueuesRight' /\ PeersRight' /\ SockTypeOK'
  BY <1>1, <1>2, <1>3, SmallStep
<1>5. SocketRefsExact'
  <2>1. \A t \in Sock : /\ socket_table'[t].refcount = socket_table[t].refcount
                        /\ socket_table'[t].used <=> socket_table[t].used
    BY ONLY socket_table[s].used, <1>2, <1>4
  <2>2. SocketRefsExact /\ held' = held
    BY DEF SockInv
  <2>. QED
    BY ONLY <2>1, <2>2 DEF SocketRefsExact
<1>6. NamesRight'
  <2>1. Named' = Named
    BY ONLY socket_table[s].used, <1>2, <1>4 DEF Named
  <2>2. \A t \in Sock : socket_table'[t].path = socket_table[t].path
    BY ONLY <1>2, <1>4
  <2>. QED
    BY <2>1, <2>2, NamesStay DEF Named
<1>7. BytesRight'
  <2>1. BytesRight /\ born' = born
    BY DEF SockInv
  <2>2. \A t \in Sock : /\ socket_table'[t].type = socket_table[t].type
                        /\ socket_table'[t].peer = socket_table[t].peer
                        /\ t # s => socket_table'[t].rx = socket_table[t].rx
    BY ONLY <1>2, <1>4
  <2>3. socket_table'[s].rx = ring
    BY ONLY <1>2, <1>4
  <2>4. \A t \in Sock \ {s} : socket_table'[t].type = "stream" =>
            /\ t \notin Joined' => Len(socket_table'[t].rx) = 0
            /\ \A i, j \in 1 .. Len(socket_table'[t].rx) :
                    socket_table'[t].rx[i] = socket_table'[t].rx[j]
            /\ socket_table'[t].peer # 0 => \A i \in 1 .. Len(socket_table'[t].rx) :
                    socket_table'[t].rx[i] = <<socket_table'[t].peer, born'[socket_table'[t].peer]>>
    BY ONLY <1>4, <2>1, <2>2 DEF BytesRight
  <2>5. socket_table'[s].type = "stream" =>
            /\ s \notin Joined' => Len(socket_table'[s].rx) = 0
            /\ \A i, j \in 1 .. Len(socket_table'[s].rx) :
                    socket_table'[s].rx[i] = socket_table'[s].rx[j]
            /\ socket_table'[s].peer # 0 => \A i \in 1 .. Len(socket_table'[s].rx) :
                    socket_table'[s].rx[i] = <<socket_table'[s].peer, born'[socket_table'[s].peer]>>
    <3>1. /\ socket_table'[s].type = socket_table[s].type
          /\ socket_table'[s].peer = socket_table[s].peer
          /\ Joined' = Joined /\ born' = born
      BY <1>4, <2>1, <2>2
    <3>2. socket_table[s].type = "stream" =>
              /\ s \notin Joined => Len(ring) = 0
              /\ \A i, j \in 1 .. Len(ring) : ring[i] = ring[j]
              /\ socket_table[s].peer # 0 => \A i \in 1 .. Len(ring) :
                    ring[i] = <<socket_table[s].peer, born[socket_table[s].peer]>>
      OBVIOUS
    <3>. QED
      BY ONLY <2>3, <3>1, <3>2
  <2>. QED
    BY ONLY <2>4, <2>5 DEF BytesRight
<1>. QED
  BY <1>4, <1>5, <1>6, <1>7 DEF SockInv

LEMMA SuffixElements ==
    ASSUME NEW S, NEW q \in Seq(S), NEW n \in 1 .. Len(q)
    PROVE  LET r == SubSeq(q, n + 1, Len(q)) IN
           /\ r \in Seq(S)
           /\ \A i \in 1 .. Len(r) : i + n \in 1 .. Len(q) /\ r[i] = q[i + n]
<1>. DEFINE m == n + 1
            r == SubSeq(q, m, Len(q))
<1>1. Len(q) \in Int /\ m \in Int /\ n \in Int /\ n >= 1 /\ n <= Len(q) /\ m = n + 1
  OBVIOUS
<1>2. \A i \in m .. Len(q) : q[i] \in S
  BY <1>1, ElementOfSeq
<1>. HIDE DEF m
<1>3. /\ r \in Seq(S) /\ Len(r) = IF m <= Len(q) THEN Len(q) - m + 1 ELSE 0
      /\ \A i \in 1 .. Len(q) - m + 1 : r[i] = q[m + i - 1]
  BY ONLY <1>1, <1>2, SubSeqProperties
<1>. HIDE DEF r
<1>4. \A i \in 1 .. Len(r) : /\ i \in 1 .. Len(q) - m + 1 /\ i + n \in 1 .. Len(q)
                            /\ m + i - 1 = i + n
  BY <1>1, <1>3
<1>. QED
  BY <1>3, <1>4 DEF r, m

LEMMA SocketReadInv ==
    ASSUME SockInv, NEW s \in Sock, NEW n \in 1 .. SOCKET_BUFFER_SIZE, SocketRead(s, n)
    PROVE  SockInv'
<1>. DEFINE old == socket_table[s].rx
            ring == SubSeq(old, n + 1, Len(old))
            src == socket_table[s].src
<1>1. /\ SockTypeOK /\ socket_table[s].used /\ s \in Joined /\ UNCHANGED <<held, born>>
      /\ n \in 1 .. Len(old)
      /\ socket_table' = [socket_table EXCEPT ![s].rx = SubSeq(@, n + 1, Len(@))]
  BY DEF SockInv, SocketRead, Is, Live, Joined
<1>2. old \in Seq(Sock \X Nat) /\ src \in SomePath /\ socket_table[s] \in SockRec
      /\ Len(old) \in Nat
  BY <1>1, FieldTypes
<1>3. socket_table' = [socket_table EXCEPT ![s].rx = ring, ![s].src = src]
  BY <1>1, <1>2 DEF SockTypeOK, SockRec
<1>4. /\ ring \in Seq(Sock \X Nat)
      /\ \A i \in 1 .. Len(ring) : i + n \in 1 .. Len(old) /\ ring[i] = old[i + n]
  BY ONLY ZenonT(60), <1>1, <1>2, SuffixElements
<1>5. socket_table[s].type = "stream" =>
        /\ \A i, j \in 1 .. Len(old) : old[i] = old[j]
        /\ socket_table[s].peer # 0 => \A i \in 1 .. Len(old) :
              old[i] = <<socket_table[s].peer, born[socket_table[s].peer]>>
  BY DEF SockInv, BytesRight
<1>. HIDE DEF old, ring, src
<1>6. socket_table[s].type = "stream" =>
        /\ \A i, j \in 1 .. Len(ring) : ring[i] = ring[j]
        /\ socket_table[s].peer # 0 => \A i \in 1 .. Len(ring) :
              ring[i] = <<socket_table[s].peer, born[socket_table[s].peer]>>
  BY ONLY <1>4, <1>5
<1>7. socket_table[s].used /\ s \in Joined
  BY ONLY <1>1
<1>8. socket_table[s].type = "stream" =>
        /\ s \notin Joined => Len(ring) = 0
        /\ \A i, j \in 1 .. Len(ring) : ring[i] = ring[j]
        /\ socket_table[s].peer # 0 => \A i \in 1 .. Len(ring) :
              ring[i] = <<socket_table[s].peer, born[socket_table[s].peer]>>
  BY ONLY <1>6, <1>7
<1>9. ring \in Seq(Sock \X Nat) /\ src \in SomePath /\ UNCHANGED <<held, born>>
  BY ONLY <1>1, <1>2, <1>4
<1>. QED
  BY ONLY SockInv, s \in Sock, <1>3, <1>7, <1>8, <1>9, ReceivedChanges

\* What is written goes to the peer, which knows the writer as its own peer.
LEMMA SocketWriteInv == ASSUME SockInv, NEW s \in Sock, SocketWrite(s) PROVE SockInv'
<1>. DEFINE p == socket_table[s].peer
            old == socket_table[p].rx
            ring == Append(old, Id(s))
            src == socket_table[p].src
<1>1. /\ SockTypeOK /\ s \in Joined /\ UNCHANGED <<held, born>>
      /\ p \in Sock /\ socket_table[p].used
      /\ socket_table' = [socket_table EXCEPT ![p].rx = Append(@, Id(s))]
  BY DEF SockInv, SocketWrite, CanWrite, Is, Live, Joined
<1>2. p \in Joined /\ socket_table[p].peer = s /\ s # 0
  BY <1>1 DEF SockInv, PeersRight, Sock
<1>3. old \in Seq(Sock \X Nat) /\ src \in SomePath /\ socket_table[p] \in SockRec
      /\ Len(old) \in Nat /\ Id(s) \in Sock \X Nat /\ Id(s) = <<s, born[s]>>
  BY <1>1, FieldTypes DEF Id, SockTypeOK
<1>4. socket_table' = [socket_table EXCEPT ![p].rx = ring, ![p].src = src]
  BY <1>1, <1>3 DEF SockTypeOK, SockRec
<1>6. socket_table[p].type = "stream" => \A i \in 1 .. Len(old) : old[i] = <<s, born[s]>>
  BY <1>1, <1>2 DEF SockInv, BytesRight
<1>. HIDE DEF p, old, src
<1>5. /\ ring \in Seq(Sock \X Nat) /\ Len(ring) = Len(old) + 1
      /\ \A i \in 1 .. Len(old) : ring[i] = old[i]
      /\ ring[Len(old) + 1] = <<s, born[s]>>
  BY ONLY <1>3, AppendProperties
<1>. HIDE DEF ring
<1>7. socket_table[p].type = "stream" => \A i \in 1 .. Len(ring) : ring[i] = <<s, born[s]>>
  <2>1. \A i \in 1 .. Len(ring) : i \in 1 .. Len(old) \/ i = Len(old) + 1
    BY ONLY <1>3, <1>5
  <2>. QED
    BY ONLY <1>5, <1>6, <2>1
<1>8. socket_table[p].type = "stream" =>
        /\ p \notin Joined => Len(ring) = 0
        /\ \A i, j \in 1 .. Len(ring) : ring[i] = ring[j]
        /\ socket_table[p].peer # 0 => \A i \in 1 .. Len(ring) :
              ring[i] = <<socket_table[p].peer, born[socket_table[p].peer]>>
  BY ONLY <1>2, <1>7
<1>9. /\ ring \in Seq(Sock \X Nat) /\ src \in SomePath /\ UNCHANGED <<held, born>>
      /\ p \in Sock /\ socket_table[p].used
  BY ONLY <1>1, <1>3, <1>5
<1>. QED
  BY ONLY SockInv, <1>4, <1>8, <1>9, ReceivedChanges

LEMMA SendToInv ==
    ASSUME SockInv, NEW s \in Sock, NEW path \in SocketPaths, SendTo(s, path) PROVE SockInv'
<1>1. PICK d \in FirstAt(path, "bound", {"dgram"}) :
        socket_table' = [socket_table EXCEPT ![d].rx = <<Id(s)>>, ![d].src = socket_table[s].path]
  BY DEF SendTo
<1>2. /\ d \in Sock /\ socket_table[d].used /\ socket_table[d].type = "dgram"
      /\ UNCHANGED <<held, born>>
  BY <1>1 DEF FirstAt, Is, Live, SendTo
<1>3. <<Id(s)>> \in Seq(Sock \X Nat) /\ socket_table[s].path \in SomePath
  BY FieldTypes DEF SockInv, SockTypeOK, Id
<1>. QED
  BY <1>1, <1>2, <1>3, ReceivedChanges

LEMMA RecvFromInv == ASSUME SockInv, NEW s \in Sock, RecvFrom(s) PROVE SockInv'
<1>1. /\ socket_table[s].used /\ socket_table[s].type = "dgram" /\ UNCHANGED <<held, born>>
      /\ socket_table' = [socket_table EXCEPT ![s].rx = <<>>, ![s].src = "none"]
  BY DEF RecvFrom, Live
<1>2. <<>> \in Seq(Sock \X Nat) /\ "none" \in SomePath
  BY DEF SomePath
<1>. QED
  BY <1>1, <1>2, ReceivedChanges

-----------------------------------------------------------------------------
LEMMA SockNextInv == ASSUME Patient, SockInv, [SockNext]_sockVars PROVE SockInv'
<1>1. CASE SockNext
  <2>1. PICK s \in Sock :
            \/ \E type \in {"stream", "dgram"} : SocketOpen(s, type)
            \/ AddRef(s) \/ SocketClose(s)
            \/ \E path \in SocketPaths : Bind(s, path) \/ Connect(s, path) \/ SendTo(s, path)
            \/ \E b \in 1 .. SOCKET_BACKLOG_MAX : Listen(s, b)
            \/ \E n \in Sock : Accept(s, n)
            \/ AcceptFails(s) \/ AcceptNoFd(s)
            \/ \E n \in 1 .. SOCKET_BUFFER_SIZE : SocketRead(s, n)
            \/ SocketWrite(s) \/ RecvFrom(s)
    BY <1>1 DEF SockNext
  <2>2. CASE \E type \in {"stream", "dgram"} : SocketOpen(s, type)
    BY <2>2, SocketOpenInv
  <2>3. CASE AddRef(s)
    BY <2>3, AddRefInv
  <2>4. CASE SocketClose(s)
    BY <2>4, ClosePartInv, CloseLastInv
  <2>5. CASE \E path \in SocketPaths : Bind(s, path) \/ Connect(s, path) \/ SendTo(s, path)
    BY <2>5, BindInv, ConnectInv, SendToInv
  <2>6. CASE \E b \in 1 .. SOCKET_BACKLOG_MAX : Listen(s, b)
    BY <2>6, ListenInv
  <2>7. CASE \E n \in Sock : Accept(s, n)
    BY <2>7, AcceptInv
  <2>8. CASE AcceptFails(s) \/ AcceptNoFd(s)
    BY <2>8, AcceptFailsInv, AcceptNoFdInv
  <2>9. CASE \E n \in 1 .. SOCKET_BUFFER_SIZE : SocketRead(s, n)
    BY <2>9, SocketReadInv
  <2>10. CASE SocketWrite(s) \/ RecvFrom(s)
    BY <2>10, SocketWriteInv, RecvFromInv
  <2>. QED
    BY <2>1, <2>2, <2>3, <2>4, <2>5, <2>6, <2>7, <2>8, <2>9, <2>10
<1>2. CASE UNCHANGED sockVars
  BY <1>2 DEF sockVars, SockInv, SockTypeOK, FreeIsReset, SocketRefsExact, NamesRight,
              QueuesRight, PeersRight, BytesRight, Joined, Listening, Waiting, Named
<1>. QED
  BY <1>1, <1>2

\* The invariant in the terms of the property.
LEMMA SockInvSound == ASSUME SockInv PROVE ConnectionsSound
<1>0. SockTypeOK /\ Joined \subseteq Sock
  BY DEF SockInv, Joined
<1>1. PathsUnique
  BY DEF SockInv, NamesRight, Named, PathsUnique, Is, Live
<1>2. PeersMutual
  <2>. SUFFICES ASSUME NEW s \in Joined
                PROVE  IF socket_table[s].peer = 0 THEN socket_table[s].closed
                       ELSE /\ Is(socket_table[s].peer, "connected")
                            /\ socket_table[socket_table[s].peer].peer = s
                            /\ ~socket_table[s].closed
    BY DEF PeersMutual, Is, Live, Joined
  <2>. QED
    BY DEF SockInv, PeersRight, Joined, Is, Live
<1>3. QueuesHoldPending
  <2>1. \A t \in Sock : /\ socket_table[t].pending \in Seq(Sock)
                        /\ DOMAIN socket_table[t].pending = 1 .. Len(socket_table[t].pending)
    BY <1>0, FieldTypes
  <2>. SUFFICES ASSUME NEW l \in Sock
                PROVE  /\ Len(socket_table[l].pending) <= socket_table[l].backlog
                       /\ \A i \in DOMAIN socket_table[l].pending :
                            Is(socket_table[l].pending[i], "pending")
                       /\ IsInjective(socket_table[l].pending)
                       /\ \A m \in Sock \ {l} :
                            ToSet(socket_table[l].pending) \cap ToSet(socket_table[m].pending) = {}
    BY DEF QueuesHoldPending
  <2>2. /\ Len(socket_table[l].pending) <= socket_table[l].backlog
        /\ \A i \in DOMAIN socket_table[l].pending : Is(socket_table[l].pending[i], "pending")
    BY <2>1 DEF SockInv, QueuesRight, Waiting, Is, Live
  <2>3. IsInjective(socket_table[l].pending)
    BY SMTT(30), <2>1 DEF SockInv, QueuesRight, IsInjective
  <2>4. \A m \in Sock \ {l} :
            ToSet(socket_table[l].pending) \cap ToSet(socket_table[m].pending) = {}
    <3>. SUFFICES ASSUME NEW m \in Sock \ {l}, NEW x \in ToSet(socket_table[l].pending),
                         x \in ToSet(socket_table[m].pending)
                  PROVE  FALSE
      OBVIOUS
    <3>1. PICK i \in 1 .. Len(socket_table[l].pending) : x = socket_table[l].pending[i]
      BY <2>1 DEF ToSet
    <3>2. PICK j \in 1 .. Len(socket_table[m].pending) : x = socket_table[m].pending[j]
      BY <2>1 DEF ToSet
    <3>. QED
      BY ZenonT(60), <3>1, <3>2 DEF SockInv, QueuesRight
  <2>. QED
    BY <2>2, <2>3, <2>4
<1>4. BytesFromPeer
  <2>. SUFFICES ASSUME NEW s \in Sock, socket_table[s].type = "stream"
                PROVE  /\ Cardinality(ToSet(socket_table[s].rx)) <= 1
                       /\ socket_table[s].peer # 0 =>
                             ToSet(socket_table[s].rx) \subseteq {Id(socket_table[s].peer)}
    BY DEF BytesFromPeer
  <2>. DEFINE ring == socket_table[s].rx
  <2>1. ring \in Seq(Sock \X Nat) /\ DOMAIN ring = 1 .. Len(ring) /\ Len(ring) \in Nat
    BY <1>0, FieldTypes
  <2>2. /\ \A i, j \in 1 .. Len(ring) : ring[i] = ring[j]
        /\ socket_table[s].peer # 0 =>
              \A i \in 1 .. Len(ring) : ring[i] = Id(socket_table[s].peer)
    BY DEF SockInv, BytesRight, Id
  <2>. HIDE DEF ring
  <2>3. ToSet(ring) = {} \/ ToSet(ring) = {ring[1]}
    <3>1. CASE Len(ring) = 0
      BY ONLY <2>1, <3>1 DEF ToSet
    <3>2. CASE Len(ring) # 0
      <4>1. 1 \in 1 .. Len(ring)
        BY ONLY <2>1, <3>2
      <4>2. \A x \in ToSet(ring) : x = ring[1]
        BY ONLY <2>1, <2>2, <4>1 DEF ToSet
      <4>3. ring[1] \in ToSet(ring)
        BY ONLY <2>1, <4>1 DEF ToSet
      <4>. QED
        BY ONLY <4>2, <4>3
    <3>. QED
      BY <3>1, <3>2
  <2>4. Cardinality(ToSet(ring)) <= 1
    <3>1. CASE ToSet(ring) = {}
      BY ONLY <3>1, FS_EmptySet
    <3>2. CASE ToSet(ring) = {ring[1]}
      <4>1. Cardinality({ring[1]}) = 1
        BY ONLY FS_Singleton
      <4>. QED
        BY ONLY <3>2, <4>1
    <3>. QED
      BY <2>3, <3>1, <3>2
  <2>5. socket_table[s].peer # 0 => ToSet(ring) \subseteq {Id(socket_table[s].peer)}
    BY <2>1, <2>2 DEF ToSet
  <2>. QED
    BY <2>4, <2>5 DEF ring
<1>. QED
  BY <1>1, <1>2, <1>3, <1>4 DEF SockInv, ConnectionsSound

\* As long as no client gives up while it waits (socket_close leaves its
\* number in the queue): sockets are referred to by exactly their
\* descriptors, a path leads to one of them, the queues hold clients that
\* wait, connections are mutual, and bytes come from the peer.
THEOREM ConnectionsHold == ASSUME Patient PROVE SockSpec => []ConnectionsSound
<1>1. SockInit => SockInv
  BY SockInitInv
<1>2. SockInv /\ [SockNext]_sockVars => SockInv'
  BY SockNextInv
<1>3. SockInv => ConnectionsSound
  BY SockInvSound
<1>. QED
  BY <1>1, <1>2, <1>3, PTL DEF SockSpec

-----------------------------------------------------------------------------
(* Network cards and the registry of interfaces (Cards), for rings of      *)
(* every length and any number of frames.  In a ring the frames that wait  *)
(* are the ones that follow those taken, in consecutive slots; a card's    *)
(* ring also marks exactly these slots.                                    *)

\* The slot k places after slot i of a ring with n slots.
Ahead(i, k, n) == IF i + k < n THEN i + k ELSE i + k - n

LEMMA FollowingIsAhead == ASSUME NEW n \in Nat \ {0}, NEW i \in 0 .. n - 1
  PROVE Following(i, n) = Ahead(i, 1, n) /\ Ahead(i, 1, n) \in 0 .. n - 1
<1>1. CASE i + 1 < n
  <2>1. (i + 1) % n = i + 1
    BY <1>1
  <2>. QED
    BY <1>1, <2>1 DEF Following, Ahead
<1>2. CASE i + 1 = n
  <2>1. n % n = 0
    OBVIOUS
  <2>. QED
    BY <1>2, <2>1 DEF Following, Ahead
<1>. QED
  BY <1>1, <1>2

LEMMA OneAhead == ASSUME NEW n \in Nat \ {0}, NEW i \in 0 .. n - 1, NEW k \in 0 .. n - 1
  PROVE Ahead(Ahead(i, 1, n), k, n) = Ahead(i, k + 1, n)
BY DEF Ahead
LEMMA AheadOne == ASSUME NEW n \in Nat \ {0}, NEW i \in 0 .. n - 1, NEW k \in 0 .. n - 1
  PROVE Ahead(Ahead(i, k, n), 1, n) = Ahead(i, k + 1, n)
BY DEF Ahead
LEMMA AheadAway == ASSUME NEW n \in Nat \ {0}, NEW i \in 0 .. n - 1, NEW k \in 0 .. n, Ahead(i, k, n) # i
  PROVE k \in 1 .. n - 1
BY DEF Ahead
LEMMA AheadApart == ASSUME NEW n \in Nat \ {0}, NEW i \in 0 .. n - 1, NEW j \in 0 .. n - 1, NEW k \in 0 .. n - 1,
  Ahead(i, j, n) = Ahead(i, k, n)
  PROVE j = k
BY DEF Ahead
LEMMA EverySlotAhead == ASSUME NEW n \in Nat \ {0}, NEW i \in 0 .. n - 1, NEW d \in 0 .. n - 1
  PROVE \E k \in 0 .. n - 1 : d = Ahead(i, k, n)
<1>1. CASE d >= i
  BY <1>1, d - i \in 0 .. n - 1, d = Ahead(i, d - i, n) DEF Ahead
<1>2. CASE d < i
  BY <1>2, d - i + n \in 0 .. n - 1, d = Ahead(i, d - i + n, n) DEF Ahead
<1>. QED
  BY <1>1, <1>2

-----------------------------------------------------------------------------
(* A ring with n slots: "count" frames wait in the slots from "first" on,  *)
(* the ones that follow the "taken" frames handed over so far; "busy" are  *)
(* the slots they wait in.                                                 *)
Frames(slots, first, count, taken, n) ==
    \A k \in 0 .. n - 1 : k < count => slots[Ahead(first, k, n)] = taken + k + 1
Exactly(busy, first, count, n) ==
    \A k \in 0 .. n - 1 : Ahead(first, k, n) \in busy <=> k < count

LEMMA FramesPut == ASSUME NEW n \in Nat \ {0}, NEW first \in 0 .. n - 1, NEW count \in 0 .. n - 1,
                          NEW taken \in Nat, NEW slots \in [0 .. n - 1 -> Nat],
                          Frames(slots, first, count, taken, n)
  PROVE Frames([slots EXCEPT ![Ahead(first, count, n)] = taken + count + 1], first, count + 1, taken, n)
<1>. DEFINE more == [slots EXCEPT ![Ahead(first, count, n)] = taken + count + 1]
<1>1. ASSUME NEW k \in 0 .. n - 1, k < count + 1 PROVE more[Ahead(first, k, n)] = taken + k + 1
  <2>1. Ahead(first, k, n) \in 0 .. n - 1
    BY DEF Ahead
  <2>2. CASE k = count
    BY <2>1, <2>2
  <2>3. CASE k < count
    <3>1. Ahead(first, k, n) # Ahead(first, count, n)
      BY <2>3, AheadApart
    <3>. QED
      BY <2>1, <2>3, <3>1 DEF Frames
  <2>. QED
    BY <1>1, <2>2, <2>3
<1>. QED
  BY <1>1 DEF Frames

LEMMA FramesTake == ASSUME NEW n \in Nat \ {0}, NEW first \in 0 .. n - 1, NEW count \in 1 .. n,
                           NEW taken \in Nat, NEW slots, Frames(slots, first, count, taken, n)
  PROVE slots[first] = taken + 1 /\ Frames(slots, Ahead(first, 1, n), count - 1, taken + 1, n)
<1>1. Ahead(first, 0, n) = first
  BY DEF Ahead
<1>2. slots[first] = taken + 1
  BY <1>1 DEF Frames
<1>3. ASSUME NEW k \in 0 .. n - 1, k < count - 1
      PROVE slots[Ahead(Ahead(first, 1, n), k, n)] = (taken + 1) + k + 1
  <2>1. Ahead(Ahead(first, 1, n), k, n) = Ahead(first, k + 1, n)
    BY OneAhead
  <2>2. k + 1 \in 0 .. n - 1 /\ k + 1 < count
    BY <1>3
  <2>3. slots[Ahead(first, k + 1, n)] = taken + (k + 1) + 1
    BY <2>2 DEF Frames
  <2>. QED
    BY <2>1, <2>3
<1>. QED
  BY <1>2, <1>3 DEF Frames

LEMMA ExactlyPut == ASSUME NEW n \in Nat \ {0}, NEW first \in 0 .. n - 1, NEW count \in 0 .. n - 1,
                           NEW busy, Exactly(busy, first, count, n)
  PROVE Exactly(busy \cup {Ahead(first, count, n)}, first, count + 1, n)
<1>1. ASSUME NEW k \in 0 .. n - 1
      PROVE Ahead(first, k, n) \in busy \cup {Ahead(first, count, n)} <=> k < count + 1
  <2>1. Ahead(first, k, n) = Ahead(first, count, n) <=> k = count
    BY AheadApart
  <2>2. Ahead(first, k, n) \in busy <=> k < count
    BY DEF Exactly
  <2>3. k < count + 1 <=> (k < count \/ k = count)
    OBVIOUS
  <2>. QED
    BY <2>1, <2>2, <2>3
<1>. QED
  BY <1>1 DEF Exactly

LEMMA ExactlyTake == ASSUME NEW n \in Nat \ {0}, NEW first \in 0 .. n - 1, NEW count \in 1 .. n,
                            NEW busy, Exactly(busy, first, count, n)
  PROVE first \in busy /\ Exactly(busy \ {first}, Ahead(first, 1, n), count - 1, n)
<1>1. Ahead(first, 0, n) = first /\ Ahead(first, n, n) = first
  BY DEF Ahead
<1>2. first \in busy
  BY <1>1 DEF Exactly
<1>3. ASSUME NEW k \in 0 .. n - 1
      PROVE Ahead(Ahead(first, 1, n), k, n) \in busy \ {first} <=> k < count - 1
  <2>1. Ahead(Ahead(first, 1, n), k, n) = Ahead(first, k + 1, n)
    BY OneAhead
  <2>2. CASE k = n - 1
    <3>1. Ahead(first, k + 1, n) = first /\ ~(k < count - 1)
      BY <1>1, <2>2
    <3>. QED
      BY <2>1, <3>1
  <2>3. CASE k + 1 \in 0 .. n - 1
    <3>1. Ahead(first, k + 1, n) # first
      BY <1>1, <2>3, AheadApart, 0 \in 0 .. n - 1, k + 1 # 0
    <3>2. Ahead(first, k + 1, n) \in busy <=> k + 1 < count
      BY <2>3 DEF Exactly
    <3>3. k + 1 < count <=> k < count - 1
      OBVIOUS
    <3>. QED
      BY <2>1, <3>1, <3>2, <3>3
  <2>. QED
    BY <2>2, <2>3
<1>. QED
  BY <1>2, <1>3 DEF Exactly

\* A frame handed over in its turn keeps the order.
LEMMA OutKept == ASSUME NEW out \in Seq(Nat), \A k \in DOMAIN out : out[k] = k
  PROVE /\ Append(out, Len(out) + 1) \in Seq(Nat) /\ Len(Append(out, Len(out) + 1)) = Len(out) + 1
        /\ \A k \in DOMAIN Append(out, Len(out) + 1) : Append(out, Len(out) + 1)[k] = k
<1>. DEFINE longer == Append(out, Len(out) + 1)
<1>1. longer \in Seq(Nat) /\ Len(longer) = Len(out) + 1 /\ DOMAIN longer = 1 .. Len(out) + 1
  OBVIOUS
<1>2. ASSUME NEW k \in 1 .. Len(out) + 1 PROVE longer[k] = k
  <2>1. CASE k = Len(out) + 1
    BY <2>1
  <2>2. CASE k \in 1 .. Len(out)
    BY <2>2
  <2>. QED
    BY <2>1, <2>2
<1>. QED
  BY <1>1, <1>2

-----------------------------------------------------------------------------
(* The three rings.  A slot of "lo" stays free; all transmit descriptors   *)
(* may be the card's, which then stands still for good; the receive        *)
(* descriptor at the tail is never done.                                   *)
LoInv ==
    /\ lo \in [queue : [LoIndex -> Nat], in : Nat, out : Seq(Nat), head : LoIndex, tail : LoIndex]
    /\ InOrder(lo)
    /\ lo.in - Len(lo.out) \in LoIndex
    /\ lo.head = Ahead(lo.tail, lo.in - Len(lo.out), LOOP_LEN)
    /\ Frames(lo.queue, lo.tail, lo.in - Len(lo.out), Len(lo.out), LOOP_LEN)

CardRing == [buffer : [Desc -> Nat], dd : SUBSET Desc, in : Nat, out : Seq(Nat), head : Desc, tail : Desc]

TxInv ==
    /\ tx \in CardRing
    /\ InOrder(tx)
    /\ tx.in - Len(tx.out) \in 0 .. NUM_DESC
    /\ tx.tail = Ahead(tx.head, tx.in - Len(tx.out), NUM_DESC)
    /\ Frames(tx.buffer, tx.head, tx.in - Len(tx.out), Len(tx.out), NUM_DESC)
    /\ Exactly(Desc \ tx.dd, tx.head, tx.in - Len(tx.out), NUM_DESC)

RxInv ==
    LET next == Ahead(rx.tail, 1, NUM_DESC) IN
    /\ rx \in CardRing
    /\ InOrder(rx)
    /\ rx.in - Len(rx.out) \in Desc
    /\ rx.head = Ahead(next, rx.in - Len(rx.out), NUM_DESC)
    /\ Frames(rx.buffer, next, rx.in - Len(rx.out), Len(rx.out), NUM_DESC)
    /\ Exactly(rx.dd, next, rx.in - Len(rx.out), NUM_DESC)

IfacesInv ==
    /\ ifaces \in Seq([driver : Drivers, up : BOOLEAN, name : Nat])
    /\ IsFiniteSet(CardNames)
    /\ NamesUnique

CardsInv == LoInv /\ TxInv /\ RxInv /\ IfacesInv

LEMMA CardInitInv == ASSUME CardInit PROVE CardsInv
<1>. USE CardsAssumption DEF CardInit, Ahead, InOrder, CardRing, Frames, Exactly
<1>1. LoInv
  BY DEF LoInv, LoIndex
<1>2. TxInv
  BY DEF TxInv, Desc
<1>3. RxInv
  <2>1. rx.tail = NUM_DESC - 1 /\ rx.head = 0 /\ rx.dd = {} /\ rx.in - Len(rx.out) = 0
    OBVIOUS
  <2>2. Ahead(rx.tail, 1, NUM_DESC) = 0 /\ Ahead(0, 0, NUM_DESC) = 0
    BY <2>1
  <2>3. rx \in CardRing /\ InOrder(rx) /\ 0 \in Desc
    BY DEF Desc
  <2>4. Frames(rx.buffer, 0, 0, Len(rx.out), NUM_DESC) /\ Exactly({}, 0, 0, NUM_DESC)
    OBVIOUS
  <2>. QED
    BY <2>1, <2>2, <2>3, <2>4 DEF RxInv
<1>4. IfacesInv
  <2>1. CardNames = {}
    BY DEF CardNames
  <2>. QED
    BY <2>1, FS_EmptySet DEF IfacesInv, NamesUnique
<1>. QED
  BY <1>1, <1>2, <1>3, <1>4 DEF CardsInv

-----------------------------------------------------------------------------
LEMMA LoopbackSendKept == ASSUME LoInv, LoopbackSend PROVE LoInv'
<1>. LOOP_LEN \in Nat \ {0} /\ LoIndex = 0 .. LOOP_LEN - 1
  BY CardsAssumption DEF LoIndex
<1>. DEFINE c == lo.in - Len(lo.out)
<1>1. /\ lo.queue \in [LoIndex -> Nat] /\ lo.in \in Nat /\ lo.out \in Seq(Nat) /\ Len(lo.out) \in Nat
      /\ lo.head \in LoIndex /\ lo.tail \in LoIndex /\ c \in LoIndex
      /\ lo.head = Ahead(lo.tail, c, LOOP_LEN)
      /\ Frames(lo.queue, lo.tail, c, Len(lo.out), LOOP_LEN)
  BY DEF LoInv
<1>2. Following(lo.head, LOOP_LEN) = Ahead(lo.head, 1, LOOP_LEN) /\ Following(lo.head, LOOP_LEN) \in LoIndex
  BY <1>1, FollowingIsAhead
<1>3. lo' = [lo EXCEPT !.queue = [lo.queue EXCEPT ![lo.head] = lo.in + 1], !.in = lo.in + 1,
                       !.head = Following(lo.head, LOOP_LEN)]
  BY DEF LoopbackSend
<1>4. /\ lo'.queue = [lo.queue EXCEPT ![lo.head] = lo.in + 1] /\ lo'.in = lo.in + 1
      /\ lo'.out = lo.out /\ lo'.head = Following(lo.head, LOOP_LEN) /\ lo'.tail = lo.tail
  BY <1>3 DEF LoInv
<1>5. lo' \in [queue : [LoIndex -> Nat], in : Nat, out : Seq(Nat), head : LoIndex, tail : LoIndex]
  <2>0. lo.queue \in [LoIndex -> Nat] /\ lo.in \in Nat /\ lo.in + 1 \in Nat
    <3>1. lo.queue \in [LoIndex -> Nat] /\ lo.in \in Nat
      BY ONLY <1>1
    <3>. QED
      BY ONLY <3>1
  <2>1. [lo.queue EXCEPT ![lo.head] = lo.in + 1] \in [LoIndex -> Nat] /\ lo.in + 1 \in Nat
    BY ONLY <2>0
  <2>. QED
    BY <1>2, <1>3, <2>1 DEF LoInv
<1>6. lo'.in - Len(lo'.out) = c + 1
  BY <1>1, <1>4
<1>7. c + 1 \in LoIndex /\ lo'.head = Ahead(lo.tail, c + 1, LOOP_LEN)
  <2>1. Ahead(lo.head, 1, LOOP_LEN) # lo.tail
    BY <1>2 DEF LoopbackSend
  <2>. HIDE DEF c
  <2>2. Ahead(lo.head, 1, LOOP_LEN) = Ahead(lo.tail, c + 1, LOOP_LEN)
    BY <1>1, AheadOne
  <2>3. c + 1 \in 1 .. LOOP_LEN - 1
    BY <1>1, <2>1, <2>2, AheadAway
  <2>. QED
    BY <1>2, <1>4, <2>2, <2>3
<1>8. Frames(lo'.queue, lo'.tail, c + 1, Len(lo'.out), LOOP_LEN)
  <2>1. Len(lo.out) + c + 1 = lo.in + 1
    BY SMTT(30), <1>1
  <2>. HIDE DEF c
  <2>2. Frames([lo.queue EXCEPT ![Ahead(lo.tail, c, LOOP_LEN)] = Len(lo.out) + c + 1],
               lo.tail, c + 1, Len(lo.out), LOOP_LEN)
    BY <1>1, FramesPut
  <2>. QED
    BY <1>1, <1>4, <2>1, <2>2
<1>9. InOrder(lo)'
  BY <1>4 DEF LoInv, InOrder
<1>. HIDE DEF c
<1>. QED
  BY <1>4, <1>5, <1>6, <1>7, <1>8, <1>9 DEF LoInv, LoIndex

LEMMA LoopbackRecvKept == ASSUME LoInv, LoopbackRecv PROVE LoInv'
<1>. LOOP_LEN \in Nat \ {0} /\ LoIndex = 0 .. LOOP_LEN - 1
  BY CardsAssumption DEF LoIndex
<1>. DEFINE c == lo.in - Len(lo.out)
<1>1. /\ lo.queue \in [LoIndex -> Nat] /\ lo.in \in Nat /\ lo.out \in Seq(Nat) /\ Len(lo.out) \in Nat
      /\ lo.head \in LoIndex /\ lo.tail \in LoIndex /\ c \in LoIndex
      /\ lo.head = Ahead(lo.tail, c, LOOP_LEN)
      /\ Frames(lo.queue, lo.tail, c, Len(lo.out), LOOP_LEN)
      /\ \A k \in DOMAIN lo.out : lo.out[k] = k
  BY DEF LoInv, InOrder
<1>2. Following(lo.tail, LOOP_LEN) = Ahead(lo.tail, 1, LOOP_LEN) /\ Following(lo.tail, LOOP_LEN) \in LoIndex
  BY <1>1, FollowingIsAhead
<1>3. c \in 1 .. LOOP_LEN
  <2>1. lo.head # lo.tail
    BY DEF LoopbackRecv
  <2>. HIDE DEF c
  <2>. QED
    BY <1>1, <2>1 DEF Ahead
<1>4. /\ lo.queue[lo.tail] = Len(lo.out) + 1
      /\ Frames(lo.queue, Ahead(lo.tail, 1, LOOP_LEN), c - 1, Len(lo.out) + 1, LOOP_LEN)
  <2>. HIDE DEF c
  <2>. QED
    BY <1>1, <1>3, FramesTake
<1>5. lo' = [lo EXCEPT !.out = Append(lo.out, Len(lo.out) + 1), !.tail = Following(lo.tail, LOOP_LEN)]
  BY <1>4 DEF LoopbackRecv
<1>6. /\ lo'.queue = lo.queue /\ lo'.in = lo.in /\ lo'.out = Append(lo.out, Len(lo.out) + 1)
      /\ lo'.head = lo.head /\ lo'.tail = Ahead(lo.tail, 1, LOOP_LEN)
  BY <1>2, <1>5 DEF LoInv
<1>7. /\ lo'.out \in Seq(Nat) /\ Len(lo'.out) = Len(lo.out) + 1
      /\ \A k \in DOMAIN lo'.out : lo'.out[k] = k
  BY <1>1, <1>6, OutKept
<1>8. lo' \in [queue : [LoIndex -> Nat], in : Nat, out : Seq(Nat), head : LoIndex, tail : LoIndex]
  BY <1>2, <1>5, <1>6, <1>7 DEF LoInv
<1>9. lo'.in - Len(lo'.out) = c - 1 /\ c - 1 \in LoIndex
  BY SMTT(30), <1>1, <1>3, <1>6, <1>7
<1>10. lo'.head = Ahead(lo'.tail, c - 1, LOOP_LEN)
  <2>. HIDE DEF c
  <2>1. c - 1 \in LoIndex /\ (c - 1) + 1 = c
    BY <1>3
  <2>2. Ahead(Ahead(lo.tail, 1, LOOP_LEN), c - 1, LOOP_LEN) = Ahead(lo.tail, c, LOOP_LEN)
    BY <1>1, <2>1, OneAhead
  <2>. QED
    BY <1>1, <1>6, <2>2
<1>11. Frames(lo'.queue, lo'.tail, c - 1, Len(lo'.out), LOOP_LEN)
  BY <1>4, <1>6, <1>7
<1>. HIDE DEF c
<1>. QED
  BY <1>7, <1>8, <1>9, <1>10, <1>11 DEF LoInv, LoIndex, InOrder

LEMMA E1000SendKept == ASSUME TxInv, E1000Send PROVE TxInv'
<1>. NUM_DESC \in Nat \ {0} /\ Desc = 0 .. NUM_DESC - 1
  BY CardsAssumption DEF Desc
<1>. DEFINE c == tx.in - Len(tx.out)
<1>1. /\ tx.buffer \in [Desc -> Nat] /\ tx.dd \in SUBSET Desc /\ tx.in \in Nat /\ tx.out \in Seq(Nat)
      /\ Len(tx.out) \in Nat /\ tx.head \in Desc /\ tx.tail \in Desc /\ c \in 0 .. NUM_DESC
      /\ tx.tail = Ahead(tx.head, c, NUM_DESC)
      /\ Frames(tx.buffer, tx.head, c, Len(tx.out), NUM_DESC)
      /\ Exactly(Desc \ tx.dd, tx.head, c, NUM_DESC)
  BY DEF TxInv, CardRing
<1>2. Following(tx.tail, NUM_DESC) = Ahead(tx.tail, 1, NUM_DESC) /\ Following(tx.tail, NUM_DESC) \in Desc
  BY <1>1, FollowingIsAhead
<1>3. c \in 0 .. NUM_DESC - 1
  <2>. HIDE DEF c
  <2>1. CASE c = NUM_DESC
    <3>1. Ahead(tx.head, c, NUM_DESC) = tx.head
      BY <1>1, <2>1 DEF Ahead
    <3>2. c \in 1 .. NUM_DESC
      BY <2>1
    <3>3. tx.head \in Desc \ tx.dd
      BY <1>1, <3>2, ExactlyTake
    <3>. QED
      BY <1>1, <3>1, <3>3 DEF E1000Send
  <2>. QED
    BY <1>1, <2>1
<1>4. tx' = [tx EXCEPT !.buffer = [tx.buffer EXCEPT ![tx.tail] = tx.in + 1], !.dd = tx.dd \ {tx.tail},
                       !.in = tx.in + 1, !.tail = Following(tx.tail, NUM_DESC)]
  BY DEF E1000Send
<1>5. /\ tx'.buffer = [tx.buffer EXCEPT ![tx.tail] = tx.in + 1] /\ tx'.dd = tx.dd \ {tx.tail}
      /\ tx'.in = tx.in + 1 /\ tx'.out = tx.out /\ tx'.head = tx.head
      /\ tx'.tail = Following(tx.tail, NUM_DESC)
  BY <1>4 DEF TxInv, CardRing
<1>6. tx' \in CardRing
  <2>1. [tx.buffer EXCEPT ![tx.tail] = tx.in + 1] \in [Desc -> Nat] /\ tx.in + 1 \in Nat
        /\ tx.dd \ {tx.tail} \in SUBSET Desc
    BY SMTT(30), <1>1
  <2>. QED
    BY <1>2, <1>4, <2>1 DEF TxInv, CardRing
<1>7. tx'.in - Len(tx'.out) = c + 1 /\ c + 1 \in 0 .. NUM_DESC /\ Len(tx.out) + c + 1 = tx.in + 1
  <2>1. tx'.in - Len(tx'.out) = c + 1
    BY <1>1, <1>5
  <2>2. c + 1 \in 0 .. NUM_DESC
    <3>. HIDE DEF c
    <3>. QED
      BY <1>3
  <2>3. Len(tx.out) + c + 1 = tx.in + 1
    BY <1>1
  <2>. QED
    BY <2>1, <2>2, <2>3
<1>. HIDE DEF c
<1>8. tx'.tail = Ahead(tx.head, c + 1, NUM_DESC)
  BY <1>1, <1>2, <1>3, <1>5, AheadOne
<1>9. Frames(tx'.buffer, tx'.head, c + 1, Len(tx'.out), NUM_DESC)
  <2>1. Frames([tx.buffer EXCEPT ![Ahead(tx.head, c, NUM_DESC)] = Len(tx.out) + c + 1],
               tx.head, c + 1, Len(tx.out), NUM_DESC)
    BY <1>1, <1>3, FramesPut
  <2>. QED
    BY <1>1, <1>5, <1>7, <2>1
<1>10. Exactly(Desc \ tx'.dd, tx'.head, c + 1, NUM_DESC)
  <2>1. Desc \ tx'.dd = (Desc \ tx.dd) \cup {tx.tail}
    BY <1>1, <1>5
  <2>2. Exactly((Desc \ tx.dd) \cup {Ahead(tx.head, c, NUM_DESC)}, tx.head, c + 1, NUM_DESC)
    BY <1>1, <1>3, ExactlyPut
  <2>. QED
    BY <1>1, <1>5, <2>1, <2>2
<1>11. InOrder(tx)'
  BY <1>5 DEF TxInv, InOrder
<1>. QED
  BY <1>5, <1>6, <1>7, <1>8, <1>9, <1>10, <1>11 DEF TxInv, Desc

LEMMA CardSendsKept == ASSUME TxInv, CardSends PROVE TxInv'
<1>. NUM_DESC \in Nat \ {0} /\ Desc = 0 .. NUM_DESC - 1
  BY CardsAssumption DEF Desc
<1>. DEFINE c == tx.in - Len(tx.out)
<1>1. /\ tx.buffer \in [Desc -> Nat] /\ tx.dd \in SUBSET Desc /\ tx.in \in Nat /\ tx.out \in Seq(Nat)
      /\ Len(tx.out) \in Nat /\ tx.head \in Desc /\ tx.tail \in Desc /\ c \in 0 .. NUM_DESC
      /\ tx.tail = Ahead(tx.head, c, NUM_DESC)
      /\ Frames(tx.buffer, tx.head, c, Len(tx.out), NUM_DESC)
      /\ Exactly(Desc \ tx.dd, tx.head, c, NUM_DESC)
      /\ \A k \in DOMAIN tx.out : tx.out[k] = k
  BY DEF TxInv, CardRing, InOrder
<1>2. Following(tx.head, NUM_DESC) = Ahead(tx.head, 1, NUM_DESC) /\ Following(tx.head, NUM_DESC) \in Desc
  BY <1>1, FollowingIsAhead
<1>3. c \in 1 .. NUM_DESC - 1
  <2>1. tx.head # tx.tail
    BY DEF CardSends
  <2>. HIDE DEF c
  <2>. QED
    BY <1>1, <2>1, AheadAway
<1>4. /\ tx.buffer[tx.head] = Len(tx.out) + 1
      /\ Frames(tx.buffer, Ahead(tx.head, 1, NUM_DESC), c - 1, Len(tx.out) + 1, NUM_DESC)
      /\ Exactly((Desc \ tx.dd) \ {tx.head}, Ahead(tx.head, 1, NUM_DESC), c - 1, NUM_DESC)
  <2>. HIDE DEF c
  <2>1. c \in 1 .. NUM_DESC
    BY <1>3
  <2>2. /\ tx.buffer[tx.head] = Len(tx.out) + 1
        /\ Frames(tx.buffer, Ahead(tx.head, 1, NUM_DESC), c - 1, Len(tx.out) + 1, NUM_DESC)
    BY <1>1, <2>1, FramesTake
  <2>3. Exactly((Desc \ tx.dd) \ {tx.head}, Ahead(tx.head, 1, NUM_DESC), c - 1, NUM_DESC)
    BY <1>1, <2>1, ExactlyTake
  <2>. QED
    BY <2>2, <2>3
<1>5. tx' = [tx EXCEPT !.out = Append(tx.out, Len(tx.out) + 1), !.dd = tx.dd \cup {tx.head},
                       !.head = Following(tx.head, NUM_DESC)]
  BY <1>4 DEF CardSends
<1>6. /\ tx'.buffer = tx.buffer /\ tx'.dd = tx.dd \cup {tx.head} /\ tx'.in = tx.in
      /\ tx'.out = Append(tx.out, Len(tx.out) + 1) /\ tx'.head = Ahead(tx.head, 1, NUM_DESC)
      /\ tx'.tail = tx.tail
  BY <1>2, <1>5 DEF TxInv, CardRing
<1>7. /\ tx'.out \in Seq(Nat) /\ Len(tx'.out) = Len(tx.out) + 1
      /\ \A k \in DOMAIN tx'.out : tx'.out[k] = k
  BY <1>1, <1>6, OutKept
<1>8. tx' \in CardRing
  <2>1. tx.dd \cup {tx.head} \in SUBSET Desc
    BY <1>1
  <2>. HIDE DEF c
  <2>. QED
    BY <1>2, <1>5, <1>6, <1>7, <2>1 DEF TxInv, CardRing
<1>9. tx'.in - Len(tx'.out) = c - 1 /\ c - 1 \in 0 .. NUM_DESC
  <2>1. tx'.in - Len(tx'.out) = c - 1
    <3>1. tx'.in = tx.in /\ Len(tx'.out) = Len(tx.out) + 1 /\ tx.in \in Nat /\ Len(tx.out) \in Nat
      BY <1>1, <1>6, <1>7
    <3>. QED
      BY <3>1
  <2>2. c - 1 \in 0 .. NUM_DESC
    <3>. HIDE DEF c
    <3>. QED
      BY <1>3
  <2>. QED
    BY <2>1, <2>2
<1>. HIDE DEF c
<1>10. tx'.tail = Ahead(tx'.head, c - 1, NUM_DESC)
  <2>1. c - 1 \in Desc /\ (c - 1) + 1 = c
    BY <1>3
  <2>2. Ahead(Ahead(tx.head, 1, NUM_DESC), c - 1, NUM_DESC) = Ahead(tx.head, c, NUM_DESC)
    BY <1>1, <2>1, OneAhead
  <2>. QED
    BY <1>1, <1>6, <2>2
<1>11. Exactly(Desc \ tx'.dd, tx'.head, c - 1, NUM_DESC)
  <2>1. Desc \ tx'.dd = (Desc \ tx.dd) \ {tx.head}
    BY <1>6
  <2>. QED
    BY <1>4, <1>6, <2>1
<1>12. Frames(tx'.buffer, tx'.head, c - 1, Len(tx'.out), NUM_DESC)
  BY <1>4, <1>6, <1>7
<1>. QED
  BY <1>7, <1>8, <1>9, <1>10, <1>11, <1>12 DEF TxInv, Desc, InOrder

LEMMA CardReceivesKept == ASSUME RxInv, CardReceives PROVE RxInv'
<1>. NUM_DESC \in Nat \ {0} /\ Desc = 0 .. NUM_DESC - 1
  BY CardsAssumption DEF Desc
<1>. DEFINE c == rx.in - Len(rx.out)
            next == Ahead(rx.tail, 1, NUM_DESC)
<1>1. /\ rx.buffer \in [Desc -> Nat] /\ rx.dd \in SUBSET Desc /\ rx.in \in Nat /\ rx.out \in Seq(Nat)
      /\ Len(rx.out) \in Nat /\ rx.head \in Desc /\ rx.tail \in Desc /\ c \in Desc
      /\ rx.head = Ahead(next, c, NUM_DESC)
      /\ Frames(rx.buffer, next, c, Len(rx.out), NUM_DESC)
      /\ Exactly(rx.dd, next, c, NUM_DESC)
  BY DEF RxInv, CardRing
<1>2. /\ Following(rx.head, NUM_DESC) = Ahead(rx.head, 1, NUM_DESC) /\ Following(rx.head, NUM_DESC) \in Desc
      /\ next \in Desc
  BY <1>1, FollowingIsAhead
<1>3. c \in 0 .. NUM_DESC - 2
  <2>. HIDE DEF c
  <2>1. CASE c = NUM_DESC - 1
    <3>1. NUM_DESC - 1 \in 0 .. NUM_DESC - 1
      OBVIOUS
    <3>2. Ahead(next, c, NUM_DESC) = Ahead(rx.tail, NUM_DESC, NUM_DESC)
      BY <1>1, <2>1, <3>1, OneAhead
    <3>3. Ahead(rx.tail, NUM_DESC, NUM_DESC) = rx.tail
      BY <1>1 DEF Ahead
    <3>. QED
      BY <1>1, <3>2, <3>3 DEF CardReceives
  <2>. QED
    BY <1>1, <2>1
<1>4. rx' = [rx EXCEPT !.buffer = [rx.buffer EXCEPT ![rx.head] = rx.in + 1], !.dd = rx.dd \cup {rx.head},
                       !.in = rx.in + 1, !.head = Following(rx.head, NUM_DESC)]
  BY DEF CardReceives
<1>5. /\ rx'.buffer = [rx.buffer EXCEPT ![rx.head] = rx.in + 1] /\ rx'.dd = rx.dd \cup {rx.head}
      /\ rx'.in = rx.in + 1 /\ rx'.out = rx.out /\ rx'.tail = rx.tail
      /\ rx'.head = Following(rx.head, NUM_DESC)
  BY <1>4 DEF RxInv, CardRing
<1>6. rx' \in CardRing
  <2>1. [rx.buffer EXCEPT ![rx.head] = rx.in + 1] \in [Desc -> Nat] /\ rx.in + 1 \in Nat
        /\ rx.dd \cup {rx.head} \in SUBSET Desc
    BY SMTT(30), <1>1
  <2>. HIDE DEF c, next
  <2>. QED
    BY <1>2, <1>4, <2>1 DEF RxInv, CardRing
<1>7. rx'.in - Len(rx'.out) = c + 1 /\ c + 1 \in Desc /\ Len(rx.out) + c + 1 = rx.in + 1
  <2>1. rx'.in - Len(rx'.out) = c + 1
    BY <1>1, <1>5
  <2>2. c + 1 \in Desc
    <3>. HIDE DEF c
    <3>. QED
      BY <1>3
  <2>3. Len(rx.out) + c + 1 = rx.in + 1
    BY SMTT(30), <1>1
  <2>. QED
    BY <2>1, <2>2, <2>3
<1>8. next = Ahead(rx'.tail, 1, NUM_DESC)
  BY <1>5
<1>. HIDE DEF c, next
<1>9. rx'.head = Ahead(next, c + 1, NUM_DESC)
  BY <1>1, <1>2, <1>5, AheadOne
<1>10. Frames(rx'.buffer, next, c + 1, Len(rx'.out), NUM_DESC)
  <2>1. Frames([rx.buffer EXCEPT ![Ahead(next, c, NUM_DESC)] = Len(rx.out) + c + 1],
               next, c + 1, Len(rx.out), NUM_DESC)
    BY <1>1, <1>2, FramesPut
  <2>. QED
    BY <1>1, <1>5, <1>7, <2>1
<1>11. Exactly(rx'.dd, next, c + 1, NUM_DESC)
  <2>1. Exactly(rx.dd \cup {Ahead(next, c, NUM_DESC)}, next, c + 1, NUM_DESC)
    BY <1>1, <1>2, ExactlyPut
  <2>. QED
    BY <1>1, <1>5, <2>1
<1>12. InOrder(rx)'
  BY <1>5 DEF RxInv, InOrder
<1>. QED
  BY <1>6, <1>7, <1>8, <1>9, <1>10, <1>11, <1>12 DEF RxInv, Desc

LEMMA E1000RecvKept == ASSUME RxInv, E1000Recv PROVE RxInv'
<1>. NUM_DESC \in Nat \ {0} /\ Desc = 0 .. NUM_DESC - 1
  BY CardsAssumption DEF Desc
<1>. DEFINE c == rx.in - Len(rx.out)
            next == Ahead(rx.tail, 1, NUM_DESC)
<1>1. /\ rx.buffer \in [Desc -> Nat] /\ rx.dd \in SUBSET Desc /\ rx.in \in Nat /\ rx.out \in Seq(Nat)
      /\ Len(rx.out) \in Nat /\ rx.head \in Desc /\ rx.tail \in Desc /\ c \in Desc
      /\ rx.head = Ahead(next, c, NUM_DESC)
      /\ Frames(rx.buffer, next, c, Len(rx.out), NUM_DESC)
      /\ Exactly(rx.dd, next, c, NUM_DESC)
      /\ \A k \in DOMAIN rx.out : rx.out[k] = k
  BY DEF RxInv, CardRing, InOrder
<1>2. Following(rx.tail, NUM_DESC) = next /\ next \in Desc
  BY <1>1, FollowingIsAhead
<1>3. c \in 1 .. NUM_DESC
  <2>. HIDE DEF c, next
  <2>1. next \in rx.dd
    BY <1>2 DEF E1000Recv
  <2>2. Ahead(next, 0, NUM_DESC) = next /\ 0 \in 0 .. NUM_DESC - 1
    BY <1>2 DEF Ahead
  <2>3. 0 < c
    BY <1>1, <2>1, <2>2 DEF Exactly
  <2>. QED
    BY <1>1, <2>3
<1>4. /\ rx.buffer[next] = Len(rx.out) + 1
      /\ Frames(rx.buffer, Ahead(next, 1, NUM_DESC), c - 1, Len(rx.out) + 1, NUM_DESC)
  <2>. HIDE DEF c, next
  <2>1. Len(rx.out) \in Nat /\ Frames(rx.buffer, next, c, Len(rx.out), NUM_DESC) /\ next \in 0 .. NUM_DESC - 1
    BY <1>1, <1>2
  <2>. QED
    BY <1>3, <2>1, FramesTake
<1>5. Exactly(rx.dd \ {next}, Ahead(next, 1, NUM_DESC), c - 1, NUM_DESC)
  <2>. HIDE DEF c, next
  <2>. QED
    BY <1>1, <1>2, <1>3, ExactlyTake
<1>6. rx' = [rx EXCEPT !.out = Append(rx.out, Len(rx.out) + 1), !.dd = rx.dd \ {next}, !.tail = next]
  <2>. HIDE DEF c, next
  <2>. QED
    BY <1>2, <1>4 DEF E1000Recv
<1>7. /\ rx'.buffer = rx.buffer /\ rx'.dd = rx.dd \ {next} /\ rx'.in = rx.in
      /\ rx'.out = Append(rx.out, Len(rx.out) + 1) /\ rx'.tail = next /\ rx'.head = rx.head
  <2>. HIDE DEF c, next
  <2>. QED
    BY <1>6 DEF RxInv, CardRing
<1>8. /\ rx'.out \in Seq(Nat) /\ Len(rx'.out) = Len(rx.out) + 1
      /\ \A k \in DOMAIN rx'.out : rx'.out[k] = k
  <2>. HIDE DEF c, next
  <2>. QED
    BY <1>1, <1>7, OutKept
<1>9. rx' \in CardRing
  <2>1. rx.dd \ {next} \in SUBSET Desc
    BY <1>1
  <2>. HIDE DEF c, next
  <2>. QED
    BY <1>2, <1>6, <1>7, <1>8, <2>1 DEF RxInv, CardRing
<1>10. rx'.in - Len(rx'.out) = c - 1 /\ c - 1 \in Desc
  <2>1. rx'.in - Len(rx'.out) = c - 1
    BY SMTT(30), <1>1, <1>7, <1>8
  <2>2. c - 1 \in Desc
    <3>. HIDE DEF c
    <3>. QED
      BY <1>1, <1>3
  <2>. QED
    BY <2>1, <2>2
<1>. HIDE DEF c, next
<1>11. rx'.head = Ahead(Ahead(next, 1, NUM_DESC), c - 1, NUM_DESC)
  <2>1. (c - 1) + 1 = c
    BY <1>3
  <2>2. Ahead(Ahead(next, 1, NUM_DESC), c - 1, NUM_DESC) = Ahead(next, c, NUM_DESC)
    BY <1>2, <1>10, <2>1, OneAhead
  <2>. QED
    BY <1>1, <1>7, <2>2
<1>. QED
  BY <1>4, <1>5, <1>7, <1>8, <1>9, <1>10, <1>11 DEF RxInv, Desc, InOrder

LEMMA RegisterInterfaceKept ==
  ASSUME IfacesInv, NEW driver \in Drivers, NEW up \in BOOLEAN, RegisterInterface(driver, up)
  PROVE IfacesInv'
<1>. DEFINE Iface == [driver : Drivers, up : BOOLEAN, name : Nat]
<1>1. PICK n \in EthName : ifaces' = Append(ifaces, [driver |-> driver, up |-> up, name |-> n])
  BY DEF RegisterInterface
<1>2. n \in Nat /\ n \notin CardNames
  BY CardsAssumption DEF EthName
<1>. DEFINE e == [driver |-> driver, up |-> up, name |-> n]
<1>3. ifaces \in Seq(Iface) /\ e \in Iface /\ ifaces' = Append(ifaces, e)
  BY <1>1, <1>2 DEF IfacesInv
<1>. HIDE DEF e
<1>4. /\ ifaces' \in Seq(Iface) /\ Len(ifaces') = Len(ifaces) + 1
      /\ DOMAIN ifaces' = (DOMAIN ifaces) \cup {Len(ifaces) + 1}
      /\ \A k \in DOMAIN ifaces : ifaces'[k] = ifaces[k]
      /\ ifaces'[Len(ifaces) + 1] = e
  BY <1>3
<1>5. CardNames' = CardNames \cup {n}
  <2>1. e.name = n
    BY DEF e
  <2>. QED
    BY <1>4, <2>1 DEF CardNames
<1>6. IsFiniteSet(CardNames') /\ Cardinality(CardNames') = Len(ifaces')
  BY <1>2, <1>4, <1>5, FS_AddElement DEF IfacesInv, NamesUnique
<1>. QED
  BY <1>4, <1>6 DEF IfacesInv, NamesUnique

LEMMA CardStepInv == ASSUME CardsInv, [CardNext]_cardVars PROVE CardsInv'
<1>1. CASE UNCHANGED cardVars
  BY <1>1 DEF cardVars, CardsInv, LoInv, TxInv, RxInv, IfacesInv, InOrder, NamesUnique, CardNames
<1>2. /\ UNCHANGED lo => LoInv'
      /\ UNCHANGED tx => TxInv'
      /\ UNCHANGED rx => RxInv'
      /\ UNCHANGED ifaces => IfacesInv'
  <2>1. UNCHANGED lo => LoInv'
    BY DEF CardsInv, LoInv, InOrder
  <2>2. UNCHANGED tx => TxInv'
    BY DEF CardsInv, TxInv, InOrder
  <2>3. UNCHANGED rx => RxInv'
    BY DEF CardsInv, RxInv, InOrder
  <2>4. UNCHANGED ifaces => IfacesInv'
    BY DEF CardsInv, IfacesInv, NamesUnique, CardNames
  <2>. QED
    BY <2>1, <2>2, <2>3, <2>4
<1>3. CASE LoopbackSend
  BY <1>2, <1>3, LoopbackSendKept DEF CardsInv, LoopbackSend
<1>4. CASE LoopbackRecv
  BY <1>2, <1>4, LoopbackRecvKept DEF CardsInv, LoopbackRecv
<1>5. CASE E1000Send
  BY <1>2, <1>5, E1000SendKept DEF CardsInv, E1000Send
<1>6. CASE CardSends
  BY <1>2, <1>6, CardSendsKept DEF CardsInv, CardSends
<1>7. CASE CardReceives
  BY <1>2, <1>7, CardReceivesKept DEF CardsInv, CardReceives
<1>8. CASE E1000Recv
  BY <1>2, <1>8, E1000RecvKept DEF CardsInv, E1000Recv
<1>9. ASSUME NEW driver \in Drivers, NEW up \in BOOLEAN, RegisterInterface(driver, up) PROVE CardsInv'
  BY <1>2, <1>9, RegisterInterfaceKept DEF CardsInv, RegisterInterface
<1>. QED
  BY <1>1, <1>3, <1>4, <1>5, <1>6, <1>7, <1>8, <1>9 DEF CardNext

LEMMA CardsInvSound == ASSUME CardsInv PROVE CardsSound
<1>. NUM_DESC \in Nat \ {0, 1} /\ Desc = 0 .. NUM_DESC - 1 /\ LoIndex = 0 .. LOOP_LEN - 1 /\ LOOP_LEN \in Nat \ {0}
  BY CardsAssumption DEF Desc, LoIndex
<1>1. lo.head = lo.tail => Len(lo.out) = lo.in
  <2>. DEFINE c == lo.in - Len(lo.out)
  <2>1. c \in LoIndex /\ lo.tail \in LoIndex /\ lo.head = Ahead(lo.tail, c, LOOP_LEN)
        /\ lo.in \in Nat /\ Len(lo.out) \in Nat
    BY DEF CardsInv, LoInv
  <2>2. lo.head = lo.tail => c = 0
    <3>. HIDE DEF c
    <3>. QED
      BY <2>1 DEF Ahead
  <2>. QED
    BY <2>1, <2>2
<1>2. rx.dd = {} => Len(rx.out) = rx.in
  <2>. DEFINE c == rx.in - Len(rx.out)
              next == Ahead(rx.tail, 1, NUM_DESC)
  <2>1. c \in Desc /\ Exactly(rx.dd, next, c, NUM_DESC) /\ rx.in \in Nat /\ Len(rx.out) \in Nat
    BY DEF CardsInv, RxInv, CardRing
  <2>2. rx.dd = {} => c = 0
    <3>. HIDE DEF c, next
    <3>1. 0 \in 0 .. NUM_DESC - 1
      OBVIOUS
    <3>2. 0 < c => Ahead(next, 0, NUM_DESC) \in rx.dd
      BY <2>1, <3>1 DEF Exactly
    <3>. QED
      BY <2>1, <3>2
  <2>. QED
    BY <2>1, <2>2
<1>. QED
  BY <1>1, <1>2 DEF CardsSound, RingsFifo, CardsInv, LoInv, TxInv, RxInv, IfacesInv

\* The rings of "lo" and of the card hand over every frame once and in order,
\* and no two interfaces have one name.
THEOREM CardsKept == CardSpec => []CardsSound
<1>1. CardSpec => []CardsInv
  BY CardInitInv, CardStepInv, PTL DEF CardSpec
<1>. QED
  BY <1>1, CardsInvSound, PTL

-----------------------------------------------------------------------------
(* The network control plane (Netctl), for tables and rings of every size. *)
(* The best route is the best among the first slots at each step of the    *)
(* pass (BestOf).                                                          *)

RouteRec == [used : BOOLEAN, dest : Nat, prefix_len : Nat, oif : Nat, metric : Nat]

\* Route "best" beats those in the first r slots that match, or none does.
BestOf(best, r, d) ==
    IF best = 0 THEN \A q \in 1 .. r : ~RouteMatches(q, d)
    ELSE /\ best \in Slot /\ RouteMatches(best, d)
         /\ \A q \in 1 .. r : RouteMatches(q, d) =>
                \/ routes[q].prefix_len < routes[best].prefix_len
                \/ /\ routes[q].prefix_len = routes[best].prefix_len
                   /\ routes[q].metric >= routes[best].metric

\* The pass of RouteLookup, slot by slot.
LEMMA LookupRuns ==
  ASSUME NEW d
  PROVE  \E run : /\ RouteLookup(d) = run[NETDEV_MAX_ROUTES]
                  /\ run[0] = 0
                  /\ \A r \in Slot : run[r] = IF RouteMatches(r, d) /\ Better(r, run[r - 1])
                                              THEN r ELSE run[r - 1]
<1>. DEFINE N == NETDEV_MAX_ROUTES
            X == 0 .. N
            Scans(g) == g = [r \in 0 .. N |->
                            IF r = 0 THEN 0
                            ELSE IF RouteMatches(r, d) /\ Better(r, g[r - 1]) THEN r ELSE g[r - 1]]
<1>1. N \in Nat /\ 0 \in X
  BY NetctlAssumption
<1>2. PICK G : G = [x \in X \X (1 .. N) |-> IF RouteMatches(x[2], d) /\ Better(x[2], x[1]) THEN x[2] ELSE x[1]]
  OBVIOUS
<1>3. G \in [X \X (1 .. N) -> X]
  BY <1>1, <1>2
<1>4. PICK run : IsLoop(run, X, 0, N, G)
  <2>. HIDE DEF X, N
  <2>. QED
    BY <1>1, <1>3, Iterates
<1>5. ASSUME NEW r \in 1 .. N
      PROVE run[r] = IF RouteMatches(r, d) /\ Better(r, run[r - 1]) THEN r ELSE run[r - 1]
  <2>1. r - 1 \in 0 .. N /\ run[r - 1] \in X /\ run[r] = G[<<run[r - 1], r>>]
    BY <1>1, <1>4 DEF IsLoop
  <2>. QED
    BY <1>2, <2>1
<1>6. Scans(run)
  BY <1>4, <1>5 DEF IsLoop
<1>7. Scans(CHOOSE g : Scans(g))
  BY <1>6
<1>8. RouteLookup(d) = (CHOOSE g : Scans(g))[N]
  BY DEF RouteLookup
<1>9. ASSUME NEW g, Scans(g)
      PROVE /\ g[0] = 0
            /\ \A r \in Slot : g[r] = IF RouteMatches(r, d) /\ Better(r, g[r - 1]) THEN r ELSE g[r - 1]
  <2>1. 0 \in 0 .. N /\ \A r \in Slot : r \in 0 .. N /\ r # 0
    BY <1>1 DEF Slot
  <2>2. g = [r \in 0 .. N |-> IF r = 0 THEN 0
               ELSE IF RouteMatches(r, d) /\ Better(r, g[r - 1]) THEN r ELSE g[r - 1]]
    BY <1>9
  <2>. HIDE DEF Scans
  <2>3. g[0] = 0
    BY <2>1, <2>2
  <2>4. ASSUME NEW r \in Slot
        PROVE g[r] = IF RouteMatches(r, d) /\ Better(r, g[r - 1]) THEN r ELSE g[r - 1]
    BY <2>1, <2>2
  <2>. QED
    BY <2>3, <2>4
<1>. HIDE DEF Scans
<1>. QED
  BY <1>7, <1>8, <1>9

LEMMA LookupBest == ASSUME routes \in [Slot -> RouteRec], NEW d
  PROVE BestOf(RouteLookup(d), NETDEV_MAX_ROUTES, d)
<1>. DEFINE N == NETDEV_MAX_ROUTES
<1>1. PICK run : /\ RouteLookup(d) = run[N] /\ run[0] = 0
                 /\ \A r \in Slot : run[r] = IF RouteMatches(r, d) /\ Better(r, run[r - 1]) THEN r ELSE run[r - 1]
  BY LookupRuns
<1>. DEFINE Good == {r \in 0 .. N : BestOf(run[r], r, d)}
<1>2. N \in Nat /\ \A r \in 1 .. N : r \in Slot /\ r - 1 \in 0 .. N
  BY NetctlAssumption DEF Slot
<1>3. 0 \in Good
  <2>1. BestOf(0, 0, d)
    BY DEF BestOf
  <2>. QED
    BY <1>1, <1>2, <2>1
<1>4. ASSUME NEW r \in 1 .. N, r - 1 \in Good PROVE r \in Good
  <2>. DEFINE best == run[r - 1]
  <2>3. r \in Slot /\ r # 0 /\ NETDEV_MAX_ROUTES \in Nat
    BY <1>2 DEF Slot
  <2>4. BestOf(best, r - 1, d)
    BY <1>4
  <2>5. run[r] = IF RouteMatches(r, d) /\ Better(r, best) THEN r ELSE best
    BY <1>1, <2>3
  <2>6. ASSUME NEW q \in 1 .. r PROVE q \in 1 .. r - 1 \/ q = r
    BY <2>3 DEF Slot
  <2>7. \A q \in 1 .. r : q \in Slot
    BY <2>3 DEF Slot
  <2>8. \A q \in Slot : routes[q].prefix_len \in Nat /\ routes[q].metric \in Nat
    BY DEF RouteRec
  <2>. HIDE DEF best
  <2>9. BestOf(run[r], r, d)
    <3>1. CASE ~RouteMatches(r, d)
      <4>1. run[r] = best
        BY <2>5, <3>1
      <4>. QED
        BY <2>4, <2>6, <3>1, <4>1 DEF BestOf
    <3>2. CASE RouteMatches(r, d) /\ ~Better(r, best)
      <4>1. run[r] = best /\ best # 0
        BY <2>5, <3>2 DEF Better
      <4>2. best \in Slot /\ RouteMatches(best, d)
        BY <2>4, <4>1 DEF BestOf
      <4>3. \/ routes[r].prefix_len < routes[best].prefix_len
            \/ /\ routes[r].prefix_len = routes[best].prefix_len
               /\ routes[r].metric >= routes[best].metric
        BY <2>3, <2>8, <3>2, <4>1, <4>2 DEF Better
      <4>. QED
        BY <2>4, <2>6, <4>1, <4>2, <4>3 DEF BestOf
    <3>3. CASE RouteMatches(r, d) /\ Better(r, best)
      <4>1. run[r] = r /\ r # 0
        BY <2>3, <2>5, <3>3
      <4>2. ASSUME NEW q \in 1 .. r, RouteMatches(q, d)
            PROVE \/ routes[q].prefix_len < routes[r].prefix_len
                  \/ /\ routes[q].prefix_len = routes[r].prefix_len
                     /\ routes[q].metric >= routes[r].metric
        <5>1. q \in Slot /\ r \in Slot
          BY <2>3, <2>7
        <5>2. CASE q = r
          BY <2>8, <5>1, <5>2
        <5>3. CASE q \in 1 .. r - 1
          <6>1. best # 0 /\ best \in Slot
            BY <2>4, <4>2, <5>3 DEF BestOf
          <6>2. \/ routes[q].prefix_len < routes[best].prefix_len
                \/ /\ routes[q].prefix_len = routes[best].prefix_len
                   /\ routes[q].metric >= routes[best].metric
            BY <2>4, <4>2, <5>3, <6>1 DEF BestOf
          <6>3. \/ routes[r].prefix_len > routes[best].prefix_len
                \/ /\ routes[r].prefix_len = routes[best].prefix_len
                   /\ routes[r].metric < routes[best].metric
            BY <3>3, <6>1 DEF Better
          <6>. QED
            BY <2>8, <5>1, <6>1, <6>2, <6>3
        <5>. QED
          BY <2>6, <5>2, <5>3
      <4>. QED
        BY <2>3, <3>3, <4>1, <4>2 DEF BestOf
    <3>. QED
      BY <3>1, <3>2, <3>3
  <2>. QED
    BY <2>9
<1>5. N \in 0 .. N /\ 0 .. N \subseteq Good
  <2>. HIDE DEF Good
  <2>. QED
    BY <1>2, <1>3, <1>4, UpTo
<1>. QED
  BY <1>1, <1>5

-----------------------------------------------------------------------------
CtlRec == [used : BOOLEAN, groups : SUBSET Groups, rx : Seq({1, 2})]

Framed(ring) ==
    /\ Len(ring) <= NETCTL_SOCKET_BUFFER
    /\ ring # <<>> => ring[Len(ring)] = 2
    /\ \A k \in 1 .. Len(ring) - 1 : ring[k] # ring[k + 1]

\* A table of control sockets whose rings hold whole messages.
CtlOk(c) == c \in [Ctl -> CtlRec] /\ \A s \in Ctl : Framed(c[s].rx)

\* Two tables in which the same sockets are open, with the same groups.
SameGroups(c, e) == \A s \in Ctl : e[s].used = c[s].used /\ e[s].groups = c[s].groups

NetctlTypeOK ==
    /\ next_ifindex \in Nat \ {0}
    /\ DOMAIN devices \subseteq If
    /\ \A i \in DOMAIN devices : i < next_ifindex
    /\ addresses \in SUBSET (If \X IPv4)
    /\ routes \in [Slot -> RouteRec]
    /\ CtlOk(ctl)
    /\ knows \in [Ctl -> [If -> SUBSET SUBSET IPv4]]

NetctlInv == NetctlTypeOK /\ NoStaleInterface /\ MirrorExact

LEMMA NetctlInitInv == ASSUME NetctlInit PROVE NetctlInv
<1>. USE NetctlAssumption DEF NetctlInit
<1>1. DOMAIN devices = {} /\ next_ifindex = 1 /\ addresses = {}
  OBVIOUS
<1>2. routes \in [Slot -> RouteRec]
  BY DEF NoRoute, RouteRec
<1>3. CtlOk(ctl)
  <2>1. ClosedCtl \in CtlRec /\ Framed(ClosedCtl.rx)
    BY DEF ClosedCtl, CtlRec, Framed
  <2>. QED
    BY <2>1 DEF CtlOk
<1>4. knows \in [Ctl -> [If -> SUBSET SUBSET IPv4]]
  BY DEF Nothing
<1>5. NoStaleInterface
  BY DEF NoStaleInterface, NoRoute
<1>6. MirrorExact
  BY DEF MirrorExact, ClosedCtl
<1>. QED
  BY <1>1, <1>2, <1>3, <1>4, <1>5, <1>6 DEF NetctlInv, NetctlTypeOK

LEMMA FramedPut == ASSUME NEW ring \in Seq({1, 2}), Framed(ring), Len(ring) + 2 <= NETCTL_SOCKET_BUFFER
  PROVE ring \o <<1, 2>> \in Seq({1, 2}) /\ Framed(ring \o <<1, 2>>)
<1>. DEFINE more == ring \o <<1, 2>>  n == Len(ring)
<1>1. more \in Seq({1, 2}) /\ Len(more) = n + 2 /\ n \in Nat /\ more # <<>>
  OBVIOUS
<1>2. more[n + 1] = 1 /\ more[n + 2] = 2
  OBVIOUS
<1>3. \A k \in 1 .. n : more[k] = ring[k]
  OBVIOUS
<1>4. ASSUME NEW k \in 1 .. Len(more) - 1 PROVE more[k] # more[k + 1]
  <2>1. k \in 1 .. n - 1 \/ (k = n /\ n > 0) \/ k = n + 1
    BY <1>1
  <2>2. CASE k \in 1 .. n - 1
    <3>1. k \in 1 .. n /\ k + 1 \in 1 .. n
      BY <1>1, <2>2
    <3>. QED
      BY <1>3, <2>2, <3>1 DEF Framed
  <2>3. CASE k = n /\ n > 0
    <3>1. ring[n] = 2
      BY <2>3 DEF Framed
    <3>. QED
      BY <1>1, <1>2, <1>3, <2>3, <3>1
  <2>4. CASE k = n + 1
    BY <1>1, <1>2, <2>4
  <2>. QED
    BY <2>1, <2>2, <2>3, <2>4
<1>. HIDE DEF more
<1>. QED
  BY <1>1, <1>2, <1>4 DEF Framed, more

LEMMA FramedDrop == ASSUME NEW ring \in Seq({1, 2}), Framed(ring), NEW n \in Nat, n < Len(ring)
  PROVE SubSeq(ring, n + 1, Len(ring)) \in Seq({1, 2}) /\ Framed(SubSeq(ring, n + 1, Len(ring)))
<1>. DEFINE rest == SubSeq(ring, n + 1, Len(ring))
<1>1. rest \in Seq({1, 2}) /\ Len(rest) = Len(ring) - n /\ Len(ring) \in Nat
  OBVIOUS
<1>2. \A k \in 1 .. Len(ring) - n : rest[k] = ring[k + n]
  OBVIOUS
<1>. HIDE DEF rest
<1>3. rest[Len(rest)] = 2
  <2>1. Len(rest) \in 1 .. Len(ring) - n /\ Len(rest) + n = Len(ring)
    BY <1>1
  <2>2. ring[Len(ring)] = 2
    BY <1>1 DEF Framed
  <2>. QED
    BY <1>2, <2>1, <2>2
<1>4. ASSUME NEW k \in 1 .. Len(rest) - 1 PROVE rest[k] # rest[k + 1]
  <2>1. /\ k \in 1 .. Len(ring) - n /\ k + 1 \in 1 .. Len(ring) - n
        /\ k + n \in 1 .. Len(ring) - 1 /\ (k + 1) + n = (k + n) + 1
    BY <1>1
  <2>2. ring[k + n] # ring[(k + n) + 1]
    BY <2>1 DEF Framed
  <2>. QED
    BY <1>2, <2>1, <2>2
<1>5. Len(rest) <= NETCTL_SOCKET_BUFFER
  BY <1>1, NetctlAssumption DEF Framed
<1>. QED
  BY <1>1, <1>3, <1>4, <1>5 DEF Framed, rest

\* Replacing the ring of a socket.
LEMMA RingChanges == ASSUME NEW c, CtlOk(c), NEW s \in Ctl, NEW ring \in Seq({1, 2}), Framed(ring)
  PROVE CtlOk([c EXCEPT ![s].rx = ring]) /\ SameGroups(c, [c EXCEPT ![s].rx = ring])
BY DEF CtlOk, SameGroups, CtlRec

LEMMA PutOk == ASSUME NEW c, CtlOk(c), NEW s \in Ctl PROVE CtlOk(Put(c, s)) /\ SameGroups(c, Put(c, s))
<1>1. CASE Room(c, s)
  <2>1. c[s].rx \in Seq({1, 2}) /\ Framed(c[s].rx)
    BY DEF CtlOk, CtlRec
  <2>. DEFINE more == c[s].rx \o <<1, 2>>
  <2>2. more \in Seq({1, 2}) /\ Framed(more)
    BY <1>1, <2>1, FramedPut DEF Room
  <2>3. Put(c, s) = [c EXCEPT ![s].rx = more]
    BY <1>1 DEF Put
  <2>. HIDE DEF more
  <2>4. CtlOk([c EXCEPT ![s].rx = more]) /\ SameGroups(c, [c EXCEPT ![s].rx = more])
    BY <2>2, RingChanges
  <2>. QED
    BY <2>3, <2>4
<1>2. CASE ~Room(c, s)
  BY <1>2 DEF Put, SameGroups
<1>. QED
  BY <1>1, <1>2

LEMMA NotifyOk == ASSUME CtlOk(ctl), NEW group
  PROVE CtlOk(Notify(group)) /\ SameGroups(ctl, Notify(group))
<1>1. ASSUME NEW s \in Ctl
      PROVE LET e == Notify(group)[s] IN
            /\ e \in CtlRec /\ Framed(e.rx) /\ e.used = ctl[s].used /\ e.groups = ctl[s].groups
  <2>1. CtlOk(Put(ctl, s)) /\ SameGroups(ctl, Put(ctl, s))
    BY PutOk
  <2>2. Notify(group)[s] = ctl[s] \/ Notify(group)[s] = Put(ctl, s)[s]
    BY DEF Notify
  <2>. QED
    BY <2>1, <2>2 DEF CtlOk, SameGroups
<1>2. DOMAIN Notify(group) = Ctl /\ Notify(group) = [s \in Ctl |-> Notify(group)[s]]
  BY DEF Notify
<1>. QED
  BY <1>1, <1>2 DEF CtlOk, SameGroups

LEMMA BothOk == ASSUME CtlOk(ctl), NEW group, NEW s \in Ctl
  PROVE CtlOk(Put(Notify(group), s)) /\ SameGroups(ctl, Put(Notify(group), s))
<1>1. CtlOk(Notify(group)) /\ SameGroups(ctl, Notify(group))
  BY NotifyOk
<1>2. CtlOk(Put(Notify(group), s)) /\ SameGroups(Notify(group), Put(Notify(group), s))
  BY <1>1, PutOk
<1>. QED
  BY <1>1, <1>2 DEF SameGroups

-----------------------------------------------------------------------------
\* A copy kept by messages stays exact when interface i loses the addresses
\* "gone" and gains "new", and the message says so.
LEMMA ToldOk ==
  ASSUME NetctlInv, NEW group \in {"link", "addr"}, NEW i \in If,
         NEW gone \in SUBSET IPv4, NEW new \in SUBSET IPv4,
         knows' = Told(group, i, gone, new), SameGroups(ctl, ctl'),
         \A j \in If : AddrsOf(j)' = IF j = i THEN (AddrsOf(j) \ gone) \cup new ELSE AddrsOf(j)
  PROVE  knows' \in [Ctl -> [If -> SUBSET SUBSET IPv4]] /\ MirrorExact'
<1>. DEFINE told(s) == [knows[s] EXCEPT ![i] = {(known \ gone) \cup new : known \in knows[s][i]}]
<1>1. ASSUME NEW s \in Ctl
      PROVE /\ knows[s] \in [If -> SUBSET SUBSET IPv4]
            /\ told(s) \in [If -> SUBSET SUBSET IPv4]
            /\ Nothing \in [If -> SUBSET SUBSET IPv4]
  <2>1. knows[s] \in [If -> SUBSET SUBSET IPv4]
    BY DEF NetctlInv, NetctlTypeOK
  <2>2. {(known \ gone) \cup new : known \in knows[s][i]} \in SUBSET SUBSET IPv4
    BY <2>1
  <2>3. Nothing \in [If -> SUBSET SUBSET IPv4]
    BY DEF Nothing
  <2>. QED
    BY <2>1, <2>2, <2>3
<1>2. ASSUME NEW s \in Ctl
      PROVE knows'[s] = IF ~Hears(ctl, s, group) THEN knows[s] ELSE IF ~Room(ctl, s) THEN Nothing ELSE told(s)
  BY DEF Told
<1>3. knows' \in [Ctl -> [If -> SUBSET SUBSET IPv4]]
  <2>1. knows' = [s \in Ctl |-> knows'[s]]
    BY DEF Told
  <2>. HIDE DEF told
  <2>. QED
    BY <1>1, <1>2, <2>1
<1>4. ASSUME NEW s \in Ctl, NEW j \in If, ctl'[s].used, {"link", "addr"} \subseteq ctl'[s].groups
      PROVE knows'[s][j] \subseteq {AddrsOf(j)'}
  <2>1. ctl[s].used /\ {"link", "addr"} \subseteq ctl[s].groups
    BY <1>4 DEF SameGroups
  <2>2. Hears(ctl, s, group)
    BY <2>1 DEF Hears
  <2>3. knows[s][j] \subseteq {AddrsOf(j)}
    BY <2>1 DEF NetctlInv, MirrorExact
  <2>4. CASE ~Room(ctl, s)
    BY <1>2, <2>2, <2>4 DEF Nothing
  <2>5. CASE Room(ctl, s)
    <3>1. knows'[s] = told(s) /\ knows[s] \in [If -> SUBSET SUBSET IPv4]
      BY <1>1, <1>2, <2>2, <2>5
    <3>2. CASE j = i
      <4>1. knows'[s][j] = {(known \ gone) \cup new : known \in knows[s][j]}
        BY <3>1, <3>2
      <4>. QED
        BY <2>3, <3>2, <4>1
    <3>3. CASE j # i
      BY <2>3, <3>1, <3>3
    <3>. QED
      BY <3>2, <3>3
  <2>. QED
    BY <2>4, <2>5
<1>. QED
  BY <1>3, <1>4 DEF MirrorExact

\* Addresses that stay.
LEMMA AddrsStay == ASSUME UNCHANGED addresses PROVE \A j : AddrsOf(j)' = AddrsOf(j)
BY DEF AddrsOf

\* Only rings, flags or routes change.
LEMMA MirrorStays == ASSUME NetctlInv, SameGroups(ctl, ctl'), UNCHANGED <<addresses, knows>>
  PROVE MirrorExact'
BY DEF NetctlInv, MirrorExact, SameGroups, AddrsOf

\* A message that does not speak of addresses.
LEMMA ToldNothing ==
  ASSUME NetctlInv, NEW group \in {"link", "addr"}, NEW i \in If, UNCHANGED addresses,
         knows' = Told(group, i, {}, {}), SameGroups(ctl, ctl')
  PROVE  knows' \in [Ctl -> [If -> SUBSET SUBSET IPv4]] /\ MirrorExact'
<1>1. \A j \in If : AddrsOf(j)' = IF j = i THEN (AddrsOf(j) \ {}) \cup {} ELSE AddrsOf(j)
  BY AddrsStay
<1>2. {} \in SUBSET IPv4
  OBVIOUS
<1>. QED
  BY <1>1, <1>2, ToldOk

LEMMA RegisterInv == ASSUME NetctlInv, Register PROVE NetctlInv'
<1>1. next_ifindex \in If /\ next_ifindex' = next_ifindex + 1 /\ UNCHANGED <<addresses, routes>>
  BY NetctlAssumption DEF Register, NetctlInv, NetctlTypeOK, If
<1>2. DOMAIN devices' = DOMAIN devices \cup {next_ifindex}
  BY DEF Register
<1>3. CtlOk(ctl') /\ SameGroups(ctl, ctl')
  BY NotifyOk DEF Register, NetctlInv, NetctlTypeOK
<1>4. knows' \in [Ctl -> [If -> SUBSET SUBSET IPv4]] /\ MirrorExact'
  BY <1>1, <1>3, ToldNothing DEF Register
<1>5. \A i \in DOMAIN devices' : i < next_ifindex'
  BY <1>1, <1>2, NetctlAssumption DEF NetctlInv, NetctlTypeOK, If
<1>6. NoStaleInterface'
  BY <1>1, <1>2 DEF NetctlInv, NoStaleInterface, Registered
<1>7. NetctlTypeOK'
  BY <1>1, <1>2, <1>3, <1>4, <1>5 DEF NetctlInv, NetctlTypeOK
<1>. QED
  BY <1>4, <1>6, <1>7 DEF NetctlInv

LEMMA UnregisterInv == ASSUME NetctlInv, NEW i \in If, Unregister(i) PROVE NetctlInv'
<1>1. /\ DOMAIN devices' = DOMAIN devices \ {i} /\ addresses' = {e \in addresses : e[1] # i}
      /\ routes' = [r \in Slot |-> IF routes[r].used /\ routes[r].oif = i
                                 THEN [routes[r] EXCEPT !.used = FALSE] ELSE routes[r]]
      /\ UNCHANGED next_ifindex
  BY DEF Unregister
<1>2. CtlOk(ctl') /\ SameGroups(ctl, ctl')
  BY NotifyOk DEF Unregister, NetctlInv, NetctlTypeOK
<1>3. \A j \in If : AddrsOf(j)' = IF j = i THEN (AddrsOf(j) \ IPv4) \cup {} ELSE AddrsOf(j)
  BY <1>1 DEF AddrsOf
<1>4. knows' \in [Ctl -> [If -> SUBSET SUBSET IPv4]] /\ MirrorExact'
  BY <1>2, <1>3, ToldOk DEF Unregister
<1>5. /\ routes' \in [Slot -> RouteRec]
      /\ \A r \in Slot : routes'[r].used /\ routes'[r].oif # 0 =>
            routes[r].used /\ routes[r].oif # i /\ routes'[r].oif = routes[r].oif
  BY <1>1 DEF NetctlInv, NetctlTypeOK, RouteRec
<1>6. NoStaleInterface'
  BY <1>1, <1>5 DEF NetctlInv, NoStaleInterface, Registered
<1>7. NetctlTypeOK'
  BY <1>1, <1>2, <1>4, <1>5 DEF NetctlInv, NetctlTypeOK
<1>. QED
  BY <1>4, <1>6, <1>7 DEF NetctlInv

\* A change of a device that is there, told or not.
LEMMA DeviceChanges ==
  ASSUME NetctlInv, NEW i \in If, DOMAIN devices' = DOMAIN devices, UNCHANGED <<next_ifindex, addresses, routes>>,
         CtlOk(ctl'), SameGroups(ctl, ctl'), knows' = Told("link", i, {}, {}) \/ UNCHANGED knows
  PROVE NetctlInv'
<1>1. knows' \in [Ctl -> [If -> SUBSET SUBSET IPv4]] /\ MirrorExact'
  <2>1. CASE UNCHANGED knows
    BY <2>1, MirrorStays DEF NetctlInv, NetctlTypeOK
  <2>2. CASE knows' = Told("link", i, {}, {})
    BY <2>2, ToldNothing
  <2>. QED
    BY <2>1, <2>2
<1>. QED
  BY <1>1 DEF NetctlInv, NetctlTypeOK, NoStaleInterface, Registered

LEMMA SetCarrierInv == ASSUME NetctlInv, NEW i \in If, NEW on \in BOOLEAN, SetCarrier(i, on) PROVE NetctlInv'
<1>1. CtlOk(ctl) /\ SameGroups(ctl, ctl)
  BY DEF NetctlInv, NetctlTypeOK, SameGroups
<1>2. CtlOk(ctl') /\ SameGroups(ctl, ctl')
  BY <1>1, NotifyOk DEF SetCarrier
<1>3. knows' = Told("link", i, {}, {}) \/ UNCHANGED knows
  BY DEF SetCarrier
<1>. QED
  BY <1>2, <1>3, DeviceChanges DEF SetCarrier

LEMMA SetFlagsInv == ASSUME NetctlInv, NEW s \in Ctl, NEW i \in If, NEW on \in BOOLEAN, SetFlags(s, i, on)
  PROVE NetctlInv'
<1>1. CtlOk(ctl)
  BY DEF NetctlInv, NetctlTypeOK
<1>2. CtlOk(ctl') /\ SameGroups(ctl, ctl')
  BY <1>1, PutOk, BothOk DEF SetFlags, Changed
<1>3. knows' = Told("link", i, {}, {}) \/ UNCHANGED knows
  BY DEF SetFlags, Changed
<1>4. DOMAIN devices' = DOMAIN devices
  BY DEF SetFlags
<1>. QED
  BY <1>2, <1>3, <1>4, DeviceChanges DEF SetFlags

\* The table of sockets changes; what is known of an open one is forgotten
\* or as before.
LEMMA SocketChanges ==
  ASSUME NetctlInv, NEW s \in Ctl, NEW e \in CtlRec, Framed(e.rx), ctl' = [ctl EXCEPT ![s] = e],
         \/ knows' = [knows EXCEPT ![s] = Nothing]
         \/ UNCHANGED knows /\ e.used = ctl[s].used /\ e.groups = ctl[s].groups,
         UNCHANGED <<devices, next_ifindex, addresses, routes>>
  PROVE NetctlInv'
<1>1. CtlOk(ctl) /\ knows \in [Ctl -> [If -> SUBSET SUBSET IPv4]] /\ MirrorExact
  BY DEF NetctlInv, NetctlTypeOK
<1>2. CtlOk(ctl')
  BY <1>1 DEF CtlOk
<1>3. Nothing \in [If -> SUBSET SUBSET IPv4]
  BY DEF Nothing
<1>4. knows' \in [Ctl -> [If -> SUBSET SUBSET IPv4]]
  BY <1>1, <1>3
<1>5. ASSUME NEW t \in Ctl, NEW j \in If, ctl'[t].used, {"link", "addr"} \subseteq ctl'[t].groups
      PROVE knows'[t][j] \subseteq {AddrsOf(j)'}
  <2>1. AddrsOf(j)' = AddrsOf(j)
    BY AddrsStay
  <2>2. CASE t = s /\ knows' = [knows EXCEPT ![s] = Nothing]
    BY <1>1, <2>2 DEF Nothing
  <2>3. CASE t = s /\ UNCHANGED knows /\ e.used = ctl[s].used /\ e.groups = ctl[s].groups
    BY <1>1, <1>5, <2>1, <2>3 DEF MirrorExact, CtlOk
  <2>4. CASE t # s
    BY <1>1, <1>5, <2>1, <2>4 DEF MirrorExact, CtlOk
  <2>. QED
    BY <2>2, <2>3, <2>4
<1>6. MirrorExact'
  BY <1>5 DEF MirrorExact
<1>. QED
  BY <1>2, <1>4, <1>6 DEF NetctlInv, NetctlTypeOK, NoStaleInterface, Registered

LEMMA CtlCallsInv ==
  ASSUME NetctlInv, NEW s \in Ctl,
         \/ CtlCreate(s) \/ CtlClose(s)
         \/ \E groups \in SUBSET Groups : CtlBind(s, groups)
         \/ \E n \in 1 .. NETCTL_SOCKET_BUFFER : CtlRecv(s, n)
  PROVE NetctlInv'
<1>1. ctl \in [Ctl -> CtlRec] /\ ctl[s] \in CtlRec /\ Framed(ctl[s].rx)
  BY DEF NetctlInv, NetctlTypeOK, CtlOk
<1>2. ClosedCtl \in CtlRec /\ Framed(ClosedCtl.rx)
  BY NetctlAssumption DEF ClosedCtl, CtlRec, Framed
<1>3. CASE CtlCreate(s)
  <2>. DEFINE e == [ClosedCtl EXCEPT !.used = TRUE]
  <2>1. e \in CtlRec /\ Framed(e.rx)
    BY <1>2 DEF ClosedCtl, CtlRec
  <2>. HIDE DEF e
  <2>. QED
    BY <1>3, <2>1, SocketChanges DEF CtlCreate, e
<1>4. CASE CtlClose(s)
  BY <1>2, <1>4, SocketChanges DEF CtlClose
<1>5. ASSUME NEW groups \in SUBSET Groups, CtlBind(s, groups) PROVE NetctlInv'
  <2>. DEFINE e == [ctl[s] EXCEPT !.groups = groups]
  <2>1. e \in CtlRec /\ Framed(e.rx) /\ ctl' = [ctl EXCEPT ![s] = e]
    BY <1>1, <1>5 DEF CtlRec, CtlBind
  <2>. HIDE DEF e
  <2>. QED
    BY <1>5, <2>1, SocketChanges DEF CtlBind
<1>6. ASSUME NEW n \in 1 .. NETCTL_SOCKET_BUFFER, CtlRecv(s, n) PROVE NetctlInv'
  <2>. DEFINE ring == ctl[s].rx
              rest == IF n < Len(ring) THEN SubSeq(ring, n + 1, Len(ring)) ELSE <<>>
              e == [ctl[s] EXCEPT !.rx = rest]
  <2>1. ctl' = [ctl EXCEPT ![s] = e]
    BY <1>6 DEF CtlRecv
  <2>2. rest \in Seq({1, 2}) /\ Framed(rest)
    <3>1. ring \in Seq({1, 2}) /\ n \in Nat
      BY <1>1, NetctlAssumption DEF CtlRec
    <3>2. CASE n < Len(ring)
      BY <1>1, <3>1, <3>2, FramedDrop
    <3>3. CASE ~(n < Len(ring))
      BY <3>3, NetctlAssumption DEF Framed
    <3>. QED
      BY <3>2, <3>3
  <2>. HIDE DEF rest
  <2>3. e \in CtlRec /\ e.rx = rest /\ e.used = ctl[s].used /\ e.groups = ctl[s].groups
    BY <1>1, <2>2 DEF CtlRec
  <2>. HIDE DEF e
  <2>. QED
    BY <1>6, <2>1, <2>2, <2>3, SocketChanges DEF CtlRecv
<1>. QED
  BY <1>3, <1>4, <1>5, <1>6

LEMMA RefuseInv == ASSUME NetctlInv, NEW s \in Ctl, Refuse(s) PROVE NetctlInv'
<1>1. CtlOk(ctl') /\ SameGroups(ctl, ctl')
  BY PutOk DEF Refuse, NetctlInv, NetctlTypeOK
<1>2. MirrorExact'
  BY <1>1, MirrorStays DEF Refuse
<1>. QED
  BY <1>1, <1>2 DEF Refuse, NetctlInv, NetctlTypeOK, NoStaleInterface, Registered

LEMMA AddrNewInv == ASSUME NetctlInv, NEW s \in Ctl, NEW i \in If, NEW a \in IPv4, AddrNew(s, i, a)
  PROVE NetctlInv'
<1>1. CtlOk(ctl') /\ SameGroups(ctl, ctl')
  BY BothOk DEF AddrNew, Changed, NetctlInv, NetctlTypeOK
<1>2. addresses' = addresses \cup {<<i, a>>} /\ Registered(i) /\ UNCHANGED <<devices, next_ifindex, routes>>
  BY DEF AddrNew
<1>3. \A j \in If : AddrsOf(j)' = IF j = i THEN (AddrsOf(j) \ {}) \cup {a} ELSE AddrsOf(j)
  BY <1>2 DEF AddrsOf
<1>4. knows' \in [Ctl -> [If -> SUBSET SUBSET IPv4]] /\ MirrorExact'
  <2>1. {} \in SUBSET IPv4 /\ {a} \in SUBSET IPv4 /\ knows' = Told("addr", i, {}, {a})
    BY DEF AddrNew, Changed
  <2>. QED
    BY <1>1, <1>3, <2>1, ToldOk
<1>5. NoStaleInterface'
  BY <1>2 DEF NetctlInv, NoStaleInterface, Registered
<1>. QED
  BY <1>1, <1>2, <1>4, <1>5 DEF NetctlInv, NetctlTypeOK

LEMMA AddrDelInv == ASSUME NetctlInv, NEW s \in Ctl, NEW i \in If, NEW a \in IPv4, AddrDel(s, i, a)
  PROVE NetctlInv'
<1>1. CtlOk(ctl') /\ SameGroups(ctl, ctl')
  BY BothOk DEF AddrDel, Changed, NetctlInv, NetctlTypeOK
<1>2. addresses' = addresses \ {<<i, a>>} /\ UNCHANGED <<devices, next_ifindex, routes>>
  BY DEF AddrDel
<1>3. \A j \in If : AddrsOf(j)' = IF j = i THEN (AddrsOf(j) \ {a}) \cup {} ELSE AddrsOf(j)
  BY <1>2 DEF AddrsOf
<1>4. knows' \in [Ctl -> [If -> SUBSET SUBSET IPv4]] /\ MirrorExact'
  <2>1. {} \in SUBSET IPv4 /\ {a} \in SUBSET IPv4 /\ knows' = Told("addr", i, {a}, {})
    BY DEF AddrDel, Changed
  <2>. QED
    BY <1>1, <1>3, <2>1, ToldOk
<1>5. NoStaleInterface'
  BY <1>2 DEF NetctlInv, NoStaleInterface, Registered
<1>. QED
  BY <1>1, <1>2, <1>4, <1>5 DEF NetctlInv, NetctlTypeOK

LEMMA AddrListInv == ASSUME NetctlInv, NEW s \in Ctl, NEW i \in If, AddrList(s, i) PROVE NetctlInv'
<1>1. CtlOk(ctl') /\ SameGroups(ctl, ctl')
  BY PutOk DEF AddrList, NetctlInv, NetctlTypeOK
<1>2. UNCHANGED <<devices, next_ifindex, addresses, routes>> /\ knows \in [Ctl -> [If -> SUBSET SUBSET IPv4]]
  BY DEF AddrList, NetctlInv, NetctlTypeOK
<1>3. PICK listed \in SUBSET {AddrsOf(i)} :
        knows' = [knows EXCEPT ![s] = IF ~Room(ctl, s) THEN @ ELSE [@ EXCEPT ![i] = listed]]
  BY DEF AddrList
<1>4. listed \in SUBSET SUBSET IPv4
  BY DEF AddrsOf
<1>5. knows' \in [Ctl -> [If -> SUBSET SUBSET IPv4]]
  BY <1>2, <1>3, <1>4
<1>6. ASSUME NEW t \in Ctl, NEW j \in If, ctl'[t].used, {"link", "addr"} \subseteq ctl'[t].groups
      PROVE knows'[t][j] \subseteq {AddrsOf(j)'}
  <2>1. AddrsOf(j)' = AddrsOf(j)
    BY <1>2, AddrsStay
  <2>2. knows[t][j] \subseteq {AddrsOf(j)}
    BY <1>1, <1>6 DEF NetctlInv, MirrorExact, SameGroups
  <2>3. knows'[t][j] = knows[t][j] \/ (j = i /\ knows'[t][j] = listed)
    BY <1>2, <1>3
  <2>. QED
    BY <1>3, <2>1, <2>2, <2>3
<1>7. MirrorExact'
  BY <1>6 DEF MirrorExact
<1>. QED
  BY <1>1, <1>2, <1>5, <1>7 DEF NetctlInv, NetctlTypeOK, NoStaleInterface, Registered

LEMMA RouteNewInv ==
  ASSUME NetctlInv, NEW s \in Ctl, NEW r \in Slot, NEW d \in IPv4, NEW p \in 0 .. AddrBits,
         NEW o \in If \cup {0}, NEW m \in Metrics, RouteNew(s, r, RouteOf(d, p, o, m))
  PROVE NetctlInv'
<1>1. CtlOk(ctl') /\ SameGroups(ctl, ctl')
  BY BothOk DEF RouteNew, NetctlInv, NetctlTypeOK
<1>2. UNCHANGED <<devices, next_ifindex, addresses, knows>> /\ (o = 0 \/ Registered(o))
      /\ routes' = [routes EXCEPT ![r] = RouteOf(d, p, o, m)]
  BY DEF RouteNew, RouteOf
<1>3. RouteOf(d, p, o, m) \in RouteRec
  <2>1. d \in Nat /\ p \in Nat /\ o \in Nat /\ m \in Nat
    BY NetctlAssumption DEF IPv4, If
  <2>. QED
    BY <2>1 DEF RouteOf, RouteRec
<1>4. routes' \in [Slot -> RouteRec]
  BY <1>2, <1>3 DEF NetctlInv, NetctlTypeOK
<1>5. NoStaleInterface'
  <2>1. ASSUME NEW q \in Slot, routes'[q].used, routes'[q].oif # 0 PROVE Registered(routes'[q].oif)
    <3>1. CASE q = r
      BY <1>2, <2>1, <3>1 DEF NetctlInv, NetctlTypeOK, RouteOf
    <3>2. CASE q # r
      BY <1>2, <2>1, <3>2 DEF NetctlInv, NetctlTypeOK, NoStaleInterface
    <3>. QED
      BY <3>1, <3>2
  <2>. QED
    BY <1>2, <2>1 DEF NetctlInv, NoStaleInterface, Registered
<1>6. MirrorExact'
  BY <1>1, <1>2, MirrorStays
<1>. QED
  BY <1>1, <1>2, <1>4, <1>5, <1>6 DEF NetctlInv, NetctlTypeOK

LEMMA RouteDelInv == ASSUME NetctlInv, NEW s \in Ctl, NEW r \in Slot, RouteDel(s, r) PROVE NetctlInv'
<1>1. CtlOk(ctl') /\ SameGroups(ctl, ctl')
  BY BothOk DEF RouteDel, NetctlInv, NetctlTypeOK
<1>2. UNCHANGED <<devices, next_ifindex, addresses, knows>> /\ routes' = [routes EXCEPT ![r].used = FALSE]
  BY DEF RouteDel
<1>3. /\ routes' \in [Slot -> RouteRec]
      /\ \A q \in Slot : routes'[q].used => routes[q].used /\ routes'[q].oif = routes[q].oif
  BY <1>2 DEF NetctlInv, NetctlTypeOK, RouteRec
<1>4. NoStaleInterface'
  BY <1>2, <1>3 DEF NetctlInv, NoStaleInterface, Registered
<1>5. MirrorExact'
  BY <1>1, <1>2, MirrorStays
<1>. QED
  BY <1>1, <1>2, <1>3, <1>4, <1>5 DEF NetctlInv, NetctlTypeOK

LEMMA NetctlStepInv == ASSUME NetctlInv, [NetctlNext]_netctlVars PROVE NetctlInv'
<1>1. CASE UNCHANGED netctlVars
  BY <1>1 DEF netctlVars, NetctlInv, NetctlTypeOK, NoStaleInterface, Registered, MirrorExact, AddrsOf
<1>2. CASE DeviceNext
  BY <1>2, RegisterInv, UnregisterInv, SetCarrierInv DEF DeviceNext
<1>3. CASE SocketNext
  BY <1>3, CtlCallsInv, RefuseInv DEF SocketNext
<1>4. CASE AddrNext
  BY <1>4, AddrListInv, SetFlagsInv, AddrNewInv, AddrDelInv DEF AddrNext
<1>5. CASE RouteNext
  BY <1>5, RouteNewInv, RouteDelInv DEF RouteNext
<1>. QED
  BY <1>1, <1>2, <1>3, <1>4, <1>5 DEF NetctlNext

LEMMA NetctlInvSound == ASSUME NetctlInv PROVE InterfacesSound
<1>. NETDEV_MAX_ROUTES \in Nat /\ routes \in [Slot -> RouteRec]
  BY NetctlAssumption DEF NetctlInv, NetctlTypeOK
<1>1. LookupIsBest
  <2>1. ASSUME NEW d \in IPv4 PROVE BestOf(RouteLookup(d), NETDEV_MAX_ROUTES, d)
    BY LookupBest
  <2>. QED
    BY <2>1 DEF LookupIsBest, BestOf, Slot
<1>2. Framing
  BY DEF NetctlInv, NetctlTypeOK, CtlOk, Framing, Framed
<1>. QED
  BY <1>1, <1>2 DEF InterfacesSound, NetctlInv

\* Addresses and routes are of interfaces that exist, the best route wins, and
\* what a control socket is told is whole and the truth.
THEOREM InterfacesKept == NetctlSpec => []InterfacesSound
<1>1. NetctlSpec => []NetctlInv
  BY NetctlInitInv, NetctlStepInv, PTL DEF NetctlSpec
<1>. QED
  BY <1>1, NetctlInvSound, PTL

-----------------------------------------------------------------------------
(* TCP (Tcp), for any number of sockets and connections and every buffer.  *)
(* Between two ends the bytes on their way are the ones that follow those  *)
(* received, in order (Consecutive), as long as no segment was lost; an    *)
(* answer to the SYN comes before the bytes that follow it (Announced), so *)
(* that none arrives at a socket that still waits.  NoCrossTalk holds      *)
(* whatever the network does, since each connection has a port of its own. *)

\* Segment g carries a byte of the stream of port p.
Carries(g, p) == g.port = p /\ g.len = 1

\* The bytes of p on their way in queue q are those numbered a to b, in order.
Consecutive(q, p, a, b) ==
    /\ \A k \in 1 .. Len(q) : Carries(q[k], p) => q[k].seq \in a .. b
    /\ \A j, k \in 1 .. Len(q) : j < k /\ Carries(q[j], p) /\ Carries(q[k], p) => q[j].seq < q[k].seq
    /\ \A n \in a .. b : \E k \in 1 .. Len(q) : Carries(q[k], p) /\ q[k].seq = n

IsSynAck(g) == {"SYN", "ACK"} \subseteq g.flags
HasSynAck(q, p) == \E j \in 1 .. Len(q) : q[j].port = p /\ IsSynAck(q[j])

\* The answer to the SYN of p comes before everything else.
Announced(q, p) ==
    \A k \in 1 .. Len(q) : q[k].port = p /\ ~IsSynAck(q[k]) =>
        \E j \in 1 .. Len(q) : j < k /\ q[j].port = p /\ IsSynAck(q[j])

Flag == {"SYN", "ACK", "FIN", "PSH"}
Seg == [port : Port, flags : SUBSET Flag, seq : Nat, ack : Nat, len : {0, 1}]

LEMMA AppendIs == ASSUME NEW S, NEW q \in Seq(S), NEW g \in S
  PROVE /\ Append(q, g) \in Seq(S) /\ Len(Append(q, g)) = Len(q) + 1 /\ Len(q) \in Nat
        /\ Append(q, g)[Len(q) + 1] = g
        /\ \A k \in 1 .. Len(q) : Append(q, g)[k] = q[k]
OBVIOUS

LEMMA TailIs == ASSUME NEW S, NEW q \in Seq(S), q # <<>>
  PROVE /\ Tail(q) \in Seq(S) /\ Len(q) \in Nat \ {0} /\ Len(Tail(q)) = Len(q) - 1
        /\ Head(q) \in S /\ Head(q) = q[1]
        /\ \A k \in 1 .. Len(q) - 1 : Tail(q)[k] = q[k + 1]
OBVIOUS

LEMMA ConsecutiveAppendOther ==
  ASSUME NEW q \in Seq(Seg), NEW p, NEW a \in Nat, NEW b \in Nat, Consecutive(q, p, a, b),
         NEW g \in Seg, ~Carries(g, p)
  PROVE  Consecutive(Append(q, g), p, a, b)
<1>. DEFINE r == Append(q, g)
<1>1. Len(r) = Len(q) + 1 /\ Len(q) \in Nat /\ r[Len(q) + 1] = g /\ \A k \in 1 .. Len(q) : r[k] = q[k]
  BY AppendIs
<1>. HIDE DEF r
<1>2. ASSUME NEW k \in 1 .. Len(r), Carries(r[k], p) PROVE k \in 1 .. Len(q) /\ r[k] = q[k]
  BY <1>1, <1>2
<1>3. \A n \in a .. b : \E k \in 1 .. Len(r) : Carries(r[k], p) /\ r[k].seq = n
  <2>1. ASSUME NEW n \in a .. b PROVE \E k \in 1 .. Len(r) : Carries(r[k], p) /\ r[k].seq = n
    <3>1. PICK k \in 1 .. Len(q) : Carries(q[k], p) /\ q[k].seq = n
      BY DEF Consecutive
    <3>. QED
      BY <1>1, <3>1
  <2>. QED
    BY <2>1
<1>4. \A k \in 1 .. Len(r) : Carries(r[k], p) => r[k].seq \in a .. b
  BY <1>2 DEF Consecutive
<1>5. \A j, k \in 1 .. Len(r) : j < k /\ Carries(r[j], p) /\ Carries(r[k], p) => r[j].seq < r[k].seq
  BY <1>2 DEF Consecutive
<1>. QED
  BY <1>3, <1>4, <1>5 DEF Consecutive, r

LEMMA ConsecutiveAppendNext ==
  ASSUME NEW q \in Seq(Seg), NEW p, NEW a \in Nat, NEW b \in Nat, Consecutive(q, p, a, b), a <= b + 1,
         NEW g \in Seg, Carries(g, p), g.seq = b + 1
  PROVE  Consecutive(Append(q, g), p, a, b + 1)
<1>. DEFINE r == Append(q, g)
<1>1. Len(r) = Len(q) + 1 /\ Len(q) \in Nat /\ r[Len(q) + 1] = g /\ \A k \in 1 .. Len(q) : r[k] = q[k]
  BY AppendIs
<1>. HIDE DEF r
<1>2. ASSUME NEW k \in 1 .. Len(r) PROVE r[k] = g \/ (k \in 1 .. Len(q) /\ r[k] = q[k])
  <2>1. CASE k = Len(q) + 1
    BY <1>1, <2>1
  <2>2. CASE k # Len(q) + 1
    <3>1. k \in 1 .. Len(q)
      BY <1>1, <2>2
    <3>. QED
      BY <1>1, <3>1
  <2>. QED
    BY <2>1, <2>2
<1>3. ASSUME NEW n \in a .. b + 1 PROVE \E k \in 1 .. Len(r) : Carries(r[k], p) /\ r[k].seq = n
  <2>1. CASE n = b + 1
    BY <1>1, <2>1
  <2>2. CASE n \in a .. b
    <3>1. PICK k \in 1 .. Len(q) : Carries(q[k], p) /\ q[k].seq = n
      BY <2>2 DEF Consecutive
    <3>. QED
      BY <1>1, <3>1
  <2>. QED
    BY <2>1, <2>2
<1>4. ASSUME NEW k \in 1 .. Len(r), Carries(r[k], p) PROVE r[k].seq \in a .. b + 1
  <2>1. CASE r[k] = g
    BY <2>1
  <2>2. CASE k \in 1 .. Len(q) /\ r[k] = q[k]
    <3>1. q[k].seq \in a .. b
      BY <1>4, <2>2 DEF Consecutive
    <3>. QED
      BY <2>2, <3>1
  <2>. QED
    BY <1>2, <2>1, <2>2
<1>5. ASSUME NEW j \in 1 .. Len(r), NEW k \in 1 .. Len(r), j < k, Carries(r[j], p), Carries(r[k], p)
      PROVE r[j].seq < r[k].seq
  <2>1. j \in 1 .. Len(q) /\ r[j] = q[j]
    BY <1>1, <1>5
  <2>2. q[j].seq \in a .. b
    BY <1>5, <2>1 DEF Consecutive
  <2>3. CASE r[k] = g
    BY <2>1, <2>2, <2>3
  <2>4. CASE k \in 1 .. Len(q) /\ r[k] = q[k]
    BY <1>5, <2>1, <2>4 DEF Consecutive
  <2>. QED
    BY <1>2, <2>3, <2>4
<1>. QED
  BY <1>3, <1>4, <1>5 DEF Consecutive, r

LEMMA ConsecutiveTailOther ==
  ASSUME NEW q \in Seq(Seg), NEW p, NEW a \in Nat, NEW b \in Nat, Consecutive(q, p, a, b),
         q # <<>>, ~Carries(Head(q), p)
  PROVE  Consecutive(Tail(q), p, a, b)
<1>. DEFINE r == Tail(q)
<1>1. Len(q) \in Nat \ {0} /\ Len(r) = Len(q) - 1 /\ Head(q) = q[1] /\ \A k \in 1 .. Len(q) - 1 : r[k] = q[k + 1]
  BY TailIs
<1>. HIDE DEF r
<1>2. ASSUME NEW k \in 1 .. Len(r) PROVE k + 1 \in 1 .. Len(q) /\ r[k] = q[k + 1]
  BY <1>1
<1>3. ASSUME NEW n \in a .. b PROVE \E k \in 1 .. Len(r) : Carries(r[k], p) /\ r[k].seq = n
  <2>1. PICK k \in 1 .. Len(q) : Carries(q[k], p) /\ q[k].seq = n
    BY DEF Consecutive
  <2>2. k # 1
    BY <1>1, <2>1
  <2>3. k - 1 \in 1 .. Len(r) /\ r[k - 1] = q[k]
    BY <1>1, <2>2
  <2>. QED
    BY <2>1, <2>3
<1>4. \A k \in 1 .. Len(r) : Carries(r[k], p) => r[k].seq \in a .. b
  BY <1>2 DEF Consecutive
<1>5. ASSUME NEW j \in 1 .. Len(r), NEW k \in 1 .. Len(r), j < k, Carries(r[j], p), Carries(r[k], p)
      PROVE r[j].seq < r[k].seq
  <2>1. j + 1 \in 1 .. Len(q) /\ k + 1 \in 1 .. Len(q) /\ j + 1 < k + 1
    BY <1>2, <1>5
  <2>2. Carries(q[j + 1], p) /\ Carries(q[k + 1], p)
    BY <1>2, <1>5
  <2>3. q[j + 1].seq < q[k + 1].seq
    BY <2>1, <2>2 DEF Consecutive
  <2>. QED
    BY <1>2, <2>3
<1>. QED
  BY <1>3, <1>4, <1>5 DEF Consecutive, r

LEMMA ConsecutiveTailFirst ==
  ASSUME NEW q \in Seq(Seg), NEW p, NEW a \in Nat, NEW b \in Nat, Consecutive(q, p, a, b),
         q # <<>>, Carries(Head(q), p)
  PROVE  Head(q).seq = a /\ a <= b /\ Consecutive(Tail(q), p, a + 1, b)
<1>. DEFINE r == Tail(q)
<1>1. Len(q) \in Nat \ {0} /\ Len(r) = Len(q) - 1 /\ Head(q) = q[1] /\ \A k \in 1 .. Len(q) - 1 : r[k] = q[k + 1]
  BY TailIs
<1>. HIDE DEF r
<1>2. ASSUME NEW k \in 1 .. Len(r) PROVE k + 1 \in 1 .. Len(q) /\ r[k] = q[k + 1]
  BY <1>1
<1>3. 1 \in 1 .. Len(q) /\ q[1].seq \in a .. b
  BY <1>1 DEF Consecutive
<1>4. q[1].seq = a
  <2>1. a \in a .. b
    BY <1>3
  <2>2. PICK k \in 1 .. Len(q) : Carries(q[k], p) /\ q[k].seq = a
    BY <2>1 DEF Consecutive
  <2>3. CASE k # 1
    <3>1. 1 < k
      BY <1>1, <2>3
    <3>2. q[1].seq < q[k].seq
      BY <1>1, <1>3, <2>2, <3>1 DEF Consecutive
    <3>. QED
      BY <1>3, <2>2, <3>2
  <2>. QED
    BY <2>2, <2>3
<1>5. ASSUME NEW n \in a + 1 .. b PROVE \E k \in 1 .. Len(r) : Carries(r[k], p) /\ r[k].seq = n
  <2>0. n \in a .. b /\ n # a
    OBVIOUS
  <2>1. PICK k \in 1 .. Len(q) : Carries(q[k], p) /\ q[k].seq = n
    BY <2>0 DEF Consecutive
  <2>2. k # 1
    BY <1>4, <2>0, <2>1
  <2>3. k - 1 \in 1 .. Len(r) /\ r[k - 1] = q[k]
    BY <1>1, <2>2
  <2>. QED
    BY <2>1, <2>3
<1>6. ASSUME NEW k \in 1 .. Len(r), Carries(r[k], p) PROVE r[k].seq \in a + 1 .. b
  <2>1. 1 < k + 1 /\ Carries(q[k + 1], p)
    BY <1>2, <1>6
  <2>2. q[1].seq < q[k + 1].seq /\ q[k + 1].seq \in a .. b
    BY <1>1, <1>2, <1>3, <2>1 DEF Consecutive
  <2>. QED
    BY <1>2, <1>4, <2>2
<1>7. ASSUME NEW j \in 1 .. Len(r), NEW k \in 1 .. Len(r), j < k, Carries(r[j], p), Carries(r[k], p)
      PROVE r[j].seq < r[k].seq
  <2>1. j + 1 \in 1 .. Len(q) /\ k + 1 \in 1 .. Len(q) /\ j + 1 < k + 1
    BY <1>2, <1>7
  <2>2. Carries(q[j + 1], p) /\ Carries(q[k + 1], p)
    BY <1>2, <1>7
  <2>3. q[j + 1].seq < q[k + 1].seq
    BY <2>1, <2>2 DEF Consecutive
  <2>. QED
    BY <1>2, <2>3
<1>. QED
  BY <1>1, <1>3, <1>4, <1>5, <1>6, <1>7 DEF Consecutive, r

LEMMA SynAckAppend ==
  ASSUME NEW q \in Seq(Seg), NEW p, NEW g \in Seg,
         HasSynAck(q, p) \/ (g.port = p /\ IsSynAck(g))
  PROVE  HasSynAck(Append(q, g), p)
<1>1. CASE HasSynAck(q, p)
  <2>1. PICK j \in 1 .. Len(q) : q[j].port = p /\ IsSynAck(q[j])
    BY <1>1 DEF HasSynAck
  <2>2. j \in 1 .. Len(Append(q, g)) /\ Append(q, g)[j] = q[j]
    BY AppendIs
  <2>. QED
    BY <2>1, <2>2 DEF HasSynAck
<1>2. CASE g.port = p /\ IsSynAck(g)
  <2>1. Len(q) + 1 \in 1 .. Len(Append(q, g)) /\ Append(q, g)[Len(q) + 1] = g
    BY AppendIs
  <2>. QED
    BY <1>2, <2>1 DEF HasSynAck
<1>. QED
  BY <1>1, <1>2

LEMMA AnnouncedAppend ==
  ASSUME NEW q \in Seq(Seg), NEW p, NEW g \in Seg, Announced(q, p),
         HasSynAck(q, p) \/ g.port # p \/ IsSynAck(g)
  PROVE  Announced(Append(q, g), p)
<1>. DEFINE r == Append(q, g)
<1>1. Len(r) = Len(q) + 1 /\ Len(q) \in Nat /\ r[Len(q) + 1] = g /\ \A k \in 1 .. Len(q) : r[k] = q[k]
  BY AppendIs
<1>. HIDE DEF r
<1>2. ASSUME NEW k \in 1 .. Len(r), r[k].port = p, ~IsSynAck(r[k])
      PROVE  \E j \in 1 .. Len(r) : j < k /\ r[j].port = p /\ IsSynAck(r[j])
  <2>1. CASE k \in 1 .. Len(q)
    <3>1. PICK j \in 1 .. Len(q) : j < k /\ q[j].port = p /\ IsSynAck(q[j])
      BY <1>1, <1>2, <2>1 DEF Announced
    <3>. QED
      BY <1>1, <3>1
  <2>2. CASE k = Len(q) + 1
    <3>1. PICK j \in 1 .. Len(q) : q[j].port = p /\ IsSynAck(q[j])
      BY <1>1, <1>2, <2>2 DEF HasSynAck
    <3>2. j \in 1 .. Len(r) /\ j < k /\ r[j] = q[j]
      BY <1>1, <2>2
    <3>. QED
      BY <3>1, <3>2
  <2>. QED
    BY <1>1, <2>1, <2>2
<1>. QED
  BY <1>2 DEF Announced, r

LEMMA AnnouncedTail ==
  ASSUME NEW q \in Seq(Seg), NEW p, q # <<>>, Head(q).port # p
  PROVE  (Announced(q, p) => Announced(Tail(q), p)) /\ (HasSynAck(q, p) => HasSynAck(Tail(q), p))
<1>. DEFINE r == Tail(q)
<1>1. Len(q) \in Nat \ {0} /\ Len(r) = Len(q) - 1 /\ Head(q) = q[1] /\ \A k \in 1 .. Len(q) - 1 : r[k] = q[k + 1]
  BY TailIs
<1>. HIDE DEF r
<1>2. ASSUME NEW k \in 1 .. Len(r) PROVE k + 1 \in 1 .. Len(q) /\ r[k] = q[k + 1]
  BY <1>1
<1>3. ASSUME NEW j \in 1 .. Len(q), q[j].port = p PROVE j - 1 \in 1 .. Len(r) /\ r[j - 1] = q[j]
  <2>1. j # 1
    BY <1>1, <1>3
  <2>. QED
    BY <1>1, <2>1
<1>4. ASSUME Announced(q, p), NEW k \in 1 .. Len(r), r[k].port = p, ~IsSynAck(r[k])
      PROVE  \E j \in 1 .. Len(r) : j < k /\ r[j].port = p /\ IsSynAck(r[j])
  <2>1. PICK j \in 1 .. Len(q) : j < k + 1 /\ q[j].port = p /\ IsSynAck(q[j])
    BY <1>2, <1>4 DEF Announced
  <2>2. j - 1 \in 1 .. Len(r) /\ r[j - 1] = q[j] /\ j - 1 < k
    BY <1>3, <2>1
  <2>. QED
    BY <2>1, <2>2
<1>5. ASSUME HasSynAck(q, p) PROVE HasSynAck(r, p)
  <2>1. PICK j \in 1 .. Len(q) : q[j].port = p /\ IsSynAck(q[j])
    BY <1>5 DEF HasSynAck
  <2>. QED
    BY <1>3, <2>1 DEF HasSynAck
<1>. QED
  BY <1>4, <1>5 DEF Announced, r

LEMMA AnnouncedHead ==
  ASSUME NEW q \in Seq(Seg), NEW p, q # <<>>, Announced(q, p), Head(q).port = p
  PROVE  IsSynAck(Head(q))
<1>1. Len(q) \in Nat \ {0} /\ Head(q) = q[1]
  BY TailIs
<1>2. 1 \in 1 .. Len(q) /\ \A j \in 1 .. Len(q) : ~(j < 1)
  BY <1>1
<1>. QED
  BY <1>1, <1>2 DEF Announced

\* Everything in r comes from q.
From(r, q) == \A k \in 1 .. Len(r) : \E j \in 1 .. Len(q) : r[k] = q[j]

LEMMA FromTail == ASSUME NEW S, NEW q \in Seq(S), q # <<>> PROVE From(Tail(q), q)
<1>1. Len(q) \in Nat \ {0} /\ Len(Tail(q)) = Len(q) - 1 /\ \A k \in 1 .. Len(q) - 1 : Tail(q)[k] = q[k + 1]
  BY TailIs
<1>2. \A k \in 1 .. Len(q) - 1 : k + 1 \in 1 .. Len(q)
  BY <1>1
<1>. QED
  BY <1>1, <1>2 DEF From

LEMMA FromAppend ==
  ASSUME NEW S, NEW q \in Seq(S), NEW r \in Seq(S), From(r, q), NEW n \in 1 .. Len(q)
  PROVE  Append(r, q[n]) \in Seq(S) /\ From(Append(r, q[n]), q)
<1>1. q[n] \in S
  OBVIOUS
<1>2. /\ Append(r, q[n]) \in Seq(S) /\ Len(Append(r, q[n])) = Len(r) + 1 /\ Len(r) \in Nat
      /\ Append(r, q[n])[Len(r) + 1] = q[n] /\ \A k \in 1 .. Len(r) : Append(r, q[n])[k] = r[k]
  BY <1>1, AppendIs
<1>3. \A k \in 1 .. Len(r) + 1 : k = Len(r) + 1 \/ k \in 1 .. Len(r)
  BY <1>2
<1>. QED
  BY <1>2, <1>3 DEF From

LEMMA FromTake ==
  ASSUME NEW S, NEW q \in Seq(S), NEW n \in 1 .. Len(q)
  PROVE  Take(q, n) \in Seq(S) /\ From(Take(q, n), q)
<1>. DEFINE a == SubSeq(q, 1, n - 1)
            b == SubSeq(q, n + 1, Len(q))
<1>0. Len(q) \in Nat /\ n \in Nat
  OBVIOUS
<1>1. a \in Seq(S) /\ Len(a) = n - 1 /\ \A k \in 1 .. n - 1 : a[k] = q[k]
  BY <1>0
<1>2. b \in Seq(S) /\ Len(b) = Len(q) - n /\ \A k \in 1 .. Len(q) - n : b[k] = q[n + k]
  BY <1>0
<1>. HIDE DEF a, b
<1>3. a \o b \in Seq(S) /\ Len(a \o b) = Len(q) - 1
  <2>1. a \in Seq(S) /\ b \in Seq(S)
    BY <1>1, <1>2
  <2>2. a \o b \in Seq(S) /\ Len(a \o b) = Len(a) + Len(b)
    BY <2>1, ConcatProperties
  <2>. QED
    BY <1>0, <1>1, <1>2, <2>2
<1>4. ASSUME NEW k \in 1 .. Len(q) - 1 PROVE \E j \in 1 .. Len(q) : (a \o b)[k] = q[j]
  <2>1. CASE k <= n - 1
    <3>1. (a \o b)[k] = a[k] /\ a[k] = q[k] /\ k \in 1 .. Len(q)
      BY <1>0, <1>1, <1>2, <2>1
    <3>. QED
      BY <3>1
  <2>2. CASE ~(k <= n - 1)
    <3>1. (a \o b)[k] = b[k - (n - 1)] /\ k - (n - 1) \in 1 .. Len(q) - n
      BY <1>0, <1>1, <1>2, <2>2
    <3>2. b[k - (n - 1)] = q[k + 1] /\ k + 1 \in 1 .. Len(q)
      BY <1>0, <1>2, <3>1
    <3>. QED
      BY <3>1, <3>2
  <2>. QED
    BY <2>1, <2>2
<1>. QED
  BY <1>3, <1>4 DEF Take, From, a, b

BytesOf == Seq(Port \X Nat)
SockRecord == [active : BOOLEAN, state : {"CLOSED", "SYN_SENT", "ESTABLISHED", "CLOSE_WAIT"},
               port : Nat, snd_una : Nat, snd_nxt : Nat, rcv_nxt : Nat, recv : BytesOf]
PeerRecord == [state : {"listen", "open", "finished"}, got : Nat, out : Nat, acked : Nat]
StreamsTyped ==
    /\ tcp_sockets \in [TcpSock -> SockRecord] /\ tcp_next_port \in Nat \ {0} /\ connecting \in {0} \cup TcpSock
    /\ peers \in [Port -> PeerRecord] /\ toPeer \in Seq(Seg) /\ toClient \in Seq(Seg)
    /\ read \in [Port -> BytesOf] /\ sentBytes \in [Port -> Nat] /\ faults \in Nat

\* No two open sockets have one port, and a port to come is unused.
PortOk(s, next) == s.port \in Port /\ s.port < next /\ s.state # "CLOSED"
PortsRight ==
    /\ \A i \in TcpSock : tcp_sockets[i].active => PortOk(tcp_sockets[i], tcp_next_port)
    /\ \A i, j \in TcpSock : (tcp_sockets[i].active /\ tcp_sockets[j].active
                                /\ tcp_sockets[i].port = tcp_sockets[j].port) => i = j
    /\ \A p \in Port : p >= tcp_next_port => read[p] = <<>> /\ peers[p].state = "listen"

\* What a segment under way says of the peer of its port.
ClientOk(q, ps) ==
    \A k \in 1 .. Len(q) : ps[q[k].port].state # "listen" /\ (IsSynAck(q[k]) => q[k].len = 0)
PeerOk(q, ps, next) ==
    \A k \in 1 .. Len(q) :
        /\ q[k].port < next
        /\ "SYN" \in q[k].flags => q[k].seq = 0 /\ q[k].len = 0
        /\ "SYN" \notin q[k].flags => ps[q[k].port].state # "listen"
SegmentsRight == ClientOk(toClient, peers) /\ PeerOk(toPeer, peers, tcp_next_port)

\* The two ends of a connection agree on whether it is open.
EndOk(s, peer, sent) ==
    /\ s.state = "SYN_SENT" => s.snd_una = 0 /\ sent = 0
    /\ s.state # "SYN_SENT" => peer.state # "listen"
    /\ s.snd_nxt = sent + 1
EndsRight ==
    /\ \A p \in Port : peers[p].state = "listen" => peers[p].out = 0 /\ sentBytes[p] = 0
    /\ \A i \in TcpSock : tcp_sockets[i].active =>
            EndOk(tcp_sockets[i], peers[tcp_sockets[i].port], sentBytes[tcp_sockets[i].port])

OfPort(bytes, p) == \A k \in 1 .. Len(bytes) : bytes[k][1] = p
OwnBytes ==
    /\ \A p \in Port : OfPort(read[p], p)
    /\ \A i \in TcpSock : tcp_sockets[i].active => OfPort(tcp_sockets[i].recv, tcp_sockets[i].port)

\* Without faults: bytes continue the stream of p after its first n.
Continues(bytes, p, n) == \A k \in 1 .. Len(bytes) : bytes[k] = <<p, n + k>>
Receives(q, s, n, peer) ==
    /\ Continues(s.recv, s.port, n)
    /\ n + Len(s.recv) <= peer.out
    /\ Consecutive(q, s.port, n + Len(s.recv) + 1, peer.out)
    /\ s.state = "SYN_SENT" => /\ n + Len(s.recv) = 0 /\ Announced(q, s.port)
                               /\ peer.state # "listen" => HasSynAck(q, s.port)
Delivers(q, p, peer, sent) == peer.got <= sent + 1 /\ Consecutive(q, p, peer.got, sent)
StreamsInOrder ==
    /\ \A p \in Port : Continues(read[p], p, 0)
    /\ \A i \in TcpSock : tcp_sockets[i].active =>
            Receives(toClient, tcp_sockets[i], Len(read[tcp_sockets[i].port]), peers[tcp_sockets[i].port])
    /\ \A p \in Port : peers[p].state # "listen" => Delivers(toPeer, p, peers[p], sentBytes[p])

StreamsInv ==
    /\ StreamsTyped /\ PortsRight /\ SegmentsRight /\ EndsRight /\ OwnBytes
    /\ faults = 0 => StreamsInOrder

-----------------------------------------------------------------------------
LEMMA ReceivesAppend ==
  ASSUME NEW q \in Seq(Seg), NEW g \in Seg, NEW s \in SockRecord, NEW n \in Nat,
         NEW peer \in PeerRecord, NEW r \in PeerRecord,
         Receives(q, s, n, peer), ~Carries(g, s.port), r.out = peer.out,
         s.state = "SYN_SENT" =>
            /\ HasSynAck(q, s.port) \/ g.port # s.port \/ IsSynAck(g)
            /\ r.state # "listen" => peer.state # "listen" \/ (g.port = s.port /\ IsSynAck(g))
  PROVE  Receives(Append(q, g), s, n, r)
<1>1. n + Len(s.recv) + 1 \in Nat /\ peer.out \in Nat
  BY DEF SockRecord, BytesOf, PeerRecord
<1>2. Consecutive(Append(q, g), s.port, n + Len(s.recv) + 1, r.out)
  BY <1>1, ConsecutiveAppendOther DEF Receives
<1>3. ASSUME s.state = "SYN_SENT" PROVE Announced(Append(q, g), s.port)
  BY <1>3, AnnouncedAppend DEF Receives
<1>4. ASSUME s.state = "SYN_SENT", r.state # "listen" PROVE HasSynAck(Append(q, g), s.port)
  BY <1>4, SynAckAppend DEF Receives
<1>. QED
  BY <1>2, <1>3, <1>4 DEF Receives

LEMMA ReceivesTail ==
  ASSUME NEW q \in Seq(Seg), NEW s \in SockRecord, NEW n \in Nat, NEW peer \in PeerRecord,
         Receives(q, s, n, peer), q # <<>>, Head(q).port # s.port
  PROVE  Receives(Tail(q), s, n, peer)
<1>1. n + Len(s.recv) + 1 \in Nat /\ peer.out \in Nat
  BY DEF SockRecord, BytesOf, PeerRecord
<1>2. ~Carries(Head(q), s.port)
  BY DEF Carries
<1>3. Consecutive(Tail(q), s.port, n + Len(s.recv) + 1, peer.out)
  BY <1>1, <1>2, ConsecutiveTailOther DEF Receives
<1>. QED
  BY <1>3, AnnouncedTail DEF Receives

\* No peer closes its ears again.
StaysOpen(ps, rs) == \A p \in Port : ps[p].state # "listen" => rs[p].state # "listen"

LEMMA ClientOkFrom ==
  ASSUME NEW q \in Seq(Seg), NEW r \in Seq(Seg), From(r, q), NEW ps, NEW rs, StaysOpen(ps, rs), ClientOk(q, ps)
  PROVE  ClientOk(r, rs)
<1>. SUFFICES ASSUME NEW k \in 1 .. Len(r)
              PROVE  rs[r[k].port].state # "listen" /\ (IsSynAck(r[k]) => r[k].len = 0)
  BY DEF ClientOk
<1>1. PICK j \in 1 .. Len(q) : r[k] = q[j]
  BY DEF From
<1>2. q[j] \in Seg
  OBVIOUS
<1>. QED
  BY <1>1, <1>2 DEF ClientOk, StaysOpen, Seg

LEMMA ClientOkAppend ==
  ASSUME NEW q \in Seq(Seg), NEW g \in Seg, NEW ps, NEW rs, StaysOpen(ps, rs), ClientOk(q, ps),
         rs[g.port].state # "listen", IsSynAck(g) => g.len = 0
  PROVE  ClientOk(Append(q, g), rs)
<1>1. /\ Len(Append(q, g)) = Len(q) + 1 /\ Len(q) \in Nat /\ Append(q, g)[Len(q) + 1] = g
      /\ \A k \in 1 .. Len(q) : Append(q, g)[k] = q[k]
  BY AppendIs
<1>. SUFFICES ASSUME NEW k \in 1 .. Len(q) + 1
              PROVE  /\ rs[Append(q, g)[k].port].state # "listen"
                     /\ IsSynAck(Append(q, g)[k]) => Append(q, g)[k].len = 0
  BY <1>1 DEF ClientOk
<1>2. CASE k = Len(q) + 1
  BY <1>1, <1>2
<1>3. CASE k \in 1 .. Len(q)
  <2>1. q[k] \in Seg
    BY <1>3
  <2>2. q[k].port \in Port /\ ps[q[k].port].state # "listen" /\ (IsSynAck(q[k]) => q[k].len = 0)
    BY <1>3, <2>1 DEF ClientOk, Seg
  <2>. QED
    BY <1>1, <1>3, <2>2 DEF StaysOpen
<1>. QED
  BY <1>1, <1>2, <1>3

LEMMA PeerOkFrom ==
  ASSUME NEW q \in Seq(Seg), NEW r \in Seq(Seg), From(r, q), NEW ps, NEW rs, StaysOpen(ps, rs),
         NEW n \in Nat, PeerOk(q, ps, n)
  PROVE  PeerOk(r, rs, n)
<1>. SUFFICES ASSUME NEW k \in 1 .. Len(r)
              PROVE  /\ r[k].port < n
                     /\ "SYN" \in r[k].flags => r[k].seq = 0 /\ r[k].len = 0
                     /\ "SYN" \notin r[k].flags => rs[r[k].port].state # "listen"
  BY DEF PeerOk
<1>1. PICK j \in 1 .. Len(q) : r[k] = q[j]
  BY DEF From
<1>2. q[j] \in Seg
  OBVIOUS
<1>. QED
  BY <1>1, <1>2 DEF PeerOk, StaysOpen, Seg

LEMMA PeerOkAppend ==
  ASSUME NEW q \in Seq(Seg), NEW g \in Seg, NEW ps, NEW m \in Nat, NEW n \in Nat, m <= n, PeerOk(q, ps, m),
         g.port < n, "SYN" \in g.flags => g.seq = 0 /\ g.len = 0, "SYN" \notin g.flags => ps[g.port].state # "listen"
  PROVE  PeerOk(Append(q, g), ps, n)
<1>1. /\ Len(Append(q, g)) = Len(q) + 1 /\ Len(q) \in Nat /\ Append(q, g)[Len(q) + 1] = g
      /\ \A k \in 1 .. Len(q) : Append(q, g)[k] = q[k]
  BY AppendIs
<1>. DEFINE Ok(x) == /\ x.port < n
                     /\ "SYN" \in x.flags => x.seq = 0 /\ x.len = 0
                     /\ "SYN" \notin x.flags => ps[x.port].state # "listen"
<1>2. Ok(g)
  OBVIOUS
<1>3. ASSUME NEW k \in 1 .. Len(q) PROVE Ok(q[k])
  <2>1. q[k] \in Seg
    OBVIOUS
  <2>2. q[k].port \in Port
    BY <2>1 DEF Seg
  <2>3. q[k].port \in Nat
    BY <2>2, TcpAssumption DEF Port
  <2>. QED
    BY <2>3 DEF PeerOk
<1>. HIDE DEF Ok
<1>4. ASSUME NEW k \in 1 .. Len(q) + 1 PROVE Ok(Append(q, g)[k])
  <2>1. CASE k = Len(q) + 1
    BY <1>1, <1>2, <2>1
  <2>2. CASE k \in 1 .. Len(q)
    BY <1>1, <1>3, <2>2
  <2>. QED
    BY <1>1, <2>1, <2>2
<1>. USE DEF Ok
<1>. QED
  BY <1>1, <1>4 DEF PeerOk

LEMMA InitRight == TcpInit => StreamsInv
<1>. SUFFICES ASSUME TcpInit PROVE StreamsInv
  OBVIOUS
<1>0. TcpSock \subseteq Nat /\ Port \subseteq Nat \ {0} /\ 0 \in Nat
  BY TcpAssumption DEF TcpSock, Port
<1>1. FreeSock \in SockRecord /\ FreeSock.active = FALSE
  BY DEF FreeSock, SockRecord, BytesOf
<1>2. StreamsTyped
  <2>1. tcp_sockets \in [TcpSock -> SockRecord]
    BY <1>1 DEF TcpInit
  <2>2. peers \in [Port -> PeerRecord]
    BY DEF TcpInit, PeerRecord
  <2>3. read \in [Port -> BytesOf]
    BY DEF TcpInit, BytesOf
  <2>. QED
    BY <2>1, <2>2, <2>3 DEF TcpInit, StreamsTyped
<1>3. \A i \in TcpSock : ~tcp_sockets[i].active
  BY <1>1 DEF TcpInit
<1>4. \A p \in Port : peers[p].state = "listen" /\ peers[p].out = 0 /\ read[p] = <<>> /\ sentBytes[p] = 0
  BY DEF TcpInit
<1>5. Len(toPeer) = 0 /\ Len(toClient) = 0
  BY DEF TcpInit
<1>6. PortsRight /\ EndsRight
  BY <1>3, <1>4 DEF PortsRight, EndsRight
<1>7. SegmentsRight
  BY <1>5 DEF SegmentsRight, ClientOk, PeerOk
<1>8. OwnBytes
  BY <1>3, <1>4 DEF OwnBytes, OfPort
<1>9. StreamsInOrder
  BY <1>3, <1>4 DEF StreamsInOrder, Continues
<1>. QED
  BY <1>2, <1>6, <1>7, <1>8, <1>9 DEF StreamsInv

\* What a segment from a socket looks like.
LEMMA SegmentTyped ==
  ASSUME NEW s \in SockRecord, s.port \in Port, NEW f \in SUBSET Flag, NEW len \in {0, 1}
  PROVE  Segment(s, f, len) \in Seg
BY DEF Segment, Seg, SockRecord

\* A socket is gone, and nothing else but the segments towards the peers changes.
LEMMA SocketGone ==
  ASSUME StreamsInv, NEW i \in TcpSock, NEW s \in SockRecord, ~s.active,
         tcp_sockets' = [tcp_sockets EXCEPT ![i] = s],
         UNCHANGED <<tcp_next_port, peers, toClient, read, sentBytes, faults>>,
         connecting' \in {0} \cup TcpSock, toPeer' \in Seq(Seg), PeerOk(toPeer', peers, tcp_next_port),
         \A p \in Port : \A a, b \in Nat : Consecutive(toPeer, p, a, b) => Consecutive(toPeer', p, a, b)
  PROVE  StreamsInv'
<1>1. StreamsTyped'
  BY DEF StreamsInv, StreamsTyped
<1>2. /\ tcp_sockets' \in [TcpSock -> SockRecord] /\ ~tcp_sockets'[i].active
      /\ \A j \in TcpSock : j # i => tcp_sockets'[j] = tcp_sockets[j]
  BY DEF StreamsInv, StreamsTyped
<1>3. \A j \in TcpSock : tcp_sockets'[j].active => j # i /\ tcp_sockets[j].active /\ tcp_sockets'[j] = tcp_sockets[j]
  BY <1>2
<1>4. PortsRight'
  BY <1>3 DEF StreamsInv, PortsRight
<1>5. SegmentsRight'
  BY DEF StreamsInv, SegmentsRight
<1>6. EndsRight'
  BY <1>3 DEF StreamsInv, EndsRight
<1>7. OwnBytes'
  BY <1>3 DEF StreamsInv, OwnBytes
<1>8. ASSUME faults' = 0 PROVE StreamsInOrder'
  <2>1. StreamsInOrder
    BY <1>8 DEF StreamsInv
  <2>2. ASSUME NEW p \in Port, peers[p].state # "listen" PROVE Delivers(toPeer', p, peers[p], sentBytes[p])
    <3>1. peers[p].got \in Nat /\ sentBytes[p] \in Nat
      BY DEF StreamsInv, StreamsTyped, PeerRecord
    <3>. QED
      BY <2>1, <2>2, <3>1 DEF StreamsInOrder, Delivers
  <2>. QED
    BY <1>3, <2>1, <2>2 DEF StreamsInOrder
<1>. QED
  BY <1>1, <1>4, <1>5, <1>6, <1>7, <1>8 DEF StreamsInv

LEMMA ConnectFailsRight == ASSUME StreamsInv, ConnectFails PROVE StreamsInv'
<1>1. tcp_next_port \in Nat /\ tcp_next_port' = tcp_next_port + 1
  BY DEF StreamsInv, StreamsTyped, ConnectFails
<1>2. UNCHANGED <<tcp_sockets, connecting, peers, toPeer, toClient, read, sentBytes, faults>>
  BY DEF ConnectFails
<1>3. StreamsTyped'
  BY <1>1, <1>2 DEF StreamsInv, StreamsTyped
<1>4. PortsRight'
  <2>1. \A p \in Port : p >= tcp_next_port + 1 => p >= tcp_next_port
    BY <1>1, TcpAssumption DEF Port
  <2>2. \A i \in TcpSock : PortOk(tcp_sockets[i], tcp_next_port) => PortOk(tcp_sockets[i], tcp_next_port + 1)
    BY <1>1, TcpAssumption DEF PortOk, Port
  <2>. QED
    BY <1>1, <1>2, <2>1, <2>2 DEF StreamsInv, PortsRight
<1>5. SegmentsRight'
  <2>1. ASSUME NEW k \in 1 .. Len(toPeer) PROVE toPeer[k].port < tcp_next_port => toPeer[k].port < tcp_next_port + 1
    <3>1. toPeer[k] \in Seg
      BY DEF StreamsInv, StreamsTyped
    <3>. QED
      BY <1>1, <3>1, TcpAssumption DEF Seg, Port
  <2>. QED
    BY <1>1, <1>2, <2>1 DEF StreamsInv, SegmentsRight, PeerOk
<1>6. EndsRight' /\ OwnBytes' /\ (faults' = 0 => StreamsInOrder')
  BY <1>2 DEF StreamsInv, EndsRight, OwnBytes, StreamsInOrder
<1>. QED
  BY <1>3, <1>4, <1>5, <1>6 DEF StreamsInv

LEMMA StaysOpenSame == \A ps : StaysOpen(ps, ps)
BY DEF StaysOpen

LEMMA ConnectReturnsRight == ASSUME StreamsInv, ConnectReturns PROVE StreamsInv'
<1>1. connecting \in TcpSock /\ tcp_sockets[connecting] \in SockRecord
  BY DEF ConnectReturns, StreamsInv, StreamsTyped
<1>2. CASE tcp_sockets[connecting].state = "SYN_SENT"
  <2>. DEFINE s == [tcp_sockets[connecting] EXCEPT !.active = FALSE, !.state = "CLOSED"]
  <2>1. s \in SockRecord /\ ~s.active
    BY <1>1 DEF SockRecord
  <2>2. tcp_sockets' = [tcp_sockets EXCEPT ![connecting] = s]
    BY <1>1, <1>2 DEF ConnectReturns, StreamsInv, StreamsTyped
  <2>. HIDE DEF s
  <2>3. /\ UNCHANGED <<tcp_next_port, peers, toPeer, toClient, read, sentBytes, faults>>
        /\ connecting' \in {0} \cup TcpSock /\ toPeer' \in Seq(Seg) /\ PeerOk(toPeer', peers, tcp_next_port)
    BY DEF ConnectReturns, StreamsInv, StreamsTyped, SegmentsRight
  <2>. QED
    BY <1>1, <2>1, <2>2, <2>3, SocketGone
<1>3. CASE tcp_sockets[connecting].state # "SYN_SENT"
  <2>1. UNCHANGED <<tcp_sockets, tcp_next_port, peers, toPeer, toClient, read, sentBytes, faults>> /\ connecting' = 0
    BY <1>3 DEF ConnectReturns
  <2>. QED
    BY <2>1 DEF StreamsInv, StreamsTyped, PortsRight, SegmentsRight, EndsRight, OwnBytes, StreamsInOrder
<1>. QED
  BY <1>2, <1>3

LEMMA TcpCloseRight == ASSUME StreamsInv, NEW i \in TcpSock, TcpClose(i) PROVE StreamsInv'
<1>. DEFINE s == tcp_sockets[i]
            t == [s EXCEPT !.active = FALSE, !.state = "CLOSED"]
            g == Segment(s, {"FIN", "ACK"}, 0)
<1>1. s \in SockRecord /\ s.active /\ s.port \in Port /\ s.port < tcp_next_port /\ tcp_next_port \in Nat
  BY DEF TcpClose, StreamsInv, StreamsTyped, PortsRight, PortOk
<1>2. t \in SockRecord /\ ~t.active
  BY <1>1 DEF SockRecord
<1>3. tcp_sockets' = [tcp_sockets EXCEPT ![i] = t]
  BY DEF TcpClose, StreamsInv, StreamsTyped
<1>4. UNCHANGED <<tcp_next_port, peers, toClient, read, sentBytes, faults>> /\ connecting' \in {0} \cup TcpSock
  BY DEF TcpClose, StreamsInv, StreamsTyped
<1>5. toPeer \in Seq(Seg) /\ PeerOk(toPeer, peers, tcp_next_port)
  BY DEF StreamsInv, StreamsTyped, SegmentsRight
<1>6. CASE s.state \in {"ESTABLISHED", "CLOSE_WAIT"}
  <2>1. toPeer' = Append(toPeer, g)
    BY <1>6 DEF TcpClose, Sends
  <2>2. g \in Seg
    BY <1>1, SegmentTyped DEF Flag
  <2>3. g.port = s.port /\ g.len = 0 /\ "SYN" \notin g.flags
    BY DEF Segment
  <2>4. peers[s.port].state # "listen"
    BY <1>1, <1>6 DEF StreamsInv, EndsRight, EndOk
  <2>. HIDE DEF g
  <2>5. PeerOk(toPeer', peers, tcp_next_port)
    BY <1>1, <1>5, <2>1, <2>2, <2>3, <2>4, PeerOkAppend
  <2>6. \A p \in Port : ~Carries(g, p)
    BY <2>3 DEF Carries
  <2>7. \A p \in Port : \A a, b \in Nat : Consecutive(toPeer, p, a, b) => Consecutive(toPeer', p, a, b)
    BY <1>5, <2>1, <2>2, <2>6, ConsecutiveAppendOther
  <2>8. toPeer' \in Seq(Seg)
    BY <1>5, <2>1, <2>2, AppendIs
  <2>. HIDE DEF s, t
  <2>. QED
    BY <1>2, <1>3, <1>4, <2>5, <2>7, <2>8, SocketGone
<1>7. CASE s.state \notin {"ESTABLISHED", "CLOSE_WAIT"}
  <2>1. toPeer' = toPeer
    BY <1>7 DEF TcpClose
  <2>. HIDE DEF s, t
  <2>. QED
    BY <1>2, <1>3, <1>4, <1>5, <2>1, SocketGone
<1>. QED
  BY <1>6, <1>7

\* Socket i changes and stays open; segments to it and from it may come and go.
LEMMA SocketActs ==
  ASSUME StreamsInv, NEW i \in TcpSock, tcp_sockets[i].active,
         NEW s \in SockRecord, s.active, s.port = tcp_sockets[i].port, s.state # "CLOSED",
         tcp_sockets' = [tcp_sockets EXCEPT ![i] = s],
         UNCHANGED <<tcp_next_port, connecting, peers>>,
         read' \in [Port -> BytesOf], sentBytes' \in [Port -> Nat], faults' \in Nat,
         \A p \in Port : p # s.port => read'[p] = read[p] /\ sentBytes'[p] = sentBytes[p],
         toPeer' \in Seq(Seg), PeerOk(toPeer', peers, tcp_next_port),
         toClient' = toClient \/ (toClient # <<>> /\ toClient' = Tail(toClient) /\ Head(toClient).port = s.port),
         EndOk(s, peers[s.port], sentBytes'[s.port]),
         peers[s.port].state = "listen" => sentBytes'[s.port] = 0,
         OfPort(read'[s.port], s.port), OfPort(s.recv, s.port),
         faults' = 0 => /\ faults = 0
                        /\ Continues(read'[s.port], s.port, 0)
                        /\ Receives(toClient', s, Len(read'[s.port]), peers[s.port])
                        /\ \A p \in Port : (peers[p].state # "listen" /\ Delivers(toPeer, p, peers[p], sentBytes[p]))
                                => Delivers(toPeer', p, peers[p], sentBytes'[p])
  PROVE  StreamsInv'
<1>0. s.port \in Port /\ s.port < tcp_next_port /\ tcp_next_port \in Nat /\ toClient \in Seq(Seg)
  BY DEF StreamsInv, StreamsTyped, PortsRight, PortOk
<1>1. toClient' \in Seq(Seg) /\ From(toClient', toClient)
  <2>1. CASE toClient' = toClient
    BY <1>0, <2>1 DEF From
  <2>2. CASE toClient # <<>> /\ toClient' = Tail(toClient)
    BY <1>0, <2>2, TailIs, FromTail
  <2>. QED
    BY <2>1, <2>2
<1>2. /\ tcp_sockets' \in [TcpSock -> SockRecord] /\ tcp_sockets'[i] = s
      /\ \A j \in TcpSock : j # i => tcp_sockets'[j] = tcp_sockets[j]
  BY DEF StreamsInv, StreamsTyped
<1>3. StreamsTyped'
  BY <1>1, <1>2 DEF StreamsInv, StreamsTyped
<1>4. \A j \in TcpSock : j # i /\ tcp_sockets[j].active => tcp_sockets[j].port # s.port
  BY DEF StreamsInv, PortsRight
<1>5. \A j \in TcpSock : tcp_sockets[j].active => tcp_sockets[j].port \in Port
  BY DEF StreamsInv, PortsRight, PortOk
<1>6. PortsRight'
  <2>1. \A j \in TcpSock : tcp_sockets'[j].active => PortOk(tcp_sockets'[j], tcp_next_port')
    BY <1>0, <1>2 DEF StreamsInv, PortsRight, PortOk
  <2>2. \A j, k \in TcpSock : (tcp_sockets'[j].active /\ tcp_sockets'[k].active
                                 /\ tcp_sockets'[j].port = tcp_sockets'[k].port) => j = k
    BY <1>2, <1>4 DEF StreamsInv, PortsRight
  <2>3. \A p \in Port : p >= tcp_next_port => p # s.port
    BY <1>0, TcpAssumption DEF Port
  <2>. QED
    BY <2>1, <2>2, <2>3 DEF StreamsInv, PortsRight
<1>7. SegmentsRight'
  BY <1>0, <1>1, ClientOkFrom, StaysOpenSame DEF StreamsInv, SegmentsRight
<1>8. EndsRight'
  <2>1. ASSUME NEW j \in TcpSock, tcp_sockets'[j].active
        PROVE  EndOk(tcp_sockets'[j], peers[tcp_sockets'[j].port], sentBytes'[tcp_sockets'[j].port])
    <3>1. CASE j = i
      BY <1>2, <3>1
    <3>2. CASE j # i
      BY <1>2, <1>4, <1>5, <2>1, <3>2 DEF StreamsInv, EndsRight
    <3>. QED
      BY <3>1, <3>2
  <2>2. ASSUME NEW p \in Port, peers[p].state = "listen" PROVE peers[p].out = 0 /\ sentBytes'[p] = 0
    BY <2>2 DEF StreamsInv, EndsRight
  <2>. QED
    BY <2>1, <2>2 DEF EndsRight
<1>9. OwnBytes'
  <2>1. \A p \in Port : OfPort(read'[p], p)
    BY DEF StreamsInv, OwnBytes
  <2>2. \A j \in TcpSock : tcp_sockets'[j].active => OfPort(tcp_sockets'[j].recv, tcp_sockets'[j].port)
    BY <1>2 DEF StreamsInv, OwnBytes
  <2>. QED
    BY <2>1, <2>2 DEF OwnBytes
<1>10. ASSUME faults' = 0 PROVE StreamsInOrder'
  <2>0. StreamsInOrder
    BY <1>10 DEF StreamsInv
  <2>1. \A p \in Port : Continues(read'[p], p, 0)
    BY <1>10, <2>0 DEF StreamsInOrder
  <2>2. ASSUME NEW j \in TcpSock, tcp_sockets'[j].active
        PROVE  Receives(toClient', tcp_sockets'[j], Len(read'[tcp_sockets'[j].port]), peers[tcp_sockets'[j].port])
    <3>1. CASE j = i
      BY <1>2, <1>10, <3>1
    <3>2. CASE j # i
      <4>. DEFINE t == tcp_sockets[j]
      <4>1. tcp_sockets'[j] = t /\ t.active /\ t \in SockRecord /\ t.port # s.port /\ t.port \in Port
        BY <1>2, <1>4, <1>5, <2>2, <3>2 DEF StreamsInv, StreamsTyped
      <4>2. read'[t.port] = read[t.port] /\ Len(read[t.port]) \in Nat /\ peers[t.port] \in PeerRecord
        BY <4>1 DEF StreamsInv, StreamsTyped, BytesOf
      <4>3. Receives(toClient, t, Len(read[t.port]), peers[t.port])
        BY <2>0, <4>1 DEF StreamsInOrder
      <4>. HIDE DEF t
      <4>4. Receives(toClient', t, Len(read[t.port]), peers[t.port])
        <5>1. CASE toClient' = toClient
          BY <4>3, <5>1
        <5>2. CASE toClient # <<>> /\ toClient' = Tail(toClient) /\ Head(toClient).port = s.port
          <6>1. toClient # <<>> /\ Head(toClient).port # t.port
            BY <4>1, <5>2
          <6>. QED
            BY <1>0, <4>1, <4>2, <4>3, <5>2, <6>1, ReceivesTail
        <5>. QED
          BY <5>1, <5>2
      <4>. QED
        BY <4>1, <4>2, <4>4
    <3>. QED
      BY <3>1, <3>2
  <2>3. \A p \in Port : peers[p].state # "listen" => Delivers(toPeer', p, peers[p], sentBytes'[p])
    BY <1>10, <2>0 DEF StreamsInOrder
  <2>. QED
    BY <2>1, <2>2, <2>3 DEF StreamsInOrder
<1>. QED
  BY <1>3, <1>6, <1>7, <1>8, <1>9, <1>10 DEF StreamsInv

\* Segment g, from socket s to its peer, carries no byte.
LEMMA SendsEmpty ==
  ASSUME StreamsInv, NEW s \in SockRecord, s.port \in Port, s.port < tcp_next_port,
         NEW f \in SUBSET Flag, toPeer' = Append(toPeer, Segment(s, f, 0)),
         "SYN" \in f => s.snd_nxt = 0, "SYN" \notin f => peers[s.port].state # "listen"
  PROVE  /\ toPeer' \in Seq(Seg) /\ PeerOk(toPeer', peers, tcp_next_port)
         /\ \A p \in Port : Delivers(toPeer, p, peers[p], sentBytes[p]) => Delivers(toPeer', p, peers[p], sentBytes[p])
<1>. DEFINE g == Segment(s, f, 0)
<1>1. g \in Seg
  BY SegmentTyped
<1>2. g.port = s.port /\ g.len = 0 /\ g.flags = f /\ g.seq = s.snd_nxt
  BY DEF Segment
<1>3. toPeer \in Seq(Seg) /\ PeerOk(toPeer, peers, tcp_next_port) /\ tcp_next_port \in Nat
  BY DEF StreamsInv, StreamsTyped, SegmentsRight
<1>4. toPeer' = Append(toPeer, g)
  OBVIOUS
<1>. HIDE DEF g
<1>5. PeerOk(toPeer', peers, tcp_next_port)
  BY <1>1, <1>2, <1>3, <1>4, PeerOkAppend
<1>6. ASSUME NEW p \in Port, Delivers(toPeer, p, peers[p], sentBytes[p])
      PROVE  Delivers(toPeer', p, peers[p], sentBytes[p])
  <2>1. peers[p].got \in Nat /\ sentBytes[p] \in Nat
    BY DEF StreamsInv, StreamsTyped, PeerRecord
  <2>2. ~Carries(g, p)
    BY <1>2 DEF Carries
  <2>. QED
    BY <1>1, <1>3, <1>4, <1>6, <2>1, <2>2, ConsecutiveAppendOther DEF Delivers
<1>. QED
  BY <1>1, <1>3, <1>4, <1>5, <1>6, AppendIs

LEMMA TcpTickRight == ASSUME StreamsInv, NEW i \in TcpSock, TcpTick(i) PROVE StreamsInv'
<1>. DEFINE o == tcp_sockets[i]
            s == [o EXCEPT !.snd_nxt = o.snd_una]
            t == [s EXCEPT !.snd_nxt = @ + 1]
            p == o.port
<1>1. o \in SockRecord /\ o.active /\ o.state = "SYN_SENT" /\ p \in Port /\ p < tcp_next_port
  BY DEF TcpTick, StreamsInv, StreamsTyped, PortsRight, PortOk
<1>2. o.snd_una = 0 /\ sentBytes[p] = 0
  BY <1>1 DEF StreamsInv, EndsRight, EndOk
<1>3. /\ s \in SockRecord /\ s.port = p /\ s.snd_nxt = 0 /\ s.snd_una = 0
      /\ s.active /\ s.state = "SYN_SENT" /\ s.recv = o.recv
  BY <1>1, <1>2 DEF SockRecord
<1>. HIDE DEF s
<1>4. /\ t \in SockRecord /\ t.active /\ t.port = p /\ t.state = "SYN_SENT" /\ t.recv = o.recv
      /\ t.snd_una = 0 /\ t.snd_nxt = 1
  BY <1>3 DEF SockRecord
<1>5. tcp_sockets' = [tcp_sockets EXCEPT ![i] = t] /\ toPeer' = Append(toPeer, Segment(s, {"SYN"}, 0))
  BY DEF TcpTick, Sends, s
<1>6. UNCHANGED <<tcp_next_port, connecting, peers, toClient, read, sentBytes, faults>>
  BY DEF TcpTick
<1>7. /\ read \in [Port -> BytesOf] /\ sentBytes \in [Port -> Nat] /\ faults \in Nat
      /\ OfPort(read[p], p) /\ OfPort(o.recv, p)
  BY <1>1 DEF StreamsInv, StreamsTyped, OwnBytes
<1>8. EndOk(t, peers[p], sentBytes[p])
  BY <1>2, <1>4 DEF EndOk
<1>9. faults = 0 => Continues(read[p], p, 0) /\ Receives(toClient, o, Len(read[p]), peers[p])
  BY <1>1 DEF StreamsInv, StreamsInOrder
<1>10. faults = 0 => Receives(toClient, t, Len(read[p]), peers[p])
  BY <1>1, <1>4, <1>9 DEF Receives
<1>. HIDE DEF t
<1>11. /\ toPeer' \in Seq(Seg) /\ PeerOk(toPeer', peers, tcp_next_port)
       /\ \A q \in Port : Delivers(toPeer, q, peers[q], sentBytes[q]) => Delivers(toPeer', q, peers[q], sentBytes[q])
  BY <1>1, <1>3, <1>5, SendsEmpty DEF Flag
<1>. QED
  BY <1>1, <1>2, <1>4, <1>5, <1>6, <1>7, <1>8, <1>9, <1>10, <1>11, SocketActs

LEMMA TcpSendRight == ASSUME StreamsInv, NEW i \in TcpSock, TcpSend(i) PROVE StreamsInv'
<1>. DEFINE o == tcp_sockets[i]
            t == [o EXCEPT !.snd_nxt = @ + 1]
            g == Segment(o, {"ACK", "PSH"}, 1)
            p == o.port
<1>1. o \in SockRecord /\ o.active /\ o.state = "ESTABLISHED" /\ p \in Port /\ p < tcp_next_port
  BY DEF TcpSend, StreamsInv, StreamsTyped, PortsRight, PortOk
<1>2. o.snd_nxt = sentBytes[p] + 1 /\ peers[p].state # "listen"
  BY <1>1 DEF StreamsInv, EndsRight, EndOk
<1>3. /\ t \in SockRecord /\ t.active /\ t.port = p /\ t.state = "ESTABLISHED" /\ t.recv = o.recv
      /\ t.snd_nxt = o.snd_nxt + 1
  BY <1>1 DEF SockRecord
<1>4. tcp_sockets' = [tcp_sockets EXCEPT ![i] = t] /\ toPeer' = Append(toPeer, g)
  BY DEF TcpSend, Sends, StreamsInv, StreamsTyped
<1>5. UNCHANGED <<tcp_next_port, connecting, peers, toClient, read, faults>>
      /\ sentBytes' = [sentBytes EXCEPT ![p] = @ + 1]
  BY DEF TcpSend
<1>6. /\ read \in [Port -> BytesOf] /\ sentBytes \in [Port -> Nat] /\ faults \in Nat
      /\ OfPort(read[p], p) /\ OfPort(o.recv, p)
      /\ toPeer \in Seq(Seg) /\ PeerOk(toPeer, peers, tcp_next_port) /\ tcp_next_port \in Nat
  BY <1>1 DEF StreamsInv, StreamsTyped, OwnBytes, SegmentsRight
<1>7. /\ sentBytes' \in [Port -> Nat] /\ sentBytes'[p] = sentBytes[p] + 1
      /\ \A q \in Port : q # p => sentBytes'[q] = sentBytes[q]
  BY <1>1, <1>5, <1>6
<1>8. EndOk(t, peers[p], sentBytes'[p])
  BY <1>2, <1>3, <1>7 DEF EndOk
<1>9. faults = 0 => Continues(read[p], p, 0) /\ Receives(toClient, o, Len(read[p]), peers[p])
  BY <1>1 DEF StreamsInv, StreamsInOrder
<1>10. faults = 0 => Receives(toClient, t, Len(read[p]), peers[p])
  BY <1>1, <1>3, <1>9 DEF Receives
<1>11. g \in Seg
  BY <1>1, SegmentTyped DEF Flag
<1>12. g.port = p /\ g.len = 1 /\ g.flags = {"ACK", "PSH"} /\ g.seq = o.snd_nxt
  BY DEF Segment
<1>. HIDE DEF t, g
<1>13. toPeer' \in Seq(Seg) /\ PeerOk(toPeer', peers, tcp_next_port)
  <2>1. "SYN" \notin g.flags /\ g.port < tcp_next_port /\ peers[g.port].state # "listen"
    BY <1>1, <1>2, <1>12
  <2>2. tcp_next_port <= tcp_next_port
    BY <1>6
  <2>3. PeerOk(Append(toPeer, g), peers, tcp_next_port)
    BY <1>6, <1>11, <2>1, <2>2, PeerOkAppend
  <2>. QED
    BY <1>4, <1>6, <1>11, <2>3, AppendIs
<1>14. ASSUME NEW q \in Port, Delivers(toPeer, q, peers[q], sentBytes[q])
       PROVE  Delivers(toPeer', q, peers[q], sentBytes'[q])
  <2>1. peers[q].got \in Nat /\ sentBytes[q] \in Nat
    BY <1>6 DEF StreamsInv, StreamsTyped, PeerRecord
  <2>2. CASE q = p
    <3>1. Carries(g, q) /\ g.seq = sentBytes[q] + 1
      BY <1>2, <1>12, <2>2 DEF Carries
    <3>2. Consecutive(Append(toPeer, g), q, peers[q].got, sentBytes[q] + 1)
      BY <1>6, <1>11, <1>14, <2>1, <3>1, ConsecutiveAppendNext DEF Delivers
    <3>. QED
      BY <1>4, <1>7, <1>14, <2>1, <2>2, <3>2 DEF Delivers
  <2>3. CASE q # p
    <3>1. ~Carries(g, q)
      BY <1>12, <2>3 DEF Carries
    <3>2. Consecutive(Append(toPeer, g), q, peers[q].got, sentBytes[q])
      BY <1>6, <1>11, <1>14, <2>1, <3>1, ConsecutiveAppendOther DEF Delivers
    <3>. QED
      BY <1>4, <1>7, <1>14, <2>3, <3>2 DEF Delivers
  <2>. QED
    BY <2>2, <2>3
<1>15. /\ peers[t.port].state = "listen" => sentBytes'[t.port] = 0
       /\ EndOk(t, peers[t.port], sentBytes'[t.port])
       /\ OfPort(read'[t.port], t.port) /\ OfPort(t.recv, t.port)
       /\ \A q \in Port : q # t.port => read'[q] = read[q] /\ sentBytes'[q] = sentBytes[q]
       /\ t.state # "CLOSED" /\ t.port = tcp_sockets[i].port
  BY <1>2, <1>3, <1>5, <1>6, <1>7, <1>8
<1>16. /\ faults' = 0 => /\ faults = 0 /\ Continues(read'[t.port], t.port, 0)
                         /\ Receives(toClient', t, Len(read'[t.port]), peers[t.port])
       /\ read' \in [Port -> BytesOf] /\ faults' \in Nat
  BY <1>3, <1>5, <1>6, <1>9, <1>10
<1>. QED
  BY <1>1, <1>3, <1>4, <1>5, <1>7, <1>13, <1>14, <1>15, <1>16, SocketActs

LEMMA BytesJoined ==
  ASSUME NEW a \in BytesOf, NEW b \in BytesOf, NEW p
  PROVE  /\ a \o b \in BytesOf /\ Len(a \o b) = Len(a) + Len(b)
         /\ OfPort(a, p) /\ OfPort(b, p) => OfPort(a \o b, p)
         /\ Continues(a, p, 0) /\ Continues(b, p, Len(a)) => Continues(a \o b, p, 0)
<1>1. a \in Seq(Port \X Nat) /\ b \in Seq(Port \X Nat) /\ Len(a) \in Nat /\ Len(b) \in Nat
  BY DEF BytesOf
<1>2. a \o b \in Seq(Port \X Nat) /\ Len(a \o b) = Len(a) + Len(b)
  BY <1>1, ConcatProperties
<1>3. \A k \in 1 .. Len(a) : (a \o b)[k] = a[k]
  BY <1>1
<1>4. ASSUME NEW k \in 1 .. Len(a) + Len(b), k \notin 1 .. Len(a)
      PROVE  k - Len(a) \in 1 .. Len(b) /\ (a \o b)[k] = b[k - Len(a)]
  BY <1>1, <1>4
<1>5. ASSUME OfPort(a, p), OfPort(b, p) PROVE OfPort(a \o b, p)
  <2>. SUFFICES ASSUME NEW k \in 1 .. Len(a) + Len(b) PROVE (a \o b)[k][1] = p
    BY <1>2 DEF OfPort
  <2>1. CASE k \in 1 .. Len(a)
    BY <1>3, <1>5, <2>1 DEF OfPort
  <2>2. CASE k \notin 1 .. Len(a)
    BY <1>4, <1>5, <2>2 DEF OfPort
  <2>. QED
    BY <2>1, <2>2
<1>6. ASSUME Continues(a, p, 0), Continues(b, p, Len(a)) PROVE Continues(a \o b, p, 0)
  <2>. SUFFICES ASSUME NEW k \in 1 .. Len(a) + Len(b) PROVE (a \o b)[k] = <<p, 0 + k>>
    BY <1>2 DEF Continues
  <2>1. CASE k \in 1 .. Len(a)
    BY <1>3, <1>6, <2>1 DEF Continues
  <2>2. CASE k \notin 1 .. Len(a)
    <3>1. (a \o b)[k] = <<p, Len(a) + (k - Len(a))>>
      BY <1>4, <1>6, <2>2 DEF Continues
    <3>2. Len(a) + (k - Len(a)) = 0 + k
      BY <1>1
    <3>. QED
      BY <3>1, <3>2
  <2>. QED
    BY <2>1, <2>2
<1>. QED
  BY <1>2, <1>5, <1>6 DEF BytesOf

LEMMA BytesCut ==
  ASSUME NEW b \in BytesOf, NEW n \in 1 .. Len(b), NEW p, NEW m \in Nat
  PROVE  /\ SubSeq(b, 1, n) \in BytesOf /\ Len(SubSeq(b, 1, n)) = n
         /\ SubSeq(b, n + 1, Len(b)) \in BytesOf /\ Len(SubSeq(b, n + 1, Len(b))) = Len(b) - n
         /\ OfPort(b, p) => OfPort(SubSeq(b, 1, n), p) /\ OfPort(SubSeq(b, n + 1, Len(b)), p)
         /\ Continues(b, p, m) => /\ Continues(SubSeq(b, 1, n), p, m)
                                  /\ Continues(SubSeq(b, n + 1, Len(b)), p, m + n)
<1>. DEFINE c == SubSeq(b, 1, n)
            d == SubSeq(b, n + 1, Len(b))
<1>0. b \in Seq(Port \X Nat) /\ Len(b) \in Nat /\ n \in Nat /\ 1 <= n /\ n <= Len(b)
  BY DEF BytesOf
<1>1. c \in Seq(Port \X Nat) /\ Len(c) = n /\ \A k \in 1 .. n : c[k] = b[k]
  BY <1>0
<1>2. d \in Seq(Port \X Nat) /\ Len(d) = Len(b) - n /\ \A k \in 1 .. Len(b) - n : d[k] = b[n + k]
  BY <1>0
<1>. HIDE DEF c, d
<1>3. \A k \in 1 .. n : k \in 1 .. Len(b)
  BY <1>0
<1>4. \A k \in 1 .. Len(b) - n : n + k \in 1 .. Len(b)
  BY <1>0
<1>5. ASSUME OfPort(b, p) PROVE OfPort(c, p) /\ OfPort(d, p)
  <2>1. \A k \in 1 .. Len(b) : b[k][1] = p
    BY <1>5 DEF OfPort
  <2>2. \A k \in 1 .. n : c[k][1] = p
    BY <1>1, <1>3, <2>1
  <2>3. \A k \in 1 .. Len(b) - n : d[k][1] = p
    BY <1>2, <1>4, <2>1
  <2>. QED
    BY <1>1, <1>2, <2>2, <2>3 DEF OfPort
<1>6. Continues(b, p, m) => Continues(c, p, m)
  BY <1>1, <1>3 DEF Continues
<1>7. ASSUME Continues(b, p, m) PROVE Continues(d, p, m + n)
  <2>. SUFFICES ASSUME NEW k \in 1 .. Len(b) - n PROVE d[k] = <<p, m + n + k>>
    BY <1>2 DEF Continues
  <2>1. d[k] = <<p, m + (n + k)>>
    BY <1>2, <1>4, <1>7 DEF Continues
  <2>2. m + (n + k) = m + n + k
    BY <1>0
  <2>. QED
    BY <2>1, <2>2
<1>. QED
  BY <1>1, <1>2, <1>5, <1>6, <1>7 DEF BytesOf, c, d

LEMMA TcpRecvRight ==
  ASSUME StreamsInv, NEW i \in TcpSock, NEW n, TcpRecv(i, n) PROVE StreamsInv'
<1>. DEFINE o == tcp_sockets[i]
            rest == SubSeq(o.recv, n + 1, Len(o.recv))
            first == SubSeq(o.recv, 1, n)
            t == [o EXCEPT !.recv = rest]
            p == o.port
<1>1. o \in SockRecord /\ o.active /\ p \in Port /\ p < tcp_next_port /\ o.state # "CLOSED"
  BY DEF TcpRecv, StreamsInv, StreamsTyped, PortsRight, PortOk
<1>2. n \in 1 .. Len(o.recv) /\ o.recv \in BytesOf
  BY <1>1 DEF TcpRecv, SockRecord
<1>3. /\ read \in [Port -> BytesOf] /\ sentBytes \in [Port -> Nat] /\ faults \in Nat
      /\ OfPort(read[p], p) /\ OfPort(o.recv, p)
      /\ toPeer \in Seq(Seg) /\ PeerOk(toPeer, peers, tcp_next_port)
      /\ read[p] \in BytesOf /\ Len(read[p]) \in Nat /\ Len(o.recv) \in Nat
  <2>1. /\ read \in [Port -> BytesOf] /\ sentBytes \in [Port -> Nat] /\ faults \in Nat
        /\ toPeer \in Seq(Seg) /\ PeerOk(toPeer, peers, tcp_next_port)
    BY DEF StreamsInv, StreamsTyped, SegmentsRight
  <2>2. OfPort(read[p], p) /\ OfPort(o.recv, p)
    BY <1>1 DEF StreamsInv, OwnBytes
  <2>3. \A b \in BytesOf : Len(b) \in Nat
    BY DEF BytesOf
  <2>4. read[p] \in BytesOf
    BY <1>1, <2>1
  <2>. QED
    BY <1>2, <2>1, <2>2, <2>3, <2>4
<1>4. UNCHANGED <<tcp_next_port, connecting, peers, toPeer, toClient, sentBytes, faults>>
      /\ read' = [read EXCEPT ![p] = @ \o first]
  BY DEF TcpRecv
<1>5. tcp_sockets' = [tcp_sockets EXCEPT ![i] = t]
  BY DEF TcpRecv, StreamsInv, StreamsTyped
<1>6. first \in BytesOf /\ Len(first) = n /\ rest \in BytesOf /\ Len(rest) = Len(o.recv) - n
  BY <1>2, BytesCut
<1>7. OfPort(first, p) /\ OfPort(rest, p)
  BY <1>2, <1>3, BytesCut
<1>8. Continues(o.recv, p, Len(read[p])) => Continues(first, p, Len(read[p])) /\ Continues(rest, p, Len(read[p]) + n)
  BY <1>2, <1>3, BytesCut
<1>. HIDE DEF first, rest
<1>9. t \in SockRecord /\ t.active /\ t.port = p /\ t.state = o.state /\ t.recv = rest
      /\ t.snd_una = o.snd_una /\ t.snd_nxt = o.snd_nxt
  BY <1>1, <1>6 DEF SockRecord
<1>10. read'[p] = read[p] \o first /\ \A q \in Port : q # p => read'[q] = read[q]
  BY <1>1, <1>3, <1>4
<1>11. read'[p] \in BytesOf /\ Len(read'[p]) = Len(read[p]) + n /\ OfPort(read'[p], p)
  BY <1>3, <1>6, <1>7, <1>10, BytesJoined
<1>12. read' \in [Port -> BytesOf]
  BY <1>3, <1>4, <1>10, <1>11
<1>13. EndOk(t, peers[p], sentBytes[p])
  BY <1>1, <1>9 DEF StreamsInv, EndsRight, EndOk
<1>14. ASSUME faults = 0
       PROVE  Continues(read'[p], p, 0) /\ Receives(toClient, t, Len(read'[p]), peers[p])
  <2>1. Continues(read[p], p, 0) /\ Receives(toClient, o, Len(read[p]), peers[p])
    BY <1>1, <1>14 DEF StreamsInv, StreamsInOrder
  <2>2. Continues(first, p, Len(read[p])) /\ Continues(rest, p, Len(read'[p]))
    BY <1>8, <1>11, <2>1 DEF Receives
  <2>3. Continues(read'[p], p, 0)
    BY SMTT(30), <1>3, <1>6, <1>10, <2>1, <2>2, BytesJoined
  <2>. HIDE DEF t
  <2>4. Len(read'[p]) + Len(t.recv) = Len(read[p]) + Len(o.recv)
    <3>1. Len(t.recv) = Len(o.recv) - n /\ n \in Nat
      BY <1>2, <1>6, <1>9
    <3>2. Len(read'[p]) = Len(read[p]) + n /\ Len(read[p]) \in Nat /\ Len(o.recv) \in Nat
      BY <1>3, <1>11
    <3>3. \A x, y \in Nat : (x + n) + (y - n) = x + y
      BY <3>1
    <3>. QED
      BY <3>1, <3>2, <3>3, Zenon
  <2>. QED
    BY <1>9, <2>1, <2>2, <2>3, <2>4 DEF Receives
<1>15. peers[p].state = "listen" => sentBytes[p] = 0
  BY <1>1 DEF StreamsInv, EndsRight
<1>. HIDE DEF t
<1>16. /\ peers[t.port].state = "listen" => sentBytes'[t.port] = 0
       /\ EndOk(t, peers[t.port], sentBytes'[t.port])
       /\ OfPort(read'[t.port], t.port) /\ OfPort(t.recv, t.port)
       /\ \A q \in Port : q # t.port => read'[q] = read[q] /\ sentBytes'[q] = sentBytes[q]
       /\ t.state # "CLOSED" /\ t.port = tcp_sockets[i].port
  BY <1>1, <1>4, <1>7, <1>9, <1>10, <1>11, <1>13, <1>15
<1>17. faults' = 0 => /\ faults = 0 /\ Continues(read'[t.port], t.port, 0)
                      /\ Receives(toClient', t, Len(read'[t.port]), peers[t.port])
  BY <1>4, <1>9, <1>14
<1>18. PeerOk(toPeer', peers, tcp_next_port) /\ toPeer' \in Seq(Seg) /\ sentBytes' \in [Port -> Nat] /\ faults' \in Nat
  BY <1>3, <1>4
<1>. QED
  BY <1>1, <1>4, <1>5, <1>9, <1>12, <1>16, <1>17, <1>18, SocketActs

LEMMA TcpConnectRight == ASSUME StreamsInv, NEW i \in TcpSock, TcpConnect(i) PROVE StreamsInv'
<1>. DEFINE p == tcp_next_port
            s == [FreeSock EXCEPT !.active = TRUE, !.state = "SYN_SENT", !.port = tcp_next_port]
            t == [s EXCEPT !.snd_nxt = 1]
            g == Segment(s, {"SYN"}, 0)
<1>1. p \in Port /\ p \in Nat /\ p < p + 1 /\ p >= p /\ ~tcp_sockets[i].active
  BY TcpAssumption DEF TcpConnect, FirstFree, StreamsInv, StreamsTyped, Port
<1>2. FreeSock \in SockRecord /\ FreeSock.recv = <<>> /\ FreeSock.snd_una = 0 /\ FreeSock.snd_nxt = 0
  BY DEF FreeSock, SockRecord, BytesOf
<1>3. /\ s \in SockRecord /\ s.active /\ s.state = "SYN_SENT" /\ s.port = p /\ s.recv = <<>>
      /\ s.snd_una = 0 /\ s.snd_nxt = 0
  BY <1>1, <1>2 DEF SockRecord
<1>. HIDE DEF s
<1>4. /\ t \in SockRecord /\ t.active /\ t.state = "SYN_SENT" /\ t.port = p /\ t.recv = <<>>
      /\ t.snd_una = 0 /\ t.snd_nxt = 1
  BY <1>3 DEF SockRecord
<1>5. /\ tcp_sockets' = [tcp_sockets EXCEPT ![i] = t] /\ toPeer' = Append(toPeer, g)
      /\ connecting' = i /\ tcp_next_port' = p + 1
      /\ UNCHANGED <<peers, toClient, read, sentBytes, faults>>
  BY DEF TcpConnect, Sends, s
<1>6. g \in Seg
  BY <1>1, <1>3, SegmentTyped DEF Flag
<1>7. g.port = p /\ g.flags = {"SYN"} /\ g.seq = 0 /\ g.len = 0
  BY <1>3 DEF Segment
<1>. HIDE DEF t, g, p
<1>8. /\ tcp_sockets' \in [TcpSock -> SockRecord] /\ tcp_sockets'[i] = t
      /\ \A j \in TcpSock : j # i => tcp_sockets'[j] = tcp_sockets[j]
  BY <1>4, <1>5 DEF StreamsInv, StreamsTyped
<1>9. StreamsTyped'
  <2>1. toPeer' \in Seq(Seg)
    BY <1>5, <1>6, AppendIs DEF StreamsInv, StreamsTyped
  <2>2. tcp_next_port' \in Nat \ {0}
    BY <1>1, <1>5
  <2>. QED
    BY <1>5, <1>8, <2>1, <2>2 DEF StreamsInv, StreamsTyped
<1>10. peers[p].state = "listen" /\ read[p] = <<>> /\ peers[p].out = 0 /\ sentBytes[p] = 0
  BY <1>1 DEF StreamsInv, PortsRight, EndsRight, p
<1>11. ASSUME NEW j \in TcpSock, j # i, tcp_sockets[j].active
       PROVE  /\ PortOk(tcp_sockets[j], p + 1) /\ tcp_sockets[j].port # p
              /\ tcp_sockets[j].port \in Port
  <2>1. tcp_sockets[j].port \in Port /\ tcp_sockets[j].port < p /\ tcp_sockets[j].state # "CLOSED"
    BY <1>11 DEF StreamsInv, PortsRight, PortOk, p
  <2>. QED
    BY <1>1, <2>1, TcpAssumption DEF PortOk, Port
<1>12. PortOk(t, p + 1) /\ t.port = p /\ t.active /\ t.state = "SYN_SENT" /\ t.recv = <<>>
       /\ t.snd_una = 0 /\ t.snd_nxt = 1
  BY <1>1, <1>4 DEF PortOk
<1>13. PortsRight'
  <2>1. \A j \in TcpSock : tcp_sockets'[j].active => PortOk(tcp_sockets'[j], p + 1)
    BY <1>8, <1>11, <1>12
  <2>2. \A j, k \in TcpSock : (tcp_sockets'[j].active /\ tcp_sockets'[k].active
                                 /\ tcp_sockets'[j].port = tcp_sockets'[k].port) => j = k
    BY <1>8, <1>11, <1>12 DEF StreamsInv, PortsRight
  <2>3. \A q \in Port : q >= p + 1 => q >= p
    BY <1>1, TcpAssumption DEF Port
  <2>4. \A q \in Port : q >= p + 1 => read[q] = <<>> /\ peers[q].state = "listen"
    BY <2>3 DEF StreamsInv, PortsRight, p
  <2>. QED
    BY <1>5, <2>1, <2>2, <2>4 DEF PortsRight
<1>14. SegmentsRight'
  <2>1. PeerOk(toPeer, peers, p) /\ p <= p + 1 /\ p + 1 \in Nat /\ toPeer \in Seq(Seg)
    BY <1>1 DEF StreamsInv, SegmentsRight, StreamsTyped, p
  <2>2. PeerOk(Append(toPeer, g), peers, p + 1)
    BY <1>1, <1>6, <1>7, <2>1, PeerOkAppend
  <2>. QED
    BY <1>5, <2>2 DEF StreamsInv, SegmentsRight
<1>15. EndsRight'
  <2>1. EndOk(t, peers[t.port], sentBytes[t.port])
    BY <1>10, <1>12 DEF EndOk
  <2>. QED
    BY <1>5, <1>8, <2>1 DEF StreamsInv, EndsRight
<1>16. OwnBytes'
  <2>1. OfPort(t.recv, t.port)
    BY <1>12 DEF OfPort
  <2>. QED
    BY <1>5, <1>8, <2>1 DEF StreamsInv, OwnBytes
<1>17. ASSUME faults = 0 PROVE StreamsInOrder'
  <2>0. StreamsInOrder
    BY <1>17 DEF StreamsInv
  <2>1. \A k \in 1 .. Len(toClient) : toClient[k].port # p
    BY <1>10 DEF StreamsInv, SegmentsRight, ClientOk
  <2>2. Len(read[p]) = 0 /\ Len(t.recv) = 0
    BY <1>10, <1>12
  <2>3. Consecutive(toClient, p, 1, 0)
    BY <2>1 DEF Consecutive, Carries
  <2>4. Announced(toClient, p)
    BY <2>1 DEF Announced
  <2>5. Continues(t.recv, p, 0)
    BY <2>2 DEF Continues
  <2>6. Receives(toClient, t, Len(read[t.port]), peers[t.port])
    BY <1>10, <1>12, <2>2, <2>3, <2>4, <2>5 DEF Receives
  <2>7. ASSUME NEW q \in Port, peers[q].state # "listen"
        PROVE  Delivers(toPeer', q, peers[q], sentBytes[q])
    <3>1. Delivers(toPeer, q, peers[q], sentBytes[q])
      BY <2>0, <2>7 DEF StreamsInOrder
    <3>2. peers[q].got \in Nat /\ sentBytes[q] \in Nat /\ toPeer \in Seq(Seg)
      BY DEF StreamsInv, StreamsTyped, PeerRecord
    <3>3. ~Carries(g, q)
      BY <1>7 DEF Carries
    <3>. QED
      BY <1>5, <1>6, <3>1, <3>2, <3>3, ConsecutiveAppendOther DEF Delivers
  <2>. QED
    BY <1>5, <1>8, <2>0, <2>6, <2>7 DEF StreamsInOrder
<1>. QED
  BY <1>5, <1>9, <1>13, <1>14, <1>15, <1>16, <1>17 DEF StreamsInv

LEMMA IgnoreRight ==
  ASSUME StreamsInv, TcpHandle, Ignore(Head(toClient)) PROVE StreamsInv'
<1>. DEFINE g == Head(toClient)
<1>1. /\ toClient # <<>> /\ toClient' = Tail(toClient) /\ toClient \in Seq(Seg)
      /\ UNCHANGED <<tcp_sockets, toPeer, faults, tcp_next_port, connecting, peers, read, sentBytes>>
  BY DEF TcpHandle, Ignore, StreamsInv, StreamsTyped
<1>2. toClient' \in Seq(Seg) /\ From(toClient', toClient)
  BY <1>1, TailIs, FromTail
<1>3. StreamsTyped'
  BY <1>1, <1>2 DEF StreamsInv, StreamsTyped
<1>4. SegmentsRight'
  BY <1>1, <1>2, ClientOkFrom, StaysOpenSame DEF StreamsInv, SegmentsRight
<1>5. ASSUME faults = 0 PROVE StreamsInOrder'
  <2>0. StreamsInOrder
    BY <1>5 DEF StreamsInv
  <2>1. ASSUME NEW i \in TcpSock, tcp_sockets[i].active
        PROVE  Receives(toClient', tcp_sockets[i], Len(read[tcp_sockets[i].port]), peers[tcp_sockets[i].port])
    <3>. DEFINE s == tcp_sockets[i]
    <3>1. s \in SockRecord /\ s.active /\ s.port \in Port /\ s.state # "CLOSED"
      BY <2>1 DEF StreamsInv, StreamsTyped, PortsRight, PortOk
    <3>2. Receives(toClient, s, Len(read[s.port]), peers[s.port])
      BY <2>0, <3>1 DEF StreamsInOrder
    <3>3. read[s.port] \in BytesOf /\ peers[s.port] \in PeerRecord
      BY <3>1 DEF StreamsInv, StreamsTyped
    <3>4. Len(read[s.port]) \in Nat
      BY <3>3 DEF BytesOf
    <3>5. s.state \in {"SYN_SENT", "ESTABLISHED", "CLOSE_WAIT"}
      BY <3>1 DEF SockRecord
    <3>6. ASSUME g.port = s.port PROVE FALSE
      <4>1. Connected(i, g)
        BY <3>1, <3>6 DEF Connected
      <4>2. s.state \notin (IF {"SYN", "ACK"} \subseteq g.flags THEN {"SYN_SENT"} ELSE {}) \cup {"ESTABLISHED", "CLOSE_WAIT"}
        BY <4>1 DEF Ignore
      <4>3. s.state = "SYN_SENT" /\ ~IsSynAck(g)
        BY <3>5, <4>2 DEF IsSynAck
      <4>4. Announced(toClient, s.port)
        BY <3>2, <4>3 DEF Receives
      <4>. QED
        BY <1>1, <3>6, <4>3, <4>4, AnnouncedHead
    <3>. HIDE DEF s
    <3>7. Receives(toClient', s, Len(read[s.port]), peers[s.port])
      BY <1>1, <3>1, <3>2, <3>3, <3>4, <3>6, ReceivesTail
    <3>. QED
      BY <3>7 DEF s
  <2>. QED
    BY <1>1, <2>0, <2>1 DEF StreamsInOrder
<1>6. PortsRight' /\ EndsRight' /\ OwnBytes'
  BY <1>1 DEF StreamsInv, PortsRight, EndsRight, OwnBytes
<1>. QED
  BY <1>1, <1>3, <1>4, <1>5, <1>6 DEF StreamsInv

LEMMA LengthIs ==
  /\ \A b \in BytesOf : Len(b) \in Nat
  /\ \A q \in PeerRecord : q.out \in Nat /\ q.got \in Nat
  /\ \A m, n \in Nat : m + n + 1 \in Nat
BY DEF BytesOf, PeerRecord

LEMMA SynchronizeRight ==
  ASSUME StreamsInv, TcpHandle, NEW i \in TcpSock, Connected(i, Head(toClient)), Synchronize(i, Head(toClient))
  PROVE  StreamsInv'
<1>. DEFINE g == Head(toClient)
            o == tcp_sockets[i]
            t == [o EXCEPT !.rcv_nxt = g.seq + 1, !.snd_una = g.ack, !.state = "ESTABLISHED"]
            p == o.port
<1>1. /\ toClient # <<>> /\ toClient' = Tail(toClient) /\ toClient \in Seq(Seg)
      /\ UNCHANGED <<faults, tcp_next_port, connecting, peers, read, sentBytes>>
  BY DEF TcpHandle, Synchronize, StreamsInv, StreamsTyped
<1>2. g \in Seg /\ toClient[1] = g /\ 1 \in 1 .. Len(toClient)
  BY <1>1, TailIs
<1>3. o \in SockRecord /\ o.active /\ p \in Port /\ p < tcp_next_port /\ o.state = "SYN_SENT"
  BY DEF Connected, Synchronize, StreamsInv, StreamsTyped, PortsRight, PortOk
<1>4. g.port = p /\ IsSynAck(g) /\ peers[p].state # "listen" /\ g.len = 0
  BY <1>2 DEF Connected, Synchronize, IsSynAck, StreamsInv, SegmentsRight, ClientOk
<1>. HIDE DEF g
<1>5. /\ t \in SockRecord /\ t.active /\ t.port = p /\ t.state = "ESTABLISHED" /\ t.recv = o.recv
      /\ t.snd_nxt = o.snd_nxt
  <2>1. g.seq + 1 \in Nat /\ g.ack \in Nat
    BY <1>2 DEF Seg
  <2>. QED
    BY <1>3, <2>1 DEF SockRecord
<1>6. tcp_sockets' = [tcp_sockets EXCEPT ![i] = t] /\ toPeer' = Append(toPeer, Segment(t, {"ACK"}, 0))
  BY DEF Synchronize, Sends, g
<1>. HIDE DEF t
<1>7. /\ toPeer' \in Seq(Seg) /\ PeerOk(toPeer', peers, tcp_next_port)
      /\ \A q \in Port : Delivers(toPeer, q, peers[q], sentBytes[q]) => Delivers(toPeer', q, peers[q], sentBytes[q])
  BY <1>3, <1>4, <1>5, <1>6, SendsEmpty DEF Flag
<1>8. /\ read \in [Port -> BytesOf] /\ sentBytes \in [Port -> Nat] /\ faults \in Nat
      /\ OfPort(read[p], p) /\ OfPort(o.recv, p)
  BY <1>3 DEF StreamsInv, StreamsTyped, OwnBytes
<1>9. EndOk(t, peers[p], sentBytes[p])
  BY <1>3, <1>4, <1>5 DEF StreamsInv, EndsRight, EndOk
<1>10. ASSUME faults = 0
       PROVE  Continues(read[p], p, 0) /\ Receives(Tail(toClient), t, Len(read[p]), peers[p])
  <2>1. Continues(read[p], p, 0) /\ Receives(toClient, o, Len(read[p]), peers[p])
    BY <1>3, <1>10 DEF StreamsInv, StreamsInOrder
  <2>2. ~Carries(g, p)
    BY <1>4 DEF Carries
  <2>3. Len(read[p]) + Len(o.recv) + 1 \in Nat /\ peers[p].out \in Nat
    <3>1. read[p] \in BytesOf /\ o.recv \in BytesOf
      BY <1>3, <1>8 DEF SockRecord
    <3>2. peers[p] \in PeerRecord
      BY <1>3 DEF StreamsInv, StreamsTyped
    <3>. QED
      BY <3>1, <3>2, LengthIs
  <2>4. Consecutive(toClient, p, Len(read[p]) + Len(o.recv) + 1, peers[p].out)
    BY <2>1 DEF Receives
  <2>5. Consecutive(Tail(toClient), p, Len(read[p]) + Len(o.recv) + 1, peers[p].out)
    BY <1>1, <2>2, <2>3, <2>4, ConsecutiveTailOther DEF g
  <2>. QED
    BY <1>5, <2>1, <2>5 DEF Receives
<1>11. /\ peers[t.port].state = "listen" => sentBytes'[t.port] = 0
       /\ EndOk(t, peers[t.port], sentBytes'[t.port])
       /\ OfPort(read'[t.port], t.port) /\ OfPort(t.recv, t.port)
       /\ \A q \in Port : q # t.port => read'[q] = read[q] /\ sentBytes'[q] = sentBytes[q]
       /\ t.state # "CLOSED" /\ t.port = tcp_sockets[i].port
  BY <1>1, <1>4, <1>5, <1>8, <1>9
<1>12. /\ faults' = 0 => /\ faults = 0 /\ Continues(read'[t.port], t.port, 0)
                         /\ Receives(toClient', t, Len(read'[t.port]), peers[t.port])
       /\ read' \in [Port -> BytesOf] /\ sentBytes' \in [Port -> Nat] /\ faults' \in Nat
  BY <1>1, <1>5, <1>8, <1>10
<1>13. toClient # <<>> /\ toClient' = Tail(toClient) /\ Head(toClient).port = t.port
  BY <1>1, <1>4, <1>5 DEF g
<1>14. \A q \in Port : Delivers(toPeer, q, peers[q], sentBytes[q]) => Delivers(toPeer', q, peers[q], sentBytes'[q])
  BY <1>1, <1>7
<1>. QED
  BY <1>1, <1>3, <1>5, <1>6, <1>7, <1>11, <1>12, <1>13, <1>14, SocketActs

LEMMA BytePushed ==
  ASSUME NEW b \in BytesOf, NEW x \in Port \X Nat, NEW p, NEW m \in Nat
  PROVE  /\ Append(b, x) \in BytesOf /\ Len(Append(b, x)) = Len(b) + 1
         /\ OfPort(b, p) /\ x[1] = p => OfPort(Append(b, x), p)
         /\ Continues(b, p, m) /\ x = <<p, m + Len(b) + 1>> => Continues(Append(b, x), p, m)
<1>. DEFINE c == Append(b, x)
<1>1. b \in Seq(Port \X Nat)
  BY DEF BytesOf
<1>2. c \in Seq(Port \X Nat) /\ Len(c) = Len(b) + 1 /\ Len(b) \in Nat /\ c[Len(b) + 1] = x
      /\ \A k \in 1 .. Len(b) : c[k] = b[k]
  BY <1>1, AppendIs
<1>. HIDE DEF c
<1>3. \A k \in 1 .. Len(b) + 1 : k = Len(b) + 1 \/ k \in 1 .. Len(b)
  BY <1>2
<1>4. ASSUME OfPort(b, p), x[1] = p PROVE OfPort(c, p)
  <2>. SUFFICES ASSUME NEW k \in 1 .. Len(b) + 1 PROVE c[k][1] = p
    BY <1>2 DEF OfPort
  <2>1. CASE k = Len(b) + 1
    BY <1>2, <1>4, <2>1
  <2>2. CASE k \in 1 .. Len(b)
    BY <1>2, <1>4, <2>2 DEF OfPort
  <2>. QED
    BY <1>3, <2>1, <2>2
<1>5. ASSUME Continues(b, p, m), x = <<p, m + Len(b) + 1>> PROVE Continues(c, p, m)
  <2>. SUFFICES ASSUME NEW k \in 1 .. Len(b) + 1 PROVE c[k] = <<p, m + k>>
    BY <1>2 DEF Continues
  <2>1. CASE k = Len(b) + 1
    <3>1. m + Len(b) + 1 = m + k
      BY <1>2, <2>1
    <3>. QED
      BY <1>2, <1>5, <2>1, <3>1
  <2>2. CASE k \in 1 .. Len(b)
    BY <1>2, <1>5, <2>2 DEF Continues
  <2>. QED
    BY <1>3, <2>1, <2>2
<1>. QED
  BY <1>2, <1>4, <1>5 DEF BytesOf, c

LEMMA ReceiveRight ==
  ASSUME StreamsInv, TcpHandle, NEW i \in TcpSock, Connected(i, Head(toClient)), Receive(i, Head(toClient)),
         faults' \in Nat
  PROVE  StreamsInv'
<1>. DEFINE g == Head(toClient)
            o == tcp_sockets[i]
            fin == IF "FIN" \in g.flags THEN 1 ELSE 0
            bytes == Stored(o, g)
            una == IF "ACK" \in g.flags THEN g.ack ELSE o.snd_una
            state == IF fin = 1 THEN "CLOSE_WAIT" ELSE o.state
            t == [o EXCEPT !.snd_una = una, !.recv = bytes, !.rcv_nxt = @ + g.len + fin, !.state = state]
            p == o.port
<1>1. /\ toClient # <<>> /\ toClient' = Tail(toClient) /\ toClient \in Seq(Seg)
      /\ UNCHANGED <<tcp_next_port, connecting, peers, read, sentBytes>>
  BY DEF TcpHandle, StreamsInv, StreamsTyped
<1>2. g \in Seg /\ toClient[1] = g /\ 1 \in 1 .. Len(toClient)
  BY <1>1, TailIs
<1>3. /\ o \in SockRecord /\ o.active /\ p \in Port /\ p < tcp_next_port
      /\ o.state \in {"ESTABLISHED", "CLOSE_WAIT"} /\ g.port = p
  BY DEF Connected, Receive, StreamsInv, StreamsTyped, PortsRight, PortOk
<1>4. g.seq \in Nat /\ g.ack \in Nat /\ g.len \in {0, 1} /\ fin \in {0, 1}
  BY <1>2 DEF Seg
<1>5. o.recv \in BytesOf /\ o.rcv_nxt + g.len + fin \in Nat /\ una \in Nat /\ state \in {"ESTABLISHED", "CLOSE_WAIT"}
  BY <1>3, <1>4 DEF SockRecord
<1>6. Byte(g) \in Port \X Nat /\ Byte(g)[1] = p /\ Byte(g) = <<p, g.seq>>
  BY <1>3, <1>4 DEF Byte
<1>7. bytes = o.recv \/ (g.len = 1 /\ bytes = Append(o.recv, Byte(g)))
  BY <1>4 DEF Stored
<1>8. OfPort(read[p], p) /\ OfPort(o.recv, p) /\ read[p] \in BytesOf /\ peers[p] \in PeerRecord /\ Len(read[p]) \in Nat
  BY <1>3, LengthIs DEF StreamsInv, StreamsTyped, OwnBytes
<1>9. bytes \in BytesOf /\ OfPort(bytes, p)
  BY ZenonT(60), <1>5, <1>6, <1>7, <1>8, BytePushed
<1>10. tcp_sockets' = [tcp_sockets EXCEPT ![i] = t]
  BY DEF Receive
<1>11. toPeer' = toPeer \/ toPeer' = Append(toPeer, Segment(t, {"ACK"}, 0))
  BY DEF Receive, Sends
<1>12. faults' = 0 => faults = 0 /\ ~Dropped(o, g)
  BY DEF Receive, StreamsInv, StreamsTyped
<1>. HIDE DEF bytes, una, state, fin, g
<1>13. /\ t \in SockRecord /\ t.active /\ t.port = p /\ t.state = state /\ t.recv = bytes
       /\ t.snd_nxt = o.snd_nxt
  BY <1>3, <1>5, <1>9 DEF SockRecord
<1>. HIDE DEF t
<1>14. peers[p].state # "listen"
  BY <1>3 DEF StreamsInv, EndsRight, EndOk
<1>15. /\ toPeer' \in Seq(Seg) /\ PeerOk(toPeer', peers, tcp_next_port)
       /\ \A q \in Port : Delivers(toPeer, q, peers[q], sentBytes[q]) => Delivers(toPeer', q, peers[q], sentBytes[q])
  <2>1. CASE toPeer' = toPeer
    BY <2>1 DEF StreamsInv, StreamsTyped, SegmentsRight
  <2>2. CASE toPeer' = Append(toPeer, Segment(t, {"ACK"}, 0))
    BY <1>3, <1>13, <1>14, <2>2, SendsEmpty DEF Flag
  <2>. QED
    BY <1>11, <2>1, <2>2
<1>16. EndOk(t, peers[p], sentBytes[p])
  BY <1>3, <1>5, <1>13, <1>14 DEF StreamsInv, EndsRight, EndOk
<1>17. ASSUME faults' = 0
       PROVE  Continues(read[p], p, 0) /\ Receives(Tail(toClient), t, Len(read[p]), peers[p])
  <2>. DEFINE n == Len(read[p])
              m == Len(o.recv)
  <2>1. faults = 0 /\ ~Dropped(o, g)
    BY <1>12, <1>17
  <2>2. Continues(read[p], p, 0) /\ Receives(toClient, o, n, peers[p])
    BY <1>3, <2>1 DEF StreamsInv, StreamsInOrder
  <2>3. n \in Nat /\ m \in Nat /\ peers[p].out \in Nat /\ n + m + 1 \in Nat
    BY <1>5, <1>8, LengthIs
  <2>4. Continues(o.recv, p, n) /\ n + m <= peers[p].out /\ Consecutive(toClient, p, n + m + 1, peers[p].out)
    BY <2>2 DEF Receives
  <2>. HIDE DEF n, m
  <2>5. CASE g.len = 0
    <3>1. bytes = o.recv
      BY <1>7, <2>5
    <3>2. ~Carries(g, p)
      BY <2>5 DEF Carries
    <3>3. Consecutive(Tail(toClient), p, n + m + 1, peers[p].out)
      BY <1>1, <2>3, <2>4, <3>2, ConsecutiveTailOther DEF g
    <3>. QED
      BY <1>5, <1>13, <2>2, <2>4, <3>1, <3>3 DEF Receives, n, m
  <2>6. CASE g.len = 1
    <3>1. bytes = Append(o.recv, Byte(g))
      BY <2>1, <2>6 DEF bytes, Stored, Dropped
    <3>2. Carries(g, p)
      BY <1>3, <2>6 DEF Carries
    <3>3. g.seq = n + m + 1 /\ n + m + 1 <= peers[p].out
          /\ Consecutive(Tail(toClient), p, n + m + 1 + 1, peers[p].out)
      BY SMTT(30), <1>1, <2>3, <2>4, <3>2, ConsecutiveTailFirst DEF g
    <3>4. Len(bytes) = m + 1
      BY <1>5, <1>6, <3>1, BytePushed DEF m
    <3>5. Continues(bytes, p, n)
      BY <1>5, <1>6, <2>3, <2>4, <3>1, <3>3, BytePushed DEF m
    <3>6. n + Len(bytes) <= peers[p].out /\ n + Len(bytes) + 1 = n + m + 1 + 1
      BY <2>3, <3>3, <3>4
    <3>. QED
      BY <1>5, <1>13, <2>2, <3>3, <3>5, <3>6 DEF Receives, n
  <2>. QED
    BY <1>4, <2>5, <2>6
<1>18. read \in [Port -> BytesOf] /\ sentBytes \in [Port -> Nat]
  BY DEF StreamsInv, StreamsTyped
<1>19. /\ peers[t.port].state = "listen" => sentBytes'[t.port] = 0
       /\ EndOk(t, peers[t.port], sentBytes'[t.port])
       /\ OfPort(read'[t.port], t.port) /\ OfPort(t.recv, t.port)
       /\ \A q \in Port : q # t.port => read'[q] = read[q] /\ sentBytes'[q] = sentBytes[q]
       /\ t.state # "CLOSED" /\ t.port = tcp_sockets[i].port
  BY <1>1, <1>5, <1>8, <1>9, <1>13, <1>14, <1>16
<1>20. /\ faults' = 0 => /\ faults = 0 /\ Continues(read'[t.port], t.port, 0)
                         /\ Receives(toClient', t, Len(read'[t.port]), peers[t.port])
       /\ read' \in [Port -> BytesOf] /\ sentBytes' \in [Port -> Nat]
  BY <1>1, <1>12, <1>13, <1>17, <1>18
<1>21. toClient # <<>> /\ toClient' = Tail(toClient) /\ Head(toClient).port = t.port
  BY <1>1, <1>3, <1>13 DEF g
<1>22. \A q \in Port : Delivers(toPeer, q, peers[q], sentBytes[q]) => Delivers(toPeer', q, peers[q], sentBytes'[q])
  BY <1>1, <1>15
<1>. QED
  BY <1>1, <1>3, <1>10, <1>13, <1>15, <1>19, <1>20, <1>21, <1>22, SocketActs

LEMMA TcpHandleRight == ASSUME StreamsInv, TcpHandle PROVE StreamsInv'
<1>1. CASE Ignore(Head(toClient))
  BY <1>1, IgnoreRight
<1>2. ASSUME NEW i \in TcpSock, Connected(i, Head(toClient)), Synchronize(i, Head(toClient)) PROVE StreamsInv'
  BY <1>2, SynchronizeRight
<1>3. ASSUME NEW i \in TcpSock, Connected(i, Head(toClient)), Receive(i, Head(toClient)) PROVE StreamsInv'
  <2>1. faults' \in Nat
    BY <1>3 DEF Receive, StreamsInv, StreamsTyped
  <2>. QED
    BY <1>3, <2>1, ReceiveRight
<1>. QED
  BY <1>1, <1>2, <1>3 DEF TcpHandle

\* The peer of port p changes, and segments under way come and go.
LEMMA PeerActs ==
  ASSUME StreamsInv, NEW p \in Port, NEW r \in PeerRecord, peers' = [peers EXCEPT ![p] = r],
         UNCHANGED <<tcp_sockets, tcp_next_port, connecting, read, sentBytes>>,
         toPeer' \in Seq(Seg), toClient' \in Seq(Seg), faults' \in Nat,
         p < tcp_next_port \/ r.state = "listen",
         peers[p].state # "listen" => r.state # "listen",
         r.state = "listen" => r.out = 0,
         ClientOk(toClient', peers'), PeerOk(toPeer', peers', tcp_next_port),
         faults' = 0 =>
            /\ faults = 0
            /\ \A i \in TcpSock :
                 LET s == tcp_sockets[i]  n == Len(read[s.port]) IN
                 (s.active /\ Receives(toClient, s, n, peers[s.port])) => Receives(toClient', s, n, peers'[s.port])
            /\ \A q \in Port :
                 /\ (peers[q].state # "listen" => Delivers(toPeer, q, peers[q], sentBytes[q]))
                 /\ peers'[q].state # "listen"
                 => Delivers(toPeer', q, peers'[q], sentBytes[q])
  PROVE  StreamsInv'
<1>1. /\ peers' \in [Port -> PeerRecord] /\ peers'[p] = r
      /\ \A q \in Port : q # p => peers'[q] = peers[q]
  BY DEF StreamsInv, StreamsTyped
<1>2. StreamsTyped'
  BY <1>1 DEF StreamsInv, StreamsTyped
<1>3. PortsRight'
  <2>1. tcp_next_port \in Nat
    BY DEF StreamsInv, StreamsTyped
  <2>2. \A q \in Port : q >= tcp_next_port => ~(q < tcp_next_port)
    BY <2>1, TcpAssumption DEF Port
  <2>3. \A q \in Port : q >= tcp_next_port => read[q] = <<>> /\ peers'[q].state = "listen"
    BY <1>1, <2>2 DEF StreamsInv, PortsRight
  <2>. QED
    BY <2>3 DEF StreamsInv, PortsRight
<1>4. SegmentsRight'
  BY DEF SegmentsRight
<1>5. EndsRight'
  <2>1. \A q \in Port : peers'[q].state = "listen" => peers'[q].out = 0 /\ sentBytes[q] = 0
    BY <1>1 DEF StreamsInv, EndsRight
  <2>2. ASSUME NEW i \in TcpSock, tcp_sockets[i].active
        PROVE  EndOk(tcp_sockets[i], peers'[tcp_sockets[i].port], sentBytes[tcp_sockets[i].port])
    <3>1. tcp_sockets[i].port \in Port
      BY <2>2 DEF StreamsInv, PortsRight, PortOk
    <3>2. EndOk(tcp_sockets[i], peers[tcp_sockets[i].port], sentBytes[tcp_sockets[i].port])
      BY <2>2 DEF StreamsInv, EndsRight
    <3>3. peers[tcp_sockets[i].port].state # "listen" => peers'[tcp_sockets[i].port].state # "listen"
      BY <1>1, <3>1
    <3>. QED
      BY <3>2, <3>3 DEF EndOk
  <2>. QED
    BY <2>1, <2>2 DEF EndsRight
<1>6. OwnBytes'
  BY DEF StreamsInv, OwnBytes
<1>7. ASSUME faults' = 0 PROVE StreamsInOrder'
  <2>1. StreamsInOrder
    BY <1>7 DEF StreamsInv
  <2>2. \A i \in TcpSock : tcp_sockets[i].active =>
            Receives(toClient', tcp_sockets[i], Len(read[tcp_sockets[i].port]), peers'[tcp_sockets[i].port])
    BY <1>7, <2>1 DEF StreamsInOrder
  <2>3. \A q \in Port : peers'[q].state # "listen" => Delivers(toPeer', q, peers'[q], sentBytes[q])
    BY <1>7, <2>1 DEF StreamsInOrder
  <2>. QED
    BY <2>1, <2>2, <2>3 DEF StreamsInOrder
<1>. QED
  BY <1>2, <1>3, <1>4, <1>5, <1>6, <1>7 DEF StreamsInv

LEMMA PeerSegmentTyped ==
  ASSUME NEW p \in Port, peers' \in [Port -> PeerRecord], NEW f \in SUBSET Flag, NEW n \in Nat, NEW len \in {0, 1}
  PROVE  /\ PeerSegment(p, f, n, len) \in Seg /\ PeerSegment(p, f, n, len).port = p
         /\ PeerSegment(p, f, n, len).flags = f /\ PeerSegment(p, f, n, len).len = len
         /\ PeerSegment(p, f, n, len).seq = n
<1>1. peers'[p].got \in Nat
  BY DEF PeerRecord
<1>. QED
  BY <1>1 DEF PeerSegment, Seg

\* The peer of p sends segment g, and the rest of its state is r.
LEMMA PeerSpeaks ==
  ASSUME StreamsInv, NEW p \in Port, NEW r \in PeerRecord, peers' = [peers EXCEPT ![p] = r],
         NEW g \in Seg, toClient' = Append(toClient, g), g.port = p,
         UNCHANGED <<tcp_sockets, tcp_next_port, connecting, toPeer, read, sentBytes>>,
         peers[p].state # "listen", r.state # "listen", ~IsSynAck(g), r.got = peers[p].got,
         faults' \in Nat,
         faults' = 0 => /\ faults = 0
                        /\ \/ g.len = 0 /\ r.out = peers[p].out
                           \/ g.len = 1 /\ g.seq = peers[p].out + 1 /\ r.out = peers[p].out + 1
  PROVE  StreamsInv'
<1>1. /\ peers' \in [Port -> PeerRecord] /\ peers'[p] = r /\ peers[p] \in PeerRecord
      /\ \A q \in Port : q # p => peers'[q] = peers[q]
  BY DEF StreamsInv, StreamsTyped
<1>2. toPeer \in Seq(Seg) /\ toClient \in Seq(Seg) /\ tcp_next_port \in Nat
  BY DEF StreamsInv, StreamsTyped
<1>3. StaysOpen(peers, peers')
  BY <1>1 DEF StaysOpen
<1>4. toClient' \in Seq(Seg) /\ ClientOk(toClient', peers')
  BY <1>1, <1>2, <1>3, AppendIs, ClientOkAppend DEF StreamsInv, SegmentsRight
<1>5. From(toPeer, toPeer)
  BY <1>2 DEF From
<1>6. PeerOk(toPeer', peers', tcp_next_port)
  BY <1>2, <1>3, <1>5, PeerOkFrom DEF StreamsInv, SegmentsRight
<1>7. p < tcp_next_port
  BY <1>2, TcpAssumption DEF StreamsInv, PortsRight, Port
<1>8. ASSUME faults' = 0, NEW i \in TcpSock, tcp_sockets[i].active,
             Receives(toClient, tcp_sockets[i], Len(read[tcp_sockets[i].port]), peers[tcp_sockets[i].port])
      PROVE  Receives(toClient', tcp_sockets[i], Len(read[tcp_sockets[i].port]), peers'[tcp_sockets[i].port])
  <2>. DEFINE s == tcp_sockets[i]
              n == Len(read[s.port])
              m == Len(s.recv)
  <2>1. s \in SockRecord /\ s.port \in Port
    BY <1>8 DEF StreamsInv, StreamsTyped, PortsRight, PortOk
  <2>2. read[s.port] \in BytesOf /\ s.recv \in BytesOf /\ peers[s.port] \in PeerRecord /\ peers'[s.port] \in PeerRecord
    BY <1>1, <2>1 DEF StreamsInv, StreamsTyped, SockRecord
  <2>3. n \in Nat /\ m \in Nat /\ n + m + 1 \in Nat /\ peers[s.port].out \in Nat
    BY <2>2, LengthIs
  <2>4. Receives(toClient, s, n, peers[s.port])
    BY <1>8
  <2>5. n + m <= peers[s.port].out /\ Consecutive(toClient, s.port, n + m + 1, peers[s.port].out)
    BY <2>4 DEF Receives
  <2>. HIDE DEF s, n, m
  <2>6. CASE s.port = p /\ g.len = 1
    <3>1. Carries(g, p) /\ g.seq = peers[p].out + 1 /\ r.out = peers[p].out + 1
      BY <1>8, <2>6 DEF Carries
    <3>2. n + m + 1 <= peers[p].out + 1
      BY <2>3, <2>5, <2>6
    <3>3. Consecutive(toClient', p, n + m + 1, r.out)
      BY <1>2, <2>3, <2>5, <2>6, <3>1, <3>2, ConsecutiveAppendNext
    <3>4. s.state = "SYN_SENT" => Announced(toClient', p) /\ HasSynAck(toClient', p)
      BY <1>2, <2>4, <2>6, AnnouncedAppend, SynAckAppend DEF Receives
    <3>5. n + m <= r.out
      BY <2>3, <2>5, <2>6, <3>1
    <3>. QED
      BY <1>1, <2>4, <2>6, <3>3, <3>4, <3>5 DEF Receives, s, n, m
  <2>7. CASE s.port = p /\ g.len = 0
    <3>1. ~Carries(g, s.port) /\ r.out = peers[s.port].out
      BY <1>8, <2>7 DEF Carries
    <3>2. s.state = "SYN_SENT" => HasSynAck(toClient, s.port)
      BY <2>4, <2>7 DEF Receives
    <3>3. Receives(Append(toClient, g), s, n, r)
      BY <1>2, <2>1, <2>2, <2>3, <2>4, <2>7, <3>1, <3>2, ReceivesAppend
    <3>. QED
      BY <1>1, <2>7, <3>3 DEF s, n
  <2>8. CASE s.port # p
    <3>1. ~Carries(g, s.port) /\ peers'[s.port] = peers[s.port]
      BY <1>1, <2>1, <2>8 DEF Carries
    <3>2. Receives(Append(toClient, g), s, n, peers[s.port])
      BY <1>2, <2>1, <2>2, <2>3, <2>4, <2>8, <3>1, ReceivesAppend
    <3>. QED
      BY <3>1, <3>2 DEF s, n
  <2>9. g.len \in {0, 1}
    BY DEF Seg
  <2>. QED
    BY <2>6, <2>7, <2>8, <2>9
<1>9. ASSUME NEW q \in Port, peers[q].state # "listen" => Delivers(toPeer, q, peers[q], sentBytes[q]),
             peers'[q].state # "listen"
      PROVE  Delivers(toPeer', q, peers'[q], sentBytes[q])
  BY <1>1, <1>9 DEF Delivers
<1>. QED
  BY <1>2, <1>4, <1>6, <1>7, <1>8, <1>9, PeerActs

LEMMA PeerSendRight == ASSUME StreamsInv, NEW p \in Port, PeerSend(p) PROVE StreamsInv'
<1>. DEFINE r == [peers[p] EXCEPT !.out = @ + 1]
            g == PeerSegment(p, {"ACK"}, peers[p].out + 1, 1)
<1>1. peers[p] \in PeerRecord /\ peers[p].state = "open" /\ peers \in [Port -> PeerRecord] /\ faults \in Nat
  BY DEF PeerSend, StreamsInv, StreamsTyped
<1>2. r \in PeerRecord /\ r.state = "open" /\ r.out = peers[p].out + 1 /\ r.got = peers[p].got
      /\ peers[p].out + 1 \in Nat
  BY <1>1 DEF PeerRecord
<1>3. peers' = [peers EXCEPT ![p] = r] /\ toClient' = Append(toClient, g)
      /\ UNCHANGED <<tcp_sockets, tcp_next_port, connecting, toPeer, read, sentBytes, faults>>
  BY <1>1 DEF PeerSend
<1>. HIDE DEF r
<1>4. peers' \in [Port -> PeerRecord]
  BY <1>1, <1>2, <1>3
<1>5. g \in Seg /\ g.port = p /\ g.flags = {"ACK"} /\ g.len = 1 /\ g.seq = peers[p].out + 1
  BY <1>2, <1>4, PeerSegmentTyped DEF Flag
<1>6. ~IsSynAck(g)
  BY <1>5 DEF IsSynAck
<1>. HIDE DEF g
<1>. QED
  BY <1>1, <1>2, <1>3, <1>5, <1>6, PeerSpeaks

LEMMA PeerClosesRight == ASSUME StreamsInv, NEW p \in Port, PeerCloses(p) PROVE StreamsInv'
<1>. DEFINE r == [peers[p] EXCEPT !.state = "finished"]
            g == PeerSegment(p, {"FIN", "ACK"}, peers'[p].out + 1, 0)
<1>1. peers[p] \in PeerRecord /\ peers[p].state = "open" /\ peers \in [Port -> PeerRecord] /\ faults \in Nat
  BY DEF PeerCloses, StreamsInv, StreamsTyped
<1>2. r \in PeerRecord /\ r.state = "finished" /\ r.out = peers[p].out /\ r.got = peers[p].got
      /\ r.out + 1 \in Nat
  BY <1>1 DEF PeerRecord
<1>3. peers' = [peers EXCEPT ![p] = r]
      /\ UNCHANGED <<tcp_sockets, tcp_next_port, connecting, toPeer, read, sentBytes, faults>>
  BY <1>1 DEF PeerCloses
<1>. HIDE DEF r
<1>4. peers' \in [Port -> PeerRecord] /\ peers'[p] = r
  BY <1>1, <1>2, <1>3
<1>5. toClient' = Append(toClient, g)
  BY <1>2, <1>4 DEF PeerCloses
<1>6. g \in Seg /\ g.port = p /\ g.flags = {"FIN", "ACK"} /\ g.len = 0
  BY <1>2, <1>4, PeerSegmentTyped DEF Flag
<1>7. ~IsSynAck(g)
  BY <1>6 DEF IsSynAck
<1>. HIDE DEF g
<1>. QED
  BY <1>1, <1>2, <1>3, <1>5, <1>6, <1>7, PeerSpeaks

LEMMA PeerResendRight == ASSUME StreamsInv, NEW p \in Port, PeerResend(p) PROVE StreamsInv'
<1>. DEFINE g == [port |-> p, flags |-> {"ACK"}, seq |-> peers[p].acked, ack |-> peers[p].got, len |-> 1]
<1>1. peers[p] \in PeerRecord /\ peers[p].state = "open" /\ peers \in [Port -> PeerRecord] /\ faults \in Nat
  BY DEF PeerResend, StreamsInv, StreamsTyped
<1>2. peers' = [peers EXCEPT ![p] = peers[p]] /\ toClient' = Append(toClient, g) /\ faults' = faults + 1
      /\ UNCHANGED <<tcp_sockets, tcp_next_port, connecting, toPeer, read, sentBytes>>
  BY <1>1 DEF PeerResend
<1>3. g \in Seg /\ g.port = p /\ ~IsSynAck(g)
  BY <1>1 DEF Seg, PeerRecord, Flag, IsSynAck
<1>4. faults' \in Nat /\ faults' # 0
  BY <1>1, <1>2
<1>. HIDE DEF g
<1>. QED
  BY <1>1, <1>2, <1>3, <1>4, PeerSpeaks

LEMMA NetworkFaultRight == ASSUME StreamsInv, NetworkFault PROVE StreamsInv'
<1>1. /\ UNCHANGED <<tcp_sockets, tcp_next_port, connecting, peers, read, sentBytes>>
      /\ faults' \in Nat /\ faults' # 0 /\ toPeer \in Seq(Seg) /\ toClient \in Seq(Seg) /\ tcp_next_port \in Nat
  BY DEF NetworkFault, StreamsInv, StreamsTyped
<1>2. toClient' \in Seq(Seg) /\ From(toClient', toClient) /\ toPeer' \in Seq(Seg) /\ From(toPeer', toPeer)
  <2>0. From(toClient, toClient) /\ From(toPeer, toPeer)
    BY <1>1 DEF From
  <2>1. CASE toClient' \in UNION {{Take(toClient, n), Append(toClient, toClient[n]),
                                Append(Take(toClient, n), toClient[n])} : n \in DOMAIN toClient} /\ UNCHANGED toPeer
    <3>1. PICK n \in DOMAIN toClient : toClient' \in {Take(toClient, n), Append(toClient, toClient[n]),
                                                       Append(Take(toClient, n), toClient[n])}
      BY <2>1
    <3>2. n \in 1 .. Len(toClient)
      BY <1>1
    <3>3. Take(toClient, n) \in Seq(Seg) /\ From(Take(toClient, n), toClient)
      BY <1>1, <3>2, FromTake
    <3>4. Append(toClient, toClient[n]) \in Seq(Seg) /\ From(Append(toClient, toClient[n]), toClient)
      BY <1>1, <2>0, <3>2, FromAppend
    <3>5. /\ Append(Take(toClient, n), toClient[n]) \in Seq(Seg)
          /\ From(Append(Take(toClient, n), toClient[n]), toClient)
      BY <1>1, <3>2, <3>3, FromAppend
    <3>6. \/ toClient' = Take(toClient, n)
          \/ toClient' = Append(toClient, toClient[n])
          \/ toClient' = Append(Take(toClient, n), toClient[n])
      BY <3>1
    <3>7. toPeer' = toPeer
      BY <2>1
    <3>8. toClient' \in Seq(Seg) /\ From(toClient', toClient)
      BY <3>3, <3>4, <3>5, <3>6
    <3>. QED
      BY <1>1, <2>0, <3>7, <3>8
  <2>2. CASE toPeer' \in {Take(toPeer, n) : n \in DOMAIN toPeer} /\ UNCHANGED toClient
    <3>1. PICK n \in DOMAIN toPeer : toPeer' = Take(toPeer, n)
      BY <2>2
    <3>2. n \in 1 .. Len(toPeer)
      BY <1>1
    <3>. QED
      BY <1>1, <2>0, <2>2, <3>1, <3>2, FromTake
  <2>. QED
    BY <2>1, <2>2 DEF NetworkFault
<1>3. SegmentsRight'
  BY <1>1, <1>2, ClientOkFrom, PeerOkFrom, StaysOpenSame DEF StreamsInv, SegmentsRight
<1>4. StreamsTyped'
  BY <1>1, <1>2 DEF StreamsInv, StreamsTyped
<1>5. PortsRight' /\ EndsRight' /\ OwnBytes'
  BY <1>1 DEF StreamsInv, PortsRight, EndsRight, OwnBytes
<1>. QED
  BY <1>1, <1>3, <1>4, <1>5 DEF StreamsInv

\* The first segment to a peer is taken from the queue.
LEMMA FirstToPeer ==
  ASSUME StreamsInv, toPeer # <<>>
  PROVE  LET g == Head(toPeer) IN
         /\ g \in Seg /\ g.port < tcp_next_port
         /\ "SYN" \in g.flags => g.seq = 0 /\ g.len = 0
         /\ "SYN" \notin g.flags => peers[g.port].state # "listen"
         /\ toPeer \in Seq(Seg) /\ Tail(toPeer) \in Seq(Seg) /\ From(Tail(toPeer), toPeer)
<1>1. toPeer \in Seq(Seg) /\ PeerOk(toPeer, peers, tcp_next_port)
  BY DEF StreamsInv, StreamsTyped, SegmentsRight
<1>2. Head(toPeer) \in Seg /\ Head(toPeer) = toPeer[1] /\ 1 \in 1 .. Len(toPeer) /\ Tail(toPeer) \in Seq(Seg)
  BY <1>1, TailIs
<1>3. From(Tail(toPeer), toPeer)
  BY <1>1, FromTail
<1>. QED
  BY <1>1, <1>2, <1>3 DEF PeerOk

LEMMA PeerSynchronizes ==
  ASSUME StreamsInv, PeerHandle, "SYN" \in Head(toPeer).flags PROVE StreamsInv'
<1>. DEFINE g == Head(toPeer)
            p == g.port
            o == peers[p]
            r == IF o.state = "listen" THEN [o EXCEPT !.state = "open", !.got = g.seq + 1] ELSE o
            a == PeerSegment(p, {"SYN", "ACK"}, 0, 0)
<1>1. /\ g \in Seg /\ p < tcp_next_port /\ g.seq = 0 /\ g.len = 0
      /\ toPeer # <<>> /\ toPeer \in Seq(Seg) /\ Tail(toPeer) \in Seq(Seg) /\ From(Tail(toPeer), toPeer)
  BY FirstToPeer DEF PeerHandle
<1>2. p \in Port /\ o \in PeerRecord /\ peers \in [Port -> PeerRecord] /\ faults \in Nat
      /\ toClient \in Seq(Seg) /\ tcp_next_port \in Nat
  BY <1>1 DEF StreamsInv, StreamsTyped, Seg
<1>3. peers' = [peers EXCEPT ![p] = r] /\ toPeer' = Tail(toPeer) /\ toClient' = Append(toClient, a)
      /\ UNCHANGED <<tcp_sockets, tcp_next_port, connecting, read, sentBytes, faults>>
  BY DEF PeerHandle
<1>4. o.state = "listen" => o.out = 0 /\ sentBytes[p] = 0
  BY <1>2 DEF StreamsInv, EndsRight
<1>. HIDE DEF g
<1>5. /\ r \in PeerRecord /\ r.state # "listen" /\ r.out = o.out
      /\ o.state = "listen" => r.got = 1
      /\ o.state # "listen" => r = o
  <2>1. CASE o.state = "listen"
    <3>1. r = [o EXCEPT !.state = "open", !.got = 1]
      BY <1>1, <2>1
    <3>. HIDE DEF r
    <3>. QED
      BY <1>2, <2>1, <3>1 DEF PeerRecord
  <2>2. CASE o.state # "listen"
    BY <1>2, <2>2
  <2>. QED
    BY <2>1, <2>2
<1>. HIDE DEF r
<1>6. peers' \in [Port -> PeerRecord] /\ peers'[p] = r /\ \A q \in Port : q # p => peers'[q] = peers[q]
  BY <1>2, <1>3, <1>5
<1>7. a \in Seg /\ a.port = p /\ a.len = 0 /\ IsSynAck(a)
  BY <1>2, <1>6, PeerSegmentTyped DEF Flag, IsSynAck
<1>. HIDE DEF a
<1>8. StaysOpen(peers, peers')
  BY <1>5, <1>6 DEF StaysOpen
<1>9. toClient' \in Seq(Seg) /\ ClientOk(toClient', peers')
  BY <1>2, <1>3, <1>5, <1>6, <1>7, <1>8, AppendIs, ClientOkAppend DEF StreamsInv, SegmentsRight
<1>10. PeerOk(toPeer', peers', tcp_next_port)
  BY <1>1, <1>2, <1>3, <1>8, PeerOkFrom DEF StreamsInv, SegmentsRight
<1>11. ASSUME NEW i \in TcpSock, tcp_sockets[i].active,
              Receives(toClient, tcp_sockets[i], Len(read[tcp_sockets[i].port]), peers[tcp_sockets[i].port])
       PROVE  Receives(toClient', tcp_sockets[i], Len(read[tcp_sockets[i].port]), peers'[tcp_sockets[i].port])
  <2>. DEFINE s == tcp_sockets[i]
              n == Len(read[s.port])
  <2>1. s \in SockRecord /\ s.port \in Port
    BY <1>11 DEF StreamsInv, StreamsTyped, PortsRight, PortOk
  <2>2. read[s.port] \in BytesOf /\ peers[s.port] \in PeerRecord /\ peers'[s.port] \in PeerRecord
    BY <1>6, <2>1 DEF StreamsInv, StreamsTyped
  <2>3. n \in Nat
    BY <2>2, LengthIs
  <2>4. Receives(toClient, s, n, peers[s.port])
    BY <1>11
  <2>. HIDE DEF s, n
  <2>5. peers'[s.port].out = peers[s.port].out /\ (s.port # p => peers'[s.port] = peers[s.port])
    BY <1>5, <1>6, <2>1
  <2>6. ~Carries(a, s.port)
    BY <1>7 DEF Carries
  <2>7. Receives(Append(toClient, a), s, n, peers'[s.port])
    BY <1>2, <1>7, <2>1, <2>2, <2>3, <2>4, <2>5, <2>6, ReceivesAppend
  <2>. QED
    BY <1>3, <2>7 DEF s, n
<1>12. ASSUME NEW q \in Port, peers[q].state # "listen" => Delivers(toPeer, q, peers[q], sentBytes[q]),
              peers'[q].state # "listen"
       PROVE  Delivers(toPeer', q, peers'[q], sentBytes[q])
  <2>1. ~Carries(g, q)
    BY <1>1 DEF Carries
  <2>2. sentBytes[q] \in Nat /\ peers[q].got \in Nat
    BY <1>2, LengthIs DEF StreamsInv, StreamsTyped
  <2>3. CASE peers[q].state # "listen"
    <3>1. peers'[q] = peers[q]
      BY <1>5, <1>6, <2>3
    <3>2. Consecutive(Tail(toPeer), q, peers[q].got, sentBytes[q])
      BY <1>1, <1>12, <2>1, <2>2, <2>3, ConsecutiveTailOther DEF Delivers, g
    <3>. QED
      BY <1>3, <1>12, <2>3, <3>1, <3>2 DEF Delivers
  <2>4. CASE peers[q].state = "listen" /\ q = p
    <3>1. peers'[q].got = 1 /\ sentBytes[q] = 0
      BY <1>4, <1>5, <1>6, <2>4
    <3>2. \A k \in 1 .. Len(toPeer) : ~Carries(toPeer[k], q)
      BY <2>4 DEF StreamsInv, SegmentsRight, PeerOk, Carries
    <3>3. \A k \in 1 .. Len(Tail(toPeer)) : ~Carries(Tail(toPeer)[k], q)
      BY <1>1, <3>2 DEF From
    <3>4. Consecutive(Tail(toPeer), q, 1, 0)
      BY <3>3 DEF Consecutive
    <3>. QED
      BY <1>3, <3>1, <3>4 DEF Delivers
  <2>5. CASE peers[q].state = "listen" /\ q # p
    BY <1>6, <1>12, <2>5
  <2>. QED
    BY <2>3, <2>4, <2>5
<1>. QED
  BY <1>1, <1>2, <1>3, <1>5, <1>9, <1>10, <1>11, <1>12, PeerActs

LEMMA PeerReceives ==
  ASSUME StreamsInv, PeerHandle, "SYN" \notin Head(toPeer).flags PROVE StreamsInv'
<1>. DEFINE g == Head(toPeer)
            p == g.port
            o == peers[p]
            got == IF g.seq = o.got THEN o.got + g.len ELSE o.got
            acked == IF g.ack > o.acked THEN g.ack ELSE o.acked
            r == [o EXCEPT !.got = got, !.acked = acked]
<1>1. /\ g \in Seg /\ p < tcp_next_port /\ peers[p].state # "listen"
      /\ toPeer # <<>> /\ toPeer \in Seq(Seg) /\ Tail(toPeer) \in Seq(Seg) /\ From(Tail(toPeer), toPeer)
  BY FirstToPeer DEF PeerHandle
<1>2. p \in Port /\ o \in PeerRecord /\ peers \in [Port -> PeerRecord] /\ faults \in Nat
      /\ toClient \in Seq(Seg) /\ tcp_next_port \in Nat
  BY <1>1 DEF StreamsInv, StreamsTyped, Seg
<1>3. peers' = [peers EXCEPT ![p] = r] /\ toPeer' = Tail(toPeer)
      /\ UNCHANGED <<tcp_sockets, tcp_next_port, connecting, toClient, read, sentBytes, faults>>
  BY DEF PeerHandle
<1>. HIDE DEF g
<1>4. got \in Nat /\ acked \in Nat /\ g.len \in {0, 1}
  <2>1. g.seq \in Nat /\ g.ack \in Nat /\ g.len \in {0, 1}
    BY <1>1 DEF Seg
  <2>2. o.got \in Nat /\ o.acked \in Nat
    BY <1>2 DEF PeerRecord
  <2>. HIDE DEF o
  <2>3. o.got + g.len \in Nat
    BY <2>1, <2>2
  <2>. QED
    BY <2>1, <2>2, <2>3
<1>. HIDE DEF acked, got
<1>5. r \in PeerRecord /\ r.state = o.state /\ r.out = o.out /\ r.got = got
  BY <1>2, <1>4 DEF PeerRecord
<1>. HIDE DEF r
<1>6. peers' \in [Port -> PeerRecord] /\ peers'[p] = r /\ \A q \in Port : q # p => peers'[q] = peers[q]
  BY <1>2, <1>3, <1>5
<1>7. StaysOpen(peers, peers')
  BY <1>5, <1>6 DEF StaysOpen
<1>8. From(toClient, toClient)
  BY <1>2 DEF From
<1>9. ClientOk(toClient', peers')
  BY <1>2, <1>3, <1>7, <1>8, ClientOkFrom DEF StreamsInv, SegmentsRight
<1>10. PeerOk(toPeer', peers', tcp_next_port)
  BY <1>1, <1>2, <1>3, <1>7, PeerOkFrom DEF StreamsInv, SegmentsRight
<1>11. ASSUME NEW i \in TcpSock, tcp_sockets[i].active,
              Receives(toClient, tcp_sockets[i], Len(read[tcp_sockets[i].port]), peers[tcp_sockets[i].port])
       PROVE  Receives(toClient', tcp_sockets[i], Len(read[tcp_sockets[i].port]), peers'[tcp_sockets[i].port])
  <2>1. tcp_sockets[i].port \in Port
    BY <1>11 DEF StreamsInv, PortsRight, PortOk
  <2>2. peers'[tcp_sockets[i].port].out = peers[tcp_sockets[i].port].out
        /\ peers'[tcp_sockets[i].port].state = peers[tcp_sockets[i].port].state
    BY <1>5, <1>6, <2>1
  <2>. QED
    BY <1>3, <1>11, <2>2 DEF Receives
<1>12. ASSUME NEW q \in Port, peers[q].state # "listen" => Delivers(toPeer, q, peers[q], sentBytes[q]),
              peers'[q].state # "listen"
       PROVE  Delivers(toPeer', q, peers'[q], sentBytes[q])
  <2>0. sentBytes[q] \in Nat /\ peers[q].got \in Nat
    BY <1>2, LengthIs DEF StreamsInv, StreamsTyped
  <2>1. Delivers(toPeer, q, peers[q], sentBytes[q])
    BY <1>1, <1>6, <1>12
  <2>2. CASE Carries(g, q)
    <3>1. q = p /\ g.len = 1
      BY <2>2 DEF Carries
    <3>2. g.seq = o.got /\ o.got <= sentBytes[q] /\ Consecutive(Tail(toPeer), q, o.got + 1, sentBytes[q])
      BY <1>1, <2>0, <2>1, <2>2, <3>1, ConsecutiveTailFirst DEF Delivers, g
    <3>3. peers'[q].got = o.got + 1
      BY <1>5, <1>6, <3>1, <3>2 DEF got
    <3>. QED
      BY <1>3, <2>0, <3>1, <3>2, <3>3 DEF Delivers
  <2>3. CASE ~Carries(g, q)
    <3>1. Consecutive(Tail(toPeer), q, peers[q].got, sentBytes[q])
      BY <1>1, <2>0, <2>1, <2>3, ConsecutiveTailOther DEF Delivers, g
    <3>2. peers'[q].got = peers[q].got
      <4>1. CASE q = p
        <5>1. g.len = 0
          BY <1>4, <2>3, <4>1 DEF Carries
        <5>2. got = o.got
          BY <2>0, <4>1, <5>1 DEF got
        <5>. QED
          BY <1>5, <1>6, <4>1, <5>2
      <4>2. CASE q # p
        BY <1>6, <4>2
      <4>. QED
        BY <4>1, <4>2
    <3>. QED
      BY <1>3, <2>1, <3>1, <3>2 DEF Delivers
  <2>. QED
    BY <2>2, <2>3
<1>13. /\ peers[p].state # "listen" => r.state # "listen"
       /\ r.state = "listen" => r.out = 0
       /\ toClient' \in Seq(Seg) /\ toPeer' \in Seq(Seg) /\ faults' \in Nat
  BY <1>1, <1>2, <1>3, <1>5
<1>. QED
  BY <1>1, <1>2, <1>3, <1>5, <1>9, <1>10, <1>11, <1>12, <1>13, PeerActs

-----------------------------------------------------------------------------
LEMMA StreamsNext == ASSUME StreamsInv, [TcpNext]_tcpVars PROVE StreamsInv'
<1>1. CASE UNCHANGED tcpVars
  BY <1>1 DEF tcpVars, StreamsInv, StreamsTyped, PortsRight, SegmentsRight, EndsRight, OwnBytes, StreamsInOrder
<1>2. CASE Program
  BY <1>2, ConnectFailsRight, ConnectReturnsRight, TcpConnectRight, TcpSendRight, TcpCloseRight,
     TcpTickRight, TcpRecvRight DEF Program
<1>3. CASE Network
  <2>1. CASE PeerHandle
    BY <2>1, PeerSynchronizes, PeerReceives
  <2>. QED
    BY <1>3, <2>1, TcpHandleRight, NetworkFaultRight, PeerSendRight, PeerResendRight, PeerClosesRight DEF Network
<1>. QED
  BY <1>1, <1>2, <1>3 DEF TcpNext

LEMMA StreamsAreSound == StreamsInv => StreamsSound
<1>. SUFFICES ASSUME StreamsInv PROVE StreamsSound
  OBVIOUS
<1>0. \A b \in BytesOf : DOMAIN b = 1 .. Len(b) /\ Len(b) \in Nat
  BY DEF BytesOf
<1>1. /\ \A p \in Port : read[p] \in BytesOf
      /\ \A i \in TcpSock : tcp_sockets[i].active => tcp_sockets[i].recv \in BytesOf /\ tcp_sockets[i].port \in Port
  BY DEF StreamsInv, StreamsTyped, SockRecord, PortsRight, PortOk
<1>2. \A b \in BytesOf : \A p : OfPort(b, p) => \A x \in ToSet(b) : x[1] = p
  BY <1>0 DEF OfPort, ToSet
<1>3. NoCrossTalk
  BY <1>1, <1>2 DEF StreamsInv, OwnBytes, NoCrossTalk, Unread
<1>4. \A b \in BytesOf : \A p \in Port : Continues(b, p, 0) => InStream(b, p)
  <2>. SUFFICES ASSUME NEW b \in BytesOf, NEW p \in Port, Continues(b, p, 0), NEW k \in DOMAIN b
                PROVE  b[k] = <<p, k>>
    BY DEF InStream
  <2>1. k \in 1 .. Len(b) /\ 0 + k = k
    BY <1>0
  <2>. QED
    BY <2>1 DEF Continues
<1>5. OrderedIfFaithful
  <2>. SUFFICES ASSUME faults = 0
                PROVE  /\ \A p \in Port : InStream(read[p], p)
                       /\ \A i \in TcpSock : tcp_sockets[i].active =>
                            InStream(read[tcp_sockets[i].port] \o Unread(i), tcp_sockets[i].port)
    BY DEF OrderedIfFaithful
  <2>1. StreamsInOrder
    BY DEF StreamsInv
  <2>2. \A p \in Port : InStream(read[p], p)
    BY <1>1, <1>4, <2>1 DEF StreamsInOrder
  <2>3. ASSUME NEW i \in TcpSock, tcp_sockets[i].active
        PROVE  InStream(read[tcp_sockets[i].port] \o Unread(i), tcp_sockets[i].port)
    <3>. DEFINE p == tcp_sockets[i].port
                b == tcp_sockets[i].recv
    <3>1. p \in Port /\ b \in BytesOf /\ read[p] \in BytesOf
      BY <1>1, <2>3
    <3>2. Continues(read[p], p, 0) /\ Continues(b, p, Len(read[p]))
      BY <2>1, <2>3, <3>1 DEF StreamsInOrder, Receives
    <3>. HIDE DEF p, b
    <3>3. read[p] \o b \in BytesOf /\ Continues(read[p] \o b, p, 0)
      BY <3>1, <3>2, BytesJoined
    <3>4. InStream(read[p] \o b, p)
      BY <1>4, <3>1, <3>3
    <3>. QED
      BY <3>4 DEF Unread, p, b
  <2>. QED
    BY <2>2, <2>3
<1>6. PeerHasAll
  <2>. SUFFICES ASSUME faults = 0, toPeer = <<>>, NEW p \in Port, sentBytes[p] > 0
                PROVE  peers[p].got = sentBytes[p] + 1
    BY DEF PeerHasAll
  <2>1. sentBytes[p] \in Nat /\ peers[p].got \in Nat
    BY LengthIs DEF StreamsInv, StreamsTyped
  <2>2. peers[p].state # "listen"
    BY <2>1 DEF StreamsInv, EndsRight
  <2>3. Delivers(toPeer, p, peers[p], sentBytes[p])
    BY <2>2 DEF StreamsInv, StreamsInOrder
  <2>4. Len(toPeer) = 0
    OBVIOUS
  <2>5. sentBytes[p] \notin peers[p].got .. sentBytes[p]
    BY <2>3, <2>4 DEF Delivers, Consecutive
  <2>. QED
    BY <2>1, <2>3, <2>5 DEF Delivers
<1>. QED
  BY <1>3, <1>5, <1>6 DEF StreamsSound

THEOREM StreamsKept == TcpSpec => []StreamsSound
<1>1. TcpInit => StreamsInv
  BY InitRight
<1>2. StreamsInv /\ [TcpNext]_tcpVars => StreamsInv'
  BY StreamsNext
<1>. QED
  BY <1>1, <1>2, StreamsAreSound, PTL DEF TcpSpec
=============================================================================
