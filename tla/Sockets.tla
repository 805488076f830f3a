------------------------------- MODULE Sockets -------------------------------
(***************************************************************************)
(* Unix-domain sockets (kernel/socket.c and the system calls on them): the *)
(* socket table, listening and its queue of clients, the connected pairs,  *)
(* datagrams, and the references that descriptors hold.                    *)
(*                                                                         *)
(* The ring of pending clients and the receive ring are sequences.  A byte *)
(* is the identity of its sender: `born` numbers the sockets created in a  *)
(* slot, up to MaxBorn.                                                    *)
(***************************************************************************)
EXTENDS Integers, FiniteSets, Sequences, SequencesExt

CONSTANTS SOCKET_MAX_COUNT, SOCKET_BACKLOG_MAX, SOCKET_BUFFER_SIZE,
          SocketPaths,    \* socket paths
          MaxRefs,  \* bound on the descriptors of one socket
          MaxBorn,  \* bound on the sockets created in one slot
          Patient   \* TRUE: no client gives up before it is accepted

ASSUME SocketsAssumption ==
    /\ {SOCKET_MAX_COUNT, SOCKET_BACKLOG_MAX, SOCKET_BUFFER_SIZE, MaxRefs, MaxBorn}
            \subseteq Nat \ {0}
    /\ "none" \notin SocketPaths
    /\ Patient \in BOOLEAN

VARIABLES socket_table,
          held,   \* descriptors of each socket, over all processes
          born    \* history: sockets created in each slot

sockVars == <<socket_table, held, born>>

Sock == 1 .. SOCKET_MAX_COUNT   \* 0 is the code's -1: no peer

Unused == [used |-> FALSE, refcount |-> 0, type |-> "stream", state |-> "init", peer |-> 0,
           closed |-> FALSE, backlog |-> 0, pending |-> <<>>, path |-> "none",
           rx |-> <<>>, src |-> "none"]

SockInit ==
    /\ socket_table = [s \in Sock |-> Unused]
    /\ held = [s \in Sock |-> 0]
    /\ born = [s \in Sock |-> 0]

Live(s) == s \in Sock /\ socket_table[s].used
Is(s, state) == Live(s) /\ socket_table[s].state = state
Id(s) == <<s, born[s]>>

\* socket_alloc takes the lowest free slot.
Unallocated == {s \in Sock : ~socket_table[s].used /\ born[s] < MaxBorn}
Fresh(s) == s \in Unallocated /\ \A t \in Sock : t < s => socket_table[t].used

\* socket_find_listener and the search of socket_unix_sendto: the lowest match.
FirstAt(path, state, type) ==
    {s \in Sock : /\ Is(s, state) /\ socket_table[s].path = path
                  /\ socket_table[s].type \in type
                  /\ \A t \in 1 .. s - 1 : ~(/\ Is(t, state) /\ socket_table[t].path = path
                                             /\ socket_table[t].type \in type)}
PathInUse(path) ==
    \E s \in Sock : (Is(s, "bound") \/ Is(s, "listening")) /\ socket_table[s].path = path

-----------------------------------------------------------------------------
\* sys_socket_open.  Without a free descriptor socket_close frees the slot
\* again, so that nothing changes.
SocketOpen(s, type) ==
    /\ Fresh(s)
    /\ socket_table' = [socket_table EXCEPT ![s] =
            [Unused EXCEPT !.used = TRUE, !.refcount = 1, !.type = type]]
    /\ held' = [held EXCEPT ![s] = 1]
    /\ born' = [born EXCEPT ![s] = @ + 1]

\* socket_add_ref, called when a descriptor is duplicated or inherited.
AddRef(s) ==
    /\ Live(s) /\ held[s] \in 1 .. MaxRefs - 1
    /\ socket_table' = [socket_table EXCEPT ![s].refcount = @ + 1]
    /\ held' = [held EXCEPT ![s] = @ + 1]
    /\ UNCHANGED born

\* Fault: a bound path is not looked for.
Bind_Anywhere(s, path) ==
    /\ Is(s, "init") \/ Is(s, "bound")
    /\ socket_table' = [socket_table EXCEPT ![s].path = path, ![s].state = "bound"]
    /\ UNCHANGED <<held, born>>
Bind(s, path) ==
    /\ held[s] > 0
    /\ ~PathInUse(path)
    /\ Is(s, "init") \/ Is(s, "bound")
    /\ socket_table' = [socket_table EXCEPT ![s].path = path, ![s].state = "bound"]
    /\ UNCHANGED <<held, born>>

Listen(s, backlog) ==
    /\ held[s] > 0 /\ Is(s, "bound")
    /\ socket_table' = [socket_table EXCEPT ![s].backlog = backlog, ![s].state = "listening"]
    /\ UNCHANGED <<held, born>>

\* socket_connect: refused without a listener or with a full queue.
\* Faults: the queue has no limit; the client's state stays as it was.
Connect_NoBacklog(s, path) ==
    /\ held[s] > 0 /\ (Is(s, "init") \/ Is(s, "bound"))
    /\ \E l \in FirstAt(path, "listening", {"stream", "dgram"}) :
        socket_table' = [socket_table EXCEPT
                ![l].pending = Append(@, s), ![s].state = "pending"]
    /\ UNCHANGED <<held, born>>
Connect_Again(s, path) ==
    /\ held[s] > 0 /\ (Is(s, "init") \/ Is(s, "bound"))
    /\ \E l \in FirstAt(path, "listening", {"stream", "dgram"}) :
        /\ Len(socket_table[l].pending) < socket_table[l].backlog
        /\ socket_table' = [socket_table EXCEPT ![l].pending = Append(@, s)]
    /\ UNCHANGED <<held, born>>
Connect(s, path) ==
    /\ held[s] > 0 /\ (Is(s, "init") \/ Is(s, "bound"))
    /\ \E l \in FirstAt(path, "listening", {"stream", "dgram"}) :
        /\ Len(socket_table[l].pending) < socket_table[l].backlog
        /\ socket_table' = [socket_table EXCEPT
                ![l].pending = Append(@, s), ![s].state = "pending"]
    /\ UNCHANGED <<held, born>>

\* sys_socket_accept4.  Fault: the client is not told its new peer.
Accept_OneSided(l, n) ==
    LET c == Head(socket_table[l].pending) IN
    /\ Is(l, "listening") /\ socket_table[l].pending # <<>> /\ Live(c) /\ Fresh(n)
    /\ socket_table' = [socket_table EXCEPT ![l].pending = Tail(@),
            ![c].state = "connected",
            ![n] = [Unused EXCEPT !.used = TRUE, !.refcount = 1, !.state = "connected", !.peer = c]]
    /\ held' = [held EXCEPT ![n] = 1]
    /\ born' = [born EXCEPT ![n] = @ + 1]
Accept(l, n) ==
    LET c == Head(socket_table[l].pending) IN
    /\ held[l] > 0 /\ Is(l, "listening") /\ socket_table[l].pending # <<>> /\ Live(c) /\ Fresh(n)
    /\ socket_table' = [socket_table EXCEPT ![l].pending = Tail(@),
            ![c].state = "connected", ![c].peer = n,
            ![n] = [Unused EXCEPT !.used = TRUE, !.refcount = 1, !.type = socket_table[l].type,
                                  !.state = "connected", !.peer = c]]
    /\ held' = [held EXCEPT ![n] = 1]
    /\ born' = [born EXCEPT ![n] = @ + 1]

\* Without a socket for the server's end, or when the client has gone, the
\* client is taken from the queue all the same.
AcceptFails(l) ==
    /\ held[l] > 0 /\ Is(l, "listening") /\ socket_table[l].pending # <<>>
    /\ ~Live(Head(socket_table[l].pending)) \/ \A s \in Sock : socket_table[s].used
    /\ socket_table' = [socket_table EXCEPT ![l].pending = Tail(@)]
    /\ UNCHANGED <<held, born>>

\* Without a descriptor for it the new end is closed at once, and the client
\* sees a connection that its peer has closed.
AcceptNoFd(l) ==
    LET c == Head(socket_table[l].pending) IN
    /\ held[l] > 0 /\ Is(l, "listening") /\ socket_table[l].pending # <<>>
    /\ Live(c) /\ Unallocated # {}
    /\ socket_table' = [socket_table EXCEPT ![l].pending = Tail(@),
            ![c].state = "connected", ![c].peer = 0, ![c].closed = TRUE]
    /\ UNCHANGED <<held, born>>

-----------------------------------------------------------------------------
\* socket_close.  The last reference takes the socket: its state is reset
\* before socket_maybe_free looks at it, so that it is always freed.  A
\* listener's clients are not told.
GivesUp(s) == /\ socket_table[s].refcount = 1
              /\ \E l \in Sock : s \in ToSet(socket_table[l].pending)

\* Fault: the peer is not told.
Close_Silently(s) ==
    /\ Live(s) /\ held[s] > 0 /\ (Patient => ~GivesUp(s))
    /\ held' = [held EXCEPT ![s] = @ - 1]
    /\ socket_table' = [socket_table EXCEPT ![s] =
            IF @.refcount > 1 THEN [@ EXCEPT !.refcount = @ - 1] ELSE Unused]
    /\ UNCHANGED born
\* Fault: the socket goes with the first of its descriptors.
Close_AtOnce(s) ==
    /\ Live(s) /\ held[s] > 0 /\ (Patient => ~GivesUp(s))
    /\ held' = [held EXCEPT ![s] = @ - 1]
    /\ LET p == socket_table[s].peer IN
       socket_table' = [t \in Sock |->
            IF t = s THEN Unused
            ELSE IF t = p /\ Live(p) THEN [socket_table[t] EXCEPT !.peer = 0, !.closed = TRUE]
            ELSE socket_table[t]]
    /\ UNCHANGED born
SocketClose(s) ==
    /\ Live(s) /\ held[s] > 0 /\ (Patient => ~GivesUp(s))
    /\ held' = [held EXCEPT ![s] = @ - 1]
    /\ LET p == socket_table[s].peer IN
       socket_table' = IF socket_table[s].refcount > 1
            THEN [socket_table EXCEPT ![s].refcount = @ - 1]
            ELSE [t \in Sock |->
                    IF t = s THEN Unused
                    ELSE IF t = p /\ Live(p)
                    THEN [socket_table[t] EXCEPT !.peer = 0, !.closed = TRUE]
                    ELSE socket_table[t]]
    /\ UNCHANGED born

\* socket_read and socket_write on a connected socket; both may be partial.
\* socket_is_writable tells poll the same.
CanWrite(s) == /\ Is(s, "connected") /\ Live(socket_table[s].peer)
               /\ Len(socket_table[socket_table[s].peer].rx) < SOCKET_BUFFER_SIZE
SocketRead(s, n) ==
    /\ held[s] > 0 /\ Is(s, "connected") /\ n \in 1 .. Len(socket_table[s].rx)
    /\ socket_table' = [socket_table EXCEPT ![s].rx = SubSeq(@, n + 1, Len(@))]
    /\ UNCHANGED <<held, born>>
SocketWrite(s) ==
    /\ held[s] > 0 /\ CanWrite(s)
    /\ socket_table' = [socket_table EXCEPT ![socket_table[s].peer].rx = Append(@, Id(s))]
    /\ UNCHANGED <<held, born>>

\* Datagrams: one message fits, a later one replaces it (socket_unix_sendto),
\* and whoever sent it, only its bound path is known to the receiver.
SendTo(s, path) ==
    /\ held[s] > 0 /\ Live(s) /\ socket_table[s].type = "dgram"
    /\ \E d \in FirstAt(path, "bound", {"dgram"}) :
        socket_table' = [socket_table EXCEPT ![d].rx = <<Id(s)>>, ![d].src = socket_table[s].path]
    /\ UNCHANGED <<held, born>>
RecvFrom(s) ==
    /\ held[s] > 0 /\ Live(s) /\ socket_table[s].type = "dgram" /\ socket_table[s].rx # <<>>
    /\ socket_table' = [socket_table EXCEPT ![s].rx = <<>>, ![s].src = "none"]
    /\ UNCHANGED <<held, born>>

SockNext ==
    \E s \in Sock :
        \/ \E type \in {"stream", "dgram"} : SocketOpen(s, type)
        \/ AddRef(s) \/ SocketClose(s)
        \/ \E path \in SocketPaths : Bind(s, path) \/ Connect(s, path) \/ SendTo(s, path)
        \/ \E b \in 1 .. SOCKET_BACKLOG_MAX : Listen(s, b)
        \/ \E n \in Sock : Accept(s, n)
        \/ AcceptFails(s) \/ AcceptNoFd(s)
        \/ \E n \in 1 .. SOCKET_BUFFER_SIZE : SocketRead(s, n)
        \/ SocketWrite(s) \/ RecvFrom(s)

SockSpec == SockInit /\ [][SockNext]_sockVars

-----------------------------------------------------------------------------
\* A socket lives exactly as long as it has a descriptor, and is referred to
\* once by each (socket_add_ref, socket_close): none leaks, none is freed early.
SocketRefsExact ==
    \A s \in Sock : /\ socket_table[s].refcount = held[s]
                    /\ socket_table[s].used <=> held[s] > 0

\* A path leads to at most one bound or listening socket (socket_bind).
PathsUnique ==
    \A s, t \in Sock :
        /\ Is(s, "bound") \/ Is(s, "listening")
        /\ Is(t, "bound") \/ Is(t, "listening")
        /\ socket_table[s].path = socket_table[t].path
        => s = t

\* Connected sockets come in pairs that name each other, or the other has
\* closed and this one knows (socket_accept, socket_close).
PeersMutual ==
    \A s \in Sock : Is(s, "connected") =>
        LET p == socket_table[s].peer IN
        IF p = 0 THEN socket_table[s].closed
        ELSE Is(p, "connected") /\ socket_table[p].peer = s /\ ~socket_table[s].closed

\* A listener's queue holds sockets that wait to be accepted, each once, and
\* no socket waits in two queues (socket_connect).
QueuesHoldPending ==
    \A l \in Sock : Live(l) =>
        /\ Len(socket_table[l].pending) <= socket_table[l].backlog
        /\ \A i \in DOMAIN socket_table[l].pending : Is(socket_table[l].pending[i], "pending")
        /\ IsInjective(socket_table[l].pending)
        /\ \A m \in Sock \ {l} :
            ToSet(socket_table[l].pending) \cap ToSet(socket_table[m].pending) = {}

\* What a connected socket has received comes from its one peer, in the
\* life of that peer, and not from whoever used a slot before.
BytesFromPeer ==
    \A s \in Sock : Is(s, "connected") /\ socket_table[s].type = "stream" =>
        LET senders == ToSet(socket_table[s].rx) IN
        /\ Cardinality(senders) <= 1
        /\ socket_table[s].peer # 0 => senders \subseteq {Id(socket_table[s].peer)}

\* Sockets count their descriptors, paths and queues lead to the right ones,
\* and a connection has two ends that hear each other only (socket_bind,
\* socket_connect, socket_accept, socket_close).
ConnectionsSound ==
    SocketRefsExact /\ PathsUnique /\ QueuesHoldPending /\ PeersMutual /\ BytesFromPeer
=============================================================================
