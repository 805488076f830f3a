------------------------------ MODULE MCFiles ------------------------------
(* What programs share: sockets of the Unix and of the Internet family, the  *)
(* tree of files and mounts, and their users' rights.  In one behaviour one  *)
(* part moves; the others stand where they start.                            *)
EXTENDS Sockets, InetSockets, Paths, Users, TLC

VARIABLE part

Points     == {<<>>, <<"a">>, <<"a", "ab">>}
BeginsWith == {<<"a", "ab">>}

FewPorts == <<11, 12>>

TwoAccounts == 0 :> [gid |-> 0, groups |-> {0, 1}] @@ 1 :> [gid |-> 1, groups |-> {1}]
TwoModes ==
    {[owner |-> {"r", "w"}, group |-> {"x"}, other |-> {"r", "x"}, suid |-> TRUE, sgid |-> TRUE],
     [owner |-> {"r"}, group |-> {"r"}, other |-> {"x"}, suid |-> FALSE, sgid |-> TRUE]}

FilesVars == <<sockVars, inetVars, pathVars, userVars, part>>

FilesInit ==
    /\ SockInit /\ InetInit /\ PathInit /\ UsersInit
    /\ part \in {"sockets", "inet", "paths", "users"}
    /\ part # "users" => /\ cred[1] # NoCred
                         /\ \A f \in Files : attrs[f].mode.suid

SocketsMove == part = "sockets" /\ SockNext /\ UNCHANGED <<inetVars, pathVars, userVars, part>>
InetMoves   == part = "inet" /\ InetNext /\ UNCHANGED <<sockVars, pathVars, userVars, part>>
PathsMove   == part = "paths" /\ PathNext /\ UNCHANGED <<sockVars, inetVars, userVars, part>>
UsersMove   == part = "users" /\ UsersNext /\ UNCHANGED <<sockVars, inetVars, pathVars, part>>

\* Each of them may come to rest, at its bounds.
Rest == UNCHANGED FilesVars

FilesNext == SocketsMove \/ InetMoves \/ PathsMove \/ UsersMove \/ Rest

FilesSpec == FilesInit /\ [][FilesNext]_FilesVars
=============================================================================
