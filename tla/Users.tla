---------------------------------- MODULE Users ----------------------------------
(***************************************************************************)
(* Users (kernel/multiuser.c and the system calls that use it): the        *)
(* credentials and limits of processes across set*id, setgroups, fork and  *)
(* execve, and what they decide about files.                               *)
(*                                                                         *)
(* A file is its owner, group, permissions and set-id bits; its name, and  *)
(* that fchmod and fchown go by the name the file was opened under, are    *)
(* left out.                                                               *)
(***************************************************************************)
EXTENDS Integers, FiniteSets

CONSTANTS Accounts,      \* [uid -> [gid, groups]]: passwd_table and group_table
          Gids,
          People, Files, \* processes and files
          Sizes,         \* values of a limit
          Modes,         \* modes given to chmod: [owner, group, other, suid, sgid]
          Accesses,      \* permissions that access(2) asks for
          MaxCalls       \* bound on system calls that change something

Uids == DOMAIN Accounts
Superuser == 0
Keep == -1               \* 0xFFFFFFFF

ASSUME UsersAssumption ==
    /\ Superuser \in Uids /\ Uids \subseteq Nat /\ Gids \subseteq Nat
    /\ \A u \in Uids : Accounts[u].gid \in Gids /\ Accounts[u].groups \subseteq Gids
    /\ People \subseteq Nat \ {0} /\ Sizes \subseteq Nat /\ MaxCalls \in Nat

VARIABLES cred,     \* [uid, gid, euid, egid, groups] of a process, or NoCred
          limits,   \* [nofile, stack], each [cur, max]
          attrs,    \* of the files
          answer,   \* of the last access(2): the process, the file, the access, granted
          \* history: processes that gave up root; the groups that setgroups chose,
          \* if it did; number of calls
          dropped, chosen, calls

userVars == <<cred, limits, attrs, answer, dropped, chosen, calls>>

\* The groups are those of the user table.
Table == {-1}

NoCred == [uid |-> -1, gid |-> -1, euid |-> -1, egid |-> -1, groups |-> {}]
HasCred(p) == cred[p] # NoCred

\* multiuser_get_groups
GroupsOf(uid, gid) == {gid} \cup (IF uid \in Uids THEN Accounts[uid].groups ELSE {})

\* process_set_credentials, for the first process
FirstCred(uid) == [uid |-> uid, gid |-> Accounts[uid].gid, euid |-> uid,
                   egid |-> Accounts[uid].gid, groups |-> GroupsOf(uid, Accounts[uid].gid)]
FirstLimits == [nofile |-> [cur |-> 3, max |-> 3], stack |-> [cur |-> 0, max |-> 0]]

UsersInit ==
    /\ \E first \in People :
         cred = [p \in People |-> IF p = first THEN FirstCred(Superuser) ELSE NoCred]
    /\ limits = [p \in People |-> FirstLimits]
    /\ attrs \in [Files -> [uid : {Superuser}, gid : {Accounts[Superuser].gid}, mode : Modes]]
    /\ answer = [by |-> 0]
    /\ dropped = {} /\ calls = 0
    /\ chosen = [p \in People |-> Table]

Rootless(c) == Superuser \notin {c.uid, c.euid}

\* What every call that changes credentials ends with.
Becomes(p, c) ==
    /\ calls < MaxCalls /\ calls' = calls + 1
    /\ cred' = [cred EXCEPT ![p] = c]
    /\ dropped' = IF Rootless(c) THEN dropped \cup {p} ELSE dropped
    /\ UNCHANGED <<limits, attrs, answer>>

\* syscall_id_change_allowed.  Fault: root's group is enough.
Allowed_ByGroup(c, real, effective, id) ==
    id = Keep \/ Superuser \in {c.euid, c.egid} \/ id \in {real, effective}
Allowed(c, real, effective, id) ==
    id = Keep \/ c.euid = Superuser \/ id \in {real, effective}
Chosen(old, id) == IF id = Keep THEN old ELSE id

\* syscall_refresh_groups.
Refreshed(c) == [c EXCEPT !.groups = GroupsOf(c.uid, c.gid)]

\* setresuid; the saved identity is checked and not kept.  setuid and
\* setreuid leave it alone.
Setresuid(p, ruid, euid, suid) ==
    /\ HasCred(p)
    /\ \A id \in {ruid, euid, suid} : Allowed(cred[p], cred[p].uid, cred[p].euid, id)
    /\ Becomes(p, Refreshed([cred[p] EXCEPT !.uid = Chosen(@, ruid), !.euid = Chosen(@, euid)]))
    /\ chosen' = [chosen EXCEPT ![p] = Table]
Setresgid(p, rgid, egid, sgid) ==
    /\ HasCred(p)
    /\ \A id \in {rgid, egid, sgid} : Allowed(cred[p], cred[p].gid, cred[p].egid, id)
    /\ Becomes(p, Refreshed([cred[p] EXCEPT !.gid = Chosen(@, rgid), !.egid = Chosen(@, egid)]))
    /\ chosen' = [chosen EXCEPT ![p] = Table]
Setuid(p, uid) == Setresuid(p, uid, uid, Keep)
Setgid(p, gid) == Setresgid(p, gid, gid, Keep)

\* setgroups
Setgroups(p, groups) ==
    /\ HasCred(p) /\ cred[p].euid = Superuser
    /\ Becomes(p, [cred[p] EXCEPT !.groups = groups])
    /\ chosen' = [chosen EXCEPT ![p] = groups]

\* fork, clone and vfork: process_alloc_common gives the child its parent's
\* real identity, with the groups and limits that go with it, and the caller
\* then copies the rest.  Fault: but not the groups.
Inherited_NotGroups(c) == [c EXCEPT !.groups = GroupsOf(c.uid, c.gid)]
Inherited(c) == c
Spawn(p, q) ==
    /\ HasCred(p) /\ ~HasCred(q)
    /\ calls < MaxCalls /\ calls' = calls + 1
    /\ cred' = [cred EXCEPT ![q] = Inherited(cred[p])]
    /\ limits' = [limits EXCEPT ![q] = limits[p]]
    /\ dropped' = IF p \in dropped THEN dropped \cup {q} ELSE dropped \ {q}
    /\ chosen' = [chosen EXCEPT ![q] = chosen[p]]
    /\ UNCHANGED <<attrs, answer>>

\* vfs_check_mode, for an effective identity.  Fault: a member of the group
\* gets what the others get, too.
Granted_Either(c, f, access) ==
    \/ c.euid = Superuser
    \/ /\ c.euid = attrs[f].uid /\ access \subseteq attrs[f].mode.owner
    \/ /\ c.euid # attrs[f].uid
       /\ attrs[f].gid \in {c.egid} \cup c.groups /\ access \subseteq attrs[f].mode.group
    \/ /\ c.euid # attrs[f].uid /\ access \subseteq attrs[f].mode.other
Granted(c, f, access) ==
    \/ c.euid = Superuser
    \/ access \subseteq (IF c.euid = attrs[f].uid THEN attrs[f].mode.owner
                         ELSE IF attrs[f].gid \in {c.egid} \cup c.groups
                              THEN attrs[f].mode.group ELSE attrs[f].mode.other)

\* execve: set-id bits of the file.
ExecCred(p, f) ==
    /\ HasCred(p) /\ Granted(cred[p], f, {"x"})
    /\ attrs[f].mode.suid \/ attrs[f].mode.sgid
    /\ calls < MaxCalls /\ calls' = calls + 1
    /\ LET c == [cred[p] EXCEPT !.euid = IF attrs[f].mode.suid THEN attrs[f].uid ELSE @,
                                !.egid = IF attrs[f].mode.sgid THEN attrs[f].gid ELSE @] IN
       /\ cred' = [cred EXCEPT ![p] = c]
       /\ dropped' = IF Rootless(c) THEN dropped \cup {p} ELSE dropped \ {p}
    /\ UNCHANGED <<limits, attrs, answer, chosen>>

\* setrlimit (of oneself) and prlimit64.  Fault: the two values are stored as
\* they come.
Ordered_Never(res, l) == TRUE
Ordered(res, l) == l.cur <= l.max /\ (res = "nofile" => l.cur >= 3)
SetLimit(p, q, res, l) ==
    /\ HasCred(p) /\ HasCred(q) /\ (p # q => cred[p].euid = Superuser)
    /\ Ordered(res, l)
    /\ calls < MaxCalls /\ calls' = calls + 1
    /\ limits' = [limits EXCEPT ![q][res] = l]
    /\ UNCHANGED <<cred, attrs, answer, dropped, chosen>>

\* chmod and chown
SetAttrs(f, a) ==
    /\ calls < MaxCalls /\ calls' = calls + 1
    /\ attrs' = [attrs EXCEPT ![f] = a]
    /\ UNCHANGED <<cred, limits, answer, dropped, chosen>>
Chmod(p, f, mode) ==
    /\ HasCred(p) /\ cred[p].euid \in {Superuser, attrs[f].uid}
    /\ SetAttrs(f, [attrs[f] EXCEPT !.mode = mode])
Chown(p, f, uid, gid) ==
    /\ HasCred(p)
    /\ cred[p].euid # Superuser =>
         /\ uid \in {Keep, attrs[f].uid}
         /\ gid \in {Keep, cred[p].egid} \cup cred[p].groups
    /\ SetAttrs(f, [attrs[f] EXCEPT !.uid = Chosen(@, uid), !.gid = Chosen(@, gid)])

\* access(2) and faccessat2: by the effective identity
AccessCall(p, f, access) ==
    /\ HasCred(p)
    /\ answer' = [by |-> p, cred |-> cred[p], attrs |-> attrs[f], access |-> access,
                  granted |-> Granted(cred[p], f, access)]
    /\ UNCHANGED <<cred, limits, attrs, dropped, chosen, calls>>

UsersNext ==
    \E p \in People :
        \/ \E r, e \in Uids \cup {Keep} : Setresuid(p, r, e, Keep)
        \/ \E r, e \in Gids \cup {Keep} : Setresgid(p, r, e, Keep)
        \/ \E uid \in Uids : Setuid(p, uid)
        \/ \E gid \in Gids : Setgid(p, gid)
        \/ \E groups \in SUBSET Gids : Setgroups(p, groups)
        \/ \E q \in People : Spawn(p, q)
        \/ \E q \in People, res \in {"nofile", "stack"}, cur, max \in Sizes :
             SetLimit(p, q, res, [cur |-> cur, max |-> max])
        \/ \E f \in Files :
             \/ ExecCred(p, f)
             \/ \E mode \in Modes : Chmod(p, f, mode)
             \/ \E uid \in Uids \cup {Keep}, gid \in Gids \cup {Keep} : Chown(p, f, uid, gid)
             \/ \E access \in Accesses : AccessCall(p, f, access)

UsersSpec == UsersInit /\ [][UsersNext]_userVars

-----------------------------------------------------------------------------
\* A process that has given up root in its real and its effective identity,
\* and the children it has, do not get it back by any order of calls, other
\* than a set-id file of root.
DroppedForGood == \A p \in dropped : Rootless(cred[p])

\* A process belongs to its own group and to the groups of its user, however
\* it came by its identity, unless setgroups has said otherwise since; and a
\* choice by setgroups outlives fork and execve.
GroupsFollowIds ==
    \A p \in People : HasCred(p) =>
        cred[p].groups = IF chosen[p] = Table THEN GroupsOf(cred[p].uid, cred[p].gid)
                         ELSE chosen[p]

\* A limit is never above its maximum, and no process is left with fewer
\* descriptors than its standard ones.
LimitsOrdered ==
    \A p \in People : /\ limits[p].nofile.cur \in 3 .. limits[p].nofile.max
                      /\ limits[p].stack.cur <= limits[p].stack.max

\* Of the permissions, those of the narrowest class that a process belongs to
\* decide: the owner and the group may have less than the others.
NarrowestClass ==
    answer.by # 0 /\ answer.cred.euid # Superuser =>
        /\ answer.cred.euid = answer.attrs.uid =>
             (answer.granted <=> answer.access \subseteq answer.attrs.mode.owner)
        /\ answer.cred.euid # answer.attrs.uid /\ answer.attrs.gid \in answer.cred.groups =>
             (answer.granted <=> answer.access \subseteq answer.attrs.mode.group)

\* Rights are what identities and modes give: none comes back, groups follow
\* the user, the first class that fits decides, limits stay in order
\* (syscall_id_change_allowed, vfs_check_mode, sys_prlimit64).
RightsSound == DroppedForGood /\ GroupsFollowIds /\ NarrowestClass /\ LimitsOrdered
=============================================================================
