--------------------------- MODULE ServicesProofs ---------------------------
(***************************************************************************)
(* Proofs about four services behind the system calls, for every value of  *)
(* their constants and any number of calls:                                *)
(*   - Users: what a system call may do to the rights of a process;        *)
(*   - Paths: the walk of a path name, and the mount it ends at;           *)
(*   - Syslog: the ring of messages, its lines, and the log on disk;       *)
(*   - Descriptors: tables of descriptors, and who holds slots and pipes.  *)
(***************************************************************************)
EXTENDS Users, Paths, Syslog, Descriptors, Loops, SequenceTheorems, FiniteSetTheorems, TLAPS

-----------------------------------------------------------------------------
(* Users.  What a system call may change is told by three facts about the  *)
(* new credentials: they are credentials, a process without root stays     *)
(* without it, and the groups are those the identity or setgroups gives.   *)

Cred  == [uid : Uids, gid : Gids, euid : Uids, egid : Gids, groups : SUBSET Gids]
Limit == [cur : Nat, max : Nat]
Attrs == [uid : Uids, gid : Gids, mode : Modes]

UsersTypeOK ==
    /\ cred \in [People -> Cred \cup {NoCred}]
    /\ limits \in [People -> [nofile : Limit, stack : Limit]]
    /\ attrs \in [Files -> Attrs]
    /\ dropped \subseteq People
    /\ chosen \in [People -> (SUBSET Gids) \cup {Table}]

UsersInv == UsersTypeOK /\ RightsSound

\* What setgroups may choose is not the mark for the user table.
LEMMA NotTheTable == ASSUME NEW groups \in SUBSET Gids PROVE groups # Table
BY UsersAssumption DEF Table

LEMMA GroupsOfType ==
    ASSUME NEW uid \in Uids, NEW gid \in Gids PROVE GroupsOf(uid, gid) \in SUBSET Gids
BY UsersAssumption DEF GroupsOf

LEMMA CredOfHolder ==
    ASSUME UsersTypeOK, NEW p \in People, HasCred(p) PROVE cred[p] \in Cred
BY DEF UsersTypeOK, HasCred

LEMMA CredRuns == ASSUME NEW c \in Cred PROVE c # NoCred
BY UsersAssumption DEF Cred, NoCred, Uids

-----------------------------------------------------------------------------
\* The groups that p has with the credentials c.
GroupsOk(c, choice) == c.groups = IF choice = Table THEN GroupsOf(c.uid, c.gid) ELSE choice

LEMMA UsersInitInv == ASSUME UsersInit PROVE UsersInv
<1>. USE UsersAssumption DEF UsersInit
<1>1. FirstCred(Superuser) \in Cred /\ GroupsOk(FirstCred(Superuser), Table)
  BY GroupsOfType DEF FirstCred, Cred, Uids, GroupsOk
<1>2. UsersTypeOK
  <2>1. cred \in [People -> Cred \cup {NoCred}]
    BY <1>1
  <2>2. limits \in [People -> [nofile : Limit, stack : Limit]]
    BY DEF FirstLimits, Limit
  <2>3. attrs \in [Files -> Attrs]
    BY DEF Attrs, Uids
  <2>. QED
    BY <2>1, <2>2, <2>3 DEF UsersTypeOK
<1>3. GroupsFollowIds
  BY <1>1 DEF GroupsFollowIds, HasCred, GroupsOk
<1>4. DroppedForGood /\ LimitsOrdered /\ NarrowestClass
  BY DEF DroppedForGood, LimitsOrdered, FirstLimits, NarrowestClass
<1>. QED
  BY <1>2, <1>3, <1>4 DEF UsersInv, RightsSound

\* A call after which process p has the credentials c.
LEMMA BecomesInv ==
    ASSUME UsersInv, NEW p \in People, NEW c \in Cred, NEW choice \in (SUBSET Gids) \cup {Table},
           Becomes(p, c), chosen' = [chosen EXCEPT ![p] = choice],
           GroupsOk(c, choice), p \in dropped => Rootless(c)
    PROVE  UsersInv'
<1>. USE DEF UsersInv, Becomes
<1>1. UsersTypeOK'
  BY DEF UsersTypeOK
<1>2. DroppedForGood'
  BY DEF DroppedForGood, RightsSound, UsersTypeOK
<1>3. GroupsFollowIds'
  BY DEF GroupsFollowIds, RightsSound, UsersTypeOK, GroupsOk, HasCred
<1>4. LimitsOrdered' /\ NarrowestClass'
  BY DEF LimitsOrdered, NarrowestClass, RightsSound
<1>. QED
  BY <1>1, <1>2, <1>3, <1>4 DEF RightsSound

\* A process that has given up root is allowed identities without it only.
LEMMA AllowedKeepsRootless ==
    ASSUME NEW c \in Cred, Rootless(c), NEW ruid \in Uids \cup {Keep}, NEW euid \in Uids \cup {Keep},
           Allowed(c, c.uid, c.euid, ruid), Allowed(c, c.uid, c.euid, euid)
    PROVE  Superuser \notin {Chosen(c.uid, ruid), Chosen(c.euid, euid)}
BY UsersAssumption DEF Rootless, Allowed, Chosen, Cred, Superuser, Keep

LEMMA SetresuidInv ==
    ASSUME UsersInv, NEW p \in People, NEW ruid \in Uids \cup {Keep}, NEW euid \in Uids \cup {Keep},
           NEW suid \in Uids \cup {Keep}, Setresuid(p, ruid, euid, suid)
    PROVE  UsersInv'
<1>1. cred[p] \in Cred
  BY CredOfHolder DEF Setresuid, UsersInv
<1>. DEFINE ids == [cred[p] EXCEPT !.uid = Chosen(@, ruid), !.euid = Chosen(@, euid)]
            c   == Refreshed(ids)
<1>2. /\ ids \in Cred
      /\ ids.uid = Chosen(cred[p].uid, ruid) /\ ids.euid = Chosen(cred[p].euid, euid)
  BY <1>1 DEF Cred, Chosen
<1>3. /\ c \in Cred /\ GroupsOk(c, Table)
      /\ c.uid = ids.uid /\ c.euid = ids.euid
  <2>1. GroupsOf(ids.uid, ids.gid) \in SUBSET Gids
    BY <1>2, GroupsOfType DEF Cred
  <2>. QED
    BY <1>2, <2>1 DEF Refreshed, Cred, GroupsOk
<1>4. p \in dropped => Rootless(c)
  <2>1. p \in dropped => Rootless(cred[p])
    BY DEF UsersInv, RightsSound, DroppedForGood
  <2>. QED
    BY <1>1, <1>2, <1>3, <2>1, AllowedKeepsRootless DEF Setresuid, Rootless
<1>5. Becomes(p, c) /\ chosen' = [chosen EXCEPT ![p] = Table]
  BY DEF Setresuid
<1>. HIDE DEF c
<1>. QED
  BY <1>3, <1>4, <1>5, BecomesInv

LEMMA SetresgidInv ==
    ASSUME UsersInv, NEW p \in People, NEW rgid \in Gids \cup {Keep}, NEW egid \in Gids \cup {Keep},
           NEW sgid \in Gids \cup {Keep}, Setresgid(p, rgid, egid, sgid)
    PROVE  UsersInv'
<1>1. cred[p] \in Cred
  BY CredOfHolder DEF Setresgid, UsersInv
<1>. DEFINE ids == [cred[p] EXCEPT !.gid = Chosen(@, rgid), !.egid = Chosen(@, egid)]
            c   == Refreshed(ids)
<1>2. ids \in Cred /\ ids.uid = cred[p].uid /\ ids.euid = cred[p].euid
  BY <1>1 DEF Cred, Chosen
<1>3. /\ c \in Cred /\ GroupsOk(c, Table)
      /\ c.uid = ids.uid /\ c.euid = ids.euid
  <2>1. GroupsOf(ids.uid, ids.gid) \in SUBSET Gids
    BY <1>2, GroupsOfType DEF Cred
  <2>. QED
    BY <1>2, <2>1 DEF Refreshed, Cred, GroupsOk
<1>4. p \in dropped => Rootless(c)
  BY <1>2, <1>3 DEF UsersInv, RightsSound, DroppedForGood, Rootless
<1>5. Becomes(p, c) /\ chosen' = [chosen EXCEPT ![p] = Table]
  BY DEF Setresgid
<1>. HIDE DEF c
<1>. QED
  BY <1>3, <1>4, <1>5, BecomesInv

LEMMA SetgroupsInv ==
    ASSUME UsersInv, NEW p \in People, NEW groups \in SUBSET Gids, Setgroups(p, groups)
    PROVE  UsersInv'
<1>1. cred[p] \in Cred /\ cred[p].euid = Superuser
  BY CredOfHolder DEF Setgroups, UsersInv
<1>. DEFINE c == [cred[p] EXCEPT !.groups = groups]
<1>2. c \in Cred /\ GroupsOk(c, groups)
  BY <1>1, NotTheTable DEF Cred, GroupsOk
<1>3. p \notin dropped
  BY <1>1 DEF UsersInv, RightsSound, DroppedForGood, Rootless
<1>4. Becomes(p, c) /\ chosen' = [chosen EXCEPT ![p] = groups]
  BY DEF Setgroups
<1>. HIDE DEF c
<1>. QED
  BY <1>2, <1>3, <1>4, BecomesInv

LEMMA SpawnInv ==
    ASSUME UsersInv, NEW p \in People, NEW q \in People, Spawn(p, q) PROVE UsersInv'
<1>. USE DEF UsersInv, Spawn, Inherited
<1>1. UsersTypeOK'
  BY DEF UsersTypeOK
<1>2. DroppedForGood'
  BY DEF DroppedForGood, RightsSound, UsersTypeOK
<1>3. GroupsFollowIds'
  BY DEF GroupsFollowIds, RightsSound, UsersTypeOK, HasCred
<1>4. LimitsOrdered' /\ NarrowestClass'
  BY DEF LimitsOrdered, NarrowestClass, RightsSound, UsersTypeOK
<1>. QED
  BY <1>1, <1>2, <1>3, <1>4 DEF RightsSound

LEMMA ExecCredInv ==
    ASSUME UsersInv, NEW p \in People, NEW f \in Files, ExecCred(p, f) PROVE UsersInv'
<1>1. cred[p] \in Cred /\ attrs[f] \in Attrs
  BY CredOfHolder DEF ExecCred, UsersInv, UsersTypeOK
<1>. DEFINE c == [cred[p] EXCEPT !.euid = IF attrs[f].mode.suid THEN attrs[f].uid ELSE @,
                                 !.egid = IF attrs[f].mode.sgid THEN attrs[f].gid ELSE @]
<1>2. /\ c \in Cred
      /\ c.uid = cred[p].uid /\ c.gid = cred[p].gid /\ c.groups = cred[p].groups
  BY <1>1 DEF Cred, Attrs
<1>3. /\ cred' = [cred EXCEPT ![p] = c]
      /\ dropped' = IF Rootless(c) THEN dropped \cup {p} ELSE dropped \ {p}
      /\ UNCHANGED <<limits, attrs, answer, chosen>>
  BY DEF ExecCred
<1>. HIDE DEF c
<1>4. UsersTypeOK'
  BY <1>2, <1>3 DEF UsersTypeOK, UsersInv
<1>5. DroppedForGood'
  BY <1>3 DEF DroppedForGood, UsersInv, RightsSound, UsersTypeOK
<1>6. GroupsFollowIds'
  BY <1>2, <1>3, CredRuns, <1>1 DEF GroupsFollowIds, UsersInv, RightsSound, UsersTypeOK, HasCred
<1>7. LimitsOrdered' /\ NarrowestClass'
  BY <1>3 DEF LimitsOrdered, NarrowestClass, UsersInv, RightsSound
<1>. QED
  BY <1>4, <1>5, <1>6, <1>7 DEF UsersInv, RightsSound

LEMMA SetLimitInv ==
    ASSUME UsersInv, NEW p \in People, NEW q \in People, NEW res \in {"nofile", "stack"},
           NEW l \in [cur : Sizes, max : Sizes], SetLimit(p, q, res, l)
    PROVE  UsersInv'
<1>1. l \in Limit
  BY UsersAssumption DEF Limit
<1>2. /\ limits' = [limits EXCEPT ![q] = [limits[q] EXCEPT ![res] = l]]
      /\ UNCHANGED <<cred, attrs, answer, dropped, chosen>>
      /\ l.cur <= l.max /\ (res = "nofile" => l.cur >= 3)
  BY DEF SetLimit, Ordered, UsersInv, UsersTypeOK
<1>3. ASSUME NEW r \in [nofile : Limit, stack : Limit],
             r.nofile.cur \in 3 .. r.nofile.max, r.stack.cur <= r.stack.max
      PROVE  /\ [r EXCEPT ![res] = l] \in [nofile : Limit, stack : Limit]
             /\ [r EXCEPT ![res] = l].nofile.cur \in 3 .. [r EXCEPT ![res] = l].nofile.max
             /\ [r EXCEPT ![res] = l].stack.cur <= [r EXCEPT ![res] = l].stack.max
  <2>1. CASE res = "nofile"
    BY <1>1, <1>2, <1>3, <2>1 DEF Limit
  <2>2. CASE res = "stack"
    BY <1>1, <1>2, <1>3, <2>2 DEF Limit
  <2>. QED
    BY <2>1, <2>2
<1>4. UsersTypeOK'
  BY <1>2, <1>3 DEF UsersInv, UsersTypeOK, RightsSound, LimitsOrdered
<1>5. LimitsOrdered'
  BY <1>2, <1>3 DEF UsersInv, UsersTypeOK, RightsSound, LimitsOrdered
<1>6. DroppedForGood' /\ GroupsFollowIds' /\ NarrowestClass'
  BY <1>2 DEF UsersInv, RightsSound, DroppedForGood, GroupsFollowIds, NarrowestClass, HasCred
<1>. QED
  BY <1>4, <1>5, <1>6 DEF UsersInv, RightsSound

\* chmod and chown
LEMMA SetAttrsInv ==
    ASSUME UsersInv, NEW f \in Files, NEW a \in Attrs, SetAttrs(f, a) PROVE UsersInv'
BY DEF UsersInv, UsersTypeOK, RightsSound, SetAttrs, DroppedForGood, GroupsFollowIds,
       LimitsOrdered, NarrowestClass, HasCred

\* Of the classes, the first that fits was asked.
LEMMA AccessCallInv ==
    ASSUME UsersInv, NEW p \in People, NEW f \in Files, NEW access, AccessCall(p, f, access)
    PROVE  UsersInv'
<1>. USE DEF UsersInv, AccessCall
<1>1. NarrowestClass'
  BY DEF NarrowestClass, Granted
<1>. QED
  BY <1>1 DEF UsersTypeOK, RightsSound, DroppedForGood, GroupsFollowIds, LimitsOrdered, HasCred

LEMMA UsersStutters == ASSUME UsersInv, UNCHANGED userVars PROVE UsersInv'
BY DEF userVars, UsersInv, UsersTypeOK, RightsSound, DroppedForGood, GroupsFollowIds,
       LimitsOrdered, NarrowestClass, HasCred

LEMMA UsersNextInv == ASSUME UsersInv, [UsersNext]_userVars PROVE UsersInv'
<1>1. ASSUME NEW p \in People, NEW r \in Uids \cup {Keep}, NEW e \in Uids \cup {Keep},
             Setresuid(p, r, e, Keep)
      PROVE  UsersInv'
  BY <1>1, SetresuidInv
<1>2. ASSUME NEW p \in People, NEW r \in Gids \cup {Keep}, NEW e \in Gids \cup {Keep},
             Setresgid(p, r, e, Keep)
      PROVE  UsersInv'
  BY <1>2, SetresgidInv
<1>3. ASSUME NEW p \in People, NEW uid \in Uids, Setuid(p, uid) PROVE UsersInv'
  BY <1>3, SetresuidInv DEF Setuid
<1>4. ASSUME NEW p \in People, NEW gid \in Gids, Setgid(p, gid) PROVE UsersInv'
  BY <1>4, SetresgidInv DEF Setgid
<1>5. ASSUME NEW p \in People, NEW groups \in SUBSET Gids, Setgroups(p, groups) PROVE UsersInv'
  BY <1>5, SetgroupsInv
<1>6. ASSUME NEW p \in People, NEW q \in People, Spawn(p, q) PROVE UsersInv'
  BY <1>6, SpawnInv
<1>7. ASSUME NEW p \in People, NEW q \in People, NEW res \in {"nofile", "stack"},
             NEW cur \in Sizes, NEW max \in Sizes, SetLimit(p, q, res, [cur |-> cur, max |-> max])
      PROVE  UsersInv'
  BY <1>7, SetLimitInv
<1>8. ASSUME NEW p \in People, NEW f \in Files, ExecCred(p, f) PROVE UsersInv'
  BY <1>8, ExecCredInv
<1>9. ASSUME NEW p \in People, NEW f \in Files, NEW mode \in Modes, Chmod(p, f, mode)
      PROVE  UsersInv'
  <2>1. [attrs[f] EXCEPT !.mode = mode] \in Attrs
    BY DEF UsersInv, UsersTypeOK, Attrs
  <2>. QED
    BY <1>9, <2>1, SetAttrsInv DEF Chmod
<1>10. ASSUME NEW p \in People, NEW f \in Files, NEW uid \in Uids \cup {Keep},
              NEW gid \in Gids \cup {Keep}, Chown(p, f, uid, gid)
       PROVE  UsersInv'
  <2>1. [attrs[f] EXCEPT !.uid = Chosen(@, uid), !.gid = Chosen(@, gid)] \in Attrs
    BY DEF UsersInv, UsersTypeOK, Attrs, Chosen
  <2>. QED
    BY <1>10, <2>1, SetAttrsInv DEF Chown
<1>11. ASSUME NEW p \in People, NEW f \in Files, NEW access \in Accesses, AccessCall(p, f, access)
       PROVE  UsersInv'
  BY <1>11, AccessCallInv
<1>12. CASE UNCHANGED userVars
  BY <1>12, UsersStutters
<1>. QED
  BY <1>1, <1>2, <1>3, <1>4, <1>5, <1>6, <1>7, <1>8, <1>9, <1>10, <1>11, <1>12 DEF UsersNext

-----------------------------------------------------------------------------
(* For any accounts and any calls: a process that gave up root, and its    *)
(* children, do not get it back but by a set-id file; groups follow the    *)
(* user or setgroups; the narrowest class decides; limits stay in order    *)
(* (syscall_id_change_allowed, syscall_refresh_groups, vfs_check_mode,     *)
(* sys_prlimit64).                                                         *)
THEOREM RightsKept == UsersSpec => []RightsSound
<1>1. UsersInit => UsersInv
  BY UsersInitInv
<1>2. UsersInv /\ [UsersNext]_userVars => UsersInv'
  BY UsersNextInv
<1>3. UsersInv => RightsSound
  BY DEF UsersInv
<1>. QED
  BY <1>1, <1>2, <1>3, PTL DEF UsersSpec

-----------------------------------------------------------------------------
(* Paths.  The walk of the system call and the walk a path name means take *)
(* the same step at every component, so they end at the same place.        *)

Place == [comps : Seq(Names), slash : BOOLEAN]

LEMMA StepsStay ==
    ASSUME NEW o \in Place, NEW c \in Components
    PROVE  /\ NormalStep(o, c) \in Place
           /\ NormalStep(o, c).comps = Step(o.comps, c)
<1>. o.comps \in Seq(Names) /\ o.slash \in BOOLEAN /\ Len(o.comps) \in Nat
  BY DEF Place
<1>0. "." # ".."
  OBVIOUS
<1>1. CASE c = "."
  BY <1>1 DEF NormalStep, Step
<1>2. CASE c = ".."
  <2>1. NormalStep(o, c) = IF o.comps = <<>> THEN o
                           ELSE [comps |-> Front(o.comps), slash |-> Len(o.comps) > 1]
    BY <1>0, <1>2 DEF NormalStep
  <2>2. Step(o.comps, c) = SubSeq(o.comps, 1, Len(o.comps) - 1)
    BY <1>0, <1>2 DEF Step
  <2>3. CASE o.comps = <<>>
    <3>1. SubSeq(o.comps, 1, Len(o.comps) - 1) = <<>>
      BY <2>3, SubSeqEmpty
    <3>. QED
      BY <2>1, <2>2, <2>3, <3>1
  <2>4. CASE o.comps # <<>>
    <3>1. Front(o.comps) = SubSeq(o.comps, 1, Len(o.comps) - 1)
      BY DEF Front
    <3>2. \A i \in 1 .. Len(o.comps) - 1 : o.comps[i] \in Names
      OBVIOUS
    <3>3. SubSeq(o.comps, 1, Len(o.comps) - 1) \in Seq(Names)
      BY <3>2, SubSeqProperties
    <3>4. (Len(o.comps) > 1) \in BOOLEAN
      OBVIOUS
    <3>. QED
      BY <2>1, <2>2, <2>4, <3>1, <3>3, <3>4 DEF Place
  <2>. QED
    BY <2>3, <2>4
<1>3. CASE c # "." /\ c # ".."
  <2>1. c \in Names
    BY <1>3 DEF Components
  <2>2. NormalStep(o, c) = [comps |-> Append(o.comps, c), slash |-> FALSE]
    BY <1>3 DEF NormalStep
  <2>3. Step(o.comps, c) = o.comps \o <<c>>
    BY <1>3 DEF Step
  <2>4. Append(o.comps, c) \in Seq(Names) /\ Append(o.comps, c) = o.comps \o <<c>>
    BY <2>1, AppendProperties, AppendIsConcat
  <2>. QED
    BY <2>2, <2>3, <2>4 DEF Place
<1>. QED
  BY <1>1, <1>2, <1>3

\* The values that a normalisation goes through.
IsNormal(f, comps) ==
    /\ f \in [0 .. Len(comps) -> Place] /\ f[0] = Root
    /\ \A k \in 1 .. Len(comps) : f[k] = NormalStep(f[k - 1], comps[k])

LEMMA RootIsPlace == Root \in Place
BY EmptySeq DEF Root, Place

LEMMA NormalizeLoop ==
    ASSUME NEW comps \in Seq(Components)
    PROVE  \E f : IsNormal(f, comps) /\ Normalize(comps) = f[Len(comps)]
<1>1. PICK n \in Nat : n = Len(comps)
  OBVIOUS
<1>2. \A k \in 1 .. n : comps[k] \in Components
  BY <1>1
<1>3. PICK G : G = [z \in Place \X (1 .. n) |-> NormalStep(z[1], comps[z[2]])]
  OBVIOUS
<1>4. G \in [Place \X (1 .. n) -> Place]
  BY <1>2, <1>3, StepsStay
<1>5. \E f : IsLoop(f, Place, Root, n, G)
  BY <1>4, RootIsPlace, Iterates
<1>6. PICK f : f \in [0 .. n -> Place] /\ f[0] = Root /\ \A i \in 1 .. n : f[i] = G[<<f[i - 1], i>>]
  BY <1>5 DEF IsLoop
<1>7. ASSUME NEW k \in 1 .. n PROVE f[k] = NormalStep(f[k - 1], comps[k])
  <2>1. k - 1 \in 0 .. n
    OBVIOUS
  <2>2. f[k - 1] \in Place
    BY <1>6, <2>1
  <2>3. G[<<f[k - 1], k>>] = NormalStep(f[k - 1], comps[k])
    BY <1>3, <2>2
  <2>. QED
    BY <1>6, <2>3
<1>8. IsNormal(f, comps)
  BY <1>1, <1>6, <1>7 DEF IsNormal
<1>. DEFINE Is(g) == g = [k \in 0 .. Len(comps) |-> IF k = 0 THEN Root ELSE NormalStep(g[k - 1], comps[k])]
<1>9. Is(f)
  <2>1. \A k \in 0 .. n : k # 0 => k \in 1 .. n
    OBVIOUS
  <2>2. \A k \in 0 .. n : f[k] = IF k = 0 THEN Root ELSE NormalStep(f[k - 1], comps[k])
    BY <1>6, <1>7, <2>1
  <2>. QED
    BY <1>1, <1>6, <2>2
<1>10. PICK out : out = (CHOOSE g : Is(g))
  OBVIOUS
<1>11. Is(out)
  BY <1>9, <1>10
<1>12. ASSUME NEW k \in 1 .. n, out[k - 1] = f[k - 1] PROVE out[k] = f[k]
  BY <1>1, <1>7, <1>11, <1>12
<1>13. 0 .. n \subseteq {k \in 0 .. n : out[k] = f[k]}
  <2>1. out[0] = f[0]
    BY <1>1, <1>6, <1>11
  <2>2. PICK S : S = {k \in 0 .. n : out[k] = f[k]}
    OBVIOUS
  <2>3. 0 \in S
    BY <2>1, <2>2
  <2>4. \A k \in 1 .. n : k - 1 \in S => k \in S
    BY <1>12, <2>2
  <2>5. 0 .. n \subseteq S
    BY <2>3, <2>4, UpTo
  <2>. QED
    BY <2>2, <2>5
<1>14. Normalize(comps) = out[Len(comps)]
  BY <1>10 DEF Normalize
<1>. QED
  BY <1>1, <1>8, <1>13, <1>14

\* The places that a walk goes through.
IsWalk(f, from, comps) ==
    /\ f \in [0 .. Len(comps) -> Seq(Names)] /\ f[0] = from
    /\ \A k \in 1 .. Len(comps) : f[k] = Step(f[k - 1], comps[k])

LEMMA StepsWalk ==
    ASSUME NEW at \in Seq(Names), NEW c \in Components PROVE Step(at, c) \in Seq(Names)
<1>1. PICK o : o = [comps |-> at, slash |-> FALSE]
  OBVIOUS
<1>2. o \in Place /\ o.comps = at
  BY <1>1 DEF Place
<1>3. NormalStep(o, c).comps \in Seq(Names) /\ NormalStep(o, c).comps = Step(at, c)
  BY <1>2, StepsStay DEF Place
<1>. QED
  BY <1>3

LEMMA WalkLoop ==
    ASSUME NEW comps \in Seq(Components), NEW from \in Seq(Names)
    PROVE  \E f : IsWalk(f, from, comps) /\ Walk(from, comps) = f[Len(comps)]
<1>1. PICK n \in Nat : n = Len(comps)
  OBVIOUS
<1>2. \A k \in 1 .. n : comps[k] \in Components
  BY <1>1
<1>3. PICK G : G = [z \in Seq(Names) \X (1 .. n) |-> Step(z[1], comps[z[2]])]
  OBVIOUS
<1>4. G \in [Seq(Names) \X (1 .. n) -> Seq(Names)]
  BY <1>2, <1>3, StepsWalk
<1>5. \E f : IsLoop(f, Seq(Names), from, n, G)
  BY <1>4, Iterates
<1>6. PICK f : f \in [0 .. n -> Seq(Names)] /\ f[0] = from /\ \A i \in 1 .. n : f[i] = G[<<f[i - 1], i>>]
  BY <1>5 DEF IsLoop
<1>7. ASSUME NEW k \in 1 .. n PROVE f[k] = Step(f[k - 1], comps[k])
  <2>1. k - 1 \in 0 .. n
    OBVIOUS
  <2>2. f[k - 1] \in Seq(Names)
    BY <1>6, <2>1
  <2>3. G[<<f[k - 1], k>>] = Step(f[k - 1], comps[k])
    BY <1>3, <2>2
  <2>. QED
    BY <1>6, <2>3
<1>8. IsWalk(f, from, comps)
  BY <1>1, <1>6, <1>7 DEF IsWalk
<1>. DEFINE Is(g) == g = [k \in 0 .. Len(comps) |-> IF k = 0 THEN from ELSE Step(g[k - 1], comps[k])]
<1>9. Is(f)
  <2>1. \A k \in 0 .. n : k # 0 => k \in 1 .. n
    OBVIOUS
  <2>2. \A k \in 0 .. n : f[k] = IF k = 0 THEN from ELSE Step(f[k - 1], comps[k])
    BY <1>6, <1>7, <2>1
  <2>. QED
    BY <1>1, <1>6, <2>2
<1>10. PICK out : out = (CHOOSE g : Is(g))
  OBVIOUS
<1>11. Is(out)
  BY <1>9, <1>10
<1>12. ASSUME NEW k \in 1 .. n, out[k - 1] = f[k - 1] PROVE out[k] = f[k]
  BY <1>1, <1>7, <1>11, <1>12
<1>13. 0 .. n \subseteq {k \in 0 .. n : out[k] = f[k]}
  <2>1. out[0] = f[0]
    BY <1>1, <1>6, <1>11
  <2>2. PICK S : S = {k \in 0 .. n : out[k] = f[k]}
    OBVIOUS
  <2>3. 0 \in S
    BY <2>1, <2>2
  <2>4. \A k \in 1 .. n : k - 1 \in S => k \in S
    BY <1>12, <2>2
  <2>5. 0 .. n \subseteq S
    BY <2>3, <2>4, UpTo
  <2>. QED
    BY <2>2, <2>5
<1>14. Walk(from, comps) = out[Len(comps)]
  BY <1>10 DEF Walk
<1>. QED
  BY <1>1, <1>8, <1>13, <1>14

\* Where a path leads, and where it was walked, agree.
LEMMA CwdWalks ==
    ASSUME NEW from \in Seq(Names), NEW input \in Seq(Components)
    PROVE  Normalize(from \o input) \in Place
           /\ Normalize(from \o input).comps = Walk(from, input)
<1>. DEFINE all == from \o input
<1>1. PICK m \in Nat, n \in Nat : m = Len(from) /\ n = Len(input)
  OBVIOUS
<1>2. from \in Seq(Components) /\ \A k \in 1 .. m : from[k] \in Names /\ from[k] # "." /\ from[k] # ".."
  <2>1. \A k \in 1 .. m : from[k] \in Names
    BY <1>1
  <2>2. Names \subseteq Components /\ "." \notin Names /\ ".." \notin Names
    BY PathsAssumption DEF Components
  <2>. QED
    BY <2>1, <2>2, SeqMonotonic
<1>3. /\ all \in Seq(Components) /\ Len(all) = m + n
      /\ \A k \in 1 .. m : all[k] = from[k]
      /\ \A k \in 1 .. n : all[m + k] = input[k]
  <2>1. all \in Seq(Components) /\ Len(all) = Len(from) + Len(input)
        /\ \A i \in 1 .. Len(from) + Len(input) :
              all[i] = IF i <= Len(from) THEN from[i] ELSE input[i - Len(from)]
    BY <1>2, ConcatProperties
  <2>2. \A k \in 1 .. m : k \in 1 .. m + n /\ k <= m
    BY <1>1
  <2>3. \A k \in 1 .. n : m + k \in 1 .. m + n /\ ~(m + k <= m) /\ (m + k) - m = k
    BY <1>1
  <2>. QED
    BY <1>1, <2>1, <2>2, <2>3
<1>4. PICK f : IsNormal(f, all) /\ Normalize(all) = f[Len(all)]
  BY <1>3, NormalizeLoop
<1>5. PICK g : IsWalk(g, from, input) /\ Walk(from, input) = g[Len(input)]
  BY WalkLoop
<1>. HIDE DEF all
<1>6. f \in [0 .. m + n -> Place] /\ f[0] = Root /\ \A k \in 1 .. m + n : f[k] = NormalStep(f[k - 1], all[k])
  BY <1>3, <1>4 DEF IsNormal
<1>7. g \in [0 .. n -> Seq(Names)] /\ g[0] = from /\ \A k \in 1 .. n : g[k] = Step(g[k - 1], input[k])
  BY <1>1, <1>5 DEF IsWalk
<1>8. f[m].comps = from
  <2>1. PICK S : S = {k \in 0 .. m : f[k].comps = SubSeq(from, 1, k)}
    OBVIOUS
  <2>2. 0 \in S
    <3>1. SubSeq(from, 1, 0) = <<>>
      BY SubSeqEmpty
    <3>2. f[0].comps = <<>>
      BY <1>6 DEF Root
    <3>3. 0 \in 0 .. m
      OBVIOUS
    <3>4. f[0].comps = SubSeq(from, 1, 0)
      BY ONLY <3>1, <3>2
    <3>. QED
      BY ONLY <2>1, <3>3, <3>4
  <2>3. ASSUME NEW k \in 1 .. m, k - 1 \in S PROVE k \in S
    <3>1. k \in 1 .. m + n /\ k - 1 \in 0 .. m + n /\ k \in 0 .. m
      OBVIOUS
    <3>2. f[k] = NormalStep(f[k - 1], from[k]) /\ f[k - 1] \in Place
      BY <1>3, <1>6, <3>1
    <3>3. f[k].comps = Step(f[k - 1].comps, from[k])
      BY <1>2, <3>2, StepsStay DEF Components
    <3>4. Step(f[k - 1].comps, from[k]) = f[k - 1].comps \o <<from[k]>>
      BY <1>2 DEF Step
    <3>5. f[k - 1].comps = SubSeq(from, 1, k - 1)
      BY <2>1, <2>3
    <3>6. SubSeq(from, 1, k) = SubSeq(from, 1, k - 1) \o <<from[k]>>
      <4>1. 1 \in 1 .. Len(from) /\ k \in 1 .. Len(from)
        BY <1>1
      <4>. QED
        BY <4>1, SubSeqRecursiveSecond
    <3>. QED
      BY <2>1, <3>1, <3>3, <3>4, <3>5, <3>6
  <2>4. 0 .. m \subseteq S
    BY <2>2, <2>3, UpTo
  <2>5. f[m].comps = SubSeq(from, 1, m)
    BY <2>1, <2>4
  <2>. QED
    BY <1>1, <2>5, SubSeqFull
<1>9. f[m + n].comps = g[n]
  <2>1. PICK S : S = {k \in 0 .. n : f[m + k].comps = g[k]}
    OBVIOUS
  <2>2. 0 \in S
    BY <1>7, <1>8, <2>1
  <2>3. ASSUME NEW k \in 1 .. n, k - 1 \in S PROVE k \in S
    <3>1. m + k \in 1 .. m + n /\ (m + k) - 1 = m + (k - 1) /\ m + (k - 1) \in 0 .. m + n /\ k \in 0 .. n
      OBVIOUS
    <3>2. f[m + k] = NormalStep(f[m + (k - 1)], all[m + k]) /\ f[m + (k - 1)] \in Place
      BY <1>6, <3>1
    <3>3. all[m + k] = input[k] /\ input[k] \in Components
      <4>1. all[m + k] = input[k]
        BY Zenon, <1>3
      <4>2. \A i \in 1 .. n : input[i] \in Components
        BY <1>1
      <4>. QED
        BY Zenon, <4>1, <4>2
    <3>4. f[m + k].comps = Step(f[m + (k - 1)].comps, input[k])
      BY SMTT(30), <3>2, <3>3, StepsStay
    <3>5. f[m + (k - 1)].comps = g[k - 1]
      BY <2>1, <2>3
    <3>6. g[k] = Step(g[k - 1], input[k])
      BY <1>7
    <3>. QED
      BY <2>1, <3>1, <3>4, <3>5, <3>6
  <2>4. 0 .. n \subseteq S
    BY <2>2, <2>3, UpTo
  <2>. QED
    BY <2>1, <2>4
<1>10. f[m + n] \in Place
  BY <1>6
<1>11. Normalize(all) = f[m + n] /\ Walk(from, input) = g[n]
  BY <1>1, <1>3, <1>4, <1>5
<1>. QED
  BY <1>9, <1>10, <1>11 DEF all

-----------------------------------------------------------------------------
(* The nearest mount.                                                      *)

MountEntry == [point : Seq(Names), fs : FileSystems, active : BOOLEAN]

\* The active mounts that match a path, and which of two is found rather.
Matching(path) == {i \in DOMAIN mounts : mounts[i].active /\ Matches(mounts[i].point, path)}
Rather(j, i) ==
    \/ LongerText(mounts[j].point, mounts[i].point)
    \/ mounts[j].point = mounts[i].point /\ j < i

LEMMA LongerIsOrder ==
    ASSUME NEW a \in Seq(Names), NEW b \in Seq(Names), NEW c \in Seq(Names)
    PROVE  /\ ~LongerText(a, a)
           /\ LongerText(a, b) /\ LongerText(b, c) => LongerText(a, c)
<1>1. ~LongerText(a, a)
  BY DEF LongerText
<1>2. ASSUME LongerText(a, b), LongerText(b, c) PROVE LongerText(a, c)
  <2>1. Len(a) \in Nat /\ Len(b) \in Nat /\ Len(c) \in Nat
    OBVIOUS
  <2>2. CASE Len(a) > Len(c)
    BY <2>2 DEF LongerText
  <2>3. CASE ~(Len(a) > Len(c))
    <3>1. Len(a) = Len(b) /\ Len(b) = Len(c)
      BY <1>2, <2>1, <2>3 DEF LongerText
    <3>2. <<Last(b), Last(a)>> \in PrefixOf /\ <<Last(c), Last(b)>> \in PrefixOf
      BY <1>2, <2>1, <3>1 DEF LongerText
    <3>3. <<Last(c), Last(a)>> \in PrefixOf
      <4>1. Last(a) \in Names /\ Last(b) \in Names /\ Last(c) \in Names
        BY <3>2, PathsAssumption
      <4>. QED
        BY <3>2, <4>1, PathsAssumption
    <3>4. Last(c) # Last(a)
      BY <3>3, PathsAssumption
    <3>. QED
      BY <3>1, <3>3, <3>4 DEF LongerText
  <2>. QED
    BY <2>2, <2>3
<1>. QED
  BY <1>1, <1>2

LEMMA RatherIsOrder ==
    ASSUME mounts \in Seq(MountEntry),
           NEW i \in DOMAIN mounts, NEW j \in DOMAIN mounts, NEW k \in DOMAIN mounts
    PROVE  ~Rather(i, i) /\ (Rather(k, j) /\ Rather(j, i) => Rather(k, i))
<1>0. /\ i \in Nat /\ j \in Nat /\ k \in Nat
      /\ mounts[i] \in MountEntry /\ mounts[j] \in MountEntry /\ mounts[k] \in MountEntry
  OBVIOUS
<1>1. /\ i \in Nat /\ j \in Nat /\ k \in Nat
      /\ mounts[i].point \in Seq(Names) /\ mounts[j].point \in Seq(Names)
      /\ mounts[k].point \in Seq(Names)
  BY <1>0 DEF MountEntry
<1>. QED
  BY <1>1, LongerIsOrder DEF Rather

\* vfs_find_mount finds one of the mounts that match, if there is any.
LEMMA SomeIsFound ==
    ASSUME mounts \in Seq(MountEntry), NEW path, Matching(path) # {}
    PROVE  FindMount(path) # {}
<1>1. PICK n \in Nat : n = Len(mounts) /\ DOMAIN mounts = 1 .. n
  OBVIOUS
<1>. DEFINE Best(k, i) == /\ i \in Matching(path) /\ i <= k
                          /\ \A j \in Matching(path) : j <= k => ~Rather(j, i)
<1>2. Matching(path) \subseteq 1 .. n
  BY <1>1 DEF Matching
<1>3. PICK S : S = {k \in 0 .. n : (\E i \in Matching(path) : i <= k) => \E i : Best(k, i)}
  OBVIOUS
<1>4. 0 \in S
  BY <1>2, <1>3
<1>5. ASSUME NEW k \in 1 .. n, k - 1 \in S PROVE k \in S
  <2>1. SUFFICES ASSUME \E i \in Matching(path) : i <= k PROVE \E i : Best(k, i)
    BY <1>3
  <2>2. \A i \in Matching(path) : i \in Nat /\ (i <= k <=> i <= k - 1 \/ i = k)
    BY <1>2
  <2>3. CASE k \notin Matching(path)
    <3>1. \E i \in Matching(path) : i <= k - 1
      BY <2>1, <2>2, <2>3
    <3>2. PICK i : Best(k - 1, i)
      BY <1>3, <1>5, <3>1
    <3>3. Best(k, i)
      BY <2>2, <2>3, <3>2
    <3>. QED
      BY <3>3
  <2>4. CASE k \in Matching(path) /\ ~\E i \in Matching(path) : i <= k - 1
    <3>1. \A j \in Matching(path) : j <= k => j = k
      BY <2>2, <2>4
    <3>2. k \in DOMAIN mounts /\ k <= k
      BY <1>1
    <3>3. ~Rather(k, k)
      BY <3>2, RatherIsOrder
    <3>4. Best(k, k)
      BY <2>4, <3>1, <3>2, <3>3
    <3>. QED
      BY <3>4
  <2>5. CASE k \in Matching(path) /\ \E i \in Matching(path) : i <= k - 1
    <3>1. PICK i : Best(k - 1, i)
      BY <1>3, <1>5, <2>5
    <3>2. CASE ~Rather(k, i)
      <4>1. Best(k, i)
        BY <2>2, <3>1, <3>2
      <4>. QED
        BY <4>1
    <3>3. CASE Rather(k, i)
      <4>1. k \in DOMAIN mounts /\ i \in DOMAIN mounts /\ k <= k
        BY <1>1, <1>2, <3>1
      <4>2. ASSUME NEW j \in Matching(path), j <= k PROVE ~Rather(j, k)
        <5>1. j \in DOMAIN mounts
          BY <1>1, <1>2
        <5>2. CASE j = k
          BY <4>1, <5>2, RatherIsOrder
        <5>3. CASE j # k
          <6>1. ~Rather(j, i)
            BY <2>2, <3>1, <4>2, <5>3
          <6>. QED
            BY <3>3, <4>1, <5>1, <6>1, RatherIsOrder
        <5>. QED
          BY <5>2, <5>3
      <4>3. Best(k, k)
        BY <2>5, <4>1, <4>2
      <4>. QED
        BY <4>3
    <3>. QED
      BY <3>2, <3>3
  <2>. QED
    BY <2>3, <2>4, <2>5
<1>6. n \in S
  <2>1. 0 .. n \subseteq S
    BY <1>4, <1>5, UpTo
  <2>. QED
    BY <2>1
<1>7. PICK i : Best(n, i)
  <2>1. \E i \in Matching(path) : i <= n
    BY <1>2
  <2>. QED
    BY <1>3, <1>6, <2>1
<1>8. i \in FindMount(path)
  <2>1. i \in DOMAIN mounts /\ mounts[i].active /\ Matches(mounts[i].point, path)
    BY <1>7 DEF Matching
  <2>2. ASSUME NEW j \in DOMAIN mounts, mounts[j].active, Matches(mounts[j].point, path)
        PROVE  /\ ~LongerText(mounts[j].point, mounts[i].point)
               /\ mounts[j].point = mounts[i].point => i <= j
    <3>1. j \in Matching(path) /\ j <= n /\ j \in Nat /\ i \in Nat
      BY <1>1, <2>1, <2>2 DEF Matching
    <3>2. ~Rather(j, i)
      BY <1>7, <3>1
    <3>. QED
      BY <3>1, <3>2 DEF Rather
  <2>. QED
    BY <2>1, <2>2 DEF FindMount
<1>. QED
  BY <1>8

LEMMA PrefixMatches ==
    ASSUME NEW point \in Seq(Names), NEW path \in Seq(Names)
    PROVE  /\ IsPrefix(point, path) => Matches(point, path)
           /\ Matches(point, path) =>
                IsPrefix(point, path) \/ <<Last(point), path[Len(point)]>> \in PrefixOf
<1>1. PICK n \in Nat : n = Len(point)
  OBVIOUS
<1>2. CASE point = <<>>
  <2>1. SubSeq(point, 1, 0) = <<>> /\ SubSeq(path, 1, 0) = <<>> /\ Len(point) = 0
    BY <1>2, SubSeqEmpty
  <2>2. IsPrefix(point, path)
    BY <2>1 DEF IsPrefix
  <2>. QED
    BY <1>2, <2>2 DEF Matches
<1>3. CASE point # <<>>
  <2>1. n \in 1 .. Len(point) /\ n > 0
    BY <1>1, <1>3
  <2>2. point = SubSeq(point, 1, n)
    BY <1>1, SubSeqFull
  <2>3. SubSeq(point, 1, n) = Front(point) \o <<Last(point)>>
    <3>1. 1 \in 1 .. Len(point)
      BY <1>1, <2>1
    <3>2. SubSeq(point, 1, n) = SubSeq(point, 1, n - 1) \o <<point[n]>>
      BY <2>1, <3>1, SubSeqRecursiveSecond
    <3>. QED
      BY <1>1, <3>2 DEF Front, Last
  <2>4. ASSUME IsPrefix(point, path) PROVE Matches(point, path)
    <3>1. n <= Len(path) /\ SubSeq(point, 1, n) = SubSeq(path, 1, n)
      BY <1>1, <2>4 DEF IsPrefix
    <3>2. /\ \A i \in 1 .. n : point[i] = SubSeq(point, 1, n)[i]
          /\ \A i \in 1 .. n : path[i] = SubSeq(path, 1, n)[i]
      BY <1>1, <3>1
    <3>3. \A i \in 1 .. n : point[i] = path[i]
      BY <3>1, <3>2
    <3>4. Last(point) = path[n]
      BY <1>1, <2>1, <3>3 DEF Last
    <3>5. Front(point) = SubSeq(path, 1, n - 1)
      <4>1. \A i \in 1 .. n - 1 : point[i] \in Names /\ path[i] \in Names /\ i \in 1 .. n
        BY <1>1, <3>1
      <4>2. /\ SubSeq(point, 1, n - 1) \in Seq(Names) /\ SubSeq(path, 1, n - 1) \in Seq(Names)
            /\ Len(SubSeq(point, 1, n - 1)) = Len(SubSeq(path, 1, n - 1))
            /\ Len(SubSeq(point, 1, n - 1)) = n - 1
            /\ \A i \in 1 .. n - 1 : SubSeq(point, 1, n - 1)[i] = point[i]
            /\ \A i \in 1 .. n - 1 : SubSeq(path, 1, n - 1)[i] = path[i]
        BY <2>1, <4>1, SubSeqProperties
      <4>3. SubSeq(point, 1, n - 1) = SubSeq(path, 1, n - 1)
        BY <3>3, <4>1, <4>2, SeqEqual
      <4>. QED
        BY <1>1, <4>3 DEF Front
    <3>. QED
      BY <1>1, <3>1, <3>4, <3>5 DEF Matches
  <2>5. ASSUME Matches(point, path), <<Last(point), path[n]>> \notin PrefixOf
        PROVE  IsPrefix(point, path)
    <3>1. n <= Len(path) /\ Front(point) = SubSeq(path, 1, n - 1) /\ Last(point) = path[n]
      BY <1>1, <1>3, <2>5 DEF Matches
    <3>2. SubSeq(path, 1, n) = SubSeq(path, 1, n - 1) \o <<path[n]>>
      <4>1. 1 \in 1 .. Len(path) /\ n \in 1 .. Len(path)
        BY <2>1, <3>1
      <4>. QED
        BY <4>1, SubSeqRecursiveSecond
    <3>3. SubSeq(point, 1, n) = SubSeq(path, 1, n)
      BY <2>3, <3>1, <3>2
    <3>. QED
      BY <1>1, <3>1, <3>3 DEF IsPrefix
  <2>. QED
    BY <1>1, <2>4, <2>5
<1>. QED
  BY <1>2, <1>3

LEMMA NearestIsFound == ASSUME mounts \in Seq(MountEntry) PROVE MountIsNearest
<1>. SUFFICES ASSUME NEW path \in UNION {[1 .. n -> Names] : n \in 0 .. MaxDepth}
              PROVE  LET around == {i \in DOMAIN mounts :
                                      mounts[i].active /\ IsPrefix(mounts[i].point, path)}
                         found  == FindMount(path)
                     IN  /\ around # {} => found # {}
                         /\ \A f \in found :
                             /\ \A i \in around : Len(mounts[i].point) <= Len(mounts[f].point)
                             /\ f \in around
                                \/ <<Last(mounts[f].point), path[Len(mounts[f].point)]>> \in PrefixOf
  BY DEF MountIsNearest
<1>. DEFINE around == {i \in DOMAIN mounts : mounts[i].active /\ IsPrefix(mounts[i].point, path)}
<1>1. path \in Seq(Names)
  <2>1. PICK n \in 0 .. MaxDepth : path \in [1 .. n -> Names]
    OBVIOUS
  <2>2. n \in Nat
    BY PathsAssumption
  <2>. QED
    BY <2>1, <2>2, SeqDef
<1>2. \A i \in DOMAIN mounts : mounts[i].point \in Seq(Names) /\ Len(mounts[i].point) \in Nat
  <2>1. \A i \in DOMAIN mounts : mounts[i] \in MountEntry
    OBVIOUS
  <2>2. \A e \in MountEntry : e.point \in Seq(Names) /\ Len(e.point) \in Nat
    BY DEF MountEntry
  <2>. QED
    BY <2>1, <2>2
<1>3. around \subseteq Matching(path)
  BY <1>1, <1>2, PrefixMatches DEF Matching
<1>4. around # {} => FindMount(path) # {}
  <2>. HIDE DEF around
  <2>. QED
    BY <1>3, SomeIsFound
<1>5. ASSUME NEW f \in FindMount(path)
      PROVE  /\ \A i \in around : Len(mounts[i].point) <= Len(mounts[f].point)
             /\ f \in around
                \/ <<Last(mounts[f].point), path[Len(mounts[f].point)]>> \in PrefixOf
  <2>1. /\ f \in DOMAIN mounts /\ mounts[f].active /\ Matches(mounts[f].point, path)
        /\ \A j \in Matching(path) : ~LongerText(mounts[j].point, mounts[f].point)
    BY DEF FindMount, Matching
  <2>2. ASSUME NEW i \in around PROVE Len(mounts[i].point) <= Len(mounts[f].point)
    <3>1. i \in DOMAIN mounts /\ i \in Matching(path)
      BY <1>3
    <3>2. ~(Len(mounts[i].point) > Len(mounts[f].point))
      BY <2>1, <3>1 DEF LongerText
    <3>. QED
      BY <1>2, <2>1, <3>1, <3>2
  <2>3. f \in around \/ <<Last(mounts[f].point), path[Len(mounts[f].point)]>> \in PrefixOf
    BY <1>1, <1>2, <2>1, PrefixMatches
  <2>. QED
    BY <2>2, <2>3
<1>. QED
  BY <1>4, <1>5

-----------------------------------------------------------------------------
PathsTyped ==
    /\ mounts \in Seq(MountEntry)
    /\ fd_mount \in [PathFds -> Nat] /\ fd_fs \in [PathFds -> FileSystems \cup {"none"}]
    /\ cwd \in Place
PathsInv == PathsTyped /\ CwdIsWhereWalked /\ FdKeepsFileSystem

LEMMA PathsStart == PathInit => PathsInv
<1>. SUFFICES ASSUME PathInit PROVE PathsInv
  OBVIOUS
<1>1. mounts \in Seq(MountEntry)
  BY EmptySeq DEF PathInit
<1>2. cwd \in Place /\ cwd.comps = <<>>
  BY RootIsPlace DEF PathInit, Root
<1>. QED
  BY <1>1, <1>2 DEF PathInit, PathsInv, PathsTyped, CwdIsWhereWalked, FdKeepsFileSystem

LEMMA MountsStay ==
    ASSUME PathsInv, NEW p \in MountPoints, NEW fs \in FileSystems, Mount(p, fs)
    PROVE  PathsInv'
<1>1. PICK e : e = [point |-> p, fs |-> fs, active |-> TRUE]
  OBVIOUS
<1>2. e \in MountEntry
  BY <1>1, PathsAssumption DEF MountEntry
<1>3. mounts' = Append(mounts, e) /\ mounts \in Seq(MountEntry)
  BY <1>1 DEF Mount, PathsInv, PathsTyped
<1>4. mounts' \in Seq(MountEntry) /\ Len(mounts') = Len(mounts) + 1
      /\ \A i \in 1 .. Len(mounts) : mounts'[i] = mounts[i]
  BY <1>2, <1>3, AppendProperties
<1>5. \A i \in DOMAIN mounts : i \in DOMAIN mounts' /\ mounts'[i] = mounts[i]
  BY <1>3, <1>4
<1>6. UNCHANGED <<fd_mount, fd_fs, cwd, walked>>
  BY DEF Mount
<1>. QED
  BY <1>4, <1>5, <1>6 DEF PathsInv, PathsTyped, CwdIsWhereWalked, FdKeepsFileSystem

LEMMA UmountsStay ==
    ASSUME PathsInv, NEW p \in MountPoints, Umount(p) PROVE PathsInv'
<1>1. PICK i \in FirstActive(p) : mounts' = [mounts EXCEPT ![i].active = FALSE]
  BY DEF Umount
<1>2. i \in DOMAIN mounts /\ mounts \in Seq(MountEntry)
  BY DEF FirstActive, PathsInv, PathsTyped
<1>3. PICK e : e = [mounts[i] EXCEPT !.active = FALSE]
  OBVIOUS
<1>4. e \in MountEntry /\ e.fs = mounts[i].fs
  <2>1. mounts[i] \in MountEntry
    BY <1>2
  <2>. QED
    BY <1>3, <2>1 DEF MountEntry
<1>5. mounts' = [mounts EXCEPT ![i] = e]
  BY <1>1, <1>3
<1>6. mounts' \in Seq(MountEntry) /\ DOMAIN mounts' = DOMAIN mounts
      /\ \A j \in DOMAIN mounts : mounts'[j].fs = mounts[j].fs
  BY <1>2, <1>4, <1>5
<1>7. UNCHANGED <<fd_mount, fd_fs, cwd, walked>>
  BY DEF Umount
<1>. QED
  BY <1>6, <1>7 DEF PathsInv, PathsTyped, CwdIsWhereWalked, FdKeepsFileSystem

LEMMA OpensStay ==
    ASSUME PathsInv, NEW f \in PathFds, NEW absolute \in BOOLEAN, NEW input \in Inputs,
           OpenPath(f, absolute, input)
    PROVE  PathsInv'
<1>1. PICK i \in FindMount(ResolvePath(absolute, input).comps) :
        /\ fd_mount' = [fd_mount EXCEPT ![f] = i]
        /\ fd_fs' = [fd_fs EXCEPT ![f] = mounts[i].fs]
  BY DEF OpenPath
<1>2. mounts \in Seq(MountEntry) /\ i \in DOMAIN mounts
  BY DEF FindMount, PathsInv, PathsTyped
<1>3. i \in Nat /\ mounts[i].fs \in FileSystems
  <2>1. i \in Nat /\ mounts[i] \in MountEntry
    BY <1>2
  <2>. QED
    BY <2>1 DEF MountEntry
<1>4. UNCHANGED <<mounts, cwd, walked>>
  BY DEF OpenPath
<1>. QED
  BY <1>1, <1>2, <1>3, <1>4 DEF PathsInv, PathsTyped, CwdIsWhereWalked, FdKeepsFileSystem

LEMMA ClosesStay == ASSUME PathsInv, NEW f \in PathFds, ClosePath(f) PROVE PathsInv'
BY DEF ClosePath, PathsInv, PathsTyped, CwdIsWhereWalked, FdKeepsFileSystem

LEMMA ChdirsStay ==
    ASSUME PathsInv, NEW absolute \in BOOLEAN, NEW input \in Inputs, Chdir(absolute, input)
    PROVE  PathsInv'
<1>1. input \in Seq(Components)
  <2>1. PICK n \in 0 .. MaxDepth : input \in [1 .. n -> Components]
    BY DEF Inputs
  <2>2. n \in Nat
    BY PathsAssumption
  <2>. QED
    BY <2>1, <2>2, SeqDef
<1>2. cwd.comps \in Seq(Names) /\ walked = cwd.comps
  BY DEF PathsInv, PathsTyped, Place, CwdIsWhereWalked
<1>3. PICK from : from = IF absolute THEN <<>> ELSE walked
  OBVIOUS
<1>4. from \in Seq(Names)
  BY <1>2, <1>3, EmptySeq
<1>5. ResolvePath(absolute, input) = Normalize(from \o input)
  <2>1. <<>> \o input = input
    BY <1>1, ConcatEmptySeq
  <2>. QED
    BY <1>2, <1>3, <2>1 DEF ResolvePath
<1>6. cwd' = Normalize(from \o input) /\ walked' = Walk(from, input)
      /\ UNCHANGED <<mounts, fd_mount, fd_fs>>
  BY <1>3, <1>5 DEF Chdir
<1>7. cwd' \in Place /\ cwd'.comps = walked'
  BY <1>1, <1>4, <1>6, CwdWalks
<1>. QED
  BY <1>6, <1>7 DEF PathsInv, PathsTyped, CwdIsWhereWalked, FdKeepsFileSystem

\* A path leads where its names say, for every set of names and mounts and
\* paths of every depth: the working directory is where walking there leads,
\* a descriptor stays on its file system, and vfs_find_mount finds the nearest
\* mount (resolve_normalize_path, vfs_find_mount, vfs_umount).
THEOREM PathsLead == PathSpec => []PathsRight
<1>1. ASSUME PathsInv, [PathNext]_pathVars PROVE PathsInv'
  <2>1. ASSUME NEW p \in MountPoints, NEW fs \in FileSystems, Mount(p, fs) PROVE PathsInv'
    BY <1>1, <2>1, MountsStay
  <2>2. ASSUME NEW p \in MountPoints, Umount(p) PROVE PathsInv'
    BY <1>1, <2>2, UmountsStay
  <2>3. ASSUME NEW f \in PathFds, NEW absolute \in BOOLEAN, NEW input \in Inputs,
               OpenPath(f, absolute, input)
        PROVE  PathsInv'
    BY <1>1, <2>3, OpensStay
  <2>4. ASSUME NEW f \in PathFds, ClosePath(f) PROVE PathsInv'
    BY <1>1, <2>4, ClosesStay
  <2>5. ASSUME NEW absolute \in BOOLEAN, NEW input \in Inputs, Chdir(absolute, input)
        PROVE  PathsInv'
    BY <1>1, <2>5, ChdirsStay
  <2>6. CASE UNCHANGED pathVars
    BY <1>1, <2>6 DEF pathVars, PathsInv, PathsTyped, CwdIsWhereWalked, FdKeepsFileSystem
  <2>. QED
    BY <1>1, <2>1, <2>2, <2>3, <2>4, <2>5, <2>6 DEF PathNext
<1>2. PathsInv => PathsRight
  BY NearestIsFound DEF PathsInv, PathsTyped, PathsRight
<1>. QED
  BY PathsStart, <1>1, <1>2, PTL DEF PathSpec

-----------------------------------------------------------------------------
(* Syslog.                                                                 *)

-----------------------------------------------------------------------------
(* Division, for places in a ring.                                         *)

LEMMA ModDiffers ==
    ASSUME NEW n \in Nat \ {0}, NEW a \in Int, NEW b \in Int, a < b, b < a + n
    PROVE (a % n) # (b % n)
<1>. SUFFICES ASSUME (a % n) = (b % n) PROVE FALSE
  OBVIOUS
<1>1. PICK p \in Int, q \in Int, r \in 0 .. n - 1 : a = n * p + r /\ b = n * q + r
  BY ZenonT(60), DivMod
<1>2. n * p \in Int /\ n * q \in Int
  OBVIOUS
<1>3. p < q => n * p + n <= n * q
  BY Quot
<1>4. q < p => n * q + n <= n * p
  BY Quot
<1>. QED
  BY <1>1, <1>2, <1>3, <1>4

LEMMA ModAdds ==
    ASSUME NEW n \in Nat \ {0}, NEW a \in Int, NEW i \in Int
    PROVE ((a % n) + i) % n = (a + i) % n
<1>1. PICK p \in Int, r \in 0 .. n - 1 : a = n * p + r /\ r = a % n
  BY DivMod
<1>2. PICK q \in Int, s \in 0 .. n - 1 : r + i = n * q + s /\ s = (r + i) % n
  <2>1. PICK b \in Int : b = r + i
    OBVIOUS
  <2>. QED
    BY <2>1, DivMod
<1>3. a + i = n * (p + q) + s
  <2>1. n * (p + q) = n * p + n * q
    OBVIOUS
  <2>2. n * p \in Int /\ n * q \in Int
    OBVIOUS
  <2>. QED
  BY <1>1, <1>2, <2>1, <2>2
<1>4. (a + i) % n = s
  <2>1. p + q \in Int
    OBVIOUS
  <2>2. (n * (p + q) + s) % n = s
    BY <2>1, ModOf
  <2>. QED
  BY <1>3, <2>2
<1>. QED
  BY <1>1, <1>2, <1>4

LEMMA InLines ==
    ASSUME NEW n \in Nat \ {0}, NEW m \in Nat, NEW k \in 1 .. m * n
    PROVE (k - 1) \div n \in 0 .. m - 1 /\ (k - 1) % n \in 0 .. n - 1
<1>1. PICK q \in Int, r \in 0 .. n - 1 : k - 1 = n * q + r /\ q = (k - 1) \div n /\ r = (k - 1) % n
  BY DivMod
<1>2. n * q \in Int /\ m * n = n * m /\ n * m \in Int /\ k \in Int /\ 1 <= k /\ k <= n * m
  OBVIOUS
<1>3. m \in Int /\ 0 \in Int /\ -1 \in Int
  OBVIOUS
<1>4. ~(q < 0)
  <2>1. ASSUME q < 0 PROVE n * q + n <= n * 0
    BY ONLY <1>3, <2>1, Quot, n \in Nat \ {0}, q \in Int
  <2>. QED
  BY <1>1, <1>2, <2>1
<1>5. ~(m <= q)
  <2>1. ASSUME m < q PROVE n * m + n <= n * q
    BY ONLY <1>3, <2>1, Quot, n \in Nat \ {0}, q \in Int
  <2>. QED
  BY <1>1, <1>2, <2>1
<1>. QED
  BY <1>1, <1>4, <1>5

-----------------------------------------------------------------------------
(* The kernel log.                                                         *)

Entry == [seq : Int, text : Seq(Nat)]
Log   == [ring : [0 .. ENTRIES - 1 -> Entry], head : Nat, count : Nat, seq : Nat]

Flushing == [pc : {"idle", "write", "closed", "synced"}, by : {"none", "sync", "reboot"},
             n : Nat, start : Nat, i : Nat, done : Nat, seq : Int, direct : BOOLEAN,
             snap : Seq(Entry)]

LogTyped ==
    /\ log \in Log /\ written \in Seq(Seq(Nat))
    /\ hookBuf \in Seq(Nat \ {0}) /\ Len(hookBuf) < HOOK_BUF - 1
    /\ typed \in Nat /\ caught \in Seq(Nat)
    /\ flush \in Flushing
    /\ file \in Seq(Nat \X (1 .. LINE)) /\ Len(file) <= DISK_ROOM
    /\ lost \subseteq Nat

\* The ring l holds the latest of the messages w, each at the place of its
\* number; a place that has been used goes on holding a message.
RingRight(l, w) ==
    /\ l.head = l.seq /\ Len(w) = l.seq
    /\ l.count = IF l.seq < ENTRIES THEN l.seq ELSE ENTRIES
    /\ \A s \in 0 .. l.seq - 1 : l.ring[s % ENTRIES].seq \in Nat
    /\ \A k \in 0 .. ENTRIES - 1 :
         l.ring[k].seq \in Nat => l.ring[k].seq % ENTRIES = k
    /\ \A s \in l.seq - l.count .. l.seq - 1 :
         l.ring[s % ENTRIES] = [seq |-> s, text |-> w[s + 1]]

\* In the file, c may come right after d.
Follows(c, d) ==
    \/ c = <<d[1], d[2] + 1>>
    \/ /\ c[2] = 1 /\ c[1] > d[1]
       /\ d[2] = LINE \/ d[1] \in lost
       /\ \A s \in d[1] + 1 .. c[1] - 1 : s \in lost
InOrder == \A k \in 1 .. Len(file) - 1 : Follows(file[k + 1], file[k])

\* A flush that began with message s0, at line flush.i.  While there is room
\* on the disk, at most one message has been logged for each line, and the ring
\* still holds the lines to come.
FlushAt(s0) ==
    /\ flush.n \in 1 .. ENTRIES /\ flush.i \in 0 .. flush.n /\ flush.done \in 0 .. LINE - 1
    /\ flush.start = s0 % ENTRIES /\ s0 + flush.n <= log.seq
    /\ flush.direct \in BOOLEAN
    /\ ~flush.direct => \A j \in 0 .. flush.n - 1 : flush.snap[j + 1].seq = s0 + j
    /\ flush.i < flush.n =>
         flush.seq \in Nat /\ flush.seq % ENTRIES = (s0 + flush.i) % ENTRIES
    /\ flush.i = flush.n => flush.done = 0
    /\ Room > 0 =>
         /\ flush.done = 0 /\ log.seq <= s0 + flush.n + flush.i
         /\ flush.i < flush.n =>
              /\ flush.seq = s0 + flush.i
              /\ file # <<>> => Follows(<<flush.seq, 1>>, file[Len(file)])

\* Each line so far is in the file or lost, and only one message for each.
Recorded == {file[k][1] : k \in 1 .. Len(file)} \cup lost
LinesRecorded(s0) ==
    /\ \A j \in 0 .. flush.i - 1 : \E q \in Recorded : q % ENTRIES = (s0 + j) % ENTRIES
    /\ \A q \in Recorded :
        \/ flush.done > 0 /\ q = flush.seq
        \/ \E j \in 0 .. flush.i - 1 : q % ENTRIES = (s0 + j) % ENTRIES
    /\ \A q1, q2 \in Recorded : q1 % ENTRIES = q2 % ENTRIES => q1 = q2

FlushSound ==
    \/ flush.pc = "idle"
    \/ flush.pc = "closed" /\ file = <<>> /\ lost = {} /\ flush.n = 0
    \/ /\ flush.pc = "write" /\ InOrder
       /\ \E s0 \in 0 .. log.seq : FlushAt(s0) /\ LinesRecorded(s0)
    \/ flush.pc = "synced" /\ InOrder /\ Cardinality(Recorded) = flush.n

LogInv ==
    /\ LogTyped /\ RingRight(log, written)
    /\ PrintedIsCaught /\ ReaderGetsTail /\ FlushSound

LEMMA LogSizes ==
    /\ ENTRIES \in Nat \ {0} /\ LINE \in Nat \ {0} /\ HOOK_BUF \in Nat \ {0, 1}
    /\ DISK_ROOM \in Nat
BY SyslogAssumption

\* A message takes the place of the oldest one.
LEMMA LoggedRight ==
    ASSUME NEW l \in Log, NEW w \in Seq(Seq(Nat)), RingRight(l, w), NEW text \in Seq(Nat)
    PROVE  /\ Logged(l, text) \in Log /\ Append(w, text) \in Seq(Seq(Nat))
           /\ RingRight(Logged(l, text), Append(w, text))
           /\ Logged(l, text).seq = l.seq + 1
<1>1. /\ l.ring \in [0 .. ENTRIES - 1 -> Entry] /\ l.head \in Nat /\ l.count \in Nat
      /\ l.seq \in Nat /\ l.head = l.seq /\ Len(w) = l.seq
      /\ l.count = IF l.seq < ENTRIES THEN l.seq ELSE ENTRIES
  BY DEF Log, RingRight
<1>2. PICK slot \in 0 .. ENTRIES - 1 : slot = l.seq % ENTRIES
  <2>1. l.seq \in Int
    BY <1>1
  <2>2. l.seq % ENTRIES \in 0 .. ENTRIES - 1
    BY ONLY <2>1, LogSizes, DivMod
  <2>. QED
    BY <2>2
<1>3. PICK e \in Entry : e = [seq |-> l.seq, text |-> text]
  <2>1. l.seq \in Int
    BY <1>1
  <2>2. [seq |-> l.seq, text |-> text] \in Entry
    BY <2>1 DEF Entry
  <2>. QED
    BY <2>2
<1>4. PICK m : m = Logged(l, text)
  OBVIOUS
<1>5. PICK r : r = [l.ring EXCEPT ![slot] = e]
  OBVIOUS
<1>6. /\ r \in [0 .. ENTRIES - 1 -> Entry] /\ r[slot] = e
      /\ \A k \in 0 .. ENTRIES - 1 : k # slot => r[k] = l.ring[k]
  BY <1>1, <1>2, <1>3, <1>5
<1>7. m = [ring |-> r, head |-> l.seq + 1, seq |-> l.seq + 1,
           count |-> IF l.count < ENTRIES THEN l.count + 1 ELSE l.count]
  BY <1>1, <1>2, <1>3, <1>4, <1>5 DEF Logged
<1>8. /\ m.ring = r /\ m.head = l.seq + 1 /\ m.seq = l.seq + 1 /\ m.count \in Nat
      /\ m.count = IF m.seq < ENTRIES THEN m.seq ELSE ENTRIES
      /\ m.count <= l.count + 1 /\ m.count <= ENTRIES
  BY SMTT(30), <1>1, <1>7, LogSizes
<1>9. m \in Log
  <2>1. m.head \in Nat /\ m.seq \in Nat
    BY <1>1, <1>8
  <2>. QED
    BY <1>6, <1>7, <1>8, <2>1 DEF Log
<1>10. PICK v : v = Append(w, text)
  OBVIOUS
<1>11. /\ v \in Seq(Seq(Nat)) /\ Len(v) = l.seq + 1 /\ v[l.seq + 1] = text
       /\ \A i \in 1 .. l.seq : v[i] = w[i]
  <2>1. /\ v \in Seq(Seq(Nat)) /\ Len(v) = Len(w) + 1 /\ v[Len(w) + 1] = text
        /\ \A i \in 1 .. Len(w) : v[i] = w[i]
    BY ONLY <1>10, AppendProperties, w \in Seq(Seq(Nat)), text \in Seq(Nat)
  <2>. QED
    BY <1>1, <2>1
<1>12. ASSUME NEW s \in 0 .. m.seq - 1 PROVE m.ring[s % ENTRIES].seq \in Nat
  <2>1. s \in Nat /\ s % ENTRIES \in 0 .. ENTRIES - 1
    BY <1>1, <1>8, LogSizes, DivMod
  <2>2. CASE s % ENTRIES = slot
    BY <1>1, <1>3, <1>6, <1>8, <2>2
  <2>3. CASE s % ENTRIES # slot
    <3>1. s \in 0 .. l.seq - 1
      BY <1>1, <1>2, <1>8, <2>1, <2>3
    <3>2. l.ring[s % ENTRIES].seq \in Nat
      BY <3>1 DEF RingRight
    <3>. QED
      BY <1>6, <1>8, <2>1, <2>3, <3>2
  <2>. QED
    BY <2>2, <2>3
<1>13. ASSUME NEW k \in 0 .. ENTRIES - 1, m.ring[k].seq \in Nat
       PROVE  m.ring[k].seq % ENTRIES = k
  <2>1. CASE k = slot
    BY <1>2, <1>3, <1>6, <1>8, <2>1
  <2>2. CASE k # slot
    BY <1>6, <1>8, <1>13, <2>2 DEF RingRight
  <2>. QED
    BY <2>1, <2>2
<1>14. ASSUME NEW s \in m.seq - m.count .. m.seq - 1
       PROVE  m.ring[s % ENTRIES] = [seq |-> s, text |-> v[s + 1]]
  <2>1. s \in Int /\ s >= 0 /\ s <= l.seq /\ s >= l.seq - l.count /\ l.seq < s + ENTRIES
    BY <1>1, <1>8, LogSizes
  <2>2. CASE s = l.seq
    BY <1>2, <1>3, <1>6, <1>8, <1>11, <2>2
  <2>3. CASE s # l.seq
    <3>1. s < l.seq /\ s \in l.seq - l.count .. l.seq - 1 /\ s + 1 \in 1 .. l.seq
      BY SMTT(30), <1>1, <2>1, <2>3
    <3>2. s % ENTRIES \in 0 .. ENTRIES - 1 /\ (s % ENTRIES) # (l.seq % ENTRIES)
      <4>1. s \in Int /\ l.seq \in Int /\ s < l.seq /\ l.seq < s + ENTRIES
        BY <1>1, <2>1, <3>1
      <4>. QED
        BY ONLY <4>1, LogSizes, DivMod, ModDiffers
    <3>3. l.ring[s % ENTRIES] = [seq |-> s, text |-> w[s + 1]]
      BY <3>1 DEF RingRight
    <3>. QED
      BY <1>2, <1>6, <1>8, <1>11, <3>1, <3>2, <3>3
  <2>. QED
    BY <2>2, <2>3
<1>15. RingRight(m, v)
  BY <1>8, <1>11, <1>12, <1>13, <1>14 DEF RingRight
<1>. QED
  BY <1>4, <1>8, <1>9, <1>10, <1>11, <1>15

LEMMA LogStart == LogInit => LogInv
<1>. SUFFICES ASSUME LogInit PROVE LogInv
  OBVIOUS
<1>1. NoEntry \in Entry
  BY EmptySeq DEF NoEntry, Entry
<1>2. log = [ring |-> [k \in 0 .. ENTRIES - 1 |-> NoEntry], head |-> 0, count |-> 0, seq |-> 0]
  BY DEF LogInit
<1>3. log \in Log
  BY <1>1, <1>2 DEF Log
<1>4. <<>> \in Seq(Entry) /\ <<>> \in Seq(Seq(Nat)) /\ <<>> \in Seq(Nat \ {0}) /\ <<>> \in Seq(Nat)
      /\ <<>> \in Seq(Nat \X (1 .. LINE)) /\ Len(<<>>) = 0
  BY EmptySeq
<1>5. flush \in Flushing /\ flush.pc = "idle"
  BY <1>4 DEF LogInit, NoFlush, Flushing
<1>6. LogTyped
  <2>1. 0 < HOOK_BUF - 1 /\ 0 <= DISK_ROOM
    BY LogSizes
  <2>. QED
    BY <1>3, <1>4, <1>5, <2>1 DEF LogInit, LogTyped
<1>7. RingRight(log, written)
  <2>1. log.head = 0 /\ log.count = 0 /\ log.seq = 0 /\ log.ring = [k \in 0 .. ENTRIES - 1 |-> NoEntry]
    BY <1>2
  <2>2. 0 < ENTRIES /\ Len(written) = 0
    BY <1>4, LogSizes DEF LogInit
  <2>3. \A k \in 0 .. ENTRIES - 1 : log.ring[k].seq \notin Nat
    BY <2>1 DEF NoEntry
  <2>. QED
    BY <2>1, <2>2, <2>3 DEF RingRight
<1>8. PrintedIsCaught
  <2>1. caught \o hookBuf = <<>>
    BY <1>4, ConcatEmptySeq DEF LogInit
  <2>2. [k \in 1 .. 0 |-> k] = <<>>
    OBVIOUS
  <2>. QED
    BY <2>1, <2>2 DEF LogInit, PrintedIsCaught
<1>9. ReaderGetsTail
  <2>1. reader.seq = 0 /\ reader.size = 1 /\ reader.text = <<>>
    BY DEF LogInit
  <2>2. PICK n : n = IF reader.seq < ENTRIES THEN reader.seq ELSE ENTRIES
    OBVIOUS
  <2>3. n = 0
    BY <2>1, <2>2, LogSizes
  <2>4. n * LINE = 0
    BY <2>3, LogSizes
  <2>5. PICK all : all = [k \in 1 .. n * LINE |-> <<reader.seq - n + ((k - 1) \div LINE), ((k - 1) % LINE) + 1>>]
    OBVIOUS
  <2>6. all = <<>>
    BY <2>4, <2>5
  <2>7. SubSeq(all, 1, 0) = <<>>
    BY SubSeqEmpty
  <2>8. reader.text = SubSeq(all, 1, IF Len(all) < reader.size THEN Len(all) ELSE reader.size - 1)
    BY <1>4, <2>1, <2>6, <2>7
  <2>. QED
    BY <2>2, <2>5, <2>8 DEF ReaderGetsTail
<1>. QED
  BY <1>5, <1>6, <1>7, <1>8, <1>9 DEF LogInv, FlushSound

-----------------------------------------------------------------------------
(* What is printed.                                                        *)

LEMMA Strips ==
    ASSUME NEW buf \in Seq(Nat), NEW c \in Nat
    PROVE  Text(Append(buf, c)) = IF c = Newline THEN buf ELSE Append(buf, c)
<1>1. PICK b : b = Append(buf, c)
  OBVIOUS
<1>2. /\ b \in Seq(Nat) /\ Len(b) = Len(buf) + 1 /\ b[Len(b)] = c
      /\ \A i \in 1 .. Len(buf) : b[i] = buf[i]
  BY <1>1, AppendProperties
<1>3. SubSeq(b, 1, Len(b) - 1) = buf
  <2>1. Len(b) - 1 = Len(buf) /\ Len(buf) \in Nat
    BY <1>2
  <2>2. /\ SubSeq(b, 1, Len(buf)) \in Seq(Nat) /\ Len(SubSeq(b, 1, Len(buf))) = Len(buf)
        /\ \A i \in 1 .. Len(buf) : SubSeq(b, 1, Len(buf))[i] = b[i]
    BY <1>2, <2>1
  <2>. QED
    BY <1>2, <2>1, <2>2, SeqEqual
<1>. QED
  BY <1>1, <1>2, <1>3 DEF Text

\* One more character in the buffer: what was printed is numbered.
Numbered(t) == [k \in 1 .. t |-> k]

LEMMA OneMore ==
    ASSUME NEW c \in Seq(Nat), NEW h \in Seq(Nat), NEW t \in Nat,
           c \o h = Numbered(t)
    PROVE  c \o Append(h, t + 1) = Numbered(t + 1)
<1>1. PICK u : u = Append(h, t + 1)
  OBVIOUS
<1>2. /\ u \in Seq(Nat) /\ Len(u) = Len(h) + 1 /\ u[Len(h) + 1] = t + 1
      /\ \A i \in 1 .. Len(h) : u[i] = h[i]
  BY <1>1, AppendProperties
<1>3. PICK a \in Nat, b \in Nat : a = Len(c) /\ b = Len(h)
  OBVIOUS
<1>4. /\ c \o h \in Seq(Nat) /\ Len(c \o h) = a + b
      /\ \A i \in 1 .. a + b : (c \o h)[i] = IF i <= a THEN c[i] ELSE h[i - a]
  BY ZenonT(60), <1>3, ConcatProperties
<1>5. /\ c \o u \in Seq(Nat) /\ Len(c \o u) = a + (b + 1)
      /\ \A i \in 1 .. a + (b + 1) : (c \o u)[i] = IF i <= a THEN c[i] ELSE u[i - a]
  <2>1. Len(u) = b + 1 /\ u \in Seq(Nat)
    BY <1>2, <1>3
  <2>2. /\ c \o u \in Seq(Nat) /\ Len(c \o u) = Len(c) + Len(u)
        /\ \A i \in 1 .. Len(c) + Len(u) :
             (c \o u)[i] = IF i <= Len(c) THEN c[i] ELSE u[i - Len(c)]
    BY ONLY <2>1, c \in Seq(Nat), ConcatProperties
  <2>. QED
    BY <1>3, <2>1, <2>2
<1>6. a + b = t
  <2>1. PICK n : n = Numbered(t)
    OBVIOUS
  <2>2. n \in Seq(Nat) /\ Len(n) = t
    BY <2>1 DEF Numbered
  <2>. QED
    BY <1>4, <2>1, <2>2
<1>7. ASSUME NEW i \in 1 .. t + 1 PROVE (c \o u)[i] = i
  <2>1. i \in 1 .. a + (b + 1)
    BY <1>6
  <2>2. CASE i <= t
    <3>1. i \in 1 .. t /\ i \in 1 .. a + b
      BY <1>6, <2>2
    <3>2. (c \o h)[i] = i
      BY <3>1 DEF Numbered
    <3>3. ~(i <= a) => i - a \in 1 .. Len(h)
      BY <1>3, <3>1
    <3>. QED
      BY <1>2, <1>4, <1>5, <2>1, <3>1, <3>2, <3>3
  <2>3. CASE ~(i <= t)
    <3>1. ~(i <= a) /\ i - a = Len(h) + 1 /\ i = t + 1
      BY SMTT(30), <1>3, <1>6, <2>3
    <3>. QED
      BY <1>2, <1>5, <2>1, <3>1
  <2>. QED
    BY <2>2, <2>3
<1>8. PICK n : n = Numbered(t + 1)
  OBVIOUS
<1>9. n \in Seq(Nat) /\ Len(n) = t + 1 /\ \A i \in 1 .. t + 1 : n[i] = i
  BY <1>8 DEF Numbered
<1>10. Len(c \o u) = t + 1
  BY <1>5, <1>6
<1>11. c \o u = n
  BY <1>5, <1>7, <1>9, <1>10, SeqEqual
<1>. QED
  BY <1>1, <1>8, <1>11

\* Nothing happens to a flush while it has not begun.
LEMMA FlushIdle ==
    ASSUME flush.pc = "idle", UNCHANGED flush PROVE FlushSound'
BY DEF FlushSound

LEMMA PrintsStay ==
    ASSUME LogInv, NEW newline \in BOOLEAN, KPrintf(newline) PROVE LogInv'
<1>1. LogTyped /\ RingRight(log, written) /\ PrintedIsCaught /\ ReaderGetsTail /\ flush.pc = "idle"
  BY DEF LogInv, KPrintf, LogIdle
<1>2. PICK c \in Nat : c = IF newline THEN Newline ELSE typed + 1
  BY <1>1 DEF LogTyped, Newline
<1>3. PICK buf : buf = Append(hookBuf, c)
  OBVIOUS
<1>4. /\ hookBuf \in Seq(Nat \ {0}) /\ hookBuf \in Seq(Nat) /\ Len(hookBuf) \in Nat
      /\ Len(hookBuf) < HOOK_BUF - 1 /\ typed \in Nat /\ caught \in Seq(Nat)
  <2>1. Nat \ {0} \subseteq Nat
    OBVIOUS
  <2>2. hookBuf \in Seq(Nat \ {0})
    BY <1>1 DEF LogTyped
  <2>3. hookBuf \in Seq(Nat)
    BY ONLY <2>1, <2>2, SeqMonotonic
  <2>. QED
    BY <1>1, <2>2, <2>3 DEF LogTyped
<1>5. Collected(hookBuf, c) = buf
  BY <1>3, <1>4 DEF Collected
<1>6. /\ buf \in Seq(Nat) /\ Len(buf) = Len(hookBuf) + 1 /\ buf # <<>>
  <2>1. hookBuf \in Seq(Nat) /\ c \in Nat
    BY <1>4
  <2>. QED
    BY ONLY <1>3, <2>1, AppendProperties
<1>7. Text(buf) = IF newline THEN hookBuf ELSE buf
  <2>1. Text(buf) = IF c = Newline THEN hookBuf ELSE buf
    BY <1>3, <1>4, Strips
  <2>2. c = Newline <=> newline
    BY <1>2, <1>4 DEF Newline
  <2>. QED
    BY <2>1, <2>2
<1>8. UNCHANGED <<reader, file, flush, power, errors, lost>>
  BY DEF KPrintf
<1>9. typed' \in Nat /\ typed' = IF newline THEN typed ELSE typed + 1
  BY <1>4 DEF KPrintf
<1>10. caught \o hookBuf = Numbered(typed)
  BY <1>1 DEF PrintedIsCaught, Numbered
<1>11. ~newline => caught \o buf = Numbered(typed')
  <2>1. ASSUME ~newline PROVE caught \o Append(hookBuf, typed + 1) = Numbered(typed + 1)
    <3>1. caught \in Seq(Nat) /\ hookBuf \in Seq(Nat) /\ typed \in Nat
      BY <1>4
    <3>. QED
      BY ONLY <3>1, <1>10, OneMore
  <2>. QED
    BY <1>2, <1>3, <1>9, <2>1
<1>12. CASE newline \/ Full(buf)
  <2>1. /\ hookBuf' = <<>>
        /\ IF Text(buf) = <<>> THEN UNCHANGED <<log, caught, written>>
           ELSE /\ log' = Logged(log, Text(buf))
                /\ caught' = caught \o Text(buf)
                /\ written' = Append(written, Text(buf))
    BY <1>2, <1>5, <1>12 DEF KPrintf
  <2>2. Text(buf) \in Seq(Nat) /\ caught \o Text(buf) \in Seq(Nat)
        /\ caught \o Text(buf) = Numbered(typed')
    <3>1. Text(buf) \in Seq(Nat)
      BY <1>4, <1>6, <1>7
    <3>2. caught \o Text(buf) \in Seq(Nat)
      BY <1>4, <3>1, ConcatProperties
    <3>. QED
      BY <1>7, <1>9, <1>10, <1>11, <3>1, <3>2
  <2>3. caught' \in Seq(Nat) /\ caught' = Numbered(typed')
    <3>1. CASE Text(buf) = <<>>
      <4>1. caught' = caught /\ caught \o Text(buf) = caught
        BY <1>4, <2>1, <3>1, ConcatEmptySeq
      <4>. QED
        BY <1>4, <2>2, <4>1
    <3>2. CASE Text(buf) # <<>>
      BY <2>1, <2>2, <3>2
    <3>. QED
      BY <3>1, <3>2
  <2>4. log' \in Log /\ written' \in Seq(Seq(Nat)) /\ RingRight(log', written')
    <3>1. log \in Log /\ written \in Seq(Seq(Nat)) /\ RingRight(log, written)
      BY <1>1 DEF LogTyped
    <3>2. CASE Text(buf) = <<>>
      BY <2>1, <3>1, <3>2
    <3>3. CASE Text(buf) # <<>>
      <4>1. log' = Logged(log, Text(buf)) /\ written' = Append(written, Text(buf))
        BY <2>1, <3>3
      <4>. QED
        BY ONLY <2>2, <3>1, <4>1, LoggedRight
    <3>. QED
      BY <3>2, <3>3
  <2>5. caught' \o hookBuf' = caught'
    BY <2>1, <2>3, ConcatEmptySeq
  <2>6. hookBuf' \in Seq(Nat \ {0}) /\ Len(hookBuf') < HOOK_BUF - 1
    BY <2>1, LogSizes, EmptySeq
  <2>. QED
    BY <1>1, <1>8, <1>9, <2>3, <2>4, <2>5, <2>6, FlushIdle
       DEF LogInv, LogTyped, PrintedIsCaught, ReaderGetsTail, Numbered
<1>13. CASE ~(newline \/ Full(buf))
  <2>1. hookBuf' = buf /\ UNCHANGED <<log, caught, written>>
    BY <1>2, <1>5, <1>13 DEF KPrintf
  <2>2. buf \in Seq(Nat \ {0}) /\ Len(buf) < HOOK_BUF - 1
    <3>1. c \in Nat \ {0}
      BY <1>2, <1>4, <1>13
    <3>2. Append(hookBuf, c) \in Seq(Nat \ {0})
      BY ONLY <1>4, <3>1, AppendProperties
    <3>3. Len(buf) < HOOK_BUF - 1
      BY <1>4, <1>6, <1>13, LogSizes DEF Full
    <3>. QED
      BY <1>3, <3>2, <3>3
  <2>. QED
    BY <1>1, <1>8, <1>9, <1>11, <1>13, <2>1, <2>2, FlushIdle
       DEF LogInv, LogTyped, PrintedIsCaught, ReaderGetsTail, Numbered
<1>. QED
  BY <1>12, <1>13

LEMMA WritesStay == ASSUME LogInv, SyslogWrite PROVE LogInv'
<1>1. <<>> \in Seq(Nat)
  BY EmptySeq
<1>2. /\ log' \in Log /\ written' \in Seq(Seq(Nat)) /\ RingRight(log', written')
  BY <1>1, LoggedRight DEF SyslogWrite, LogInv, LogTyped
<1>3. flush.pc = "idle" /\ UNCHANGED <<hookBuf, typed, reader, file, flush, power, errors, caught, lost>>
  BY DEF SyslogWrite, LogIdle
<1>. QED
  BY <1>2, <1>3, FlushIdle DEF LogInv, LogTyped, PrintedIsCaught, ReaderGetsTail

-----------------------------------------------------------------------------
(* What is read.                                                           *)

\* The messages in the ring, oldest first.
LEMMA EntriesRight ==
    ASSUME LogTyped, RingRight(log, written)
    PROVE  /\ Entries(log) \in Seq(Entry) /\ Len(Entries(log)) = log.count
           /\ log.count \in 0 .. ENTRIES /\ log.count <= log.seq
           /\ \A i \in 1 .. log.count : Entries(log)[i].seq = log.seq - log.count + i - 1
<1>1. /\ log.ring \in [0 .. ENTRIES - 1 -> Entry] /\ log.seq \in Nat /\ log.head = log.seq
      /\ log.count \in 0 .. ENTRIES /\ log.count <= log.seq
  BY LogSizes DEF LogTyped, Log, RingRight
<1>2. Entries(log) = [i \in 1 .. log.count |-> Latest(log, log.count, i - 1)]
  BY DEF Entries
<1>3. ASSUME NEW i \in 1 .. log.count
      PROVE  /\ Latest(log, log.count, i - 1) \in Entry
             /\ Latest(log, log.count, i - 1).seq = log.seq - log.count + i - 1
  <2>1. PICK s \in Int : s = log.seq - log.count + i - 1
    BY <1>1
  <2>2. s \in log.seq - log.count .. log.seq - 1 /\ log.head - log.count + (i - 1) = s
    BY <1>1, <2>1
  <2>3. s % ENTRIES \in 0 .. ENTRIES - 1
    BY ONLY <2>1, LogSizes, DivMod
  <2>4. log.ring[s % ENTRIES].seq = s
    <3>1. log.ring[s % ENTRIES] = [seq |-> s, text |-> written[s + 1]]
      BY <2>2 DEF RingRight
    <3>. QED
      BY <3>1
  <2>5. Latest(log, log.count, i - 1) = log.ring[s % ENTRIES]
    BY <2>2 DEF Latest
  <2>. QED
    BY <1>1, <2>1, <2>3, <2>4, <2>5
<1>4. Entries(log) \in [1 .. log.count -> Entry]
  BY <1>2, <1>3
<1>5. Entries(log) \in Seq(Entry) /\ Len(Entries(log)) = log.count
  <2>1. log.count \in Nat
    BY <1>1, LogSizes
  <2>. QED
    BY <1>4, <2>1, IsASeq
<1>. QED
  BY <1>1, <1>2, <1>3, <1>5

LEMMA ReadsStay == ASSUME LogInv, NEW size \in BufSizes, SyslogRead(size) PROVE LogInv'
<1>1. LogTyped /\ RingRight(log, written) /\ PrintedIsCaught /\ flush.pc = "idle"
  BY DEF LogInv, SyslogRead, LogIdle
<1>2. PICK es : es = Entries(log)
  OBVIOUS
<1>3. PICK n \in Nat : n = log.count
  BY <1>1 DEF LogTyped, Log
<1>4. /\ Len(es) = n /\ log.seq \in Nat /\ n = IF log.seq < ENTRIES THEN log.seq ELSE ENTRIES
      /\ \A i \in 1 .. n : es[i].seq = log.seq - n + i - 1
  BY <1>1, <1>2, <1>3, EntriesRight DEF LogTyped, Log, RingRight
<1>5. PICK all : all = [k \in 1 .. n * LINE |-> <<log.seq - n + ((k - 1) \div LINE), ((k - 1) % LINE) + 1>>]
  OBVIOUS
<1>6. Rendered(es) = all
  <2>1. Rendered(es) = [k \in 1 .. n * LINE |-> LineOf(es[(k - 1) \div LINE + 1])[((k - 1) % LINE) + 1]]
    BY <1>4 DEF Rendered
  <2>2. ASSUME NEW k \in 1 .. n * LINE
        PROVE  LineOf(es[(k - 1) \div LINE + 1])[((k - 1) % LINE) + 1]
                 = <<log.seq - n + ((k - 1) \div LINE), ((k - 1) % LINE) + 1>>
    <3>1. (k - 1) \div LINE \in 0 .. n - 1 /\ (k - 1) % LINE \in 0 .. LINE - 1
      BY ONLY n \in Nat, k \in 1 .. n * LINE, LogSizes, InLines
    <3>2. PICK q \in 0 .. n - 1, p \in 0 .. LINE - 1 : q = (k - 1) \div LINE /\ p = (k - 1) % LINE
      BY <3>1
    <3>3. q + 1 \in 1 .. n /\ p + 1 \in 1 .. LINE
      BY LogSizes
    <3>4. es[q + 1].seq = log.seq - n + q
      BY <1>4, <3>3
    <3>5. LineOf(es[q + 1])[p + 1] = <<es[q + 1].seq, p + 1>>
      BY <3>3 DEF LineOf
    <3>. QED
      BY <3>2, <3>4, <3>5
  <2>. QED
    BY <1>5, <2>1, <2>2
<1>7. reader' = [size |-> size, seq |-> log.seq,
                 text |-> SubSeq(all, 1, IF Len(all) < size THEN Len(all) ELSE size - 1)]
  BY <1>2, <1>6 DEF SyslogRead
<1>8. reader'.size = size /\ reader'.seq = log.seq
      /\ reader'.text = SubSeq(all, 1, IF Len(all) < size THEN Len(all) ELSE size - 1)
  BY <1>7
<1>9. ReaderGetsTail'
  BY <1>4, <1>5, <1>8 DEF ReaderGetsTail
<1>10. UNCHANGED <<log, hookBuf, typed, file, flush, power, errors, caught, written, lost>>
  BY DEF SyslogRead
<1>. QED
  BY <1>1, <1>9, <1>10, FlushIdle DEF LogInv, LogTyped, PrintedIsCaught

-----------------------------------------------------------------------------
(* What is flushed.                                                        *)

LEMMA FlushBegins ==
    ASSUME LogInv, NEW by \in {"sync", "reboot"}, FlushStart(by) PROVE LogInv'
<1>1. LogTyped /\ RingRight(log, written) /\ PrintedIsCaught /\ ReaderGetsTail
  BY DEF LogInv
<1>2. file' = <<>> /\ lost' = {}
      /\ UNCHANGED <<log, hookBuf, typed, reader, power, errors, caught, written>>
  BY DEF FlushStart
<1>3. /\ log.seq \in Nat /\ log.head = log.seq /\ log.count \in 0 .. ENTRIES /\ log.count <= log.seq
      /\ Entries(log) \in Seq(Entry)
      /\ \A i \in 1 .. log.count : Entries(log)[i].seq = log.seq - log.count + i - 1
  BY <1>1, EntriesRight DEF LogTyped, Log, RingRight
<1>4. flush' \in Flushing /\ FlushSound'
  <2>1. CASE log.count = 0
    <3>1. flush' = [NoFlush EXCEPT !.pc = "closed", !.by = by]
      BY <2>1 DEF FlushStart
    <3>2. NoFlush \in Flushing /\ NoFlush.n = 0
      BY EmptySeq DEF NoFlush, Flushing
    <3>3. flush' \in Flushing /\ flush'.pc = "closed" /\ flush'.n = 0
      BY <3>1, <3>2 DEF Flushing
    <3>. QED
      BY <1>2, <3>3 DEF FlushSound
  <2>2. CASE log.count # 0
    <3>1. PICK direct \in BOOLEAN :
            flush' = Begun([pc |-> "write", by |-> by, n |-> log.count, i |-> 0, done |-> 0,
                            start |-> (log.head - log.count) % ENTRIES, seq |-> 0,
                            direct |-> direct,
                            snap |-> IF direct THEN <<>> ELSE Entries(log)], log)
      BY <2>2 DEF FlushStart
    <3>2. PICK s0 \in 0 .. log.seq : s0 = log.seq - log.count
      BY <1>3
    <3>3. PICK st \in 0 .. ENTRIES - 1 : st = s0 % ENTRIES
      <4>1. s0 \in Int
        OBVIOUS
      <4>2. s0 % ENTRIES \in 0 .. ENTRIES - 1
        BY ONLY <4>1, LogSizes, DivMod
      <4>. QED
        BY <4>2
    <3>4. (st + 0) % ENTRIES = st
      <4>1. s0 \in Int /\ 0 \in Int /\ s0 + 0 = s0
        OBVIOUS
      <4>. QED
        BY ONLY <3>3, <4>1, LogSizes, ModAdds
    <3>5. PICK sn \in Seq(Entry) : sn = IF direct THEN <<>> ELSE Entries(log)
      BY <1>3, EmptySeq
    <3>6. PICK f : f = [pc |-> "write", by |-> by, n |-> log.count, i |-> 0, done |-> 0,
                        start |-> st, seq |-> 0, direct |-> direct, snap |-> sn]
      OBVIOUS
    <3>7. flush' = Begun(f, log)
      BY <1>3, <3>1, <3>2, <3>3, <3>5, <3>6
    <3>8. log.ring[st].seq = s0
      <4>1. s0 \in log.seq - log.count .. log.seq - 1
        BY <1>3, <2>2, <3>2
      <4>2. log.ring[st] = [seq |-> s0, text |-> written[s0 + 1]]
        BY <1>1, <3>3, <4>1 DEF RingRight
      <4>. QED
        BY <4>2
    <3>9. ~direct => \A j \in 0 .. log.count - 1 : sn[j + 1].seq = s0 + j
      <4>1. \A j \in 0 .. log.count - 1 :
              j + 1 \in 1 .. log.count /\ log.seq - log.count + (j + 1) - 1 = s0 + j
        BY <1>3, <3>2
      <4>. QED
        BY <1>3, <3>5, <4>1
    <3>10. flush' = [f EXCEPT !.seq = s0]
      <4>1. f.i # f.n /\ f.direct = direct /\ (f.start + f.i) % ENTRIES = st /\ f.snap[f.i + 1] = sn[0 + 1]
        BY <2>2, <3>4, <3>6
      <4>2. 0 \in 0 .. log.count - 1 /\ s0 + 0 = s0
        BY <1>3, <2>2
      <4>. QED
        BY <3>7, <3>8, <3>9, <4>1, <4>2 DEF Begun
    <3>11. flush' = [pc |-> "write", by |-> by, n |-> log.count, i |-> 0, done |-> 0,
                     start |-> st, seq |-> s0, direct |-> direct, snap |-> sn]
      BY <3>6, <3>10
    <3>12. flush' \in Flushing
      <4>1. log.count \in Nat /\ st \in Nat /\ s0 \in Int /\ 0 \in Nat
        BY <1>3, LogSizes
      <4>. QED
        BY <3>11, <4>1 DEF Flushing
    <3>13. InOrder'
      BY <1>2 DEF InOrder
    <3>14. FlushAt(s0)'
      <4>1. /\ flush'.n = log.count /\ flush'.i = 0 /\ flush'.done = 0 /\ flush'.start = st
            /\ flush'.seq = s0 /\ flush'.direct = direct /\ flush'.snap = sn
        BY <3>11
      <4>2. /\ log.count \in 1 .. ENTRIES /\ 0 \in 0 .. log.count /\ 0 \in 0 .. LINE - 1
            /\ s0 + log.count <= log.seq /\ log.seq <= s0 + log.count + 0 /\ s0 + 0 = s0
            /\ s0 \in Nat /\ log' = log
        BY <1>2, <1>3, <2>2, <3>2, LogSizes
      <4>. QED
        BY <1>2, <3>3, <3>9, <4>1, <4>2 DEF FlushAt
    <3>15. LinesRecorded(s0)'
      <4>1. Recorded' = {}
        BY <1>2 DEF Recorded
      <4>2. flush'.i = 0 /\ 0 .. 0 - 1 = {}
        BY <3>11
      <4>. QED
        BY <4>1, <4>2 DEF LinesRecorded
    <3>16. flush'.pc = "write" /\ log' = log
      BY <1>2, <3>11
    <3>. QED
      BY <3>12, <3>13, <3>14, <3>15, <3>16 DEF FlushSound
  <2>. QED
    BY <2>1, <2>2
<1>5. LogTyped'
  <2>1. <<>> \in Seq(Nat \X (1 .. LINE)) /\ Len(<<>>) <= DISK_ROOM
    BY EmptySeq, LogSizes
  <2>. QED
    BY <1>1, <1>2, <1>4, <2>1 DEF LogTyped
<1>. QED
  BY <1>1, <1>2, <1>4, <1>5 DEF LogInv, PrintedIsCaught, ReaderGetsTail

\* What both ends of a line need: the flush goes on with the next one.
LEMMA NextBegins ==
    ASSUME LogTyped, NEW s0 \in Nat, FlushAt(s0), flush.i < flush.n, flush' = NextLine,
           log' \in Log, RingRight(log', written'), log'.seq \in {log.seq, log.seq + 1}
    PROVE  /\ flush' \in Flushing /\ flush'.pc = flush.pc /\ flush'.n = flush.n
           /\ flush'.start = flush.start
           /\ flush'.direct = flush.direct /\ flush'.snap = flush.snap
           /\ flush'.i = flush.i + 1 /\ flush'.done = 0
           /\ flush'.i < flush.n =>
                /\ flush'.seq \in Nat
                /\ flush'.seq % ENTRIES = (s0 + flush'.i) % ENTRIES
                /\ log'.seq <= s0 + flush.n + flush'.i => flush'.seq = s0 + flush'.i
<1>1. PICK f : f = [flush EXCEPT !.i = @ + 1, !.done = 0]
  OBVIOUS
<1>2. flush \in Flushing /\ log.seq \in Nat
  BY DEF LogTyped, Log
<1>3. /\ f \in Flushing /\ f.pc = flush.pc /\ f.n = flush.n /\ f.start = flush.start
      /\ f.direct = flush.direct /\ f.snap = flush.snap /\ f.i = flush.i + 1 /\ f.done = 0
  <2>1. PICK k : k = flush.i + 1
    OBVIOUS
  <2>2. k \in Nat
    BY <1>2, <2>1 DEF Flushing
  <2>3. f = [flush EXCEPT !.i = k, !.done = 0]
    BY <1>1, <2>1
  <2>4. /\ f \in Flushing /\ f.pc = flush.pc /\ f.n = flush.n /\ f.start = flush.start
        /\ f.direct = flush.direct /\ f.snap = flush.snap /\ f.i = k /\ f.done = 0
    BY ONLY <1>2, <2>2, <2>3 DEF Flushing
  <2>. QED
    BY <2>1, <2>4
<1>4. flush' = Begun(f, log')
  BY <1>1 DEF NextLine
<1>5. CASE f.i = f.n
  <2>1. flush' = f
    BY <1>4, <1>5 DEF Begun
  <2>2. flush.i \in Nat /\ flush.n \in Nat
    BY <1>2 DEF Flushing
  <2>3. ~(flush'.i < flush.n)
    BY <1>3, <1>5, <2>1, <2>2
  <2>. QED
    BY <1>3, <2>1, <2>3
<1>6. CASE f.i # f.n
  <2>1. /\ flush.n \in 1 .. ENTRIES /\ flush.i \in 0 .. flush.n /\ s0 + flush.n <= log.seq
        /\ flush.start = s0 % ENTRIES
        /\ ~flush.direct => \A j \in 0 .. flush.n - 1 : flush.snap[j + 1].seq = s0 + j
    BY DEF FlushAt
  <2>2. PICK t \in Nat : t = s0 + f.i
    BY <1>3, <2>1
  <2>3. f.i \in 1 .. flush.n - 1 /\ s0 < t /\ t < s0 + flush.n /\ t < log'.seq
    BY <1>2, <1>3, <1>6, <2>1, <2>2, LogSizes
  <2>4. PICK q : q = IF f.direct THEN log'.ring[(f.start + f.i) % ENTRIES].seq ELSE f.snap[f.i + 1].seq
    OBVIOUS
  <2>5. flush' = [f EXCEPT !.seq = q]
    BY <1>4, <1>6, <2>4 DEF Begun
  <2>6. q \in Nat /\ q % ENTRIES = t % ENTRIES
        /\ (log'.seq <= s0 + flush.n + f.i => q = t)
    <3>1. CASE ~f.direct
      <4>1. q = t
        BY <1>3, <2>1, <2>2, <2>3, <2>4, <3>1
      <4>. QED
        BY <4>1
    <3>2. CASE f.direct
      <4>1. (f.start + f.i) % ENTRIES = t % ENTRIES
        <5>1. s0 \in Int /\ f.i \in Int
          BY <2>3
        <5>2. ((s0 % ENTRIES) + f.i) % ENTRIES = (s0 + f.i) % ENTRIES
          BY ONLY <5>1, LogSizes, ModAdds
        <5>. QED
          BY <1>3, <2>1, <2>2, <5>2
      <4>2. q = log'.ring[t % ENTRIES].seq
        BY <2>4, <3>2, <4>1
      <4>3. t % ENTRIES \in 0 .. ENTRIES - 1 /\ t \in 0 .. log'.seq - 1
        <5>1. t \in Int
          OBVIOUS
        <5>2. t % ENTRIES \in 0 .. ENTRIES - 1
          BY ONLY <5>1, LogSizes, DivMod
        <5>. QED
          BY <1>2, <2>3, <5>2
      <4>4. q \in Nat
        BY <4>2, <4>3 DEF RingRight
      <4>5. q % ENTRIES = t % ENTRIES
        BY <4>2, <4>3, <4>4 DEF RingRight
      <4>6. ASSUME log'.seq <= s0 + flush.n + f.i PROVE q = t
        <5>1. /\ log'.seq \in Nat
              /\ log'.count = IF log'.seq < ENTRIES THEN log'.seq ELSE ENTRIES
          BY <1>2 DEF RingRight
        <5>2. t \in log'.seq - log'.count .. log'.seq - 1
          <6>1. CASE log'.seq < ENTRIES
            BY <2>3, <4>3, <5>1, <6>1
          <6>2. CASE ~(log'.seq < ENTRIES)
            <7>1. log'.count = ENTRIES /\ log'.seq <= t + ENTRIES
              BY <1>3, <2>1, <2>2, <4>6, <5>1, <6>2, LogSizes
            <7>. QED
              BY <2>3, <5>1, <7>1, LogSizes
          <6>. QED
            BY <6>1, <6>2
        <5>3. log'.ring[t % ENTRIES] = [seq |-> t, text |-> written'[t + 1]]
          BY <5>2 DEF RingRight
        <5>. QED
          BY <4>2, <5>3
      <4>. QED
        BY <4>4, <4>5, <4>6
    <3>. QED
      BY <3>1, <3>2
  <2>7. /\ flush' \in Flushing /\ flush'.pc = f.pc /\ flush'.n = f.n /\ flush'.start = f.start
        /\ flush'.direct = f.direct /\ flush'.snap = f.snap /\ flush'.i = f.i /\ flush'.done = f.done
        /\ flush'.seq = q
    BY SMTT(30), <1>3, <2>5, <2>6 DEF Flushing
  <2>. QED
    BY <1>3, <2>2, <2>6, <2>7
<1>7. flush.i + 1 < flush.n => f.i # f.n
  BY <1>2, <1>3 DEF Flushing
<1>. QED
  BY <1>2, <1>3, <1>5, <1>6, <1>7 DEF Flushing

\* A line is not mistaken for an earlier one.
LEMMA LineIsNew ==
    ASSUME NEW s0 \in Nat, FlushAt(s0), LinesRecorded(s0), flush.i < flush.n,
           NEW q \in Recorded, q % ENTRIES = flush.seq % ENTRIES
    PROVE  q = flush.seq
<1>1. CASE flush.done > 0 /\ q = flush.seq
  BY <1>1
<1>2. CASE \E j \in 0 .. flush.i - 1 : q % ENTRIES = (s0 + j) % ENTRIES
  <2>1. PICK j \in 0 .. flush.i - 1 : q % ENTRIES = (s0 + j) % ENTRIES
    BY <1>2
  <2>2. flush.n \in 1 .. ENTRIES /\ flush.i \in 0 .. flush.n
        /\ flush.seq % ENTRIES = (s0 + flush.i) % ENTRIES
    BY DEF FlushAt
  <2>3. PICK a \in Int, b \in Int : a = s0 + j /\ b = s0 + flush.i
    BY <2>2
  <2>4. a < b /\ b < a + ENTRIES
    BY <2>2, <2>3, LogSizes
  <2>5. (a % ENTRIES) # (b % ENTRIES)
    BY ONLY <2>3, <2>4, a \in Int, b \in Int, LogSizes, ModDiffers
  <2>. QED
    BY <2>1, <2>2, <2>3, <2>5
<1>. QED
  BY <1>1, <1>2 DEF LinesRecorded

\* The line is now recorded, and it is the next line's turn.
LEMMA LineDone ==
    ASSUME NEW s0 \in Nat, FlushAt(s0), LinesRecorded(s0), flush.i < flush.n,
           flush'.i = flush.i + 1, flush'.done = 0, Recorded' = Recorded \cup {flush.seq}
    PROVE  LinesRecorded(s0)'
<1>1. flush.i \in Nat /\ flush.seq % ENTRIES = (s0 + flush.i) % ENTRIES
  BY LogSizes DEF FlushAt
<1>2. \A j \in 0 .. flush'.i - 1 : j = flush.i \/ j \in 0 .. flush.i - 1
  BY <1>1
<1>3. \A j \in 0 .. flush.i - 1 : j \in 0 .. flush'.i - 1
  BY <1>1
<1>4. flush.i \in 0 .. flush'.i - 1
  BY <1>1
<1>5. \A j \in 0 .. flush'.i - 1 : \E q \in Recorded' : q % ENTRIES = (s0 + j) % ENTRIES
  BY <1>1, <1>2 DEF LinesRecorded
<1>6. ASSUME NEW q \in Recorded'
      PROVE  \E j \in 0 .. flush'.i - 1 : q % ENTRIES = (s0 + j) % ENTRIES
  <2>1. CASE q = flush.seq
    BY <1>1, <1>4, <2>1
  <2>2. CASE q # flush.seq
    <3>1. \E j \in 0 .. flush.i - 1 : q % ENTRIES = (s0 + j) % ENTRIES
      BY <2>2 DEF LinesRecorded
    <3>. QED
      BY <1>3, <3>1
  <2>. QED
    BY <2>1, <2>2
<1>7. \A q1, q2 \in Recorded' : q1 % ENTRIES = q2 % ENTRIES => q1 = q2
  BY LineIsNew DEF LinesRecorded
<1>. QED
  BY <1>5, <1>6, <1>7 DEF LinesRecorded

\* At the end there is one message for each line.
LEMMA AllRecorded ==
    ASSUME NEW s0 \in Nat, FlushAt(s0), LinesRecorded(s0), flush.i = flush.n
    PROVE  Cardinality(Recorded) = flush.n
<1>1. flush.n \in 1 .. ENTRIES /\ flush.done = 0
  BY DEF FlushAt
<1>2. PICK J : J = 0 .. flush.n - 1
  OBVIOUS
<1>3. IsFiniteSet(J) /\ Cardinality(J) = flush.n
  <2>1. 0 \in Int /\ flush.n - 1 \in Int
    BY <1>1, LogSizes
  <2>2. IsFiniteSet(0 .. flush.n - 1)
        /\ Cardinality(0 .. flush.n - 1) = IF 0 > flush.n - 1 THEN 0 ELSE flush.n - 1 - 0 + 1
    BY ONLY <2>1, FS_Interval
  <2>. QED
    BY <1>1, <1>2, <2>2, LogSizes
<1>4. PICK f : f = [j \in J |-> CHOOSE q \in Recorded : q % ENTRIES = (s0 + j) % ENTRIES]
  OBVIOUS
<1>5. \A j \in J : f[j] \in Recorded /\ f[j] % ENTRIES = (s0 + j) % ENTRIES
  BY <1>2, <1>4 DEF LinesRecorded
<1>6. \A q \in Recorded : \E j \in J : q % ENTRIES = (s0 + j) % ENTRIES
  BY <1>1, <1>2 DEF LinesRecorded
<1>7. \A q \in Recorded : \E j \in J : f[j] = q
  BY <1>5, <1>6 DEF LinesRecorded
<1>8. ASSUME NEW j \in J, NEW k \in J, j < k PROVE f[j] # f[k]
  <2>1. PICK a \in Int, b \in Int : a = s0 + j /\ b = s0 + k
    BY <1>2
  <2>2. a < b /\ b < a + ENTRIES
    BY <1>1, <1>2, <1>8, <2>1, LogSizes
  <2>3. (a % ENTRIES) # (b % ENTRIES)
    BY ONLY <2>1, <2>2, a \in Int, b \in Int, LogSizes, ModDiffers
  <2>. QED
    BY <1>5, <2>1, <2>3
<1>9. \A j, k \in J : f[j] = f[k] => j = k
  <2>1. \A j, k \in J : j # k => j < k \/ k < j
    BY <1>2
  <2>. QED
    BY <1>8, <2>1
<1>10. f \in Bijection(J, Recorded)
  BY <1>4, <1>5, <1>7, <1>9 DEF Bijection, Injection, Surjection, IsInjective
<1>11. ExistsBijection(J, Recorded)
  BY <1>10 DEF ExistsBijection
<1>. QED
  BY <1>3, <1>11, FS_Bijection

LEMMA FailsStay == ASSUME LogInv, WriteFails PROVE LogInv'
<1>1. /\ LogTyped /\ RingRight(log, written) /\ PrintedIsCaught /\ ReaderGetsTail
      /\ flush.pc = "write" /\ flush.i < flush.n
  BY DEF LogInv, WriteFails
<1>2. PICK s0 \in 0 .. log.seq : FlushAt(s0) /\ LinesRecorded(s0) /\ InOrder
  BY <1>1 DEF LogInv, FlushSound
<1>3. /\ flush' = NextLine /\ lost' = lost \cup {flush.seq}
      /\ UNCHANGED <<log, hookBuf, typed, reader, file, power, caught, written>>
  BY DEF WriteFails
<1>4. s0 \in Nat /\ log.seq \in Nat /\ flush.seq \in Nat /\ flush.i \in Nat /\ flush.n \in 1 .. ENTRIES
  BY <1>1, <1>2, LogSizes DEF LogTyped, Log, FlushAt
<1>5. /\ flush' \in Flushing /\ flush'.pc = "write" /\ flush'.n = flush.n /\ flush'.start = flush.start
      /\ flush'.direct = flush.direct /\ flush'.snap = flush.snap
      /\ flush'.i = flush.i + 1 /\ flush'.done = 0
      /\ flush'.i < flush.n =>
           /\ flush'.seq \in Nat
           /\ flush'.seq % ENTRIES = (s0 + flush'.i) % ENTRIES
           /\ log'.seq <= s0 + flush.n + flush'.i => flush'.seq = s0 + flush'.i
  <2>1. /\ log' \in Log /\ RingRight(log', written') /\ log'.seq \in {log.seq, log.seq + 1}
    BY <1>1, <1>3 DEF LogTyped
  <2>. QED
    BY <1>1, <1>2, <1>3, <1>4, <2>1, NextBegins
<1>6. LogTyped'
  BY <1>1, <1>3, <1>4, <1>5 DEF LogTyped
<1>7. ASSUME NEW c, NEW d, Follows(c, d) PROVE Follows(c, d)'
  BY <1>3, <1>7 DEF Follows
<1>8. InOrder'
  BY <1>2, <1>3, <1>7 DEF InOrder
<1>9. LinesRecorded(s0)'
  <2>1. Recorded' = Recorded \cup {flush.seq}
    BY <1>3 DEF Recorded
  <2>. QED
    BY <1>1, <1>2, <1>4, <1>5, <2>1, LineDone
<1>10. FlushAt(s0)'
  <2>1. /\ flush.start = s0 % ENTRIES /\ s0 + flush.n <= log.seq /\ flush.direct \in BOOLEAN
        /\ ~flush.direct => \A j \in 0 .. flush.n - 1 : flush.snap[j + 1].seq = s0 + j
        /\ Room > 0 =>
             /\ flush.done = 0 /\ log.seq <= s0 + flush.n + flush.i
             /\ flush.seq = s0 + flush.i
             /\ file # <<>> => Follows(<<flush.seq, 1>>, file[Len(file)])
    BY <1>1, <1>2 DEF FlushAt
  <2>2. Room' = Room
    BY <1>3 DEF Room
  <2>3. ASSUME Room > 0
        PROVE  /\ log.seq <= s0 + flush.n + flush'.i
               /\ flush'.i < flush.n =>
                    /\ flush'.seq = s0 + flush'.i
                    /\ file # <<>> => Follows(<<flush.seq, 1>>, file[Len(file)])'
    <3>1. log.seq <= s0 + flush.n + flush.i /\ flush.seq = s0 + flush.i
      BY <2>1, <2>3
    <3>2. log.seq <= s0 + flush.n + flush'.i
      BY <1>4, <1>5, <3>1
    <3>3. ASSUME flush'.i < flush.n PROVE flush'.seq = s0 + flush'.i
      BY <1>3, <1>5, <3>2, <3>3
    <3>4. ASSUME flush'.i < flush.n, file # <<>>
          PROVE  Follows(<<flush.seq, 1>>, file[Len(file)])'
      <4>1. PICK d : d = file[Len(file)]
        OBVIOUS
      <4>2. d \in Nat \X (1 .. LINE)
        <5>1. file \in Seq(Nat \X (1 .. LINE))
          BY <1>1 DEF LogTyped
        <5>2. Len(file) \in 1 .. Len(file)
          BY <3>4, <5>1
        <5>. QED
          BY <4>1, <5>1, <5>2
      <4>3. d[1] \in Nat /\ d[2] \in 1 .. LINE
        BY <4>2
      <4>4. Follows(<<flush.seq, 1>>, d)
        BY <2>1, <2>3, <3>4, <4>1
      <4>5. ~(<<flush.seq, 1>> = <<d[1], d[2] + 1>>)
        BY <4>3, LogSizes
      <4>6. /\ flush.seq > d[1]
            /\ d[2] = LINE \/ d[1] \in lost
            /\ \A s \in d[1] + 1 .. flush.seq - 1 : s \in lost
        BY <4>4, <4>5 DEF Follows
      <4>7. flush'.seq = flush.seq + 1
        BY <1>4, <1>5, <3>1, <3>3, <3>4
      <4>8. /\ flush'.seq > d[1]
            /\ d[2] = LINE \/ d[1] \in lost'
            /\ \A s \in d[1] + 1 .. flush'.seq - 1 : s \in lost'
        <5>1. \A s \in d[1] + 1 .. flush'.seq - 1 : s = flush.seq \/ s \in d[1] + 1 .. flush.seq - 1
          BY <1>4, <4>3, <4>7
        <5>. QED
          BY <1>3, <1>4, <4>3, <4>6, <4>7, <5>1
      <4>9. Follows(<<flush.seq, 1>>, d)'
        BY ONLY <4>8 DEF Follows
      <4>10. file' = file
        BY <1>3
      <4>. QED
        BY ONLY <4>1, <4>9, <4>10
    <3>. QED
      BY <3>2, <3>3, <3>4
  <2>4. flush'.i \in 0 .. flush'.n /\ flush'.done \in 0 .. LINE - 1 /\ flush'.n \in 1 .. ENTRIES
    BY <1>1, <1>4, <1>5, LogSizes
  <2>5. /\ flush'.start = s0 % ENTRIES /\ s0 + flush'.n <= log'.seq /\ flush'.direct \in BOOLEAN
        /\ ~flush'.direct => \A j \in 0 .. flush'.n - 1 : flush'.snap[j + 1].seq = s0 + j
    BY <1>3, <1>5, <2>1
  <2>6. Room' > 0 =>
          /\ flush'.done = 0 /\ log'.seq <= s0 + flush'.n + flush'.i
          /\ flush'.i < flush'.n =>
               /\ flush'.seq = s0 + flush'.i
               /\ file' # <<>> => Follows(<<flush.seq, 1>>, file[Len(file)])'
    BY <1>3, <1>5, <2>2, <2>3
  <2>7. flush'.i < flush'.n =>
          flush'.seq \in Nat /\ flush'.seq % ENTRIES = (s0 + flush'.i) % ENTRIES
    BY <1>5
  <2>8. flush'.done = 0
    BY <1>5
  <2>. QED
    BY ONLY <2>4, <2>5, <2>6, <2>7, <2>8 DEF FlushAt
<1>11. RingRight(log, written)'
  BY <1>1, <1>3
<1>12. FlushSound'
  BY <1>3, <1>5, <1>8, <1>9, <1>10 DEF FlushSound
<1>. QED
  BY <1>1, <1>3, <1>6, <1>11, <1>12 DEF LogInv, PrintedIsCaught, ReaderGetsTail

\* What one write adds to the file.
WithPiece(f, q, d, r) == f \o SubSeq(LineOf([seq |-> q]), d + 1, d + r)
HasPiece(g, f, q, d, r) ==
    /\ g \in Seq(Nat \X (1 .. LINE)) /\ Len(g) = Len(f) + r
    /\ \A k \in 1 .. Len(f) : g[k] = f[k]
    /\ \A j \in 1 .. r : g[Len(f) + j] = <<q, d + j>>
LEMMA PieceWritten ==
    ASSUME NEW q \in Nat, NEW d \in 0 .. LINE - 1, NEW r \in 0 .. LINE - d,
           NEW f \in Seq(Nat \X (1 .. LINE))
    PROVE  HasPiece(WithPiece(f, q, d, r), f, q, d, r)
<1>0. PICK g : g = WithPiece(f, q, d, r)
  OBVIOUS
<1>1. PICK line : line = LineOf([seq |-> q])
  OBVIOUS
<1>2. \A k \in 1 .. LINE : line[k] = <<q, k>>
  BY <1>1 DEF LineOf
<1>3. PICK m \in Nat, n \in Nat : m = d + 1 /\ n = d + r
  BY LogSizes
<1>4. \A i \in m .. n : i \in 1 .. LINE /\ line[i] \in Nat \X (1 .. LINE)
  <2>1. \A i \in m .. n : i \in 1 .. LINE
    <3>1. d \in Nat /\ r \in Nat /\ LINE \in Nat /\ d + r <= LINE
      BY LogSizes
    <3>. QED
      BY ONLY <1>3, <3>1
  <2>2. \A i \in 1 .. LINE : line[i] \in Nat \X (1 .. LINE)
    <3>1. \A i \in 1 .. LINE : <<q, i>> \in Nat \X (1 .. LINE)
      OBVIOUS
    <3>. QED
      BY ONLY <1>2, <3>1
  <2>. QED
    BY <2>1, <2>2
<1>5. PICK p : p = SubSeq(line, m, n)
  OBVIOUS
<1>6. /\ p \in Seq(Nat \X (1 .. LINE)) /\ Len(p) = IF m <= n THEN n - m + 1 ELSE 0
      /\ \A i \in 1 .. n - m + 1 : p[i] = line[m + i - 1]
  <2>1. m \in Int /\ n \in Int
    OBVIOUS
  <2>. QED
    BY ONLY <1>4, <1>5, <2>1, SubSeqProperties
<1>7. Len(p) = r
  BY <1>3, <1>6, LogSizes
<1>8. ASSUME NEW j \in 1 .. r PROVE p[j] = <<q, d + j>>
  <2>1. j \in 1 .. n - m + 1 /\ m + j - 1 = d + j /\ d + j \in 1 .. LINE
    BY <1>3, LogSizes
  <2>. QED
    BY <1>2, <1>6, <2>1
<1>9. g = f \o p
  BY <1>0, <1>1, <1>3, <1>5 DEF WithPiece
<1>10. PICK a \in Nat : a = Len(f)
  OBVIOUS
<1>11. /\ g \in Seq(Nat \X (1 .. LINE)) /\ Len(g) = Len(f) + Len(p)
       /\ \A i \in 1 .. Len(f) + Len(p) : g[i] = IF i <= Len(f) THEN f[i] ELSE p[i - Len(f)]
  BY ONLY <1>6, <1>9, f \in Seq(Nat \X (1 .. LINE)), ConcatProperties
<1>12. \A k \in 1 .. a : k \in 1 .. a + r /\ k <= a
  OBVIOUS
<1>13. \A j \in 1 .. r : a + j \in 1 .. a + r /\ ~(a + j <= a) /\ (a + j) - a = j
  OBVIOUS
<1>14. /\ g \in Seq(Nat \X (1 .. LINE)) /\ Len(g) = a + r
       /\ \A i \in 1 .. a + r : g[i] = IF i <= a THEN f[i] ELSE p[i - a]
  BY ONLY <1>7, <1>10, <1>11
<1>15. \A k \in 1 .. a : g[k] = f[k]
  BY ONLY <1>12, <1>14
<1>16. \A j \in 1 .. r : g[a + j] = <<q, d + j>>
  BY ONLY <1>8, <1>13, <1>14
<1>. QED
  BY ONLY <1>0, <1>10, <1>14, <1>15, <1>16 DEF HasPiece

LEMMA WritesSomeStay == ASSUME LogInv, WriteSome PROVE LogInv'
<1>1. /\ LogTyped /\ RingRight(log, written) /\ PrintedIsCaught /\ ReaderGetsTail
      /\ flush.pc = "write" /\ flush.i < flush.n
  BY DEF LogInv, WriteSome
<1>2. PICK s0 \in 0 .. log.seq : FlushAt(s0) /\ LinesRecorded(s0) /\ InOrder
  BY <1>1 DEF LogInv, FlushSound
<1>3. /\ s0 \in Nat /\ log.seq \in Nat /\ flush.seq \in Nat /\ flush.i \in Nat
      /\ flush.n \in 1 .. ENTRIES /\ flush.done \in 0 .. LINE - 1 /\ flush \in Flushing
      /\ file \in Seq(Nat \X (1 .. LINE)) /\ Len(file) \in Nat /\ Room \in Nat
  <2>1. file \in Seq(Nat \X (1 .. LINE)) /\ Len(file) <= DISK_ROOM
    BY <1>1 DEF LogTyped
  <2>2. Len(file) \in Nat /\ Room \in Nat
    BY <2>1, LogSizes DEF Room
  <2>. QED
    BY <1>1, <1>2, <2>1, <2>2, LogSizes DEF LogTyped, Log, FlushAt
<1>4. /\ log' \in Log /\ written' \in Seq(Seq(Nat)) /\ RingRight(log', written')
      /\ log'.seq \in {log.seq, log.seq + 1}
  <2>1. <<>> \in Seq(Nat) /\ log \in Log /\ written \in Seq(Seq(Nat))
    BY <1>1, EmptySeq DEF LogTyped
  <2>2. \/ log' = Logged(log, <<>>) /\ written' = Append(written, <<>>)
        \/ log' = log /\ written' = written
    BY DEF WriteSome
  <2>. QED
    BY <1>1, <2>1, <2>2, LoggedRight
<1>5. PICK left \in 1 .. LINE : left = LINE - flush.done
  BY <1>3, LogSizes
<1>6. PICK r \in Nat : r = IF left < Room THEN left ELSE Room
  BY <1>3, LogSizes
<1>7. /\ file' = file \o SubSeq(LineOf([seq |-> flush.seq]), flush.done + 1, flush.done + r)
      /\ flush' = IF r = left THEN NextLine ELSE [flush EXCEPT !.done = @ + r]
      /\ UNCHANGED <<hookBuf, typed, reader, power, errors, caught, lost>>
  BY <1>5, <1>6 DEF WriteSome
<1>8. r \in 0 .. LINE - flush.done /\ r <= left /\ r <= Room /\ (r = left \/ r = Room) /\ (r = 0 => Room = 0)
  BY <1>3, <1>5, <1>6, LogSizes
<1>9. PICK a \in Nat : a = Len(file)
  BY <1>3
<1>10. /\ file' \in Seq(Nat \X (1 .. LINE)) /\ Len(file') = a + r
       /\ \A k \in 1 .. a : file'[k] = file[k]
       /\ \A j \in 1 .. r : file'[a + j] = <<flush.seq, flush.done + j>>
  <2>1. PICK q \in Nat, d \in 0 .. LINE - 1 : q = flush.seq /\ d = flush.done
    BY <1>3
  <2>2. PICK g : g = file'
    OBVIOUS
  <2>3. g = WithPiece(file, q, d, r)
    BY <1>7, <2>1, <2>2 DEF WithPiece
  <2>4. r \in 0 .. LINE - d
    BY <1>8, <2>1
  <2>5. HasPiece(g, file, q, d, r)
    <3>1. file \in Seq(Nat \X (1 .. LINE))
      BY <1>3
    <3>. QED
      BY ONLY <2>3, <2>4, <3>1, q \in Nat, d \in 0 .. LINE - 1, PieceWritten
  <2>. QED
    BY ONLY <1>9, <2>1, <2>2, <2>5 DEF HasPiece
<1>11. Room' = Room - r /\ Len(file') <= DISK_ROOM /\ a + Room = DISK_ROOM
  BY <1>3, <1>8, <1>9, <1>10, LogSizes DEF Room
<1>12. /\ flush.start = s0 % ENTRIES /\ s0 + flush.n <= log.seq /\ flush.direct \in BOOLEAN
       /\ ~flush.direct => \A j \in 0 .. flush.n - 1 : flush.snap[j + 1].seq = s0 + j
       /\ flush.seq % ENTRIES = (s0 + flush.i) % ENTRIES
       /\ Room > 0 =>
            /\ flush.done = 0 /\ log.seq <= s0 + flush.n + flush.i
            /\ flush.seq = s0 + flush.i
            /\ file # <<>> => Follows(<<flush.seq, 1>>, file[Len(file)])
  BY <1>1, <1>2 DEF FlushAt
<1>13. \A c, d : Follows(c, d)' <=> Follows(c, d)
  BY <1>7 DEF Follows
<1>14. InOrder'
  <2>1. SUFFICES ASSUME NEW k \in 1 .. Len(file') - 1 PROVE Follows(file'[k + 1], file'[k])
    BY <1>13 DEF InOrder
  <2>0. k \in Nat /\ 1 <= k /\ k + 1 <= a + r
    <3>1. Len(file') = a + r
      BY <1>10
    <3>. QED
      BY ONLY <3>1, k \in 1 .. Len(file') - 1, a \in Nat, r \in Nat
  <2>2. CASE k < a
    <3>1. k \in 1 .. Len(file) - 1 /\ k \in 1 .. a /\ k + 1 \in 1 .. a
      BY ONLY <1>9, <2>0, <2>2, a \in Nat
    <3>2. Follows(file[k + 1], file[k])
      BY <1>2, <3>1 DEF InOrder
    <3>. QED
      BY <1>10, <3>1, <3>2
  <2>3. CASE k = a
    <3>1. r \in Nat \ {0} /\ Room > 0 /\ 1 \in 1 .. r /\ a \in 1 .. a /\ file # <<>>
      BY <1>3, <1>8, <1>9, <1>10, <2>3
    <3>2. flush.done = 0 /\ Follows(<<flush.seq, 1>>, file[Len(file)])
      BY <1>12, <3>1
    <3>3. file'[a + 1] = <<flush.seq, 0 + 1>> /\ file'[a] = file[a]
      BY <1>10, <3>1, <3>2
    <3>. QED
      BY <1>9, <2>3, <3>2, <3>3
  <2>4. CASE k > a
    <3>1. PICK j \in 1 .. r : k = a + j /\ k + 1 = a + (j + 1) /\ j + 1 \in 1 .. r
      <4>1. k - a \in 1 .. r /\ k = a + (k - a) /\ k + 1 = a + ((k - a) + 1) /\ (k - a) + 1 \in 1 .. r
        BY ONLY <2>0, <2>4, a \in Nat, r \in Nat
      <4>. QED
        BY <4>1
    <3>2. file'[k] = <<flush.seq, flush.done + j>> /\ file'[k + 1] = <<flush.seq, flush.done + (j + 1)>>
      <4>1. \A i \in 1 .. r : file'[a + i] = <<flush.seq, flush.done + i>>
        BY <1>10
      <4>. QED
        BY ONLY <3>1, <4>1, j \in 1 .. r
    <3>3. flush.done + (j + 1) = (flush.done + j) + 1
      <4>1. flush.done \in Int /\ j \in Int
        BY <1>3
      <4>. QED
        BY ONLY <4>1
    <3>. QED
      BY <3>2, <3>3 DEF Follows
  <2>. QED
    BY <1>10, <2>2, <2>3, <2>4
<1>15. Recorded' = Recorded \cup (IF r = 0 THEN {} ELSE {flush.seq})
  <2>1. ASSUME NEW k \in 1 .. a + r, k > a PROVE r # 0 /\ file'[k][1] = flush.seq
    <3>1. PICK j \in 1 .. r : k = a + j
      <4>1. k - a \in 1 .. r /\ k = a + (k - a)
        BY <2>1
      <4>. QED
        BY <4>1
    <3>2. file'[k] = <<flush.seq, flush.done + j>>
      <4>1. \A i \in 1 .. r : file'[a + i] = <<flush.seq, flush.done + i>>
        BY <1>10
      <4>. QED
        BY ONLY <3>1, <4>1, j \in 1 .. r
    <3>. QED
      BY <3>2
  <2>2. \A k \in 1 .. a + r : k > a \/ k \in 1 .. a
    OBVIOUS
  <2>3. \A k \in 1 .. a : k \in 1 .. a + r
    OBVIOUS
  <2>4. r # 0 => a + r \in 1 .. a + r /\ a + r > a
    OBVIOUS
  <2>5. {file'[k][1] : k \in 1 .. a + r}
          = {file[k][1] : k \in 1 .. a} \cup (IF r = 0 THEN {} ELSE {flush.seq})
    <3>1. ASSUME NEW k \in 1 .. a + r
          PROVE  file'[k][1] \in {file[m][1] : m \in 1 .. a} \cup (IF r = 0 THEN {} ELSE {flush.seq})
      <4>1. CASE k > a
        BY <2>1, <4>1
      <4>2. CASE k \in 1 .. a
        BY <1>10, <4>2
      <4>. QED
        BY <2>2, <4>1, <4>2
    <3>2. ASSUME NEW k \in 1 .. a PROVE file[k][1] \in {file'[m][1] : m \in 1 .. a + r}
      BY <1>10, <2>3
    <3>3. ASSUME r # 0 PROVE flush.seq \in {file'[m][1] : m \in 1 .. a + r}
      <4>1. file'[a + r][1] = flush.seq /\ a + r \in 1 .. a + r
        BY <2>1, <2>4, <3>3
      <4>. QED
        BY <4>1
    <3>. QED
      BY <3>1, <3>2, <3>3
  <2>. QED
    BY <1>7, <1>9, <1>10, <2>5 DEF Recorded
<1>16. CASE r = left
  <2>1. flush' = NextLine /\ r # 0 /\ r \in Nat \ {0}
    BY <1>5, <1>7, <1>16
  <2>2. /\ flush' \in Flushing /\ flush'.pc = "write" /\ flush'.n = flush.n /\ flush'.start = flush.start
        /\ flush'.direct = flush.direct /\ flush'.snap = flush.snap
        /\ flush'.i = flush.i + 1 /\ flush'.done = 0
        /\ flush'.i < flush.n =>
             /\ flush'.seq \in Nat
             /\ flush'.seq % ENTRIES = (s0 + flush'.i) % ENTRIES
             /\ log'.seq <= s0 + flush.n + flush'.i => flush'.seq = s0 + flush'.i
    BY <1>1, <1>2, <1>3, <1>4, <2>1, NextBegins
  <2>3. LinesRecorded(s0)'
    BY <1>1, <1>2, <1>3, <1>15, <2>1, <2>2, LineDone
  <2>4. ASSUME Room' > 0
        PROVE  /\ log'.seq <= s0 + flush.n + flush'.i
               /\ flush'.i < flush.n =>
                    /\ flush'.seq = s0 + flush'.i
                    /\ file' # <<>> => Follows(<<flush'.seq, 1>>, file'[Len(file')])
    <3>1. Room > 0
      BY <1>3, <1>11, <2>1, <2>4
    <3>2. flush.done = 0 /\ log.seq <= s0 + flush.n + flush.i /\ flush.seq = s0 + flush.i
      BY <1>12, <3>1
    <3>3. log'.seq <= s0 + flush.n + flush'.i
      <4>1. flush'.i = flush.i + 1 /\ log'.seq \in {log.seq, log.seq + 1}
        BY <1>4, <2>2
      <4>2. log.seq <= s0 + flush.n + flush.i
        BY <3>2
      <4>3. flush.n \in Nat /\ flush.i \in Nat /\ s0 \in Nat /\ log.seq \in Nat
        BY <1>3
      <4>. QED
        BY ONLY <4>1, <4>2, <4>3
    <3>4. ASSUME flush'.i < flush.n
          PROVE  flush'.seq = s0 + flush'.i /\ Follows(<<flush'.seq, 1>>, file'[Len(file')])
      <4>1. flush'.seq = s0 + flush'.i
        BY <2>2, <3>3, <3>4
      <4>2. flush'.seq = flush.seq + 1
        BY <1>3, <2>2, <3>2, <4>1
      <4>3. r = LINE /\ r \in 1 .. r
        BY <1>5, <1>16, <2>1, <3>2, LogSizes
      <4>4. file'[Len(file')] = <<flush.seq, LINE>>
        BY SMTT(30), <1>10, <3>2, <4>3, LogSizes
      <4>5. flush.seq + 1 > flush.seq /\ flush.seq + 1 .. (flush.seq + 1) - 1 = {}
        BY <1>3
      <4>. QED
        BY <4>1, <4>2, <4>4, <4>5 DEF Follows
    <3>. QED
      BY <3>3, <3>4
  <2>5. /\ flush'.n \in 1 .. ENTRIES /\ flush'.i \in 0 .. flush'.n
        /\ flush'.done \in 0 .. LINE - 1 /\ flush'.done = 0
    BY <1>1, <1>3, <2>2, LogSizes
  <2>6. FlushAt(s0)'
    <3>1. /\ s0 + flush.n <= log.seq /\ flush.start = s0 % ENTRIES /\ flush.direct \in BOOLEAN
          /\ ~flush.direct => \A j \in 0 .. flush.n - 1 : flush.snap[j + 1].seq = s0 + j
      BY <1>12
    <3>2. s0 + flush.n <= log'.seq
      <4>1. s0 \in Int /\ flush.n \in Int /\ log.seq \in Int /\ log'.seq \in {log.seq, log.seq + 1}
        BY <1>3, <1>4
      <4>2. s0 + flush.n <= log.seq
        BY <3>1
      <4>. QED
        BY ONLY <4>1, <4>2
    <3>a. /\ flush'.n = flush.n /\ flush'.start = flush.start
          /\ flush'.direct = flush.direct /\ flush'.snap = flush.snap
      BY <2>2
    <3>3. /\ flush'.start = s0 % ENTRIES /\ s0 + flush'.n <= log'.seq /\ flush'.direct \in BOOLEAN
          /\ ~flush'.direct => \A j \in 0 .. flush'.n - 1 : flush'.snap[j + 1].seq = s0 + j
      BY ONLY <3>1, <3>2, <3>a, Zenon
    <3>4. Room' > 0 =>
            /\ flush'.done = 0 /\ log'.seq <= s0 + flush'.n + flush'.i
            /\ flush'.i < flush'.n =>
                 /\ flush'.seq = s0 + flush'.i
                 /\ file' # <<>> => Follows(<<flush.seq, 1>>, file[Len(file)])'
      BY <1>13, <2>2, <2>4
    <3>5. flush'.i < flush'.n =>
            flush'.seq \in Nat /\ flush'.seq % ENTRIES = (s0 + flush'.i) % ENTRIES
      BY <2>2
    <3>. QED
      BY ONLY <2>5, <3>3, <3>4, <3>5 DEF FlushAt
  <2>7. s0 \in 0 .. log'.seq
    BY <1>3, <1>4
  <2>8. FlushSound'
    BY <1>14, <2>2, <2>3, <2>6, <2>7 DEF FlushSound
  <2>9. LogTyped'
    BY <1>1, <1>4, <1>7, <1>10, <1>11, <2>2 DEF LogTyped
  <2>. QED
    BY <1>1, <1>4, <1>7, <2>8, <2>9 DEF LogInv, PrintedIsCaught, ReaderGetsTail
<1>17. CASE r # left
  <2>1. PICK d \in Nat : d = flush.done + r
    BY <1>3, LogSizes
  <2>2. flush' = [flush EXCEPT !.done = d] /\ d \in 0 .. LINE - 1
    BY SMTT(30), <1>3, <1>5, <1>7, <1>8, <1>17, <2>1, LogSizes
  <2>3. /\ flush' \in Flushing /\ flush'.pc = "write" /\ flush'.n = flush.n /\ flush'.start = flush.start
        /\ flush'.direct = flush.direct /\ flush'.snap = flush.snap
        /\ flush'.i = flush.i /\ flush'.done = d /\ flush'.seq = flush.seq
    BY <1>1, <1>3, <2>2 DEF Flushing
  <2>4. Room' = 0
    BY <1>3, <1>8, <1>11, <1>17
  <2>5. flush.i \in 0 .. flush.n /\ s0 + flush.n <= log'.seq /\ flush.i # flush.n
    BY SMTT(30), <1>1, <1>3, <1>4, <1>12
  <2>6. FlushAt(s0)'
    BY <1>3, <1>12, <2>2, <2>3, <2>4, <2>5 DEF FlushAt
  <2>7. LinesRecorded(s0)'
    <3>1. \A j \in 0 .. flush'.i - 1 : \E q \in Recorded' : q % ENTRIES = (s0 + j) % ENTRIES
      BY <1>2, <1>15, <2>3 DEF LinesRecorded
    <3>2. \A q \in Recorded' :
            \/ flush'.done > 0 /\ q = flush'.seq
            \/ \E j \in 0 .. flush'.i - 1 : q % ENTRIES = (s0 + j) % ENTRIES
      <4>1. flush.done > 0 => d > 0
        BY <1>3, <2>1
      <4>2. r # 0 => d > 0
        BY <1>3, <2>1
      <4>. QED
        BY <1>2, <1>15, <2>3, <4>1, <4>2 DEF LinesRecorded
    <3>3. \A q1, q2 \in Recorded' : q1 % ENTRIES = q2 % ENTRIES => q1 = q2
      <4>1. \A q \in Recorded : q % ENTRIES = flush.seq % ENTRIES => q = flush.seq
        BY <1>1, <1>2, <1>3, LineIsNew
      <4>. QED
        BY <1>2, <1>15, <4>1 DEF LinesRecorded
    <3>. QED
      BY <3>1, <3>2, <3>3 DEF LinesRecorded
  <2>8. s0 \in 0 .. log'.seq
    BY <1>3, <1>4
  <2>9. FlushSound'
    BY <1>14, <2>3, <2>6, <2>7, <2>8 DEF FlushSound
  <2>10. LogTyped'
    BY <1>1, <1>4, <1>7, <1>10, <1>11, <2>3 DEF LogTyped
  <2>. QED
    BY <1>1, <1>4, <1>7, <2>9, <2>10 DEF LogInv, PrintedIsCaught, ReaderGetsTail
<1>. QED
  BY <1>16, <1>17

LEMMA FlushEnds == ASSUME LogInv, FlushEnd PROVE LogInv'
<1>1. /\ LogTyped /\ RingRight(log, written) /\ PrintedIsCaught /\ ReaderGetsTail
  BY DEF LogInv
<1>2. /\ log' \in Log /\ written' \in Seq(Seq(Nat)) /\ RingRight(log', written')
  <2>1. <<>> \in Seq(Nat) /\ log \in Log /\ written \in Seq(Seq(Nat))
    BY <1>1, EmptySeq DEF LogTyped
  <2>2. \/ log' = Logged(log, <<>>) /\ written' = Append(written, <<>>)
        \/ log' = log /\ written' = written
    BY DEF FlushEnd
  <2>. QED
    BY <1>1, <2>1, <2>2, LoggedRight
<1>3. flush' \in Flushing /\ flush'.pc = "synced" /\ flush'.n = flush.n
      /\ UNCHANGED <<hookBuf, typed, reader, file, power, errors, caught, lost>>
  BY <1>1 DEF FlushEnd, LogTyped, Flushing
<1>4. InOrder /\ Cardinality(Recorded) = flush.n
  <2>1. CASE flush.pc = "write" /\ flush.i = flush.n
    <3>1. PICK s0 \in 0 .. log.seq : FlushAt(s0) /\ LinesRecorded(s0) /\ InOrder
      BY <2>1 DEF LogInv, FlushSound
    <3>2. s0 \in Nat
      OBVIOUS
    <3>. QED
      BY <2>1, <3>1, <3>2, AllRecorded
  <2>2. CASE flush.pc = "closed"
    <3>1. file = <<>> /\ lost = {} /\ flush.n = 0
      BY <2>2 DEF LogInv, FlushSound
    <3>2. Recorded = {} /\ InOrder
      BY <3>1 DEF Recorded, InOrder
    <3>. QED
      BY <3>1, <3>2, FS_EmptySet
  <2>. QED
    BY <2>1, <2>2 DEF FlushEnd
<1>5. InOrder' /\ Recorded' = Recorded
  BY <1>3, <1>4 DEF InOrder, Follows, Recorded
<1>. QED
  BY <1>1, <1>2, <1>3, <1>4, <1>5 DEF LogInv, LogTyped, PrintedIsCaught, ReaderGetsTail, FlushSound

LEMMA FlushReturns == ASSUME LogInv, Return PROVE LogInv'
<1>1. flush' = NoFlush /\ UNCHANGED <<log, hookBuf, typed, reader, file, errors, caught, written, lost>>
  BY DEF Return
<1>2. NoFlush \in Flushing /\ NoFlush.pc = "idle"
  BY EmptySeq DEF NoFlush, Flushing
<1>. QED
  BY <1>1, <1>2 DEF LogInv, LogTyped, PrintedIsCaught, ReaderGetsTail, FlushSound

\* The log is sound, for a ring, lines, buffers and a disk of every size and
\* any number of messages and disk errors: what was printed is collected in
\* order, the ring holds the latest messages, a reader gets their end, and the
\* file each of them once and whole, but for the lines that met an error
\* (syslog_write, kprintf_syslog_hook, syslog_flush_to_fs).
THEOREM LogKept == LogSpec => []LogSound
<1>1. ASSUME LogInv, [LogNext]_logVars PROVE LogInv'
  <2>1. ASSUME NEW newline \in BOOLEAN, KPrintf(newline) PROVE LogInv'
    BY <1>1, <2>1, PrintsStay
  <2>2. ASSUME NEW size \in BufSizes, SyslogRead(size) PROVE LogInv'
    BY <1>1, <2>2, ReadsStay
  <2>3. ASSUME NEW by \in {"sync", "reboot"}, FlushStart(by) PROVE LogInv'
    BY <1>1, <2>3, FlushBegins
  <2>4. CASE SyslogWrite
    BY <1>1, <2>4, WritesStay
  <2>5. CASE WriteFails
    BY <1>1, <2>5, FailsStay
  <2>6. CASE WriteSome
    BY <1>1, <2>6, WritesSomeStay
  <2>7. CASE FlushEnd
    BY <1>1, <2>7, FlushEnds
  <2>8. CASE Return
    BY <1>1, <2>8, FlushReturns
  <2>9. CASE UNCHANGED logVars
    <3>1. UNCHANGED <<log, hookBuf, typed, reader, file, flush, power, errors, caught, written, lost>>
      BY <2>9 DEF logVars
    <3>2. LogTyped' /\ RingRight(log, written)' /\ PrintedIsCaught' /\ ReaderGetsTail'
      BY <1>1, <3>1 DEF LogInv, LogTyped, PrintedIsCaught, ReaderGetsTail
    <3>3. Room' = Room /\ Recorded' = Recorded
      BY <3>1 DEF Room, Recorded
    <3>4. \A c, d : Follows(c, d)' <=> Follows(c, d)
      BY <3>1 DEF Follows
    <3>5. InOrder' <=> InOrder
      BY <3>1, <3>4 DEF InOrder
    <3>6. \A s0 : FlushAt(s0)' <=> FlushAt(s0)
      BY <3>1, <3>3, <3>4 DEF FlushAt
    <3>7. \A s0 : LinesRecorded(s0)' <=> LinesRecorded(s0)
      BY <3>1, <3>3 DEF LinesRecorded
    <3>8. FlushSound'
      BY <1>1, <3>1, <3>3, <3>5, <3>6, <3>7 DEF LogInv, FlushSound
    <3>. QED
      BY <3>2, <3>8 DEF LogInv
  <2>. QED
    BY <1>1, <2>1, <2>2, <2>3, <2>4, <2>5, <2>6, <2>7, <2>8, <2>9 DEF LogNext, FlushStep
<1>2. LogInv => LogSound
  <2>1. ASSUME LogInv PROVE RingIsLatest
    <3>1. RingRight(log, written) /\ log.seq \in Nat /\ log.count \in Nat /\ log.head = log.seq
      BY <2>1 DEF LogInv, LogTyped, Log, RingRight
    <3>2. ASSUME NEW k \in 0 .. log.count - 1
          PROVE  /\ Latest(log, log.count, k).seq = log.seq - log.count + k
                 /\ Latest(log, log.count, k).text = written[log.seq - log.count + k + 1]
      <4>1. PICK s : s = log.seq - log.count + k
        OBVIOUS
      <4>2. s \in log.seq - log.count .. log.seq - 1
        BY <3>1, <4>1
      <4>3. log.ring[s % ENTRIES] = [seq |-> s, text |-> written[s + 1]]
        BY <3>1, <4>2 DEF RingRight
      <4>4. Latest(log, log.count, k) = log.ring[s % ENTRIES]
        BY <3>1, <4>1 DEF Latest
      <4>. QED
        BY <4>1, <4>3, <4>4
    <3>. QED
      BY <3>2 DEF RingIsLatest
  <2>2. ASSUME LogInv PROVE FileIsTail
    BY <2>2 DEF LogInv, FlushSound, FileIsTail, InOrder, Follows, Recorded
  <2>. QED
    BY <2>1, <2>2 DEF LogInv, LogSound
<1>. QED
  BY LogStart, <1>1, <1>2, PTL DEF LogSpec

-----------------------------------------------------------------------------
(* Descriptors.  The counts of slots and pipe ends are compared with the   *)
(* number of descriptors that lead to them, over all tables.  What an      *)
(* operation does to that number follows from how it changes one table     *)
(* (TableChanges) and one entry of a table (EntryChanges).                 *)

LEMMA MinIn ==
    ASSUME NEW S \in SUBSET Nat, S # {} PROVE Min(S) \in S
BY LeastNumber DEF Min

LEMMA MinOfTwo ==
    ASSUME NEW a \in Nat, NEW b \in Nat
    PROVE  Min({a, b}) \in {a, b} /\ Min({a, b}) <= a /\ Min({a, b}) <= b
<1>1. \E x \in {a, b} : \A y \in {a, b} : x <= y
  OBVIOUS
<1>. QED
  BY <1>1 DEF Min

\* The count of a pipe end never falls below zero.
LEMMA MaxWithZero ==
    ASSUME NEW a \in Int PROVE Max({0, a}) = IF a >= 0 THEN a ELSE 0
<1>1. \E x \in {0, a} : \A y \in {0, a} : x >= y
  OBVIOUS
<1>2. Max({0, a}) \in {0, a} /\ Max({0, a}) >= 0 /\ Max({0, a}) >= a
  BY <1>1 DEF Max
<1>. QED
  BY <1>2

-----------------------------------------------------------------------------
(* Counting descriptors.                                                   *)

LeadsTo(e, kind, id) == e.kind = kind /\ e.id = id
One(e, kind, id) == IF LeadsTo(e, kind, id) THEN 1 ELSE 0
HoldersIn(T, kind, id) == {d \in Procs \X Fds : LeadsTo(T[d[1]][d[2]], kind, id)}
Count(T, kind, id) == Cardinality(HoldersIn(T, kind, id))

\* Two sets of tables, or two tables, that differ in one place only.
OnlyTable(T, new, p)     == \A q \in Procs \ {p} : new[q] = T[q]
OnlyEntry(table, new, f) == \A g \in Fds \ {f} : new[g] = table[g]

LEMMA FiniteFds == IsFiniteSet(Fds)
BY FS_Interval, DescriptorsAssumption DEF Fds

LEMMA CountType ==
    ASSUME NEW T, NEW kind, NEW id
    PROVE  IsFiniteSet(HoldersIn(T, kind, id)) /\ Count(T, kind, id) \in Nat
<1>1. IsFiniteSet(Procs \X Fds)
  BY FiniteFds, DescriptorsAssumption, FS_Product
<1>. QED
  BY <1>1, FS_Subset, FS_CardinalityType DEF HoldersIn, Count

LEMMA DescriptorsType ==
    ASSUME NEW table, NEW F \in SUBSET Fds, NEW kind, NEW id
    PROVE  /\ IsFiniteSet({f \in F : LeadsTo(table[f], kind, id)})
           /\ Descriptors(table, F, kind, id) \in Nat
           /\ Descriptors(table, F, kind, id) = Cardinality({f \in F : LeadsTo(table[f], kind, id)})
<1>1. {f \in F : LeadsTo(table[f], kind, id)} \subseteq Fds
  OBVIOUS
<1>2. IsFiniteSet({f \in F : LeadsTo(table[f], kind, id)})
  BY <1>1, FiniteFds, FS_Subset
<1>. QED
  BY <1>2, FS_CardinalityType DEF Descriptors, LeadsTo

LEMMA OfOneDescriptor ==
    ASSUME NEW table, NEW f \in Fds, NEW kind, NEW id
    PROVE  Descriptors(table, {f}, kind, id) = One(table[f], kind, id)
<1>1. CASE LeadsTo(table[f], kind, id)
  <2>1. {g \in {f} : LeadsTo(table[g], kind, id)} = {f}
    BY <1>1
  <2>. QED
    BY <1>1, <2>1, FS_Singleton DEF Descriptors, LeadsTo, One
<1>2. CASE ~LeadsTo(table[f], kind, id)
  <2>1. {g \in {f} : LeadsTo(table[g], kind, id)} = {}
    BY <1>2
  <2>. QED
    BY <1>2, <2>1, FS_EmptySet DEF Descriptors, LeadsTo, One
<1>. QED
  BY <1>1, <1>2

\* A free table counts for nothing.
LEMMA OfFreeTable ==
    ASSUME NEW table, \A f \in Fds : table[f].kind = "free", NEW kind, kind # "free", NEW id
    PROVE  Descriptors(table, Fds, kind, id) = 0
<1>1. {g \in Fds : table[g].kind = kind /\ table[g].id = id} = {}
  OBVIOUS
<1>. QED
  BY <1>1, FS_EmptySet DEF Descriptors

\* One entry of a table is overwritten.
LEMMA EntryChanges ==
    ASSUME NEW table, NEW new, NEW f \in Fds, OnlyEntry(table, new, f)
    PROVE  \A kind, id :
           /\ Descriptors(new, Fds, kind, id)
                = Descriptors(table, Fds, kind, id) - One(table[f], kind, id) + One(new[f], kind, id)
           /\ One(table[f], kind, id) <= Descriptors(table, Fds, kind, id)
<1>. SUFFICES ASSUME NEW kind, NEW id
              PROVE  /\ Descriptors(new, Fds, kind, id) = Descriptors(table, Fds, kind, id)
                            - One(table[f], kind, id) + One(new[f], kind, id)
                     /\ One(table[f], kind, id) <= Descriptors(table, Fds, kind, id)
  OBVIOUS
<1>. DEFINE A == {g \in Fds : LeadsTo(table[g], kind, id)}
            B == {g \in Fds : LeadsTo(new[g], kind, id)}
            R == {g \in Fds \ {f} : LeadsTo(table[g], kind, id)}
<1>1. /\ IsFiniteSet(A) /\ Descriptors(table, Fds, kind, id) = Cardinality(A)
      /\ Descriptors(new, Fds, kind, id) = Cardinality(B)
  <2>1. IsFiniteSet(A) /\ Descriptors(table, Fds, kind, id) = Cardinality(A)
    BY DescriptorsType
  <2>2. Descriptors(new, Fds, kind, id) = Cardinality(B)
    BY DEF Descriptors, LeadsTo
  <2>. QED
    BY <2>1, <2>2
<1>2. IsFiniteSet(R) /\ f \notin R /\ Cardinality(R) \in Nat
  <2>1. R \subseteq A
    OBVIOUS
  <2>. HIDE DEF A, R
  <2>2. IsFiniteSet(R)
    BY <1>1, <2>1, FS_Subset
  <2>. QED
    BY <2>2, FS_CardinalityType DEF R
<1>3. A = IF LeadsTo(table[f], kind, id) THEN R \cup {f} ELSE R
  OBVIOUS
<1>4. B = IF LeadsTo(new[f], kind, id) THEN R \cup {f} ELSE R
  BY DEF OnlyEntry
<1>5. Cardinality(R \cup {f}) = Cardinality(R) + 1
  BY <1>2, FS_AddElement
<1>. HIDE DEF A, B, R
<1>6. Cardinality(A) = Cardinality(R) + One(table[f], kind, id)
  BY <1>2, <1>3, <1>5 DEF One
<1>7. Cardinality(B) = Cardinality(R) + One(new[f], kind, id)
  BY <1>2, <1>4, <1>5 DEF One
<1>8. One(table[f], kind, id) \in {0, 1} /\ One(new[f], kind, id) \in {0, 1}
  BY DEF One
<1>. QED
  BY <1>1, <1>2, <1>6, <1>7, <1>8

\* One process's table is replaced.
LEMMA TableChanges ==
    ASSUME NEW T, NEW new, NEW p \in Procs, OnlyTable(T, new, p)
    PROVE  \A kind, id :
           /\ Count(new, kind, id) = Count(T, kind, id) - Descriptors(T[p], Fds, kind, id)
                                                        + Descriptors(new[p], Fds, kind, id)
           /\ Descriptors(T[p], Fds, kind, id) <= Count(T, kind, id)
<1>. SUFFICES ASSUME NEW kind, NEW id
              PROVE  /\ Count(new, kind, id) = Count(T, kind, id)
                            - Descriptors(T[p], Fds, kind, id) + Descriptors(new[p], Fds, kind, id)
                     /\ Descriptors(T[p], Fds, kind, id) <= Count(T, kind, id)
  OBVIOUS
<1>. DEFINE A == {f \in Fds : LeadsTo(T[p][f], kind, id)}
            B == {f \in Fds : LeadsTo(new[p][f], kind, id)}
            R == {d \in Procs \X Fds : d[1] # p /\ LeadsTo(T[d[1]][d[2]], kind, id)}
            H == HoldersIn(T, kind, id)
            N == HoldersIn(new, kind, id)
<1>1. /\ IsFiniteSet(A) /\ Descriptors(T[p], Fds, kind, id) = Cardinality(A)
      /\ IsFiniteSet(B) /\ Descriptors(new[p], Fds, kind, id) = Cardinality(B)
      /\ Cardinality(A) \in Nat /\ Cardinality(B) \in Nat
  <2>1. /\ IsFiniteSet(A) /\ Descriptors(T[p], Fds, kind, id) = Cardinality(A)
        /\ IsFiniteSet(B) /\ Descriptors(new[p], Fds, kind, id) = Cardinality(B)
    BY SMTT(30), DescriptorsType
  <2>. HIDE DEF A, B
  <2>. QED
    BY <2>1, FS_CardinalityType
<1>2. IsFiniteSet(R) /\ Cardinality(R) \in Nat
  <2>1. R \subseteq H
    BY DEF HoldersIn
  <2>2. IsFiniteSet(H)
    BY CountType
  <2>. HIDE DEF R, H
  <2>. QED
    BY <2>1, <2>2, FS_Subset, FS_CardinalityType
<1>3. H = R \cup ({p} \X A)
  BY DEF HoldersIn
<1>4. N = R \cup ({p} \X B)
  BY DEF HoldersIn, OnlyTable
<1>5. R \cap ({p} \X A) = {} /\ R \cap ({p} \X B) = {}
  OBVIOUS
<1>. HIDE DEF A, B, R, H, N
<1>6. ASSUME NEW S, IsFiniteSet(S), R \cap ({p} \X S) = {}
      PROVE  Cardinality(R \cup ({p} \X S)) = Cardinality(R) + Cardinality(S)
  <2>1. IsFiniteSet({p}) /\ Cardinality({p}) = 1 /\ Cardinality(S) \in Nat
    BY <1>6, FS_Singleton, FS_CardinalityType
  <2>2. IsFiniteSet({p} \X S) /\ Cardinality({p} \X S) = 1 * Cardinality(S)
    BY <1>6, <2>1, FS_Product
  <2>3. Cardinality(R \cup ({p} \X S)) = Cardinality(R) + Cardinality({p} \X S) - Cardinality({})
    BY <1>2, <1>6, <2>2, FS_Union
  <2>. QED
    BY <1>2, <2>1, <2>2, <2>3, FS_EmptySet
<1>7. Cardinality(H) = Cardinality(R) + Cardinality(A)
  BY <1>1, <1>3, <1>5, <1>6
<1>8. Cardinality(N) = Cardinality(R) + Cardinality(B)
  BY <1>1, <1>4, <1>5, <1>6
<1>. QED
  BY <1>1, <1>2, <1>7, <1>8 DEF Count, H, N
LEMMA HolderCounts ==
    ASSUME NEW T, NEW p \in Procs, NEW f \in Fds, NEW kind, NEW id, LeadsTo(T[p][f], kind, id)
    PROVE  Count(T, kind, id) > 0
<1>1. <<p, f>> \in HoldersIn(T, kind, id)
  BY DEF HoldersIn
<1>2. IsFiniteSet(HoldersIn(T, kind, id)) /\ Count(T, kind, id) \in Nat
  BY CountType
<1>3. Count(T, kind, id) # 0
  BY <1>1, <1>2, FS_EmptySet DEF Count
<1>. QED
  BY <1>2, <1>3

\* Some descriptors of a process are at most all that there are.
LEMMA SomeOfAll ==
    ASSUME NEW T, NEW p \in Procs, NEW F \in SUBSET Fds, NEW kind, NEW id
    PROVE  /\ Descriptors(T[p], F, kind, id) \in Nat
           /\ Descriptors(T[p], F, kind, id) <= Count(T, kind, id)
<1>. DEFINE A == {f \in F : LeadsTo(T[p][f], kind, id)}
            B == {f \in Fds : LeadsTo(T[p][f], kind, id)}
<1>1. /\ IsFiniteSet(B) /\ Descriptors(T[p], Fds, kind, id) = Cardinality(B)
      /\ Descriptors(T[p], F, kind, id) = Cardinality(A) /\ A \subseteq B
      /\ Descriptors(T[p], F, kind, id) \in Nat /\ Descriptors(T[p], Fds, kind, id) \in Nat
  BY DescriptorsType
<1>2. Cardinality(A) <= Cardinality(B)
  BY <1>1, FS_Subset
<1>3. Descriptors(T[p], Fds, kind, id) <= Count(T, kind, id) /\ Count(T, kind, id) \in Nat
  <2>1. OnlyTable(T, T, p)
    BY DEF OnlyTable
  <2>. QED
    BY <2>1, TableChanges, CountType
<1>. HIDE DEF A, B
<1>. QED
  BY <1>1, <1>2, <1>3

-----------------------------------------------------------------------------
(* The invariant: what DescriptorsExact says, and that a process which is  *)
(* not alive has no descriptor.                                            *)

Kinds    == {"free", "plain"} \cup PipeEnds \cup Backends
FdEntry    == [kind : Kinds, id : Nat, path : Nodes \cup {"none"}]
SlotRec  == [refs : Nat, node : Nodes \cup {"none"}]
PipeRec  == [readers : Nat, writers : Nat, count : Nat, used : BOOLEAN]

DescTypeOK ==
    /\ fd_table \in [Procs -> [Fds -> FdEntry]]
    /\ alive \subseteq Procs
    /\ slots \in [Slots -> SlotRec]
    /\ pipe_pool \in [Pipes -> PipeRec]

DeadAreFree == \A p \in Procs \ alive : \A f \in Fds : fd_table[p][f].kind = "free"

RefsRight ==
    \A s \in Slots : s[1] \in Counted =>
        slots[s].refs = Count(fd_table, s[1], s[2]) + (IF s \in stranded THEN 1 ELSE 0)

FilesRight ==
    \A p \in Procs, f \in Fds : fd_table[p][f].kind \in Counted =>
        /\ <<fd_table[p][f].kind, fd_table[p][f].id>> \in Slots
        /\ slots[<<fd_table[p][f].kind, fd_table[p][f].id>>].node = fd_table[p][f].path

PipesRight ==
    \A i \in Pipes :
        /\ pipe_pool[i].readers = Count(fd_table, "pipe_read", i)
        /\ pipe_pool[i].writers = Count(fd_table, "pipe_write", i)
        /\ pipe_pool[i].used <=> (pipe_pool[i].readers + pipe_pool[i].writers > 0)

DescInv == DescTypeOK /\ DeadAreFree /\ RefsRight /\ FilesRight /\ PipesRight

LEMMA ConstantFacts ==
    /\ MAX_OPEN \in Nat /\ NSlots \in Nat /\ MAX_PIPES \in Nat /\ PIPE_BUF_SIZE \in Nat
    /\ FIRST_FD \in Nat /\ Fds \subseteq Nat /\ Pipes \subseteq Nat
    /\ \A s \in Slots : s = <<s[1], s[2]>> /\ s[1] \in Backends /\ s[2] \in 1 .. NSlots
    /\ \A s \in Slots : s[1] # "free" /\ s[1] # "plain" /\ s[1] \notin PipeEnds
    /\ Counted = {"biscuit"}
    /\ FreeEntry \in FdEntry /\ FreeSlot \in SlotRec /\ FreePipe \in PipeRec
    /\ FreeEntry.kind = "free" /\ FreeSlot.refs = 0
    /\ FreePipe.readers = 0 /\ FreePipe.writers = 0 /\ FreePipe.used = FALSE
BY DescriptorsAssumption
   DEF Fds, Pipes, Slots, PipeEnds, Counted, FreeEntry, FreeSlot, FreePipe, FdEntry, SlotRec,
       PipeRec, Kinds

\* What a slot or a pipe is known by, with its types.
LEMMA SlotFacts ==
    ASSUME DescInv, NEW s \in Slots
    PROVE  /\ slots[s] \in SlotRec /\ slots[s].refs \in Nat
           /\ s[1] \in Counted => Count(fd_table, s[1], s[2]) \in Nat
                                  /\ Count(fd_table, s[1], s[2]) <= slots[s].refs
           /\ s[1] \in Counted /\ s \notin stranded => slots[s].refs = Count(fd_table, s[1], s[2])
<1>1. slots[s] \in SlotRec /\ slots[s].refs \in Nat
  BY DEF DescInv, DescTypeOK, SlotRec
<1>2. Count(fd_table, s[1], s[2]) \in Nat
  BY CountType
<1>. QED
  BY <1>1, <1>2 DEF DescInv, RefsRight

LEMMA PipeFacts ==
    ASSUME DescInv, NEW i \in Pipes
    PROVE  /\ pipe_pool[i] \in PipeRec
           /\ pipe_pool[i].readers \in Nat /\ pipe_pool[i].writers \in Nat
           /\ pipe_pool[i].count \in Nat /\ pipe_pool[i].used \in BOOLEAN
           /\ pipe_pool[i].readers = Count(fd_table, "pipe_read", i)
           /\ pipe_pool[i].writers = Count(fd_table, "pipe_write", i)
           /\ pipe_pool[i].used <=> (pipe_pool[i].readers + pipe_pool[i].writers > 0)
<1>1. pipe_pool[i] \in PipeRec
  BY DEF DescInv, DescTypeOK
<1>2. /\ pipe_pool[i].readers \in Nat /\ pipe_pool[i].writers \in Nat
      /\ pipe_pool[i].count \in Nat /\ pipe_pool[i].used \in BOOLEAN
  BY ONLY <1>1 DEF PipeRec
<1>. QED
  BY <1>1, <1>2 DEF DescInv, PipesRight

-----------------------------------------------------------------------------
(* What the counts become.                                                 *)

LEMMA SlotsPlusIs ==
    ASSUME DescInv, NEW p \in Procs, NEW F \in SUBSET Fds
    PROVE  /\ SlotsPlus(fd_table[p], F) \in [Slots -> SlotRec]
           /\ \A s \in Slots : s[1] \in Counted =>
                /\ SlotsPlus(fd_table[p], F)[s].refs
                     = slots[s].refs + Descriptors(fd_table[p], F, s[1], s[2])
                /\ SlotsPlus(fd_table[p], F)[s].node = slots[s].node
<1>. DEFINE new == SlotsPlus(fd_table[p], F)
<1>1. \A s \in Slots : new[s] \in SlotRec
                       /\ (s[1] \in Counted =>
                            /\ new[s].refs = slots[s].refs + Descriptors(fd_table[p], F, s[1], s[2])
                            /\ new[s].node = slots[s].node)
  <2>. SUFFICES ASSUME NEW s \in Slots
                PROVE  new[s] \in SlotRec
                       /\ (s[1] \in Counted =>
                            /\ new[s].refs = slots[s].refs + Descriptors(fd_table[p], F, s[1], s[2])
                            /\ new[s].node = slots[s].node)
    OBVIOUS
  <2>. DEFINE n == Descriptors(fd_table[p], F, s[1], s[2])
  <2>1. n \in Nat /\ n <= Count(fd_table, s[1], s[2])
    BY SomeOfAll DEF DescInv, DescTypeOK
  <2>2. /\ slots[s] \in SlotRec /\ slots[s].refs \in Nat
        /\ s[1] \in Counted => n <= slots[s].refs
    BY <2>1, SlotFacts
  <2>3. new[s] = IF s[1] \in Counted /\ slots[s].refs > 0
                 THEN [slots[s] EXCEPT !.refs = @ + n] ELSE slots[s]
    BY DEF SlotsPlus
  <2>. HIDE DEF new, n
  <2>4. CASE s[1] \in Counted /\ slots[s].refs > 0
    <3>1. slots[s].refs + n \in Nat /\ new[s] = [slots[s] EXCEPT !.refs = @ + n]
      BY <2>1, <2>2, <2>3, <2>4
    <3>. QED
      BY ONLY <2>2, <3>1 DEF SlotRec, n
  <2>5. CASE ~(s[1] \in Counted /\ slots[s].refs > 0)
    <3>1. new[s] = slots[s] /\ (s[1] \in Counted => n = 0)
      BY <2>1, <2>2, <2>3, <2>5
    <3>. QED
      BY <2>2, <3>1 DEF n
  <2>. QED
    BY <2>4, <2>5
<1>2. new \in [Slots -> SlotRec]
  BY <1>1 DEF SlotsPlus
<1>. QED
  BY <1>1, <1>2

LEMMA SlotsMinusIs ==
    ASSUME DescInv, NEW p \in Procs, NEW F \in SUBSET Fds
    PROVE  /\ SlotsMinus(fd_table[p], F) \in [Slots -> SlotRec]
           /\ \A s \in Slots : s[1] \in Counted =>
                /\ SlotsMinus(fd_table[p], F)[s].refs
                     = slots[s].refs - Descriptors(fd_table[p], F, s[1], s[2])
                /\ SlotsMinus(fd_table[p], F)[s].refs > 0 =>
                     SlotsMinus(fd_table[p], F)[s].node = slots[s].node
<1>. DEFINE new == SlotsMinus(fd_table[p], F)
<1>1. \A s \in Slots : new[s] \in SlotRec
                       /\ (s[1] \in Counted =>
                            /\ new[s].refs = slots[s].refs - Descriptors(fd_table[p], F, s[1], s[2])
                            /\ new[s].refs > 0 => new[s].node = slots[s].node)
  <2>. SUFFICES ASSUME NEW s \in Slots
                PROVE  new[s] \in SlotRec
                       /\ (s[1] \in Counted =>
                            /\ new[s].refs = slots[s].refs - Descriptors(fd_table[p], F, s[1], s[2])
                            /\ new[s].refs > 0 => new[s].node = slots[s].node)
    OBVIOUS
  <2>. DEFINE n == Descriptors(fd_table[p], F, s[1], s[2])
  <2>1. n \in Nat /\ n <= Count(fd_table, s[1], s[2])
    BY SomeOfAll DEF DescInv, DescTypeOK
  <2>2. /\ slots[s] \in SlotRec /\ slots[s].refs \in Nat
        /\ s[1] \in Counted => n <= slots[s].refs
    BY <2>1, SlotFacts
  <2>3. new[s] = IF n = 0 THEN slots[s]
                 ELSE IF s[1] \in Counted /\ slots[s].refs > n
                 THEN [slots[s] EXCEPT !.refs = @ - n] ELSE FreeSlot
    BY DEF SlotsMinus
  <2>. HIDE DEF new, n
  <2>4. CASE n = 0
    BY <2>2, <2>3, <2>4 DEF n
  <2>5. CASE n # 0 /\ s[1] \in Counted /\ slots[s].refs > n
    <3>1. slots[s].refs - n \in Nat /\ new[s] = [slots[s] EXCEPT !.refs = @ - n]
      BY <2>1, <2>2, <2>3, <2>5
    <3>. QED
      BY ONLY <2>2, <3>1 DEF SlotRec, n
  <2>6. CASE n # 0 /\ ~(s[1] \in Counted /\ slots[s].refs > n)
    <3>1. new[s] = FreeSlot /\ (s[1] \in Counted => n = slots[s].refs)
      BY <2>1, <2>2, <2>3, <2>6
    <3>. QED
      BY <2>2, <3>1, ConstantFacts DEF n
  <2>. QED
    BY <2>4, <2>5, <2>6
<1>2. new \in [Slots -> SlotRec]
  BY <1>1 DEF SlotsMinus
<1>. QED
  BY <1>1, <1>2

LEMMA PipesPlusIs ==
    ASSUME DescInv, NEW p \in Procs, NEW F \in SUBSET Fds
    PROVE  /\ PipesPlus(fd_table[p], F) \in [Pipes -> PipeRec]
           /\ \A i \in Pipes :
                /\ PipesPlus(fd_table[p], F)[i].readers
                     = pipe_pool[i].readers + Descriptors(fd_table[p], F, "pipe_read", i)
                /\ PipesPlus(fd_table[p], F)[i].writers
                     = pipe_pool[i].writers + Descriptors(fd_table[p], F, "pipe_write", i)
                /\ PipesPlus(fd_table[p], F)[i].used <=>
                     PipesPlus(fd_table[p], F)[i].readers + PipesPlus(fd_table[p], F)[i].writers > 0
<1>. DEFINE new == PipesPlus(fd_table[p], F)
<1>1. ASSUME NEW i \in Pipes
      PROVE  /\ new[i] \in PipeRec
             /\ new[i].readers = pipe_pool[i].readers + Descriptors(fd_table[p], F, "pipe_read", i)
             /\ new[i].writers = pipe_pool[i].writers + Descriptors(fd_table[p], F, "pipe_write", i)
             /\ new[i].used <=> new[i].readers + new[i].writers > 0
  <2>. DEFINE r == Descriptors(fd_table[p], F, "pipe_read", i)
              w == Descriptors(fd_table[p], F, "pipe_write", i)
  <2>1. /\ r \in Nat /\ r <= Count(fd_table, "pipe_read", i)
        /\ w \in Nat /\ w <= Count(fd_table, "pipe_write", i)
    BY SomeOfAll DEF DescInv, DescTypeOK
  <2>2. /\ pipe_pool[i] \in PipeRec
        /\ pipe_pool[i].readers \in Nat /\ pipe_pool[i].writers \in Nat
        /\ r <= pipe_pool[i].readers /\ w <= pipe_pool[i].writers
        /\ pipe_pool[i].used <=> (pipe_pool[i].readers + pipe_pool[i].writers > 0)
    BY <2>1, PipeFacts
  <2>3. new[i] = [pipe_pool[i] EXCEPT !.readers = @ + r, !.writers = @ + w]
    BY DEF PipesPlus
  <2>. HIDE DEF new, r, w
  <2>4. /\ new[i] \in PipeRec /\ new[i].readers = pipe_pool[i].readers + r
        /\ new[i].writers = pipe_pool[i].writers + w /\ new[i].used = pipe_pool[i].used
    <3>1. pipe_pool[i].readers + r \in Nat /\ pipe_pool[i].writers + w \in Nat
      BY ONLY <2>1, <2>2
    <3>. QED
      BY ONLY <2>2, <2>3, <3>1 DEF PipeRec
  <2>5. pipe_pool[i].readers + pipe_pool[i].writers > 0
            <=> (pipe_pool[i].readers + r) + (pipe_pool[i].writers + w) > 0
    BY ONLY <2>1, <2>2
  <2>. QED
    BY ONLY <2>2, <2>4, <2>5 DEF r, w
<1>2. new \in [Pipes -> PipeRec]
  BY <1>1 DEF PipesPlus
<1>. QED
  BY <1>1, <1>2

LEMMA PipesMinusIs ==
    ASSUME DescInv, NEW p \in Procs, NEW F \in SUBSET Fds
    PROVE  /\ PipesMinus(fd_table[p], F) \in [Pipes -> PipeRec]
           /\ \A i \in Pipes :
                /\ PipesMinus(fd_table[p], F)[i].readers
                     = pipe_pool[i].readers - Descriptors(fd_table[p], F, "pipe_read", i)
                /\ PipesMinus(fd_table[p], F)[i].writers
                     = pipe_pool[i].writers - Descriptors(fd_table[p], F, "pipe_write", i)
                /\ PipesMinus(fd_table[p], F)[i].used <=>
                     PipesMinus(fd_table[p], F)[i].readers + PipesMinus(fd_table[p], F)[i].writers > 0
<1>. DEFINE new == PipesMinus(fd_table[p], F)
<1>1. ASSUME NEW i \in Pipes
      PROVE  /\ new[i] \in PipeRec
             /\ new[i].readers = pipe_pool[i].readers - Descriptors(fd_table[p], F, "pipe_read", i)
             /\ new[i].writers = pipe_pool[i].writers - Descriptors(fd_table[p], F, "pipe_write", i)
             /\ new[i].used <=> new[i].readers + new[i].writers > 0
  <2>. DEFINE r == Descriptors(fd_table[p], F, "pipe_read", i)
              w == Descriptors(fd_table[p], F, "pipe_write", i)
              nr == pipe_pool[i].readers - r
              nw == pipe_pool[i].writers - w
  <2>1. /\ r \in Nat /\ r <= Count(fd_table, "pipe_read", i)
        /\ w \in Nat /\ w <= Count(fd_table, "pipe_write", i)
    BY SomeOfAll DEF DescInv, DescTypeOK
  <2>2. /\ pipe_pool[i] \in PipeRec
        /\ pipe_pool[i].readers \in Nat /\ pipe_pool[i].writers \in Nat
        /\ r <= pipe_pool[i].readers /\ w <= pipe_pool[i].writers
        /\ pipe_pool[i].used <=> (pipe_pool[i].readers + pipe_pool[i].writers > 0)
    BY <2>1, PipeFacts
  <2>. HIDE DEF r, w
  <2>3. nr \in Nat /\ nw \in Nat /\ Max({0, nr}) = nr /\ Max({0, nw}) = nw
    <3>1. nr \in Nat /\ nw \in Nat
      BY ONLY <2>1, <2>2
    <3>. HIDE DEF nr, nw
    <3>2. nr \in Int /\ nr >= 0 /\ nw \in Int /\ nw >= 0
      BY ONLY <3>1
    <3>3. Max({0, nr}) = nr
      BY ONLY <3>2, MaxWithZero
    <3>4. Max({0, nw}) = nw
      BY ONLY <3>2, MaxWithZero
    <3>. QED
      BY ONLY <3>1, <3>3, <3>4
  <2>4. new[i] = LET q == [pipe_pool[i] EXCEPT !.readers = Max({0, @ - r}),
                                               !.writers = Max({0, @ - w})]
                 IN  IF q.readers = 0 /\ q.writers = 0 THEN FreePipe ELSE q
    BY DEF PipesMinus, r, w
  <2>. DEFINE q == [pipe_pool[i] EXCEPT !.readers = nr, !.writers = nw]
  <2>5. new[i] = IF q.readers = 0 /\ q.writers = 0 THEN FreePipe ELSE q
    <3>1. [pipe_pool[i] EXCEPT !.readers = Max({0, @ - r}), !.writers = Max({0, @ - w})] = q
      BY <2>2, <2>3 DEF PipeRec
    <3>. QED
      BY <2>4, <3>1
  <2>6. /\ q \in PipeRec /\ q.readers = nr /\ q.writers = nw /\ q.used = pipe_pool[i].used
    BY ONLY <2>2, <2>3 DEF PipeRec
  <2>7. ~(nr = 0 /\ nw = 0) => (nr + nw > 0 /\ pipe_pool[i].readers + pipe_pool[i].writers > 0)
    BY ONLY <2>1, <2>2, <2>3
  <2>. HIDE DEF new, q, nr, nw
  <2>8. /\ new[i] \in PipeRec /\ new[i].readers = nr /\ new[i].writers = nw
        /\ new[i].used <=> nr + nw > 0
    BY <2>2, <2>3, <2>5, <2>6, <2>7, ConstantFacts
  <2>. QED
    BY <2>8 DEF nr, nw, r, w
<1>2. new \in [Pipes -> PipeRec]
  BY <1>1 DEF PipesMinus
<1>. QED
  BY <1>1, <1>2
-----------------------------------------------------------------------------
(* From one table to the invariant.                                        *)

LEMMA RefsFollow ==
    ASSUME DescInv, NEW p \in Procs, NEW table, fd_table' = [fd_table EXCEPT ![p] = table],
           stranded' = stranded,
           \A s \in Slots : s[1] \in Counted =>
                slots'[s].refs = slots[s].refs - Descriptors(fd_table[p], Fds, s[1], s[2])
                                               + Descriptors(table, Fds, s[1], s[2])
    PROVE  RefsRight'
<1>. SUFFICES ASSUME NEW s \in Slots, s[1] \in Counted
              PROVE  slots'[s].refs = Count(fd_table', s[1], s[2])
                                      + (IF s \in stranded THEN 1 ELSE 0)
  BY DEF RefsRight
<1>. DEFINE old == Count(fd_table, s[1], s[2])
            d == Descriptors(fd_table[p], Fds, s[1], s[2])
            e == Descriptors(table, Fds, s[1], s[2])
            one == IF s \in stranded THEN 1 ELSE 0
<1>1. Count(fd_table', s[1], s[2]) = old - d + e
  <2>1. fd_table'[p] = table /\ OnlyTable(fd_table, fd_table', p)
    BY DEF DescInv, DescTypeOK, OnlyTable
  <2>. QED
    BY ONLY <2>1, p \in Procs, TableChanges
<1>2. old \in Nat /\ d \in Nat /\ e \in Nat /\ one \in Nat
  BY CountType, DescriptorsType
<1>3. slots[s].refs = old + one /\ slots'[s].refs = slots[s].refs - d + e
  BY DEF DescInv, RefsRight
<1>. HIDE DEF old, d, e, one
<1>4. slots'[s].refs = (old - d + e) + one
  BY ONLY <1>2, <1>3
<1>. QED
  BY ONLY <1>1, <1>4 DEF one

LEMMA PipesFollow ==
    ASSUME DescInv, NEW p \in Procs, NEW table, fd_table' = [fd_table EXCEPT ![p] = table],
           \A i \in Pipes :
                /\ pipe_pool'[i].readers = pipe_pool[i].readers
                        - Descriptors(fd_table[p], Fds, "pipe_read", i)
                        + Descriptors(table, Fds, "pipe_read", i)
                /\ pipe_pool'[i].writers = pipe_pool[i].writers
                        - Descriptors(fd_table[p], Fds, "pipe_write", i)
                        + Descriptors(table, Fds, "pipe_write", i)
                /\ pipe_pool'[i].used <=> pipe_pool'[i].readers + pipe_pool'[i].writers > 0
    PROVE  PipesRight'
<1>. SUFFICES ASSUME NEW i \in Pipes
              PROVE  /\ pipe_pool'[i].readers = Count(fd_table', "pipe_read", i)
                     /\ pipe_pool'[i].writers = Count(fd_table', "pipe_write", i)
  BY DEF PipesRight
<1>1. \A kind : Count(fd_table', kind, i) = Count(fd_table, kind, i)
            - Descriptors(fd_table[p], Fds, kind, i) + Descriptors(table, Fds, kind, i)
  <2>1. fd_table'[p] = table /\ OnlyTable(fd_table, fd_table', p)
    BY DEF DescInv, DescTypeOK, OnlyTable
  <2>. QED
    BY ONLY <2>1, p \in Procs, TableChanges
<1>2. /\ pipe_pool[i].readers = Count(fd_table, "pipe_read", i)
      /\ pipe_pool[i].writers = Count(fd_table, "pipe_write", i)
  BY PipeFacts
<1>. QED
  BY <1>1, <1>2

\* A slot that somebody still refers to keeps its file.
LEMMA FilesFollow ==
    ASSUME DescInv, RefsRight', slots' \in [Slots -> SlotRec],
           \A p \in Procs, f \in Fds : fd_table'[p][f].kind \in Counted =>
                \E q \in Procs, g \in Fds : fd_table'[p][f] = fd_table[q][g],
           \A s \in Slots : s[1] \in Counted /\ slots'[s].refs > 0 => slots'[s].node = slots[s].node
    PROVE  FilesRight'
<1>. SUFFICES ASSUME NEW p \in Procs, NEW f \in Fds, fd_table'[p][f].kind \in Counted
              PROVE  /\ <<fd_table'[p][f].kind, fd_table'[p][f].id>> \in Slots
                     /\ slots'[<<fd_table'[p][f].kind, fd_table'[p][f].id>>].node
                            = fd_table'[p][f].path
  BY DEF FilesRight
<1>. DEFINE e == fd_table'[p][f]
            s == <<e.kind, e.id>>
<1>1. PICK q \in Procs, g \in Fds : e = fd_table[q][g]
  OBVIOUS
<1>2. s \in Slots /\ slots[s].node = e.path
  BY <1>1 DEF DescInv, FilesRight
<1>3. Count(fd_table', s[1], s[2]) > 0 /\ Count(fd_table', s[1], s[2]) \in Nat
  BY HolderCounts, CountType DEF LeadsTo
<1>4. slots'[s].refs > 0
  <2>1. slots'[s].refs = Count(fd_table', s[1], s[2]) + (IF s \in stranded' THEN 1 ELSE 0)
    BY <1>2 DEF RefsRight
  <2>. QED
    BY <1>3, <2>1
<1>. QED
  BY <1>2, <1>4

LEMMA TableStep ==
    ASSUME DescInv, NEW p \in Procs, NEW table \in [Fds -> FdEntry],
           fd_table' = [fd_table EXCEPT ![p] = table], stranded' = stranded,
           \A f \in Fds : table[f].kind \in Counted =>
                \E q \in Procs, g \in Fds : table[f] = fd_table[q][g],
           alive' \subseteq Procs, DeadAreFree',
           slots' \in [Slots -> SlotRec], pipe_pool' \in [Pipes -> PipeRec],
           \A s \in Slots : s[1] \in Counted =>
                /\ slots'[s].refs = slots[s].refs - Descriptors(fd_table[p], Fds, s[1], s[2])
                                                  + Descriptors(table, Fds, s[1], s[2])
                /\ slots'[s].refs > 0 => slots'[s].node = slots[s].node,
           \A i \in Pipes :
                /\ pipe_pool'[i].readers = pipe_pool[i].readers
                        - Descriptors(fd_table[p], Fds, "pipe_read", i)
                        + Descriptors(table, Fds, "pipe_read", i)
                /\ pipe_pool'[i].writers = pipe_pool[i].writers
                        - Descriptors(fd_table[p], Fds, "pipe_write", i)
                        + Descriptors(table, Fds, "pipe_write", i)
                /\ pipe_pool'[i].used <=> pipe_pool'[i].readers + pipe_pool'[i].writers > 0
    PROVE  DescInv'
<1>1. fd_table' \in [Procs -> [Fds -> FdEntry]]
  <2>. DEFINE Tables == [Fds -> FdEntry]
  <2>1. fd_table \in [Procs -> Tables] /\ table \in Tables
    BY DEF DescInv, DescTypeOK
  <2>. HIDE DEF Tables
  <2>2. fd_table' \in [Procs -> Tables]
    BY ONLY <2>1, fd_table' = [fd_table EXCEPT ![p] = table]
  <2>. QED
    BY <2>2 DEF Tables
<1>2. RefsRight'
  <2>1. \A s \in Slots : s[1] \in Counted =>
            slots'[s].refs = slots[s].refs - Descriptors(fd_table[p], Fds, s[1], s[2])
                                           + Descriptors(table, Fds, s[1], s[2])
    OBVIOUS
  <2>. QED
    BY ONLY <2>1, DescInv, p \in Procs, fd_table' = [fd_table EXCEPT ![p] = table],
            stranded' = stranded, RefsFollow
<1>3. PipesRight'
  BY PipesFollow
<1>4. \A q \in Procs, f \in Fds : fd_table'[q][f].kind \in Counted =>
            \E r \in Procs, g \in Fds : fd_table'[q][f] = fd_table[r][g]
  BY DEF DescInv, DescTypeOK
<1>5. FilesRight'
  BY <1>2, <1>4, FilesFollow
<1>. QED
  BY <1>1, <1>2, <1>3, <1>5 DEF DescInv, DescTypeOK

-----------------------------------------------------------------------------
(* The operations.                                                         *)

\* Only what a pipe holds changes.
LEMMA AmountStep ==
    ASSUME DescInv, UNCHANGED <<fd_table, alive, slots, stranded>>,
           pipe_pool' \in [Pipes -> PipeRec],
           \A i \in Pipes : /\ pipe_pool'[i].readers = pipe_pool[i].readers
                            /\ pipe_pool'[i].writers = pipe_pool[i].writers
                            /\ pipe_pool'[i].used = pipe_pool[i].used
    PROVE  DescInv'
<1>1. RefsRight' /\ FilesRight' /\ DeadAreFree' /\ DescTypeOK'
  BY DEF DescInv, RefsRight, FilesRight, DeadAreFree, DescTypeOK
<1>2. PipesRight'
  BY DEF DescInv, PipesRight
<1>. QED
  BY <1>1, <1>2 DEF DescInv

LEMMA AmountIs ==
    ASSUME DescInv, NEW i, NEW c, i \in Pipes => c \in Nat,
           pipe_pool' = [pipe_pool EXCEPT ![i].count = c]
    PROVE  /\ pipe_pool' \in [Pipes -> PipeRec]
           /\ \A j \in Pipes : /\ pipe_pool'[j].readers = pipe_pool[j].readers
                               /\ pipe_pool'[j].writers = pipe_pool[j].writers
                               /\ pipe_pool'[j].used = pipe_pool[j].used
<1>1. pipe_pool \in [Pipes -> PipeRec]
  BY DEF DescInv, DescTypeOK
<1>. QED
  BY <1>1 DEF PipeRec

LEMMA ReadPipeInv ==
    ASSUME DescInv, NEW p, NEW f, NEW n \in Nat, ReadPipe(p, f, n),
           UNCHANGED <<fd_table, alive, slots, stranded>>
    PROVE  DescInv'
<1>. DEFINE i == fd_table[p][f].id
            c == pipe_pool[i].count - Min({n, pipe_pool[i].count})
<1>1. CASE Blocks(i)
  <2>1. UNCHANGED pipe_pool
    BY <1>1 DEF ReadPipe
  <2>. QED
    BY <2>1, AmountStep DEF DescInv, DescTypeOK
<1>2. CASE ~Blocks(i)
  <2>1. pipe_pool' = [pipe_pool EXCEPT ![i].count = @ - Min({n, @})]
    BY <1>2 DEF ReadPipe
  <2>2. pipe_pool' = [pipe_pool EXCEPT ![i].count = c]
    BY ONLY <2>1, DescInv DEF DescInv, DescTypeOK, PipeRec
  <2>3. i \in Pipes => c \in Nat
    <3>1. SUFFICES ASSUME i \in Pipes PROVE c \in Nat
      OBVIOUS
    <3>2. pipe_pool[i].count \in Nat
      BY <3>1, PipeFacts
    <3>3. Min({n, pipe_pool[i].count}) \in {n, pipe_pool[i].count}
          /\ Min({n, pipe_pool[i].count}) <= pipe_pool[i].count
      BY <3>2, MinOfTwo
    <3>. QED
      BY <3>2, <3>3
  <2>. HIDE DEF i, c
  <2>. QED
    BY <2>2, <2>3, AmountIs, AmountStep
<1>. QED
  BY <1>1, <1>2

LEMMA WriteInv ==
    ASSUME DescInv, NEW p \in Procs, NEW f \in Fds, NEW n \in 1 .. PIPE_BUF_SIZE, Write(p, f, n)
    PROVE  DescInv'
<1>. DEFINE i == fd_table[p][f].id
            c == Min({PIPE_BUF_SIZE, pipe_pool[i].count + n})
<1>1. pipe_pool' = [pipe_pool EXCEPT ![i].count = Min({PIPE_BUF_SIZE, @ + n})]
      /\ UNCHANGED <<fd_table, alive, slots, stranded>>
  BY DEF Write
<1>2. pipe_pool' = [pipe_pool EXCEPT ![i].count = c]
  BY ONLY <1>1, DescInv DEF DescInv, DescTypeOK, PipeRec
<1>3. i \in Pipes => c \in Nat
  <2>1. SUFFICES ASSUME i \in Pipes PROVE c \in Nat
    OBVIOUS
  <2>2. pipe_pool[i].count + n \in Nat /\ PIPE_BUF_SIZE \in Nat
    BY <2>1, PipeFacts, ConstantFacts
  <2>. QED
    BY <2>2, MinOfTwo
<1>. HIDE DEF i, c
<1>. QED
  BY <1>1, <1>2, <1>3, AmountIs, AmountStep

LEMMA AllocIs ==
    ASSUME NEW p, NEW low, FreeFrom(p, low) # {}
    PROVE  LET new == Min(FreeFrom(p, low)) IN new \in Fds /\ fd_table[p][new].kind = "free"
<1>1. FreeFrom(p, low) \subseteq Nat
  BY ConstantFacts DEF FreeFrom
<1>2. Min(FreeFrom(p, low)) \in FreeFrom(p, low)
  BY <1>1, MinIn
<1>. QED
  BY <1>2 DEF FreeFrom, IsOpen

\* A free descriptor gets an entry that no slot and no pipe counts.
LEMMA OpenPlainInv == ASSUME DescInv, NEW p \in Procs, OpenPlain(p) PROVE DescInv'
<1>. DEFINE n == AllocFd(p)
            e == [FreeEntry EXCEPT !.kind = "plain"]
            table == [fd_table[p] EXCEPT ![n] = e]
<1>1. n \in Fds /\ fd_table[p][n].kind = "free" /\ p \in alive
  BY AllocIs DEF OpenPlain, CanAlloc, AllocFd, Running
<1>2. fd_table[p] \in [Fds -> FdEntry]
  BY DEF DescInv, DescTypeOK
<1>3. e \in FdEntry /\ e.kind = "plain"
  BY DEF FreeEntry, FdEntry, Kinds
<1>4. /\ fd_table' = [fd_table EXCEPT ![p][n] = e]
      /\ UNCHANGED <<alive, slots, pipe_pool, stranded>>
  BY DEF OpenPlain
<1>. HIDE DEF n, e
<1>5. table \in [Fds -> FdEntry] /\ fd_table' = [fd_table EXCEPT ![p] = table]
  BY <1>1, <1>2, <1>3, <1>4 DEF DescInv, DescTypeOK
<1>6. \A kind, id : kind \notin {"free", "plain"} =>
        /\ Descriptors(table, Fds, kind, id) = Descriptors(fd_table[p], Fds, kind, id)
        /\ Descriptors(table, Fds, kind, id) \in Nat
  <2>. SUFFICES ASSUME NEW kind, NEW id, kind \notin {"free", "plain"}
                PROVE  /\ Descriptors(table, Fds, kind, id) = Descriptors(fd_table[p], Fds, kind, id)
                       /\ Descriptors(table, Fds, kind, id) \in Nat
    OBVIOUS
  <2>1. One(fd_table[p][n], kind, id) = 0 /\ One(e, kind, id) = 0
    BY <1>1, <1>3 DEF One, LeadsTo
  <2>2. Descriptors(fd_table[p], Fds, kind, id) \in Nat
    BY DescriptorsType
  <2>3. Descriptors(table, Fds, kind, id) = Descriptors(fd_table[p], Fds, kind, id)
                - One(fd_table[p][n], kind, id) + One(e, kind, id)
    <3>1. table[n] = e /\ OnlyEntry(fd_table[p], table, n)
      BY ONLY <1>1, <1>2 DEF OnlyEntry
    <3>. HIDE DEF table
    <3>. QED
      BY ONLY <1>1, <3>1, EntryChanges
  <2>. QED
    BY ONLY <2>1, <2>2, <2>3
<1>7. \A f \in Fds : table[f].kind \in Counted =>
            \E q \in Procs, g \in Fds : table[f] = fd_table[q][g]
  BY <1>1, <1>2, <1>3 DEF Counted
<1>8. DeadAreFree'
  BY <1>1, <1>4, <1>5 DEF DescInv, DescTypeOK, DeadAreFree
<1>. HIDE DEF table
<1>9. \A s \in Slots : s[1] \in Counted =>
        /\ slots'[s].refs = slots[s].refs - Descriptors(fd_table[p], Fds, s[1], s[2])
                                          + Descriptors(table, Fds, s[1], s[2])
        /\ slots'[s].refs > 0 => slots'[s].node = slots[s].node
  <2>. SUFFICES ASSUME NEW s \in Slots
                PROVE  slots[s].refs = slots[s].refs - Descriptors(fd_table[p], Fds, s[1], s[2])
                                                     + Descriptors(table, Fds, s[1], s[2])
    BY <1>4
  <2>1. slots[s].refs \in Nat
    BY SlotFacts
  <2>2. s[1] \notin {"free", "plain"}
    BY ConstantFacts
  <2>. QED
    BY ONLY <1>6, <2>1, <2>2
<1>10. \A i \in Pipes :
        /\ pipe_pool'[i].readers = pipe_pool[i].readers
                - Descriptors(fd_table[p], Fds, "pipe_read", i)
                + Descriptors(table, Fds, "pipe_read", i)
        /\ pipe_pool'[i].writers = pipe_pool[i].writers
                - Descriptors(fd_table[p], Fds, "pipe_write", i)
                + Descriptors(table, Fds, "pipe_write", i)
        /\ pipe_pool'[i].used <=> pipe_pool'[i].readers + pipe_pool'[i].writers > 0
  <2>. SUFFICES ASSUME NEW i \in Pipes
                PROVE  /\ pipe_pool[i].readers = pipe_pool[i].readers
                              - Descriptors(fd_table[p], Fds, "pipe_read", i)
                              + Descriptors(table, Fds, "pipe_read", i)
                       /\ pipe_pool[i].writers = pipe_pool[i].writers
                              - Descriptors(fd_table[p], Fds, "pipe_write", i)
                              + Descriptors(table, Fds, "pipe_write", i)
                       /\ pipe_pool[i].used <=> pipe_pool[i].readers + pipe_pool[i].writers > 0
    BY <1>4
  <2>1. /\ pipe_pool[i].readers \in Nat /\ pipe_pool[i].writers \in Nat
        /\ pipe_pool[i].used <=> pipe_pool[i].readers + pipe_pool[i].writers > 0
    BY PipeFacts
  <2>. QED
    BY ONLY <1>6, <2>1
<1>11. /\ alive' \subseteq Procs /\ slots' \in [Slots -> SlotRec]
       /\ pipe_pool' \in [Pipes -> PipeRec] /\ stranded' = stranded
  BY <1>4 DEF DescInv, DescTypeOK
<1>. QED
  BY ONLY DescInv, p \in Procs, <1>5, <1>7, <1>8, <1>9, <1>10, <1>11, TableStep
\* One entry of the table of p becomes e.
LEMMA EntryStep ==
    ASSUME DescInv, NEW p \in Procs, NEW n \in Fds, NEW e \in FdEntry,
           fd_table' = [fd_table EXCEPT ![p][n] = e]
    PROVE  \E table \in [Fds -> FdEntry] :
              /\ fd_table' = [fd_table EXCEPT ![p] = table]
              /\ table[n] = e /\ \A f \in Fds \ {n} : table[f] = fd_table[p][f]
              /\ \A kind, id :
                    /\ Descriptors(table, Fds, kind, id) = Descriptors(fd_table[p], Fds, kind, id)
                            - One(fd_table[p][n], kind, id) + One(e, kind, id)
                    /\ Descriptors(fd_table[p], Fds, kind, id) \in Nat
                    /\ One(fd_table[p][n], kind, id) \in {0, 1} /\ One(e, kind, id) \in {0, 1}
<1>1. fd_table \in [Procs -> [Fds -> FdEntry]] /\ fd_table[p] \in [Fds -> FdEntry]
  BY DEF DescInv, DescTypeOK
<1>2. PICK table : table = [fd_table[p] EXCEPT ![n] = e]
  OBVIOUS
<1>3. /\ table \in [Fds -> FdEntry] /\ fd_table' = [fd_table EXCEPT ![p] = table]
      /\ table[n] = e /\ \A f \in Fds \ {n} : table[f] = fd_table[p][f]
  BY <1>1, <1>2
<1>4. OnlyEntry(fd_table[p], table, n)
  BY ONLY <1>3 DEF OnlyEntry
<1>5. \A kind, id : Descriptors(table, Fds, kind, id) = Descriptors(fd_table[p], Fds, kind, id)
                        - One(fd_table[p][n], kind, id) + One(table[n], kind, id)
  BY ONLY <1>4, n \in Fds, EntryChanges
<1>6. \A kind, id : /\ Descriptors(fd_table[p], Fds, kind, id) \in Nat
                    /\ One(fd_table[p][n], kind, id) \in {0, 1} /\ One(e, kind, id) \in {0, 1}
  BY DescriptorsType DEF One
<1>. QED
  BY ONLY <1>3, <1>5, <1>6

\* Nothing free is counted.
LEMMA FreeIsNothing ==
    ASSUME NEW e, e.kind = "free", NEW kind, kind # "free", NEW id PROVE One(e, kind, id) = 0
BY DEF One, LeadsTo

-----------------------------------------------------------------------------
(* Operations that count descriptors F of a table up or down.              *)

\* Table after has the descriptors of before and F of table, or all but F.
Gained(before, after, table, F) ==
    \A kind, id : kind # "free" =>
        Descriptors(after, Fds, kind, id) = Descriptors(before, Fds, kind, id)
                                            + Descriptors(table, F, kind, id)
Lost(before, after, F) ==
    \A kind, id : kind # "free" =>
        Descriptors(after, Fds, kind, id) = Descriptors(before, Fds, kind, id)
                                            - Descriptors(before, F, kind, id)

LEMMA GainStep ==
    ASSUME DescInv, NEW p \in Procs, NEW q \in Procs, NEW F \in SUBSET Fds,
           NEW table \in [Fds -> FdEntry],
           fd_table' = [fd_table EXCEPT ![q] = table], stranded' = stranded,
           alive' \subseteq Procs, DeadAreFree',
           \A f \in Fds : table[f].kind \in Counted =>
                \E r \in Procs, g \in Fds : table[f] = fd_table[r][g],
           slots' = SlotsPlus(fd_table[p], F), pipe_pool' = PipesPlus(fd_table[p], F),
           Gained(fd_table[q], table, fd_table[p], F)
    PROVE  DescInv'
<1>1. \A s \in Slots : s[1] \in Counted =>
        /\ slots'[s].refs = slots[s].refs - Descriptors(fd_table[q], Fds, s[1], s[2])
                                          + Descriptors(table, Fds, s[1], s[2])
        /\ slots'[s].refs > 0 => slots'[s].node = slots[s].node
  <2>. SUFFICES ASSUME NEW s \in Slots, s[1] \in Counted
                PROVE  /\ slots'[s].refs
                            = slots[s].refs - Descriptors(fd_table[q], Fds, s[1], s[2])
                                            + Descriptors(table, Fds, s[1], s[2])
                       /\ slots'[s].node = slots[s].node
    OBVIOUS
  <2>. DEFINE b == Descriptors(fd_table[q], Fds, s[1], s[2])
              a == Descriptors(table, Fds, s[1], s[2])
              n == Descriptors(fd_table[p], F, s[1], s[2])
  <2>1. slots'[s].refs = slots[s].refs + n /\ slots'[s].node = slots[s].node
    BY SlotsPlusIs
  <2>2. a = b + n
    BY ConstantFacts DEF Gained
  <2>3. slots[s].refs \in Nat /\ n \in Nat /\ b \in Nat
    BY SlotFacts, DescriptorsType
  <2>. HIDE DEF a, b, n
  <2>4. slots'[s].refs = slots[s].refs - b + a
    BY ONLY <2>1, <2>2, <2>3
  <2>. QED
    BY ONLY <2>1, <2>4 DEF a, b
<1>2. \A i \in Pipes :
        /\ pipe_pool'[i].readers = pipe_pool[i].readers
                - Descriptors(fd_table[q], Fds, "pipe_read", i)
                + Descriptors(table, Fds, "pipe_read", i)
        /\ pipe_pool'[i].writers = pipe_pool[i].writers
                - Descriptors(fd_table[q], Fds, "pipe_write", i)
                + Descriptors(table, Fds, "pipe_write", i)
        /\ pipe_pool'[i].used <=> pipe_pool'[i].readers + pipe_pool'[i].writers > 0
  <2>. SUFFICES ASSUME NEW i \in Pipes
                PROVE  /\ pipe_pool'[i].readers = pipe_pool[i].readers
                            - Descriptors(fd_table[q], Fds, "pipe_read", i)
                            + Descriptors(table, Fds, "pipe_read", i)
                       /\ pipe_pool'[i].writers = pipe_pool[i].writers
                            - Descriptors(fd_table[q], Fds, "pipe_write", i)
                            + Descriptors(table, Fds, "pipe_write", i)
                       /\ pipe_pool'[i].used
                            <=> pipe_pool'[i].readers + pipe_pool'[i].writers > 0
    OBVIOUS
  <2>. DEFINE b(kind) == Descriptors(fd_table[q], Fds, kind, i)
              a(kind) == Descriptors(table, Fds, kind, i)
              n(kind) == Descriptors(fd_table[p], F, kind, i)
  <2>1. /\ pipe_pool'[i].readers = pipe_pool[i].readers + n("pipe_read")
        /\ pipe_pool'[i].writers = pipe_pool[i].writers + n("pipe_write")
        /\ pipe_pool'[i].used <=> pipe_pool'[i].readers + pipe_pool'[i].writers > 0
    BY PipesPlusIs
  <2>2. a("pipe_read") = b("pipe_read") + n("pipe_read")
        /\ a("pipe_write") = b("pipe_write") + n("pipe_write")
    BY DEF Gained
  <2>3. /\ pipe_pool[i].readers \in Nat /\ pipe_pool[i].writers \in Nat
        /\ n("pipe_read") \in Nat /\ b("pipe_read") \in Nat
        /\ n("pipe_write") \in Nat /\ b("pipe_write") \in Nat
    BY PipeFacts, DescriptorsType
  <2>. HIDE DEF a, b, n
  <2>4. /\ pipe_pool'[i].readers = pipe_pool[i].readers - b("pipe_read") + a("pipe_read")
        /\ pipe_pool'[i].writers = pipe_pool[i].writers - b("pipe_write") + a("pipe_write")
    BY ONLY <2>1, <2>2, <2>3
  <2>. QED
    BY ONLY <2>1, <2>4 DEF a, b
<1>3. slots' \in [Slots -> SlotRec] /\ pipe_pool' \in [Pipes -> PipeRec]
  BY SlotsPlusIs, PipesPlusIs
<1>. QED
  BY <1>1, <1>2, <1>3, TableStep

LEMMA LossStep ==
    ASSUME DescInv, NEW p \in Procs, NEW F \in SUBSET Fds, NEW table \in [Fds -> FdEntry],
           fd_table' = [fd_table EXCEPT ![p] = table], stranded' = stranded,
           alive' \subseteq Procs, DeadAreFree',
           \A f \in Fds : table[f].kind \in Counted =>
                \E r \in Procs, g \in Fds : table[f] = fd_table[r][g],
           slots' = SlotsMinus(fd_table[p], F), pipe_pool' = PipesMinus(fd_table[p], F),
           Lost(fd_table[p], table, F)
    PROVE  DescInv'
<1>1. \A s \in Slots : s[1] \in Counted =>
        /\ slots'[s].refs = slots[s].refs - Descriptors(fd_table[p], Fds, s[1], s[2])
                                          + Descriptors(table, Fds, s[1], s[2])
        /\ slots'[s].refs > 0 => slots'[s].node = slots[s].node
  <2>. SUFFICES ASSUME NEW s \in Slots, s[1] \in Counted
                PROVE  /\ slots'[s].refs
                            = slots[s].refs - Descriptors(fd_table[p], Fds, s[1], s[2])
                                            + Descriptors(table, Fds, s[1], s[2])
                       /\ slots'[s].refs > 0 => slots'[s].node = slots[s].node
    OBVIOUS
  <2>. DEFINE b == Descriptors(fd_table[p], Fds, s[1], s[2])
              a == Descriptors(table, Fds, s[1], s[2])
              n == Descriptors(fd_table[p], F, s[1], s[2])
  <2>1. /\ slots'[s].refs = slots[s].refs - n
        /\ slots'[s].refs > 0 => slots'[s].node = slots[s].node
    BY SlotsMinusIs
  <2>2. a = b - n
    BY ConstantFacts DEF Lost
  <2>3. slots[s].refs \in Nat /\ n \in Nat /\ b \in Nat
    BY SlotFacts, DescriptorsType
  <2>. HIDE DEF a, b, n
  <2>4. slots'[s].refs = slots[s].refs - b + a
    BY ONLY <2>1, <2>2, <2>3
  <2>. QED
    BY ONLY <2>1, <2>4 DEF a, b
<1>2. \A i \in Pipes :
        /\ pipe_pool'[i].readers = pipe_pool[i].readers
                - Descriptors(fd_table[p], Fds, "pipe_read", i)
                + Descriptors(table, Fds, "pipe_read", i)
        /\ pipe_pool'[i].writers = pipe_pool[i].writers
                - Descriptors(fd_table[p], Fds, "pipe_write", i)
                + Descriptors(table, Fds, "pipe_write", i)
        /\ pipe_pool'[i].used <=> pipe_pool'[i].readers + pipe_pool'[i].writers > 0
  <2>. SUFFICES ASSUME NEW i \in Pipes
                PROVE  /\ pipe_pool'[i].readers = pipe_pool[i].readers
                            - Descriptors(fd_table[p], Fds, "pipe_read", i)
                            + Descriptors(table, Fds, "pipe_read", i)
                       /\ pipe_pool'[i].writers = pipe_pool[i].writers
                            - Descriptors(fd_table[p], Fds, "pipe_write", i)
                            + Descriptors(table, Fds, "pipe_write", i)
                       /\ pipe_pool'[i].used
                            <=> pipe_pool'[i].readers + pipe_pool'[i].writers > 0
    OBVIOUS
  <2>. DEFINE b(kind) == Descriptors(fd_table[p], Fds, kind, i)
              a(kind) == Descriptors(table, Fds, kind, i)
              n(kind) == Descriptors(fd_table[p], F, kind, i)
  <2>1. /\ pipe_pool'[i].readers = pipe_pool[i].readers - n("pipe_read")
        /\ pipe_pool'[i].writers = pipe_pool[i].writers - n("pipe_write")
        /\ pipe_pool'[i].used <=> pipe_pool'[i].readers + pipe_pool'[i].writers > 0
    BY PipesMinusIs
  <2>2. a("pipe_read") = b("pipe_read") - n("pipe_read")
        /\ a("pipe_write") = b("pipe_write") - n("pipe_write")
    BY DEF Lost
  <2>3. /\ pipe_pool[i].readers \in Nat /\ pipe_pool[i].writers \in Nat
        /\ n("pipe_read") \in Nat /\ b("pipe_read") \in Nat
        /\ n("pipe_write") \in Nat /\ b("pipe_write") \in Nat
    BY PipeFacts, DescriptorsType
  <2>. HIDE DEF a, b, n
  <2>4. /\ pipe_pool'[i].readers = pipe_pool[i].readers - b("pipe_read") + a("pipe_read")
        /\ pipe_pool'[i].writers = pipe_pool[i].writers - b("pipe_write") + a("pipe_write")
    BY ONLY <2>1, <2>2, <2>3
  <2>. QED
    BY ONLY <2>1, <2>4 DEF a, b
<1>3. slots' \in [Slots -> SlotRec] /\ pipe_pool' \in [Pipes -> PipeRec]
  BY SlotsMinusIs, PipesMinusIs
<1>. QED
  BY <1>1, <1>2, <1>3, TableStep

-----------------------------------------------------------------------------
(* Duplicating, closing, forking, ending.                                  *)

\* vfs_dup: a free descriptor becomes a copy of an open one.
LEMMA DupToInv ==
    ASSUME DescInv, NEW p \in Procs, p \in alive, NEW old \in Fds, NEW new \in Fds,
           fd_table[p][new].kind = "free", DupTo(p, old, new)
    PROVE  DescInv'
<1>1. /\ fd_table' = [fd_table EXCEPT ![p][new] = fd_table[p][old]]
      /\ slots' = SlotsPlus(fd_table[p], {old}) /\ pipe_pool' = PipesPlus(fd_table[p], {old})
      /\ alive' = alive /\ stranded' = stranded
  BY DEF DupTo
<1>2. PICK e \in FdEntry : e = fd_table[p][old] /\ fd_table' = [fd_table EXCEPT ![p][new] = e]
  BY <1>1 DEF DescInv, DescTypeOK
<1>3. PICK table \in [Fds -> FdEntry] :
        /\ fd_table' = [fd_table EXCEPT ![p] = table]
        /\ table[new] = e /\ \A f \in Fds \ {new} : table[f] = fd_table[p][f]
        /\ \A kind, id :
              /\ Descriptors(table, Fds, kind, id) = Descriptors(fd_table[p], Fds, kind, id)
                      - One(fd_table[p][new], kind, id) + One(e, kind, id)
              /\ Descriptors(fd_table[p], Fds, kind, id) \in Nat
              /\ One(fd_table[p][new], kind, id) \in {0, 1} /\ One(e, kind, id) \in {0, 1}
  <2>1. fd_table' = [fd_table EXCEPT ![p][new] = e]
    BY <1>2
  <2>. QED
    BY ONLY DescInv, p \in Procs, new \in Fds, e \in FdEntry, <2>1, EntryStep
<1>4. Gained(fd_table[p], table, fd_table[p], {old})
  <2>. SUFFICES ASSUME NEW kind, NEW id, kind # "free"
                PROVE  Descriptors(table, Fds, kind, id)
                         = Descriptors(fd_table[p], Fds, kind, id)
                           + Descriptors(fd_table[p], {old}, kind, id)
    BY DEF Gained
  <2>1. Descriptors(fd_table[p], {old}, kind, id) = One(e, kind, id)
    <3>1. Descriptors(fd_table[p], {old}, kind, id) = One(fd_table[p][old], kind, id)
      BY OfOneDescriptor
    <3>. QED
      BY <1>2, <3>1
  <2>2. One(fd_table[p][new], kind, id) = 0
    BY FreeIsNothing
  <2>3. /\ Descriptors(table, Fds, kind, id) = Descriptors(fd_table[p], Fds, kind, id)
                - One(fd_table[p][new], kind, id) + One(e, kind, id)
        /\ Descriptors(fd_table[p], Fds, kind, id) \in Nat /\ One(e, kind, id) \in {0, 1}
    BY ONLY <1>3
  <2>. QED
    BY ONLY <2>1, <2>2, <2>3
<1>5. \A f \in Fds : table[f].kind \in Counted =>
            \E q \in Procs, g \in Fds : table[f] = fd_table[q][g]
  BY <1>2, <1>3
<1>6. DeadAreFree' /\ alive' \subseteq Procs
  BY <1>1 DEF DescInv, DescTypeOK, DeadAreFree
<1>. QED
  BY ZenonT(60), <1>1, <1>3, <1>4, <1>5, <1>6, GainStep

LEMMA DupInv ==
    ASSUME DescInv, NEW p \in Procs, NEW old \in Fds, NEW low, Dup(p, old, low) PROVE DescInv'
<1>. DEFINE new == Min(FreeFrom(p, low))
<1>1. FreeFrom(p, low) # {} /\ DupTo(p, old, new) /\ p \in alive
  BY DEF Dup, Running
<1>2. new \in Fds /\ fd_table[p][new].kind = "free"
  BY <1>1, AllocIs
<1>. HIDE DEF new
<1>. QED
  BY <1>1, <1>2, DupToInv

LEMMA CloseInv == ASSUME DescInv, NEW p \in Procs, NEW f \in Fds, Close(p, f) PROVE DescInv'
<1>1. /\ fd_table' = [fd_table EXCEPT ![p][f] = FreeEntry]
      /\ slots' = SlotsMinus(fd_table[p], {f}) /\ pipe_pool' = PipesMinus(fd_table[p], {f})
      /\ alive' = alive /\ stranded' = stranded /\ p \in alive
  BY DEF Close, Running
<1>2. FreeEntry \in FdEntry /\ FreeEntry.kind = "free"
  BY ConstantFacts
<1>3. PICK table \in [Fds -> FdEntry] :
        /\ fd_table' = [fd_table EXCEPT ![p] = table]
        /\ table[f] = FreeEntry /\ \A g \in Fds \ {f} : table[g] = fd_table[p][g]
        /\ \A kind, id :
              /\ Descriptors(table, Fds, kind, id) = Descriptors(fd_table[p], Fds, kind, id)
                      - One(fd_table[p][f], kind, id) + One(FreeEntry, kind, id)
              /\ Descriptors(fd_table[p], Fds, kind, id) \in Nat
              /\ One(fd_table[p][f], kind, id) \in {0, 1} /\ One(FreeEntry, kind, id) \in {0, 1}
  BY <1>1, <1>2, EntryStep
<1>4. Lost(fd_table[p], table, {f})
  <2>. SUFFICES ASSUME NEW kind, NEW id, kind # "free"
                PROVE  Descriptors(table, Fds, kind, id)
                         = Descriptors(fd_table[p], Fds, kind, id)
                           - Descriptors(fd_table[p], {f}, kind, id)
    BY DEF Lost
  <2>1. Descriptors(fd_table[p], {f}, kind, id) = One(fd_table[p][f], kind, id)
    BY OfOneDescriptor
  <2>2. One(FreeEntry, kind, id) = 0
    BY <1>2, FreeIsNothing
  <2>3. /\ Descriptors(table, Fds, kind, id) = Descriptors(fd_table[p], Fds, kind, id)
                - One(fd_table[p][f], kind, id) + One(FreeEntry, kind, id)
        /\ Descriptors(fd_table[p], Fds, kind, id) \in Nat
        /\ One(fd_table[p][f], kind, id) \in {0, 1}
    BY ONLY <1>3
  <2>. QED
    BY ONLY <2>1, <2>2, <2>3
<1>5. \A g \in Fds : table[g].kind \in Counted =>
            \E q \in Procs, h \in Fds : table[g] = fd_table[q][h]
  BY <1>2, <1>3 DEF Counted
<1>6. DeadAreFree' /\ alive' \subseteq Procs
  BY <1>1 DEF DescInv, DescTypeOK, DeadAreFree
<1>. QED
  BY ZenonT(60), <1>1, <1>3, <1>4, <1>5, <1>6, LossStep

\* A process starts with the descriptors of its parent.
LEMMA ForkProcInv ==
    ASSUME DescInv, NEW p \in Procs, NEW q \in Procs, ForkProc(p, q) PROVE DescInv'
<1>1. /\ q \notin alive /\ alive' = alive \cup {q} /\ stranded' = stranded
      /\ fd_table' = [fd_table EXCEPT ![q] = fd_table[p]]
      /\ slots' = SlotsPlus(fd_table[p], Fds) /\ pipe_pool' = PipesPlus(fd_table[p], Fds)
  BY DEF ForkProc
<1>2. PICK table \in [Fds -> FdEntry] : table = fd_table[p]
  BY DEF DescInv, DescTypeOK
<1>3. Gained(fd_table[q], table, fd_table[p], Fds)
  <2>. SUFFICES ASSUME NEW kind, NEW id, kind # "free"
                PROVE  Descriptors(table, Fds, kind, id) = Descriptors(fd_table[q], Fds, kind, id)
                                                    + Descriptors(fd_table[p], Fds, kind, id)
    BY DEF Gained
  <2>1. \A f \in Fds : fd_table[q][f].kind = "free"
    BY <1>1 DEF DescInv, DeadAreFree
  <2>2. Descriptors(fd_table[q], Fds, kind, id) = 0
    BY <2>1, OfFreeTable
  <2>3. Descriptors(table, Fds, kind, id) \in Nat
    BY DescriptorsType
  <2>. QED
    BY <1>2, <2>2, <2>3
<1>4. \A f \in Fds : table[f].kind \in Counted =>
            \E r \in Procs, g \in Fds : table[f] = fd_table[r][g]
  BY <1>2
<1>5. DeadAreFree' /\ alive' \subseteq Procs
  BY <1>1 DEF DescInv, DescTypeOK, DeadAreFree
<1>6. fd_table' = [fd_table EXCEPT ![q] = table]
  BY <1>1, <1>2
<1>. QED
  BY ZenonT(60), <1>1, <1>3, <1>4, <1>5, <1>6, GainStep

\* A process that ends gives up all its descriptors.
LEMMA ExitProcInv == ASSUME DescInv, NEW p \in Procs, ExitProc(p) PROVE DescInv'
<1>1. /\ alive' = alive \ {p} /\ stranded' = stranded
      /\ fd_table' = [fd_table EXCEPT ![p] = [f \in Fds |-> FreeEntry]]
      /\ slots' = SlotsMinus(fd_table[p], Fds) /\ pipe_pool' = PipesMinus(fd_table[p], Fds)
  BY DEF ExitProc
<1>2. PICK table \in [Fds -> FdEntry] : table = [f \in Fds |-> FreeEntry]
  BY ConstantFacts
<1>3. \A f \in Fds : table[f].kind = "free"
  BY <1>2, ConstantFacts
<1>4. Lost(fd_table[p], table, Fds)
  <2>. SUFFICES ASSUME NEW kind, NEW id, kind # "free"
                PROVE  Descriptors(table, Fds, kind, id) = Descriptors(fd_table[p], Fds, kind, id)
                                                    - Descriptors(fd_table[p], Fds, kind, id)
    BY DEF Lost
  <2>1. Descriptors(table, Fds, kind, id) = 0
    BY <1>3, OfFreeTable
  <2>2. Descriptors(fd_table[p], Fds, kind, id) \in Nat
    BY DescriptorsType
  <2>. QED
    BY ONLY <2>1, <2>2
<1>5. \A f \in Fds : table[f].kind \in Counted =>
            \E r \in Procs, g \in Fds : table[f] = fd_table[r][g]
  BY <1>3 DEF Counted
<1>6. fd_table' = [fd_table EXCEPT ![p] = table]
  BY <1>1, <1>2
<1>7. DeadAreFree' /\ alive' \subseteq Procs
  BY <1>1, <1>3, <1>6 DEF DescInv, DescTypeOK, DeadAreFree
<1>. QED
  BY <1>1, <1>4, <1>5, <1>6, <1>7, LossStep

-----------------------------------------------------------------------------
(* dup2, pipe and open.                                                    *)

\* Two descriptors of a table count for no more than the table.
LEMMA TwoOfTable ==
    ASSUME NEW table, NEW f \in Fds, NEW g \in Fds, f # g, NEW kind, kind # "free", NEW id
    PROVE  One(table[f], kind, id) + One(table[g], kind, id) <= Descriptors(table, Fds, kind, id)
<1>1. PICK new : new = [h \in Fds |-> IF h = f THEN FreeEntry ELSE table[h]]
  OBVIOUS
<1>2. OnlyEntry(table, new, f) /\ new[g] = table[g] /\ new[f].kind = "free"
  BY <1>1, ConstantFacts DEF OnlyEntry
<1>3. OnlyEntry(new, new, g)
  BY DEF OnlyEntry
<1>4. /\ Descriptors(new, Fds, kind, id) = Descriptors(table, Fds, kind, id)
                - One(table[f], kind, id) + One(new[f], kind, id)
  BY ONLY <1>2, f \in Fds, EntryChanges
<1>5. One(new[g], kind, id) <= Descriptors(new, Fds, kind, id)
  BY ONLY <1>3, g \in Fds, EntryChanges
<1>6. One(new[f], kind, id) = 0
  BY <1>2, FreeIsNothing
<1>7. /\ Descriptors(table, Fds, kind, id) \in Nat /\ Descriptors(new, Fds, kind, id) \in Nat
      /\ One(table[f], kind, id) \in {0, 1} /\ One(table[g], kind, id) \in {0, 1}
  BY DescriptorsType DEF One
<1>8. One(table[g], kind, id) <= Descriptors(new, Fds, kind, id)
  BY <1>2, <1>5
<1>. QED
  BY ONLY <1>4, <1>6, <1>7, <1>8

\* vfs_dup2: what the new descriptor led to is given up, then it is a copy.
LEMMA Dup2Inv ==
    ASSUME DescInv, NEW p \in Procs, NEW old \in Fds, NEW new \in Fds, Dup2(p, old, new)
    PROVE  DescInv'
<1>. DEFINE gone == {new} \cap {f \in Fds : IsOpen(p, f)}
<1>1. PICK sl : sl = SlotsMinus(fd_table[p], gone)
  OBVIOUS
<1>2. PICK pp : pp = PipesMinus(fd_table[p], gone)
  OBVIOUS
<1>3. PICK e \in FdEntry : e = fd_table[p][old] /\ fd_table' = [fd_table EXCEPT ![p][new] = e]
  BY DEF Dup2, DescInv, DescTypeOK
<1>4. /\ slots' = [s \in Slots |-> IF s[1] \in Counted /\ sl[s].refs > 0
            THEN [sl[s] EXCEPT !.refs = @ + Descriptors(fd_table[p], {old}, s[1], s[2])]
            ELSE sl[s]]
      /\ pipe_pool' = [i \in Pipes |-> [pp[i] EXCEPT
            !.readers = @ + Descriptors(fd_table[p], {old}, "pipe_read", i),
            !.writers = @ + Descriptors(fd_table[p], {old}, "pipe_write", i)]]
  BY <1>1, <1>2 DEF Dup2
<1>5. p \in alive /\ old # new /\ UNCHANGED <<alive, stranded>>
  BY DEF Dup2, Running
<1>6. PICK table \in [Fds -> FdEntry] :
        /\ fd_table' = [fd_table EXCEPT ![p] = table]
        /\ table[new] = e /\ \A f \in Fds \ {new} : table[f] = fd_table[p][f]
        /\ \A kind, id :
              /\ Descriptors(table, Fds, kind, id) = Descriptors(fd_table[p], Fds, kind, id)
                      - One(fd_table[p][new], kind, id) + One(e, kind, id)
              /\ Descriptors(fd_table[p], Fds, kind, id) \in Nat
              /\ One(fd_table[p][new], kind, id) \in {0, 1} /\ One(e, kind, id) \in {0, 1}
  <2>1. fd_table' = [fd_table EXCEPT ![p][new] = e]
    BY <1>3
  <2>. QED
    BY ONLY DescInv, p \in Procs, new \in Fds, e \in FdEntry, <2>1, EntryStep
<1>7. ASSUME NEW kind, kind # "free", NEW id
      PROVE  /\ Descriptors(fd_table[p], {old}, kind, id) = One(e, kind, id)
             /\ Descriptors(fd_table[p], gone, kind, id) = One(fd_table[p][new], kind, id)
             /\ One(fd_table[p][new], kind, id) + One(e, kind, id)
                    <= Descriptors(fd_table[p], Fds, kind, id)
  <2>1. Descriptors(fd_table[p], {old}, kind, id) = One(e, kind, id)
    BY <1>3, OfOneDescriptor
  <2>2. Descriptors(fd_table[p], gone, kind, id) = One(fd_table[p][new], kind, id)
    <3>1. CASE IsOpen(p, new)
      <4>1. gone = {new}
        BY <3>1
      <4>. HIDE DEF gone
      <4>. QED
        BY SMTT(30), <4>1, OfOneDescriptor
    <3>2. CASE ~IsOpen(p, new)
      <4>1. {f \in gone : fd_table[p][f].kind = kind /\ fd_table[p][f].id = id} = {}
        BY <3>2
      <4>2. Descriptors(fd_table[p], gone, kind, id) = 0
        BY <4>1, FS_EmptySet DEF Descriptors
      <4>3. One(fd_table[p][new], kind, id) = 0
        BY <3>2, <1>7, FreeIsNothing DEF IsOpen
      <4>. QED
        BY <4>2, <4>3
    <3>. QED
      BY <3>1, <3>2
  <2>3. One(fd_table[p][new], kind, id) + One(fd_table[p][old], kind, id)
            <= Descriptors(fd_table[p], Fds, kind, id)
    BY <1>5, <1>7, TwoOfTable
  <2>. QED
    BY <1>3, <2>1, <2>2, <2>3
<1>8. gone \in SUBSET Fds
  OBVIOUS
<1>. HIDE DEF gone
<1>9. /\ sl \in [Slots -> SlotRec]
      /\ \A s \in Slots : s[1] \in Counted =>
            /\ sl[s].refs = slots[s].refs - Descriptors(fd_table[p], gone, s[1], s[2])
            /\ sl[s].refs > 0 => sl[s].node = slots[s].node
  BY <1>1, <1>8, SlotsMinusIs
<1>10. /\ pp \in [Pipes -> PipeRec]
       /\ \A i \in Pipes :
            /\ pp[i].readers = pipe_pool[i].readers - Descriptors(fd_table[p], gone, "pipe_read", i)
            /\ pp[i].writers = pipe_pool[i].writers - Descriptors(fd_table[p], gone, "pipe_write", i)
            /\ pp[i].used <=> pp[i].readers + pp[i].writers > 0
  BY <1>2, <1>8, PipesMinusIs
<1>11. ASSUME NEW s \in Slots
       PROVE  /\ slots'[s] \in SlotRec
              /\ s[1] \in Counted =>
                    /\ slots'[s].refs = slots[s].refs - Descriptors(fd_table[p], Fds, s[1], s[2])
                                                      + Descriptors(table, Fds, s[1], s[2])
                    /\ slots'[s].refs > 0 => slots'[s].node = slots[s].node
  <2>. DEFINE b == Descriptors(fd_table[p], Fds, s[1], s[2])
              a == Descriptors(table, Fds, s[1], s[2])
              n == One(fd_table[p][new], s[1], s[2])
              o == One(e, s[1], s[2])
  <2>1. s[1] # "free" /\ slots[s].refs \in Nat
    BY ConstantFacts, SlotFacts
  <2>2. a = b - n + o /\ b \in Nat /\ n \in {0, 1} /\ o \in {0, 1}
    BY ONLY <1>6
  <2>3. n + o <= b
    BY <1>7, <2>1
  <2>4. slots'[s] = IF s[1] \in Counted /\ sl[s].refs > 0
                    THEN [sl[s] EXCEPT !.refs = @ + o] ELSE sl[s]
    BY <1>4, <1>7, <2>1
  <2>5. s[1] \in Counted => /\ sl[s].refs = slots[s].refs - n
                            /\ sl[s].refs > 0 => sl[s].node = slots[s].node
    BY <1>7, <1>9, <2>1
  <2>6. s[1] \in Counted => b <= slots[s].refs
    <3>1. b <= Count(fd_table, s[1], s[2]) /\ b \in Nat
      BY SomeOfAll
    <3>2. s[1] \in Counted => Count(fd_table, s[1], s[2]) <= slots[s].refs
                              /\ Count(fd_table, s[1], s[2]) \in Nat
      BY SlotFacts
    <3>. HIDE DEF b
    <3>. QED
      BY ONLY <3>1, <3>2, <2>1
  <2>7. sl[s] \in SlotRec /\ sl[s].refs \in Nat
    BY <1>9 DEF SlotRec
  <2>. HIDE DEF a, b, n, o
  <2>8. CASE s[1] \in Counted /\ sl[s].refs > 0
    <3>1. sl[s].refs + o \in Nat
      BY <2>2, <2>7
    <3>2. /\ slots'[s] \in SlotRec /\ slots'[s].refs = sl[s].refs + o
          /\ slots'[s].node = sl[s].node
      BY ONLY <2>4, <2>7, <2>8, <3>1 DEF SlotRec
    <3>3. slots'[s].refs = slots[s].refs - b + a
      BY ONLY <2>1, <2>2, <2>5, <2>8, <3>2
    <3>. QED
      BY ONLY <2>5, <2>8, <3>2, <3>3 DEF a, b
  <2>9. CASE s[1] \in Counted /\ ~(sl[s].refs > 0)
    <3>1. slots'[s] = sl[s]
      BY <2>4, <2>9
    <3>2. o = 0 /\ sl[s].refs = 0
      BY ONLY <2>1, <2>2, <2>3, <2>5, <2>6, <2>7, <2>9
    <3>3. slots'[s].refs = slots[s].refs - b + a
      BY ONLY <2>1, <2>2, <2>5, <2>9, <3>1, <3>2
    <3>. QED
      BY ONLY <2>7, <2>9, <3>1, <3>2, <3>3 DEF a, b
  <2>10. CASE s[1] \notin Counted
    BY <2>4, <2>7, <2>10
  <2>. QED
    BY <2>8, <2>9, <2>10
<1>12. ASSUME NEW i \in Pipes
       PROVE  /\ pipe_pool'[i] \in PipeRec
              /\ pipe_pool'[i].readers = pipe_pool[i].readers
                    - Descriptors(fd_table[p], Fds, "pipe_read", i)
                    + Descriptors(table, Fds, "pipe_read", i)
              /\ pipe_pool'[i].writers = pipe_pool[i].writers
                    - Descriptors(fd_table[p], Fds, "pipe_write", i)
                    + Descriptors(table, Fds, "pipe_write", i)
              /\ pipe_pool'[i].used <=> pipe_pool'[i].readers + pipe_pool'[i].writers > 0
  <2>. DEFINE b(kind) == Descriptors(fd_table[p], Fds, kind, i)
              a(kind) == Descriptors(table, Fds, kind, i)
              n(kind) == One(fd_table[p][new], kind, i)
              o(kind) == One(e, kind, i)
              both == {"pipe_read", "pipe_write"}
  <2>1. \A kind \in both :
            /\ a(kind) = b(kind) - n(kind) + o(kind)
            /\ b(kind) \in Nat /\ n(kind) \in {0, 1} /\ o(kind) \in {0, 1}
    BY ONLY <1>6
  <2>2. \A kind \in both : n(kind) + o(kind) <= b(kind)
    BY <1>7
  <2>3. pipe_pool'[i] = [pp[i] EXCEPT !.readers = @ + o("pipe_read"),
                                      !.writers = @ + o("pipe_write")]
    BY <1>4, <1>7
  <2>4. /\ pp[i].readers = pipe_pool[i].readers - n("pipe_read")
        /\ pp[i].writers = pipe_pool[i].writers - n("pipe_write")
        /\ pp[i].used <=> pp[i].readers + pp[i].writers > 0
    BY <1>7, <1>10
  <2>5. \A kind \in both : b(kind) <= Count(fd_table, kind, i) /\ Count(fd_table, kind, i) \in Nat
    BY SomeOfAll, CountType
  <2>6. /\ pipe_pool[i].readers \in Nat /\ pipe_pool[i].writers \in Nat
        /\ pipe_pool[i].readers = Count(fd_table, "pipe_read", i)
        /\ pipe_pool[i].writers = Count(fd_table, "pipe_write", i)
    BY PipeFacts
  <2>7. /\ pp[i] \in PipeRec /\ pp[i].readers \in Nat /\ pp[i].writers \in Nat
        /\ pp[i].used \in BOOLEAN
    BY <1>10 DEF PipeRec
  <2>. HIDE DEF a, b, n, o
  <2>8. pp[i].readers + o("pipe_read") \in Nat /\ pp[i].writers + o("pipe_write") \in Nat
    BY ONLY <2>1, <2>7
  <2>9. /\ pipe_pool'[i] \in PipeRec
        /\ pipe_pool'[i].readers = pp[i].readers + o("pipe_read")
        /\ pipe_pool'[i].writers = pp[i].writers + o("pipe_write")
        /\ pipe_pool'[i].used = pp[i].used
    BY ONLY <2>3, <2>7, <2>8 DEF PipeRec
  <2>10. b("pipe_read") <= pipe_pool[i].readers /\ b("pipe_write") <= pipe_pool[i].writers
    BY ONLY <2>5, <2>6
  <2>11. pp[i].readers + pp[i].writers > 0
            <=> pipe_pool'[i].readers + pipe_pool'[i].writers > 0
    BY ONLY <2>1, <2>2, <2>4, <2>6, <2>7, <2>9, <2>10
  <2>12. /\ pipe_pool'[i].readers = pipe_pool[i].readers - b("pipe_read") + a("pipe_read")
         /\ pipe_pool'[i].writers = pipe_pool[i].writers - b("pipe_write") + a("pipe_write")
    BY ONLY <2>1, <2>4, <2>6, <2>9
  <2>. QED
    BY ONLY <2>4, <2>9, <2>11, <2>12 DEF a, b
<1>13. slots' \in [Slots -> SlotRec] /\ pipe_pool' \in [Pipes -> PipeRec]
  BY <1>4, <1>11, <1>12
<1>14. \A f \in Fds : table[f].kind \in Counted =>
            \E q \in Procs, g \in Fds : table[f] = fd_table[q][g]
  BY <1>3, <1>6
<1>15. DeadAreFree' /\ alive' \subseteq Procs
  BY <1>5, <1>6 DEF DescInv, DescTypeOK, DeadAreFree
<1>. QED
  BY <1>5, <1>6, <1>11, <1>12, <1>13, <1>14, <1>15, TableStep

\* vfs_pipe: two free descriptors become the ends of an unused pipe.
LEMMA MakePipeInv == ASSUME DescInv, NEW p \in Procs, MakePipe(p) PROVE DescInv'
<1>1. PICK k \in Pipes :
        LET r == AllocFd(p)
            w == Min(FreeFrom(p, FIRST_FD) \ {r})
        IN  /\ ~pipe_pool[k].used
            /\ fd_table' = [fd_table EXCEPT ![p][r] = PipeEntry("pipe_read", k),
                                            ![p][w] = PipeEntry("pipe_write", k)]
            /\ pipe_pool' = [pipe_pool EXCEPT
                    ![k] = [readers |-> 1, writers |-> 1, count |-> 0, used |-> TRUE]]
  BY DEF MakePipe
<1>2. /\ Cardinality(FreeFrom(p, FIRST_FD)) >= 2 /\ p \in alive
      /\ UNCHANGED <<alive, slots, stranded>>
  BY DEF MakePipe, Running
<1>3. FreeFrom(p, FIRST_FD) \subseteq Fds /\ IsFiniteSet(FreeFrom(p, FIRST_FD))
  <2>1. FreeFrom(p, FIRST_FD) \subseteq Fds
    BY DEF FreeFrom
  <2>. QED
    BY <2>1, FiniteFds, FS_Subset
<1>4. PICK r \in FreeFrom(p, FIRST_FD) : r = AllocFd(p)
  <2>1. FreeFrom(p, FIRST_FD) # {}
    BY <1>2, FS_EmptySet
  <2>. QED
    BY <1>3, <2>1, MinIn, ConstantFacts DEF AllocFd
<1>5. PICK w \in FreeFrom(p, FIRST_FD) \ {r} : w = Min(FreeFrom(p, FIRST_FD) \ {r})
  <2>1. Cardinality(FreeFrom(p, FIRST_FD) \ {r}) = Cardinality(FreeFrom(p, FIRST_FD)) - 1
    BY <1>3, FS_RemoveElement
  <2>2. Cardinality(FreeFrom(p, FIRST_FD)) \in Nat
    BY <1>3, FS_CardinalityType
  <2>3. FreeFrom(p, FIRST_FD) \ {r} # {}
    BY <1>2, <2>1, <2>2, FS_EmptySet
  <2>. QED
    BY <1>3, <2>3, MinIn, ConstantFacts
<1>6. /\ r \in Fds /\ w \in Fds /\ r # w
      /\ fd_table[p][r].kind = "free" /\ fd_table[p][w].kind = "free"
  BY <1>4, <1>5 DEF FreeFrom, IsOpen
<1>7. PICK re \in FdEntry : re = PipeEntry("pipe_read", k)
  BY ConstantFacts DEF PipeEntry, FdEntry, Kinds, PipeEnds
<1>8. PICK we \in FdEntry : we = PipeEntry("pipe_write", k)
  BY ConstantFacts DEF PipeEntry, FdEntry, Kinds, PipeEnds
<1>9. fd_table[p] \in [Fds -> FdEntry] /\ fd_table \in [Procs -> [Fds -> FdEntry]]
  BY DEF DescInv, DescTypeOK
<1>10. PICK half \in [Fds -> FdEntry] : half = [fd_table[p] EXCEPT ![r] = re]
  BY ONLY <1>9, re \in FdEntry
<1>11. PICK table \in [Fds -> FdEntry] : table = [half EXCEPT ![w] = we]
  BY ONLY half \in [Fds -> FdEntry], we \in FdEntry
<1>12. fd_table' = [fd_table EXCEPT ![p] = table]
  <2>1. fd_table' = [fd_table EXCEPT ![p][r] = re, ![p][w] = we]
    BY <1>1, <1>4, <1>5, <1>7, <1>8
  <2>. QED
    BY ONLY <2>1, <1>9, <1>10, <1>11, p \in Procs
<1>13. /\ half[r] = re /\ OnlyEntry(fd_table[p], half, r) /\ half[w] = fd_table[p][w]
       /\ table[w] = we /\ OnlyEntry(half, table, w)
  BY ONLY <1>6, <1>9, <1>10, <1>11, half \in [Fds -> FdEntry] DEF OnlyEntry
<1>14. ASSUME NEW kind, kind # "free", NEW id
       PROVE  /\ Descriptors(table, Fds, kind, id) = Descriptors(fd_table[p], Fds, kind, id)
                        + One(re, kind, id) + One(we, kind, id)
              /\ Descriptors(fd_table[p], Fds, kind, id) \in Nat
              /\ One(re, kind, id) = IF kind = "pipe_read" /\ id = k THEN 1 ELSE 0
              /\ One(we, kind, id) = IF kind = "pipe_write" /\ id = k THEN 1 ELSE 0
  <2>1. Descriptors(half, Fds, kind, id) = Descriptors(fd_table[p], Fds, kind, id)
            - One(fd_table[p][r], kind, id) + One(half[r], kind, id)
    BY ONLY <1>6, <1>13, EntryChanges
  <2>2. Descriptors(table, Fds, kind, id) = Descriptors(half, Fds, kind, id)
            - One(half[w], kind, id) + One(table[w], kind, id)
    BY ONLY <1>6, <1>13, EntryChanges
  <2>3. One(fd_table[p][r], kind, id) = 0
    BY <1>6, <1>14, FreeIsNothing
  <2>4. One(half[w], kind, id) = 0
    BY <1>6, <1>13, <1>14, FreeIsNothing
  <2>5. /\ One(re, kind, id) = IF kind = "pipe_read" /\ id = k THEN 1 ELSE 0
        /\ One(we, kind, id) = IF kind = "pipe_write" /\ id = k THEN 1 ELSE 0
    BY <1>7, <1>8 DEF One, LeadsTo, PipeEntry
  <2>6. Descriptors(fd_table[p], Fds, kind, id) \in Nat
    BY DescriptorsType
  <2>. QED
    BY <1>13, <2>1, <2>2, <2>3, <2>4, <2>5, <2>6
<1>15. \A s \in Slots : s[1] \in Counted =>
        /\ slots'[s].refs = slots[s].refs - Descriptors(fd_table[p], Fds, s[1], s[2])
                                          + Descriptors(table, Fds, s[1], s[2])
        /\ slots'[s].refs > 0 => slots'[s].node = slots[s].node
  <2>. SUFFICES ASSUME NEW s \in Slots
                PROVE  slots[s].refs = slots[s].refs - Descriptors(fd_table[p], Fds, s[1], s[2])
                                                     + Descriptors(table, Fds, s[1], s[2])
    BY <1>2
  <2>1. slots[s].refs \in Nat /\ s[1] # "free" /\ s[1] \notin {"pipe_read", "pipe_write"}
    BY SlotFacts, ConstantFacts DEF PipeEnds
  <2>2. /\ Descriptors(table, Fds, s[1], s[2]) = Descriptors(fd_table[p], Fds, s[1], s[2])
        /\ Descriptors(fd_table[p], Fds, s[1], s[2]) \in Nat
    BY <1>14, <2>1
  <2>. QED
    BY ONLY <2>1, <2>2
<1>16. ASSUME NEW i \in Pipes
       PROVE  /\ pipe_pool'[i] \in PipeRec
              /\ pipe_pool'[i].readers = pipe_pool[i].readers
                    - Descriptors(fd_table[p], Fds, "pipe_read", i)
                    + Descriptors(table, Fds, "pipe_read", i)
              /\ pipe_pool'[i].writers = pipe_pool[i].writers
                    - Descriptors(fd_table[p], Fds, "pipe_write", i)
                    + Descriptors(table, Fds, "pipe_write", i)
              /\ pipe_pool'[i].used <=> pipe_pool'[i].readers + pipe_pool'[i].writers > 0
  <2>. DEFINE a(kind) == Descriptors(table, Fds, kind, i)
              b(kind) == Descriptors(fd_table[p], Fds, kind, i)
              x == IF i = k THEN 1 ELSE 0
  <2>1. /\ a("pipe_read") = b("pipe_read") + x /\ a("pipe_write") = b("pipe_write") + x
        /\ b("pipe_read") \in Nat /\ b("pipe_write") \in Nat
    BY <1>14
  <2>2. /\ pipe_pool[i] \in PipeRec
        /\ pipe_pool[i].readers \in Nat /\ pipe_pool[i].writers \in Nat
        /\ pipe_pool[i].used <=> (pipe_pool[i].readers + pipe_pool[i].writers > 0)
    BY PipeFacts
  <2>3. pipe_pool'[i] = IF i = k THEN [readers |-> 1, writers |-> 1, count |-> 0, used |-> TRUE]
                                 ELSE pipe_pool[i]
    BY <1>1 DEF DescInv, DescTypeOK
  <2>. HIDE DEF a, b
  <2>4. i = k => pipe_pool[i].readers = 0 /\ pipe_pool[i].writers = 0
    BY <1>1, <2>2
  <2>5. /\ pipe_pool'[i] \in PipeRec
        /\ pipe_pool'[i].readers = pipe_pool[i].readers + x
        /\ pipe_pool'[i].writers = pipe_pool[i].writers + x
        /\ pipe_pool'[i].used <=> pipe_pool'[i].readers + pipe_pool'[i].writers > 0
    BY ONLY <2>2, <2>3, <2>4 DEF PipeRec
  <2>6. /\ pipe_pool'[i].readers = pipe_pool[i].readers - b("pipe_read") + a("pipe_read")
        /\ pipe_pool'[i].writers = pipe_pool[i].writers - b("pipe_write") + a("pipe_write")
    BY ONLY <2>1, <2>2, <2>5
  <2>. QED
    BY ONLY <2>5, <2>6 DEF a, b
<1>17. pipe_pool' \in [Pipes -> PipeRec]
  <2>1. pipe_pool' = [pipe_pool EXCEPT
                ![k] = [readers |-> 1, writers |-> 1, count |-> 0, used |-> TRUE]]
    BY <1>1
  <2>2. [readers |-> 1, writers |-> 1, count |-> 0, used |-> TRUE] \in PipeRec
    BY DEF PipeRec
  <2>. QED
    BY <2>1, <2>2 DEF DescInv, DescTypeOK
<1>18. \A f \in Fds : table[f].kind \in Counted =>
            \E q \in Procs, g \in Fds : table[f] = fd_table[q][g]
  BY <1>7, <1>8, <1>13 DEF Counted, PipeEntry, OnlyEntry
<1>19. /\ DeadAreFree' /\ alive' \subseteq Procs /\ slots' \in [Slots -> SlotRec]
       /\ stranded' = stranded
  BY <1>2, <1>12 DEF DescInv, DescTypeOK, DeadAreFree
<1>. QED
  BY ONLY ZenonT(60), DescInv, p \in Procs, table \in [Fds -> FdEntry], <1>12, <1>15, <1>16, <1>17, <1>18,
          <1>19, TableStep

\* vfs_open of a file: a slot that nobody refers to, for one descriptor or none.
LEMMA OpenFileInv ==
    ASSUME DescInv, NEW p \in Procs, NEW b \in Backends, NEW node \in Nodes, HasSlot(b),
           OpenFile(p, b, node)
    PROVE  DescInv'
<1>1. PICK j \in 1 .. NSlots : j = Min({i \in 1 .. NSlots : slots[<<b, i>>].refs = 0})
                               /\ slots[<<b, j>>].refs = 0
  <2>. DEFINE S == {i \in 1 .. NSlots : slots[<<b, i>>].refs = 0}
  <2>1. S \subseteq Nat /\ S # {}
    BY DEF HasSlot
  <2>2. Min(S) \in S
    BY <2>1, MinIn
  <2>. QED
    BY <2>2
<1>2. PICK s : s = <<b, j>>
  OBVIOUS
<1>3. s \in Slots /\ s[1] = b /\ s[2] = j
  BY <1>2 DEF Slots
<1>4. PICK rec \in SlotRec : rec = [refs |-> 1, node |-> node]
  BY DEF SlotRec
<1>5. /\ slots' = [slots EXCEPT ![s] = rec] /\ p \in alive
      /\ IF CanAlloc(p)
         THEN /\ fd_table' = [fd_table EXCEPT ![p][AllocFd(p)] =
                                [kind |-> b, id |-> j, path |-> node]]
              /\ UNCHANGED stranded
         ELSE stranded' = stranded \cup {s} /\ UNCHANGED fd_table
      /\ UNCHANGED <<alive, pipe_pool>>
  BY <1>1, <1>2, <1>3, <1>4 DEF OpenFile, Running
<1>6. /\ slots' \in [Slots -> SlotRec] /\ slots'[s].refs = 1 /\ slots'[s].node = node
      /\ \A t \in Slots \ {s} : slots'[t] = slots[t]
  BY <1>3, <1>4, <1>5 DEF DescInv, DescTypeOK
<1>7. s[1] \in Counted => s \notin stranded /\ Count(fd_table, s[1], s[2]) = 0
  <2>1. s[1] \in Counted => slots[s].refs
                = Count(fd_table, s[1], s[2]) + (IF s \in stranded THEN 1 ELSE 0)
    BY <1>3 DEF DescInv, RefsRight
  <2>2. Count(fd_table, s[1], s[2]) \in Nat /\ slots[s].refs = 0
    BY <1>1, <1>2, CountType
  <2>. QED
    BY ONLY <2>1, <2>2
<1>8. \A q \in Procs, f \in Fds : fd_table[q][f].kind \in Counted =>
            /\ <<fd_table[q][f].kind, fd_table[q][f].id>> \in Slots \ {s}
            /\ slots'[<<fd_table[q][f].kind, fd_table[q][f].id>>].node = fd_table[q][f].path
  <2>. SUFFICES ASSUME NEW q \in Procs, NEW f \in Fds, fd_table[q][f].kind \in Counted
                PROVE  /\ <<fd_table[q][f].kind, fd_table[q][f].id>> \in Slots \ {s}
                       /\ slots'[<<fd_table[q][f].kind, fd_table[q][f].id>>].node
                              = fd_table[q][f].path
    OBVIOUS
  <2>. DEFINE e == fd_table[q][f]
  <2>1. <<e.kind, e.id>> \in Slots /\ slots[<<e.kind, e.id>>].node = e.path
    BY DEF DescInv, FilesRight
  <2>2. <<e.kind, e.id>> # s
    <3>1. Count(fd_table, e.kind, e.id) > 0 /\ Count(fd_table, e.kind, e.id) \in Nat
      BY HolderCounts, CountType DEF LeadsTo
    <3>. QED
      BY <1>3, <1>7, <3>1
  <2>. QED
    BY <1>6, <2>1, <2>2
<1>9. CASE ~CanAlloc(p)
  <2>1. stranded' = stranded \cup {s} /\ UNCHANGED fd_table
    BY <1>5, <1>9
  <2>2. RefsRight'
    <3>. SUFFICES ASSUME NEW t \in Slots, t[1] \in Counted
                  PROVE  slots'[t].refs = Count(fd_table, t[1], t[2])
                                          + (IF t \in stranded' THEN 1 ELSE 0)
      BY <2>1 DEF RefsRight
    <3>1. CASE t = s
      BY <1>6, <1>7, <2>1, <3>1
    <3>2. CASE t # s
      BY <1>6, <2>1, <3>2 DEF DescInv, RefsRight
    <3>. QED
      BY <3>1, <3>2
  <2>3. FilesRight'
    BY <1>8, <2>1 DEF FilesRight
  <2>4. PipesRight' /\ DeadAreFree' /\ DescTypeOK'
    BY <1>5, <1>6, <2>1 DEF DescInv, PipesRight, DeadAreFree, DescTypeOK
  <2>. QED
    BY <2>2, <2>3, <2>4 DEF DescInv
<1>10. CASE CanAlloc(p)
  <2>1. PICK n \in Fds : n = AllocFd(p) /\ fd_table[p][n].kind = "free"
    <3>1. FreeFrom(p, FIRST_FD) # {}
      BY <1>10 DEF CanAlloc
    <3>2. AllocFd(p) \in Fds /\ fd_table[p][AllocFd(p)].kind = "free"
      BY <3>1, AllocIs DEF AllocFd
    <3>. QED
      BY <3>2
  <2>2. PICK e \in FdEntry : e = [kind |-> b, id |-> j, path |-> node]
    <3>1. b \in Kinds /\ j \in Nat /\ node \in Nodes \cup {"none"}
      BY DEF Kinds
    <3>. QED
      BY ONLY <3>1 DEF FdEntry
  <2>3. fd_table' = [fd_table EXCEPT ![p][n] = e] /\ stranded' = stranded
    BY <1>5, <1>10, <2>1, <2>2
  <2>4. PICK table \in [Fds -> FdEntry] :
        /\ fd_table' = [fd_table EXCEPT ![p] = table]
        /\ table[n] = e /\ \A f \in Fds \ {n} : table[f] = fd_table[p][f]
        /\ \A kind, id :
              /\ Descriptors(table, Fds, kind, id) = Descriptors(fd_table[p], Fds, kind, id)
                      - One(fd_table[p][n], kind, id) + One(e, kind, id)
              /\ Descriptors(fd_table[p], Fds, kind, id) \in Nat
              /\ One(fd_table[p][n], kind, id) \in {0, 1} /\ One(e, kind, id) \in {0, 1}
    BY ONLY DescInv, p \in Procs, n \in Fds, e \in FdEntry, <2>3, EntryStep
  <2>5. ASSUME NEW kind, kind # "free", NEW id
        PROVE  /\ Descriptors(table, Fds, kind, id) = Descriptors(fd_table[p], Fds, kind, id)
                                + (IF <<kind, id>> = s THEN 1 ELSE 0)
               /\ Descriptors(fd_table[p], Fds, kind, id) \in Nat
    <3>1. One(fd_table[p][n], kind, id) = 0
      BY <2>1, <2>5, FreeIsNothing
    <3>2. One(e, kind, id) = IF <<kind, id>> = s THEN 1 ELSE 0
      BY <1>2, <2>2 DEF One, LeadsTo
    <3>3. /\ Descriptors(table, Fds, kind, id) = Descriptors(fd_table[p], Fds, kind, id)
                    - One(fd_table[p][n], kind, id) + One(e, kind, id)
          /\ Descriptors(fd_table[p], Fds, kind, id) \in Nat
      BY ONLY <2>4
    <3>. QED
      BY ONLY <3>1, <3>2, <3>3
  <2>6. RefsRight'
    <3>1. ASSUME NEW t \in Slots, t[1] \in Counted
          PROVE  slots'[t].refs = slots[t].refs - Descriptors(fd_table[p], Fds, t[1], t[2])
                                                + Descriptors(table, Fds, t[1], t[2])
      <4>1. slots[t].refs \in Nat /\ t[1] # "free" /\ t = <<t[1], t[2]>>
        <5>1. slots[t].refs \in Nat
          BY SlotFacts
        <5>2. t[1] # "free" /\ t = <<t[1], t[2]>>
          BY ONLY t \in Slots, ConstantFacts
        <5>. QED
          BY <5>1, <5>2
      <4>2. slots'[t].refs = slots[t].refs + (IF t = s THEN 1 ELSE 0)
        <5>1. slots[s].refs = 0
          BY <1>1, <1>2
        <5>. QED
          BY ONLY t \in Slots, <1>6, <4>1, <5>1
      <4>3. /\ Descriptors(table, Fds, t[1], t[2]) = Descriptors(fd_table[p], Fds, t[1], t[2])
                                + (IF t = s THEN 1 ELSE 0)
            /\ Descriptors(fd_table[p], Fds, t[1], t[2]) \in Nat
        BY <2>5, <4>1
      <4>. QED
        BY ONLY <4>1, <4>2, <4>3
    <3>2. fd_table' = [fd_table EXCEPT ![p] = table]
      BY <2>4
    <3>. QED
      BY ONLY DescInv, p \in Procs, <2>3, <3>1, <3>2, RefsFollow
  <2>7. PipesRight'
    <3>1. ASSUME NEW i \in Pipes
          PROVE  /\ pipe_pool'[i].readers = pipe_pool[i].readers
                        - Descriptors(fd_table[p], Fds, "pipe_read", i)
                        + Descriptors(table, Fds, "pipe_read", i)
                 /\ pipe_pool'[i].writers = pipe_pool[i].writers
                        - Descriptors(fd_table[p], Fds, "pipe_write", i)
                        + Descriptors(table, Fds, "pipe_write", i)
                 /\ pipe_pool'[i].used <=> pipe_pool'[i].readers + pipe_pool'[i].writers > 0
      <4>1. /\ pipe_pool[i].readers \in Nat /\ pipe_pool[i].writers \in Nat
            /\ pipe_pool[i].used <=> pipe_pool[i].readers + pipe_pool[i].writers > 0
        BY PipeFacts
      <4>2. \A kind \in PipeEnds : <<kind, i>> # s
        BY <1>2, ConstantFacts, <1>3
      <4>3. \A kind \in PipeEnds :
              /\ Descriptors(table, Fds, kind, i) = Descriptors(fd_table[p], Fds, kind, i)
              /\ Descriptors(fd_table[p], Fds, kind, i) \in Nat
        BY <2>5, <4>2 DEF PipeEnds
      <4>4. pipe_pool' = pipe_pool
        BY <1>5
      <4>. QED
        BY ONLY <4>1, <4>3, <4>4 DEF PipeEnds
    <3>. QED
      BY <2>4, <3>1, PipesFollow
  <2>8. FilesRight'
    <3>. SUFFICES ASSUME NEW q \in Procs, NEW f \in Fds, fd_table'[q][f].kind \in Counted
                  PROVE  /\ <<fd_table'[q][f].kind, fd_table'[q][f].id>> \in Slots
                         /\ slots'[<<fd_table'[q][f].kind, fd_table'[q][f].id>>].node
                                = fd_table'[q][f].path
      BY DEF FilesRight
    <3>1. fd_table'[q][f] = IF q = p /\ f = n THEN e ELSE fd_table[q][f]
      BY <2>4 DEF DescInv, DescTypeOK
    <3>2. CASE q = p /\ f = n
      BY <1>2, <1>3, <1>6, <2>2, <3>1, <3>2
    <3>3. CASE ~(q = p /\ f = n)
      BY <1>8, <3>1, <3>3
    <3>. QED
      BY <3>2, <3>3
  <2>9. DeadAreFree' /\ DescTypeOK'
    <3>1. fd_table' \in [Procs -> [Fds -> FdEntry]]
      <4>. DEFINE Tables == [Fds -> FdEntry]
      <4>1. fd_table \in [Procs -> Tables] /\ table \in Tables
        BY DEF DescInv, DescTypeOK
      <4>. HIDE DEF Tables
      <4>2. fd_table' \in [Procs -> Tables]
        BY ONLY <4>1, <2>4
      <4>. QED
        BY <4>2 DEF Tables
    <3>. QED
      BY <1>5, <1>6, <2>4, <3>1 DEF DescInv, DescTypeOK, DeadAreFree
  <2>. QED
    BY <2>6, <2>7, <2>8, <2>9 DEF DescInv
<1>. QED
  BY <1>9, <1>10

-----------------------------------------------------------------------------
LEMMA DescInitInv == DescInit => DescInv
<1>. SUFFICES ASSUME DescInit PROVE DescInv
  OBVIOUS
<1>1. DescTypeOK /\ DeadAreFree
  BY ConstantFacts, DescriptorsAssumption DEF DescInit, DescTypeOK, DeadAreFree
<1>2. \A kind, id : kind # "free" => Count(fd_table, kind, id) = 0
  <2>. SUFFICES ASSUME NEW kind, NEW id, kind # "free" PROVE Count(fd_table, kind, id) = 0
    OBVIOUS
  <2>1. HoldersIn(fd_table, kind, id) = {}
    BY ConstantFacts DEF DescInit, HoldersIn, LeadsTo
  <2>. QED
    BY <2>1, FS_EmptySet DEF Count
<1>3. RefsRight
  BY <1>2, ConstantFacts DEF DescInit, RefsRight
<1>4. FilesRight
  BY ConstantFacts DEF DescInit, FilesRight, Counted
<1>5. PipesRight
  BY <1>2, ConstantFacts DEF DescInit, PipesRight
<1>. QED
  BY <1>1, <1>3, <1>4, <1>5 DEF DescInv

LEMMA DescNextInv == DescInv /\ [DescNext]_descVars => DescInv'
<1>. SUFFICES ASSUME DescInv, [DescNext]_descVars PROVE DescInv'
  OBVIOUS
<1>1. CASE UNCHANGED descVars
  BY <1>1 DEF descVars, DescInv, DescTypeOK, DeadAreFree, RefsRight, FilesRight, PipesRight
<1>2. CASE DescNext
  <2>1. PICK p \in Procs :
        \/ \E b \in Backends, node \in Nodes : HasSlot(b) /\ OpenFile(p, b, node)
        \/ OpenPlain(p) \/ MakePipe(p) \/ ReadAgain(p) \/ ExitProc(p)
        \/ \E f \in Fds, low \in {0, FIRST_FD} : Dup(p, f, low)
        \/ \E f, g \in Fds : Dup2(p, f, g)
        \/ \E f \in Fds : Close(p, f)
        \/ \E f \in Fds, n \in 1 .. PIPE_BUF_SIZE : Read(p, f, n) \/ Write(p, f, n)
        \/ \E q \in Procs : ForkProc(p, q)
    BY <1>2 DEF DescNext
  <2>2. CASE \E b \in Backends, node \in Nodes : HasSlot(b) /\ OpenFile(p, b, node)
    BY <2>2, OpenFileInv
  <2>3. CASE OpenPlain(p) \/ MakePipe(p) \/ ExitProc(p)
    BY <2>3, OpenPlainInv, MakePipeInv, ExitProcInv
  <2>4. CASE ReadAgain(p)
    BY <2>4, ReadPipeInv DEF ReadAgain
  <2>5. CASE \E f \in Fds, low \in {0, FIRST_FD} : Dup(p, f, low)
    BY <2>5, DupInv
  <2>6. CASE \E f, g \in Fds : Dup2(p, f, g)
    BY <2>6, Dup2Inv
  <2>7. CASE \E f \in Fds : Close(p, f)
    BY <2>7, CloseInv
  <2>8. CASE \E f \in Fds, n \in 1 .. PIPE_BUF_SIZE : Read(p, f, n) \/ Write(p, f, n)
    <3>1. PICK f \in Fds, n \in 1 .. PIPE_BUF_SIZE : Read(p, f, n) \/ Write(p, f, n)
      BY <2>8
    <3>2. n \in Nat
      OBVIOUS
    <3>. QED
      BY <3>1, <3>2, ReadPipeInv, WriteInv DEF Read
  <2>9. CASE \E q \in Procs : ForkProc(p, q)
    BY <2>9, ForkProcInv
  <2>. QED
    BY <2>1, <2>2, <2>3, <2>4, <2>5, <2>6, <2>7, <2>8, <2>9
<1>. QED
  BY <1>1, <1>2

\* Files and pipe ends count their descriptors, whatever the processes open,
\* duplicate, inherit and close, and a descriptor keeps the file it was opened as
\* (vfs_open, vfs_dup, vfs_close, vfs_inherit_fd_table).
THEOREM DescriptorsCounted == DescSpec => []DescriptorsExact
<1>1. DescInv => DescriptorsExact
  <2>. SUFFICES ASSUME DescInv PROVE DescriptorsExact
    OBVIOUS
  <2>1. \A kind, id : Cardinality(Holders(kind, id)) = Count(fd_table, kind, id)
    BY DEF Holders, HoldersIn, Count, LeadsTo
  <2>. QED
    BY <2>1 DEF DescInv, DescriptorsExact, RefsExact, RefsRight, SameFile, FilesRight,
                PipeEndsExact, PipesRight
<1>. QED
  BY <1>1, DescInitInv, DescNextInv, PTL DEF DescSpec
=============================================================================
