--------------------------- MODULE ProcTableProofs ---------------------------
(***************************************************************************)
(* Proofs about ProcTable for every number of processes, kernel stacks and *)
(* page directories and for every set of programs.                         *)
(*                                                                         *)
(* Every kernel routine is an operator on tables.  Each is shown to        *)
(* "evolve" the table: it keeps the type, the kernel stacks and the page   *)
(* directories, changes the state only of processes that exist, and makes  *)
(* nobody RUNNING or DEAD.  The invariants then follow action by action    *)
(* from that fact alone.                                                   *)
(***************************************************************************)
EXTENDS ProcTable, TLAPS

Table == [Pids -> Pcb]

LiveStates == States \ {"DEAD", "FREE"}

\* What the routines below do to a table t when they leave the table u.
Evolves(t, u) ==
    /\ u \in Table
    /\ \A p \in Pids :
        /\ u[p].stack = t[p].stack
        /\ t[p].dir # 0 => u[p].dir # 0
        /\ \/ u[p].state = t[p].state
           \/ t[p].state \in LiveStates /\ u[p].state \in LiveStates \ {"RUNNING"}

\* A table in which the list holds exactly the processes that are alive or
\* zombies.
Listed(t) ==
    /\ t \in Table
    /\ list \subseteq Pids
    /\ \A p \in Pids : p \in list <=> t[p].state \in LiveStates

\* What any step does to the processes that exist before and after it.
Keeps(t, u) ==
    /\ u \in Table
    /\ \A p \in Pids :
        /\ u[p].stack = t[p].stack
        /\ t[p].dir # 0 => u[p].dir # 0
        /\ \/ u[p].state = t[p].state
           \/ t[p].state \in LiveStates /\ u[p].state \in LiveStates

LEMMA EvolvesKeeps ==
    ASSUME NEW t, NEW u, Evolves(t, u)
    PROVE  /\ Keeps(t, u)
           /\ \A p \in Pids : u[p].state = "RUNNING" => t[p].state = "RUNNING"
BY DEF Evolves, Keeps

-----------------------------------------------------------------------------
\* Evolving twice is evolving.
LEMMA EvolvesTransitive ==
    ASSUME NEW t \in Table, NEW u, NEW v, Evolves(t, u), Evolves(u, v)
    PROVE  Evolves(t, v)
<1>1. v \in Table
  BY DEF Evolves
<1>2. ASSUME NEW p \in Pids
      PROVE  /\ v[p].stack = t[p].stack
             /\ t[p].dir # 0 => v[p].dir # 0
             /\ \/ v[p].state = t[p].state
                \/ t[p].state \in LiveStates /\ v[p].state \in LiveStates \ {"RUNNING"}
  BY DEF Evolves
<1>. QED
  BY <1>1, <1>2 DEF Evolves

\* Evolving keeps the list exact.
LEMMA EvolvesListed ==
    ASSUME NEW t, NEW u, Listed(t), Evolves(t, u)
    PROVE  Listed(u)
BY DEF Listed, Evolves

\* One process of the list changes, and does not become RUNNING.
LEMMA SetEvolves ==
    ASSUME NEW t, Listed(t), NEW p \in list, NEW r \in Pcb,
           r.stack = t[p].stack, t[p].dir # 0 => r.dir # 0,
           r.state = t[p].state \/ r.state \in LiveStates \ {"RUNNING"}
    PROVE  Evolves(t, [t EXCEPT ![p] = r])
BY DEF Evolves, Listed, Table

LEMMA SameEvolves == ASSUME NEW t, Listed(t) PROVE Evolves(t, t)
BY DEF Evolves, Listed

\* The records of a table.
LEMMA ListedPcb ==
    ASSUME NEW t, Listed(t), NEW p \in list
    PROVE  p \in Pids /\ t[p] \in Pcb /\ t[p].state \in LiveStates
BY DEF Listed, Table

\* Records stay records of the type when a field is set.
LEMMA SetState ==
    ASSUME NEW r \in Pcb, NEW s \in States PROVE [r EXCEPT !.state = s] \in Pcb
BY DEF Pcb

LEMMA StatesFacts ==
    /\ "READY" \in LiveStates \ {"RUNNING"} /\ "WAITING" \in LiveStates \ {"RUNNING"}
    /\ "SLEEPING" \in LiveStates \ {"RUNNING"} /\ "STOPPED" \in LiveStates \ {"RUNNING"}
    /\ "ZOMBIE" \in LiveStates \ {"RUNNING"} /\ LiveStates \subseteq States
    /\ "RUNNING" \in LiveStates
    /\ "DEAD" \in States /\ "FREE" \in States
    /\ "DEAD" \notin LiveStates /\ "FREE" \notin LiveStates
BY DEF LiveStates, States

LEMMA NoPid == 0 \in PidOrNone /\ Pids \subseteq PidOrNone
BY ConstantsAssumption DEF PidOrNone, Pids

\* process_release_vfork_parent wakes a parent that was waiting.
LEMMA ReleaseEvolves ==
    ASSUME NEW t, Listed(t), NEW v \in Pids
    PROVE  Evolves(t, ReleaseVforkParent(t, v))
<1>1. CASE ~(t[v].vforkvm /\ t[v].parent \in list /\ t[t[v].parent].vfork_child = v)
  BY <1>1, SameEvolves DEF ReleaseVforkParent
<1>2. CASE t[v].vforkvm /\ t[v].parent \in list /\ t[t[v].parent].vfork_child = v
  <2>1. PICK pa \in list : pa = t[v].parent
    BY <1>2
  <2>2. PICK s : s = IF t[pa].state = "WAITING" THEN "READY" ELSE t[pa].state
    OBVIOUS
  <2>3. /\ s = t[pa].state \/ s \in LiveStates \ {"RUNNING"}
        /\ s \in States
    BY <2>2, ListedPcb, StatesFacts
  <2>4. [t[pa] EXCEPT !.vfork_child = 0, !.state = s] \in Pcb
    <3>1. ASSUME NEW r \in Pcb, NEW c \in PidOrNone, NEW x \in States
          PROVE  [r EXCEPT !.vfork_child = c, !.state = x] \in Pcb
      BY DEF Pcb
    <3>. QED
      BY <3>1, <2>3, NoPid, ListedPcb
  <2>5. ReleaseVforkParent(t, v)
          = [t EXCEPT ![pa] = [t[pa] EXCEPT !.vfork_child = 0, !.state = s]]
    BY <1>2, <2>1, <2>2, ListedPcb DEF ReleaseVforkParent, Listed, Table, Pcb
  <2>6. /\ [t[pa] EXCEPT !.vfork_child = 0, !.state = s].stack = t[pa].stack
        /\ [t[pa] EXCEPT !.vfork_child = 0, !.state = s].dir = t[pa].dir
        /\ [t[pa] EXCEPT !.vfork_child = 0, !.state = s].state = s
    BY ListedPcb DEF Pcb
  <2>7. PICK r \in Pcb : r = [t[pa] EXCEPT !.vfork_child = 0, !.state = s]
    BY <2>4
  <2>8. Evolves(t, [t EXCEPT ![pa] = r])
    BY <2>3, <2>6, <2>7, SetEvolves
  <2>. QED
    BY <2>5, <2>7, <2>8
<1>. QED
  BY <1>1, <1>2

\* The answered parent is READY.
LEMMA AnswerEvolves ==
    ASSUME NEW t, Listed(t), NEW pa \in list
    PROVE  Evolves(t, AnswerWait(t, pa))
<1> DEFINE r == [t[pa] EXCEPT !.state = "READY", !.wait_pid = 0, !.untraced = FALSE]
<1>1. r \in Pcb
  <2>1. ASSUME NEW x \in Pcb, NEW s \in States, NEW c \in PidOrNone
        PROVE  [x EXCEPT !.state = s, !.wait_pid = c, !.untraced = FALSE] \in Pcb
    BY DEF Pcb
  <2>. QED
    BY <2>1, NoPid, StatesFacts, ListedPcb
<1>2. /\ r.stack = t[pa].stack /\ r.dir = t[pa].dir
      /\ r.state \in LiveStates \ {"RUNNING"}
  BY ListedPcb, StatesFacts DEF Pcb
<1>3. AnswerWait(t, pa) = [t EXCEPT ![pa] = r]
  BY ListedPcb DEF AnswerWait, Listed, Table, Pcb
<1>. HIDE DEF r
<1>4. Evolves(t, [t EXCEPT ![pa] = r])
  BY <1>1, <1>2, SetEvolves
<1>. QED
  BY <1>3, <1>4

\* The stop report of a process is forgotten.
LEMMA ClearStopEvolves ==
    ASSUME NEW t, Listed(t), NEW c \in list
    PROVE  Evolves(t, [t EXCEPT ![c].stop = FALSE])
<1> DEFINE r == [t[c] EXCEPT !.stop = FALSE]
<1>1. r \in Pcb
  BY ZenonT(60), ListedPcb DEF Pcb
<1>2. r.stack = t[c].stack /\ r.dir = t[c].dir /\ r.state = t[c].state
  BY ListedPcb DEF Pcb
<1>3. [t EXCEPT ![c].stop = FALSE] = [t EXCEPT ![c] = r]
  BY ListedPcb DEF Listed, Table, Pcb
<1>. HIDE DEF r
<1>. QED
  BY <1>1, <1>2, <1>3, SetEvolves

LEMMA NotifyEvolves ==
    ASSUME NEW t, Listed(t), NEW c \in list
    PROVE  Evolves(t, NotifyStoppedParent(t, c))
<1>1. CASE ~(t[c].parent \in list /\ t[t[c].parent].untraced
                 /\ WaitMatches(t, t[c].parent, c))
  BY <1>1, SameEvolves DEF NotifyStoppedParent
<1>2. CASE t[c].parent \in list /\ t[t[c].parent].untraced
                 /\ WaitMatches(t, t[c].parent, c)
  <2>1. PICK u : u = AnswerWait(t, t[c].parent)
    OBVIOUS
  <2>2. Evolves(t, u) /\ Listed(u)
    BY <1>2, <2>1, AnswerEvolves, EvolvesListed
  <2>3. Evolves(u, [u EXCEPT ![c].stop = FALSE])
    BY <2>2, ClearStopEvolves
  <2>4. NotifyStoppedParent(t, c) = [u EXCEPT ![c].stop = FALSE]
    BY <1>2, <2>1 DEF NotifyStoppedParent
  <2>. QED
    BY <2>2, <2>3, <2>4, EvolvesTransitive DEF Listed
<1>. QED
  BY <1>1, <1>2

LEMMA StopEvolves ==
    ASSUME NEW t, Listed(t), NEW c \in list
    PROVE  Evolves(t, Stop(t, c))
<1>1. CASE t[c].state = "STOPPED"
  BY <1>1, SameEvolves DEF Stop
<1>2. CASE t[c].state # "STOPPED"
  <2> DEFINE r == [t[c] EXCEPT !.state = "STOPPED", !.stop = TRUE]
  <2>1. r \in Pcb
    <3>1. ASSUME NEW x \in Pcb, NEW s \in States
          PROVE  [x EXCEPT !.state = s, !.stop = TRUE] \in Pcb
      BY DEF Pcb
    <3>. QED
      BY <3>1, StatesFacts, ListedPcb
  <2>2. r.stack = t[c].stack /\ r.dir = t[c].dir /\ r.state \in LiveStates \ {"RUNNING"}
    BY ListedPcb, StatesFacts DEF Pcb
  <2>3. [t EXCEPT ![c].state = "STOPPED", ![c].stop = TRUE] = [t EXCEPT ![c] = r]
    BY ListedPcb DEF Listed, Table, Pcb
  <2>4. Evolves(t, [t EXCEPT ![c] = r])
    BY <2>1, <2>2, SetEvolves
  <2>5. PICK u : u = [t EXCEPT ![c] = r]
    OBVIOUS
  <2>6. Stop(t, c) = NotifyStoppedParent(u, c)
    BY <1>2, <2>3, <2>5 DEF Stop
  <2>. HIDE DEF r
  <2>. QED
    BY <2>4, <2>5, <2>6, EvolvesListed, NotifyEvolves, EvolvesTransitive DEF Listed
<1>. QED
  BY <1>1, <1>2

\* process_wake_futex.
LEMMA WakeFutexEvolves ==
    ASSUME NEW t, Listed(t), NEW a, NEW d, NEW all
    PROVE  Evolves(t, WakeFutex(t, a, d, all))
<1>1. PICK ws : ws = IF a = 0 THEN {} ELSE FutexWaiters(t, a, d)
  OBVIOUS
<1> DEFINE W == {q \in ws : all \/ IsFirst(q, ws)}
<1>2. WakeFutex(t, a, d, all)
        = [q \in Pids |-> IF q \in W THEN [t[q] EXCEPT !.state = "READY", !.futex = 0]
                          ELSE t[q]]
  BY <1>1, Zenon DEF WakeFutex
<1>0. W \subseteq list
  BY <1>1 DEF FutexWaiters
<1>. HIDE DEF W
<1>3. ASSUME NEW q \in W
      PROVE  /\ [t[q] EXCEPT !.state = "READY", !.futex = 0] \in Pcb
             /\ [t[q] EXCEPT !.state = "READY", !.futex = 0].stack = t[q].stack
             /\ [t[q] EXCEPT !.state = "READY", !.futex = 0].dir = t[q].dir
             /\ [t[q] EXCEPT !.state = "READY", !.futex = 0].state = "READY"
             /\ t[q].state \in LiveStates
  <2>1. ASSUME NEW r \in Pcb, NEW s \in States, NEW c \in PidOrNone
        PROVE  [r EXCEPT !.state = s, !.futex = c] \in Pcb
    BY DEF Pcb
  <2>2. q \in list
    BY <1>0
  <2>3. t[q] \in Pcb /\ t[q].state \in LiveStates
    BY <2>2, ListedPcb
  <2>4. [t[q] EXCEPT !.state = "READY", !.futex = 0] \in Pcb
    BY <2>1, <2>3, NoPid, StatesFacts
  <2>. QED
    BY <2>3, <2>4 DEF Pcb
<1>4. WakeFutex(t, a, d, all) \in Table
  BY <1>2, <1>3 DEF Listed, Table
<1>. QED
  BY <1>2, <1>3, <1>4, StatesFacts DEF Evolves

\* signal_send_pid, SIGKILL apart.
LEMMA SignalSendEvolves ==
    ASSUME NEW t, Listed(t), NEW q \in list, NEW sig \in Signals
    PROVE  Evolves(t, SignalSend(t, q, sig))
<1>1. CASE sig = "STOP"
  BY <1>1, StopEvolves DEF SignalSend
<1>2. CASE sig = "CONT"
  <2>1. CASE t[q].state \in {"STOPPED", "WAITING"}
    <3>1. PICK r \in Pcb : r = [t[q] EXCEPT !.state = "READY"]
      BY SetState, ListedPcb, StatesFacts
    <3>2. r.stack = t[q].stack /\ r.dir = t[q].dir /\ r.state \in LiveStates \ {"RUNNING"}
      BY <3>1, ListedPcb, StatesFacts DEF Pcb
    <3>3. Evolves(t, [t EXCEPT ![q] = r])
      BY <3>2, SetEvolves
    <3>4. [t EXCEPT ![q].state = "READY"] = [t EXCEPT ![q] = [t[q] EXCEPT !.state = "READY"]]
      OBVIOUS
    <3>5. SignalSend(t, q, sig) = [t EXCEPT ![q].state = "READY"]
      BY <1>2, <2>1 DEF SignalSend
    <3>. QED
      BY <3>1, <3>3, <3>4, <3>5
  <2>2. CASE t[q].state \notin {"STOPPED", "WAITING"}
    BY <1>2, <2>2, SameEvolves DEF SignalSend
  <2>. QED
    BY <2>1, <2>2
<1>3. CASE sig \notin {"STOP", "CONT"}
  <2>1. PICK P : P = t[q].pending \cup ({sig} \cap Pendable)
    OBVIOUS
  <2>2. P \in SUBSET Pendable
    BY <2>1, ListedPcb DEF Pcb
  <2>3. [t[q] EXCEPT !.pending = P] \in Pcb
    <3>1. ASSUME NEW r \in Pcb PROVE [r EXCEPT !.pending = P] \in Pcb
      BY <2>2 DEF Pcb
    <3>. QED
      BY <3>1, ListedPcb
  <2>4. PICK r \in Pcb : r = [t[q] EXCEPT !.pending = P]
    BY <2>3
  <2>5. r.stack = t[q].stack /\ r.dir = t[q].dir /\ r.state = t[q].state
    BY <2>4, ListedPcb DEF Pcb
  <2>6. Evolves(t, [t EXCEPT ![q] = r])
    BY <2>5, SetEvolves
  <2>7. SignalSend(t, q, sig) = [t EXCEPT ![q].pending = t[q].pending \cup ({sig} \cap Pendable)]
    BY <1>3 DEF SignalSend
  <2>. QED
    BY <2>1, <2>4, <2>6, <2>7
<1>. QED
  BY <1>1, <1>2, <1>3

-----------------------------------------------------------------------------
(* The part of the invariant that speaks of the table, the lists and the   *)
(* stacks, and how the four kinds of step keep it: the table evolves, a    *)
(* process is born, a process dies, dead processes are freed.              *)

Static ==
    /\ pcb \in Table
    /\ list \subseteq Pids /\ runq \subseteq list /\ deferred \subseteq Pids
    /\ next_pid \in 1 .. MaxPid + 1
    /\ \A p \in Pids : /\ p \in list <=> pcb[p].state \in LiveStates
                       /\ p \in deferred <=> pcb[p].state = "DEAD"
                       /\ p >= next_pid => pcb[p].state = "FREE"
                       /\ p \in list => pcb[p].dir # 0
    /\ StacksConserved

LEMMA StaticListed == Static => Listed(pcb)
BY DEF Static, Listed

\* What has to be shown of the next state.
LEMMA StaticNext ==
    Static' <=>
    /\ pcb' \in Table
    /\ list' \subseteq Pids /\ runq' \subseteq list' /\ deferred' \subseteq Pids
    /\ next_pid' \in 1 .. MaxPid + 1
    /\ \A p \in Pids : /\ p \in list' <=> pcb'[p].state \in LiveStates
                       /\ p \in deferred' <=> pcb'[p].state = "DEAD"
                       /\ p >= next_pid' => pcb'[p].state = "FREE"
                       /\ p \in list' => pcb'[p].dir # 0
    /\ StacksConserved'
BY Zenon DEF Static

LEMMA EvolveStep ==
    ASSUME Static, NEW t, Keeps(pcb, t), pcb' = t,
           list' = list, runq' = runq, deferred' = deferred,
           next_pid' = next_pid, used' = used
    PROVE  Static'
<1>1. Allocated' = Allocated /\ Allocated \subseteq Pids
  BY DEF Allocated, Static
<1>2. \A p \in Allocated : pcb'[p].stack = pcb[p].stack
  BY <1>1 DEF Keeps
<1>3. {pcb'[p].stack : p \in Allocated} = {pcb[p].stack : p \in Allocated}
  BY <1>2
<1>4. StacksConserved'
  BY <1>1, <1>2, <1>3 DEF Static, StacksConserved
<1>5. ASSUME NEW p \in Pids
      PROVE  /\ p \in list' <=> pcb'[p].state \in LiveStates
             /\ p \in deferred' <=> pcb'[p].state = "DEAD"
             /\ p >= next_pid' => pcb'[p].state = "FREE"
             /\ p \in list' => pcb'[p].dir # 0
  BY StatesFacts DEF Keeps, Static
<1>6. pcb' \in Table
  BY DEF Keeps
<1>7. /\ list' \subseteq Pids /\ runq' \subseteq list' /\ deferred' \subseteq Pids
      /\ next_pid' \in 1 .. MaxPid + 1
  BY DEF Static
<1>. QED
  BY <1>4, <1>5, <1>6, <1>7, StaticNext

LEMMA BirthStep ==
    ASSUME Static, NEW t, Keeps(pcb, t), next_pid <= MaxPid,
           NEW s \in Stacks \ used, NEW r \in Pcb,
           r.stack = s, r.state \in LiveStates, r.dir # 0,
           pcb' = [t EXCEPT ![next_pid] = r],
           next_pid' = next_pid + 1, used' = used \cup {s},
           list' = list \cup {next_pid},
           runq' \subseteq runq \cup {next_pid}, deferred' = deferred
    PROVE  Static'
<1>1. next_pid \in Pids /\ next_pid \notin Allocated /\ Allocated \subseteq Pids
  BY ConstantsAssumption, StatesFacts DEF Static, Pids, Allocated
<1>2. Allocated' = Allocated \cup {next_pid}
  BY DEF Allocated
<1>3. t \in Table /\ pcb' \in Table
  BY <1>1 DEF Keeps, Table
<1>4. /\ pcb'[next_pid] = r
      /\ \A p \in Pids \ {next_pid} : pcb'[p] = t[p]
  BY <1>1, <1>3 DEF Table
<1>5. \A p \in Allocated : pcb'[p].stack = pcb[p].stack
  BY <1>1, <1>4 DEF Keeps
<1>6. StacksConserved'
  <2>1. {pcb'[p].stack : p \in Allocated'} = {pcb[p].stack : p \in Allocated} \cup {s}
    BY <1>1, <1>2, <1>4, <1>5
  <2>2. \A p \in Allocated : pcb[p].stack # s
    BY DEF Static, StacksConserved
  <2>. QED
    BY <1>1, <1>2, <1>4, <1>5, <2>1, <2>2 DEF Static, StacksConserved
<1>7. ASSUME NEW p \in Pids
      PROVE  /\ p \in list' <=> pcb'[p].state \in LiveStates
             /\ p \in deferred' <=> pcb'[p].state = "DEAD"
             /\ p >= next_pid' => pcb'[p].state = "FREE"
             /\ p \in list' => pcb'[p].dir # 0
  <2>1. CASE p = next_pid
    BY <2>1, <1>1, <1>4, StatesFacts DEF Static, Allocated, Pids
  <2>2. CASE p # next_pid
    <3>1. pcb'[p] = t[p] /\ (p \in list' <=> p \in list)
      BY <1>4, <2>2
    <3>2. p >= next_pid' => p >= next_pid
      BY DEF Static, Pids
    <3>. QED
      BY <3>1, <3>2, StatesFacts DEF Static, Keeps
  <2>. QED
    BY <2>1, <2>2
<1>8. next_pid' \in 1 .. MaxPid + 1
  BY ConstantsAssumption DEF Static
<1>9. list' \subseteq Pids /\ runq' \subseteq list' /\ deferred' \subseteq Pids
  BY <1>1 DEF Static
<1>. QED
  BY <1>3, <1>6, <1>7, <1>8, <1>9, StaticNext

LEMMA DeathStep ==
    ASSUME Static, NEW t, Keeps(pcb, t), NEW v \in list,
           pcb' = [t EXCEPT ![v].state = "DEAD"],
           list' = list \ {v}, runq' = runq \ {v}, deferred' = deferred \cup {v},
           UNCHANGED <<next_pid, used>>
    PROVE  Static'
<1>1. v \in Pids /\ Allocated' = Allocated /\ Allocated \subseteq Pids
  BY DEF Allocated, Static
<1>2. [t[v] EXCEPT !.state = "DEAD"] \in Pcb
  BY <1>1, SetState, StatesFacts DEF Keeps, Table
<1>3. pcb' = [t EXCEPT ![v] = [t[v] EXCEPT !.state = "DEAD"]]
  OBVIOUS
<1>4. t \in Table /\ pcb' \in Table
  BY <1>1, <1>2, <1>3 DEF Keeps, Table
<1>5. /\ pcb'[v].state = "DEAD" /\ pcb'[v].stack = t[v].stack
      /\ \A p \in Pids \ {v} : pcb'[p] = t[p]
  BY <1>1, <1>4 DEF Table, Pcb
<1>6. \A p \in Allocated : pcb'[p].stack = pcb[p].stack
  BY <1>1, <1>5 DEF Keeps
<1>7. {pcb'[p].stack : p \in Allocated} = {pcb[p].stack : p \in Allocated}
  BY <1>6
<1>8. StacksConserved'
  BY <1>1, <1>6, <1>7 DEF Static, StacksConserved
<1>9. ASSUME NEW p \in Pids
      PROVE  /\ p \in list' <=> pcb'[p].state \in LiveStates
             /\ p \in deferred' <=> pcb'[p].state = "DEAD"
             /\ p >= next_pid' => pcb'[p].state = "FREE"
             /\ p \in list' => pcb'[p].dir # 0
  <2>1. CASE p = v
    BY <2>1, <1>5, StatesFacts DEF Static
  <2>2. CASE p # v
    BY <2>2, <1>5, StatesFacts DEF Static, Keeps
  <2>. QED
    BY <2>1, <2>2
<1>. QED
  BY <1>4, <1>8, <1>9 DEF Static

LEMMA ReapStep ==
    ASSUME Static, NEW t, Keeps(pcb, t), NEW X \in SUBSET Allocated,
           Reap(X, t, list, runq), used' = used \ StacksFreed(X),
           UNCHANGED next_pid
    PROVE  Static'
<1>1. /\ Allocated' = Allocated \ X /\ Allocated \subseteq Pids
      /\ pcb' = [p \in Pids |-> IF p \in X THEN FreePcb ELSE t[p]]
  BY DEF Allocated, Static, Reap
<1>2. FreePcb \in Pcb /\ FreePcb.state = "FREE"
  BY ConstantsAssumption DEF FreePcb, Pcb, States, PidOrNone
<1>3. t \in Table /\ pcb' \in Table
  BY <1>1, <1>2 DEF Keeps, Table
<1>4. \A p \in Allocated \ X : pcb'[p].stack = pcb[p].stack
  BY <1>1 DEF Keeps
<1>5. StacksConserved'
  <2>1. used' = {pcb[p].stack : p \in Allocated \ X}
    BY DEF Static, StacksConserved, StacksFreed
  <2>2. {pcb'[p].stack : p \in Allocated \ X} = {pcb[p].stack : p \in Allocated \ X}
    BY <1>4
  <2>. QED
    <3>1. \A p, q \in Allocated \ X : pcb'[p].stack = pcb'[q].stack => p = q
      BY <1>4 DEF Static, StacksConserved
    <3>2. used' \subseteq Stacks
      BY DEF Static, StacksConserved
    <3>. QED
      BY <1>1, <2>1, <2>2, <3>1, <3>2 DEF StacksConserved
<1>6. ASSUME NEW p \in Pids
      PROVE  /\ p \in list' <=> pcb'[p].state \in LiveStates
             /\ p \in deferred' <=> pcb'[p].state = "DEAD"
             /\ p >= next_pid' => pcb'[p].state = "FREE"
             /\ p \in list' => pcb'[p].dir # 0
  <2>1. CASE p \in X
    BY <2>1, <1>1, <1>2, StatesFacts DEF Static, Reap
  <2>2. CASE p \notin X
    BY <2>2, <1>1, StatesFacts DEF Static, Keeps, Reap
  <2>. QED
    BY <2>1, <2>2
<1>. QED
  BY <1>3, <1>5, <1>6 DEF Static, Reap

-----------------------------------------------------------------------------
(* The part of the invariant that speaks of the CPU.                       *)

Dynamic ==
    /\ current \in PidOrNone /\ dirs \subseteq Dirs /\ cr3 \in Dirs
    /\ kpc \in {"user", "die", "trap", "pick", "dispatch", "pgrp", "pgnext", "halt"}
    /\ arg \in PidOrNone
    /\ ret \in {"trap", "pick", "pgnext", "halt"}
    /\ pgsig \in [pg : PidOrNone, sig : Signals \cup {"none"}]
    /\ kpc = "user" => deferred = {}
    /\ CurrentRuns
    /\ KernelStepsSound

IInv == Static /\ Dynamic

LEMMA DynamicNext ==
    Dynamic' <=>
    /\ current' \in PidOrNone /\ dirs' \subseteq Dirs /\ cr3' \in Dirs
    /\ kpc' \in {"user", "die", "trap", "pick", "dispatch", "pgrp", "pgnext", "halt"}
    /\ arg' \in PidOrNone
    /\ ret' \in {"trap", "pick", "pgnext", "halt"}
    /\ pgsig' \in [pg : PidOrNone, sig : Signals \cup {"none"}]
    /\ kpc' = "user" => deferred' = {}
    /\ CurrentRuns'
    /\ KernelStepsSound'
BY Zenon DEF Dynamic

\* The invariant is strong enough.
LEMMA IInvStrong == IInv => TypeOK /\ QueuesConsistent /\ CurrentRuns
                              /\ KernelStepsSound /\ PidsSound /\ StacksConserved
<1>. SUFFICES ASSUME IInv PROVE TypeOK /\ QueuesConsistent /\ PidsSound
  BY DEF IInv, Static, Dynamic
<1>1. TypeOK
  BY DEF IInv, Static, Dynamic, TypeOK, Table, StacksConserved
<1>2. QueuesConsistent
  <2>1. \A p \in Pids : pcb[p].state \in LiveStates <=> pcb[p].state \notin {"DEAD", "FREE"}
    BY DEF IInv, Static, Table, Pcb, LiveStates
  <2>. QED
    BY <2>1 DEF IInv, Static, Dynamic, QueuesConsistent
<1>3. PidsSound
  BY DEF IInv, Static, PidsSound
<1>. QED
  BY <1>1, <1>2, <1>3

\* A step that hands over to a kernel routine: what has to be shown of it.
LEMMA KernelNext ==
    ASSUME IInv, Static',
           current' \in PidOrNone, dirs' \subseteq Dirs, cr3' \in Dirs,
           arg' \in PidOrNone,
           ret' \in {"trap", "pick", "pgnext", "halt"},
           pgsig' \in [pg : PidOrNone, sig : Signals \cup {"none"}],
           kpc' \in {"die", "trap", "pick", "pgrp", "pgnext", "halt"},
           \A p \in Pids : pcb'[p].state = "RUNNING" => p = current',
           kpc' = "die" => arg' \in list' /\ pcb'[arg'].state # "ZOMBIE",
           kpc' = "pgrp" => arg' \in list',
           kpc' = "pick" \/ (kpc' = "die" /\ ret' = "pick") =>
                \A p \in Pids : pcb'[p].state # "RUNNING"
    PROVE  IInv'
<1>1. list' \subseteq Pids
  BY StaticNext
<1>2. CurrentRuns' /\ KernelStepsSound'
  BY <1>1 DEF CurrentRuns, KernelStepsSound
<1>3. Dynamic'
  BY <1>2, DynamicNext
<1>. QED
  BY <1>3 DEF IInv

\* Only the current process is RUNNING, listed or not.
LEMMA OnlyCurrentRuns ==
    ASSUME IInv
    PROVE  /\ \A p \in Pids : pcb[p].state = "RUNNING" => p = current /\ p \in list
           /\ kpc \in {"pick", "dispatch"} \/ (kpc = "die" /\ ret = "pick") =>
                    \A p \in Pids : pcb[p].state # "RUNNING"
BY StatesFacts DEF IInv, Static, Dynamic, CurrentRuns, KernelStepsSound

\* A system call that changes the table and returns.
LEMMA CallReturns ==
    ASSUME IInv, NEW t, Evolves(pcb, t), pcb' = t,
           GoTo("trap", 0), ret' \in {"trap", "pick", "pgnext", "halt"},
           UNCHANGED <<list, runq, deferred, current, next_pid, used, dirs, cr3, pgsig>>
    PROVE  IInv'
<1>1. Static'
  BY EvolvesKeeps, EvolveStep DEF IInv
<1>2. \A p \in Pids : pcb'[p].state = "RUNNING" => p = current'
  BY OnlyCurrentRuns, EvolvesKeeps
<1>3. /\ current' \in PidOrNone /\ dirs' \subseteq Dirs /\ cr3' \in Dirs
      /\ pgsig' \in [pg : PidOrNone, sig : Signals \cup {"none"}]
  BY DEF IInv, Dynamic
<1>. QED
  BY <1>1, <1>2, <1>3, NoPid, KernelNext DEF GoTo

\* The caller of a system call.
LEMMA Caller ==
    ASSUME IInv, NEW c, InCall(c)
    PROVE  /\ current \in list /\ current \in Pids /\ pcb[current].state = "RUNNING"
           /\ deferred = {} /\ kpc = "user" /\ Listed(pcb)
           /\ pcb[current] \in Pcb /\ pcb[current].dir \in Dirs
BY StaticListed, ListedPcb DEF IInv, Static, Dynamic, CurrentRuns, InCall

-----------------------------------------------------------------------------
(* Every action keeps the invariant.                                       *)

LEMMA SetStateEvolves ==
    ASSUME NEW t, Listed(t), NEW p \in list, NEW s \in LiveStates \ {"RUNNING"}
    PROVE  Evolves(t, [t EXCEPT ![p].state = s])
<1>1. PICK r \in Pcb : r = [t[p] EXCEPT !.state = s]
  BY SetState, ListedPcb, StatesFacts
<1>2. r.stack = t[p].stack /\ r.dir = t[p].dir /\ r.state = s
  BY <1>1, ListedPcb DEF Pcb
<1>3. Evolves(t, [t EXCEPT ![p] = r])
  BY <1>2, SetEvolves
<1>4. [t EXCEPT ![p].state = s] = [t EXCEPT ![p] = [t[p] EXCEPT !.state = s]]
  OBVIOUS
<1>. QED
  BY <1>1, <1>3, <1>4

LEMMA SleepInv == ASSUME IInv, Sleep PROVE IInv'
<1>1. InCall("sleep") /\ pcb' = [pcb EXCEPT ![current].state = "SLEEPING"]
  BY DEF Sleep
<1>2. Evolves(pcb, [pcb EXCEPT ![current].state = "SLEEPING"])
  BY <1>1, Caller, SetStateEvolves, StatesFacts
<1>. QED
  BY <1>1, <1>2, CallReturns DEF Sleep, IInv, Dynamic

LEMMA FutexWaitInv == ASSUME IInv, NEW a \in Pids, FutexWait(a) PROVE IInv'
<1>1. InCall("futex")
  BY DEF FutexWait
<1>2. PICK r : r = [pcb[current] EXCEPT !.state = "WAITING", !.futex = a]
  OBVIOUS
<1>3. r \in Pcb
  <2>1. ASSUME NEW x \in Pcb, NEW s \in States, NEW c \in PidOrNone
        PROVE  [x EXCEPT !.state = s, !.futex = c] \in Pcb
    BY DEF Pcb
  <2>. QED
    BY <1>1, <1>2, <2>1, Caller, NoPid, StatesFacts
<1>4. r.stack = pcb[current].stack /\ r.dir = pcb[current].dir /\ r.state = "WAITING"
  BY <1>1, <1>2, Caller DEF Pcb
<1>5. Evolves(pcb, [pcb EXCEPT ![current] = r])
  BY <1>1, <1>3, <1>4, Caller, SetEvolves, StatesFacts
<1>6. pcb' = [pcb EXCEPT ![current] = r]
  BY <1>2 DEF FutexWait
<1>. QED
  BY <1>5, <1>6, CallReturns DEF FutexWait, IInv, Dynamic

LEMMA FutexWakeInv ==
    ASSUME IInv, NEW a \in Pids, NEW all \in BOOLEAN, FutexWake(a, all)
    PROVE  IInv'
BY StaticListed, WakeFutexEvolves, CallReturns DEF FutexWake, IInv, Dynamic

LEMMA SetpgidInv == ASSUME IInv, NEW q \in Pids, NEW g \in Pids, Setpgid(q, g) PROVE IInv'
<1>1. q \in list /\ Listed(pcb)
  BY StaticListed DEF Setpgid, IInv
<1>2. PICK r : r = [pcb[q] EXCEPT !.pgid = g]
  OBVIOUS
<1>3. r \in Pcb
  <2>1. ASSUME NEW x \in Pcb, NEW c \in PidOrNone PROVE [x EXCEPT !.pgid = c] \in Pcb
    BY DEF Pcb
  <2>. QED
    BY <1>1, <1>2, <2>1, ListedPcb, NoPid
<1>4. r.stack = pcb[q].stack /\ r.dir = pcb[q].dir /\ r.state = pcb[q].state
  BY <1>1, <1>2, ListedPcb DEF Pcb
<1>5. Evolves(pcb, [pcb EXCEPT ![q] = r])
  BY <1>1, <1>3, <1>4, SetEvolves
<1>6. pcb' = [pcb EXCEPT ![q] = r]
  BY <1>2 DEF Setpgid
<1>. QED
  BY <1>5, <1>6, CallReturns DEF Setpgid, IInv, Dynamic

LEMMA ExecFailsInv == ASSUME IInv, ExecFails PROVE IInv'
<1>1. InCall("execfail")
  BY DEF ExecFails
<1>. QED
  BY <1>1, Caller, ReleaseEvolves, CallReturns DEF ExecFails, IInv, Dynamic

LEMMA ForkFailsInv == ASSUME IInv, ForkFails PROVE IInv'
<1>1. Static'
  <2>1. /\ pcb' = pcb /\ list' = list /\ runq' = runq /\ deferred' = deferred /\ used' = used
        /\ next_pid <= MaxPid /\ next_pid' = next_pid + 1
    BY DEF ForkFails
  <2>2. next_pid' \in 1 .. MaxPid + 1 /\ \A p \in Pids : p >= next_pid' => p >= next_pid
    BY <2>1, ConstantsAssumption DEF IInv, Static, Pids
  <2>3. StacksConserved'
    BY <2>1 DEF IInv, Static, StacksConserved, Allocated
  <2>. QED
    BY <2>1, <2>2, <2>3 DEF IInv, Static
<1>2. /\ current' \in PidOrNone /\ dirs' \subseteq Dirs /\ cr3' \in Dirs
      /\ ret' \in {"trap", "pick", "pgnext", "halt"}
      /\ pgsig' \in [pg : PidOrNone, sig : Signals \cup {"none"}]
      /\ kpc' = "trap" /\ arg' = 0 /\ pcb' = pcb /\ current' = current
  BY DEF ForkFails, IInv, Dynamic, GoTo
<1>. QED
  BY <1>1, <1>2, NoPid, OnlyCurrentRuns, KernelNext

\* A step that only decides which kernel routine runs next.
LEMMA OnwardInv ==
    ASSUME IInv,
           UNCHANGED <<pcb, list, runq, deferred, current, next_pid, used, dirs, cr3>>,
           arg' \in PidOrNone, ret' \in {"trap", "pick", "pgnext", "halt"},
           pgsig' \in [pg : PidOrNone, sig : Signals \cup {"none"}],
           kpc' \in {"die", "trap", "pgrp", "pgnext", "halt"},
           kpc' = "die" => arg' \in list /\ pcb[arg'].state # "ZOMBIE" /\ ret' # "pick",
           kpc' = "pgrp" => arg' \in list
    PROVE  IInv'
<1>1. Static'
  BY DEF IInv, Static, StacksConserved, Allocated
<1>2. /\ current' \in PidOrNone /\ dirs' \subseteq Dirs /\ cr3' \in Dirs
      /\ pcb' = pcb /\ list' = list /\ current' = current
  BY DEF IInv, Dynamic
<1>. QED
  BY <1>1, <1>2, OnlyCurrentRuns, KernelNext

LEMMA ExitInv == ASSUME IInv, Exit \/ FatalFault PROVE IInv'
<1>1. \E c : InCall(c)
  BY DEF Exit, FatalFault
<1>2. current \in list /\ pcb[current].state # "ZOMBIE"
  BY <1>1, Caller
<1>3. /\ UNCHANGED <<pcb, list, runq, deferred, current, next_pid, used, dirs, cr3, pgsig>>
      /\ kpc' = "die" /\ arg' = current /\ ret' \in {"trap", "halt"}
  BY DEF Exit, FatalFault, Die, GoTo
<1>. QED
  BY <1>2, <1>3, OnwardInv DEF IInv, Dynamic

LEMMA KillInv == ASSUME IInv, NEW q \in Pids, NEW sig \in Signals, Kill(q, sig) PROVE IInv'
<1>1. q \in list /\ Listed(pcb) /\ q \in PidOrNone
  BY StaticListed, NoPid DEF Kill, IInv
<1>2. CASE sig = "KILL"
  <2>1. /\ UNCHANGED <<pcb, list, runq, deferred, current, next_pid, used, dirs, cr3, pgsig>>
        /\ kpc' = "die" /\ arg' = q /\ ret' = "trap" /\ pcb[q].state # "ZOMBIE"
    BY <1>2 DEF Kill, Die, GoTo
  <2>. QED
    BY <1>1, <2>1, OnwardInv DEF IInv, Dynamic
<1>3. CASE sig # "KILL"
  <2>1. /\ pcb' = SignalSend(pcb, q, sig) /\ GoTo("trap", 0)
        /\ UNCHANGED <<list, runq, deferred, current, next_pid, used, dirs, cr3, ret, pgsig>>
    BY <1>3 DEF Kill
  <2>2. Evolves(pcb, SignalSend(pcb, q, sig))
    BY <1>1, SignalSendEvolves
  <2>. QED
    BY <2>1, <2>2, CallReturns DEF IInv, Dynamic
<1>. QED
  BY <1>2, <1>3

LEMMA KillPgrpInv ==
    ASSUME IInv, NEW g \in Pids, NEW sig \in Signals, KillPgrp(g, sig) PROVE IInv'
<1>1. PICK q \in list : GoTo("pgrp", q)
  BY DEF KillPgrp
<1>2. q \in PidOrNone
  BY NoPid DEF IInv, Static
<1>3. pgsig' \in [pg : PidOrNone, sig : Signals \cup {"none"}]
  BY NoPid DEF KillPgrp
<1>4. /\ UNCHANGED <<pcb, list, runq, deferred, current, next_pid, used, dirs, cr3, ret>>
      /\ kpc' = "pgrp" /\ arg' = q
  BY <1>1 DEF KillPgrp, GoTo
<1>. QED
  BY <1>2, <1>3, <1>4, OnwardInv DEF IInv, Dynamic

LEMMA PgrpSendInv == ASSUME IInv, PgrpSend PROVE IInv'
<1>1. arg \in list /\ Listed(pcb) /\ arg \in PidOrNone
  BY StaticListed, NoPid DEF PgrpSend, IInv, Static, Dynamic, KernelStepsSound
<1>2. CASE pcb' = pcb /\ Die(arg, "pgnext") /\ pcb[arg].state # "ZOMBIE"
  BY <1>1, <1>2, OnwardInv DEF PgrpSend, Die, GoTo, IInv, Dynamic
<1>3. CASE pcb' = pcb /\ GoTo("pgnext", arg) /\ ret' = ret
  BY <1>1, <1>3, OnwardInv DEF PgrpSend, GoTo, IInv, Dynamic
<1>4. CASE pcb' = SignalSend(pcb, arg, pgsig.sig) /\ GoTo("pgnext", arg) /\ ret' = ret
                /\ pgsig.sig \in Signals
  <2>1. Evolves(pcb, SignalSend(pcb, arg, pgsig.sig))
    BY <1>1, <1>4, SignalSendEvolves
  <2>2. Static'
    BY <1>4, <2>1, EvolvesKeeps, EvolveStep DEF IInv, PgrpSend
  <2>3. \A p \in Pids : pcb'[p].state = "RUNNING" => p = current'
    BY <1>4, <2>1, EvolvesKeeps, OnlyCurrentRuns DEF PgrpSend
  <2>. QED
    BY <1>1, <1>4, <2>2, <2>3, KernelNext DEF PgrpSend, GoTo, IInv, Dynamic
<1>5. CASE pcb[arg].pgid = pgsig.pg /\ pgsig.sig = "none"
  <2>1. SignalSend(pcb, arg, "none") = [pcb EXCEPT ![arg].pending = pcb[arg].pending \cup {}]
    BY DEF SignalSend, Pendable
  <2>2. SignalSend(pcb, arg, "none") = pcb
    BY <1>1, <2>1, ListedPcb DEF Listed, Table, Pcb
  <2>. QED
    BY <1>3, <1>5, <2>2 DEF PgrpSend
<1>. QED
  BY <1>2, <1>3, <1>4, <1>5 DEF PgrpSend, IInv, Dynamic

LEMMA PgrpNextInv == ASSUME IInv, PgrpNext PROVE IInv'
<1>1. CASE GoTo("trap", 0) /\ pgsig' = NoPgsig
  BY <1>1, NoPid, OnwardInv DEF PgrpNext, GoTo, NoPgsig, IInv, Dynamic
<1>2. ASSUME NEW q \in list, GoTo("pgrp", q), UNCHANGED pgsig
      PROVE  IInv'
  <2>1. q \in PidOrNone
    BY NoPid DEF IInv, Static
  <2>. QED
    BY <1>2, <2>1, OnwardInv DEF PgrpNext, GoTo, IInv, Dynamic
<1>3. PICK rest : /\ rest = IF arg \in list THEN {q \in list : q < arg} ELSE {}
                  /\ \/ rest = {} /\ GoTo("trap", 0) /\ pgsig' = NoPgsig
                     \/ \E q \in rest : IsFirst(q, rest) /\ GoTo("pgrp", q) /\ UNCHANGED pgsig
  BY DEF PgrpNext
<1>4. rest \subseteq list
  BY <1>3
<1>. QED
  BY <1>1, <1>2, <1>3, <1>4

\* The victim is a zombie, its futex is woken, its vfork parent released.
LEMMA AfterDeathEvolves ==
    ASSUME IInv, NEW v \in list
    PROVE  Evolves(pcb, AfterDeath(v))
<1> DEFINE r == [pcb[v] EXCEPT !.state = "ZOMBIE", !.pending = {}, !.ctid = 0]
<1>1. Listed(pcb) /\ v \in Pids
  BY StaticListed DEF IInv, Static
<1>2. r \in Pcb
  <2>1. ASSUME NEW x \in Pcb, NEW s \in States, NEW c \in PidOrNone
        PROVE  [x EXCEPT !.state = s, !.pending = {}, !.ctid = c] \in Pcb
    BY DEF Pcb
  <2>. QED
    BY <1>1, <2>1, ListedPcb, NoPid, StatesFacts
<1>3. r.stack = pcb[v].stack /\ r.dir = pcb[v].dir /\ r.state = "ZOMBIE"
  BY <1>1, ListedPcb DEF Pcb
<1>4. [pcb EXCEPT ![v].state = "ZOMBIE", ![v].pending = {}, ![v].ctid = 0]
        = [pcb EXCEPT ![v] = r]
  OBVIOUS
<1>. HIDE DEF r
<1>5. Evolves(pcb, [pcb EXCEPT ![v] = r])
  BY <1>1, <1>2, <1>3, SetEvolves, StatesFacts
<1>6. PICK u : u = [pcb EXCEPT ![v] = r]
  OBVIOUS
<1>7. Evolves(pcb, u) /\ Listed(u)
  BY <1>1, <1>5, <1>6, EvolvesListed
<1>8. PICK w : w = WakeFutex(u, pcb[v].ctid, pcb[v].dir, FALSE)
  OBVIOUS
<1>9. Evolves(u, w) /\ Listed(w)
  BY <1>7, <1>8, WakeFutexEvolves, EvolvesListed
<1>10. Evolves(w, ReleaseVforkParent(w, v))
  BY <1>1, <1>9, ReleaseEvolves
<1>11. AfterDeath(v) = ReleaseVforkParent(w, v)
  BY <1>4, <1>6, <1>8 DEF AfterDeath
<1>12. Evolves(pcb, w)
  BY <1>1, <1>7, <1>9, EvolvesTransitive DEF Listed
<1>. QED
  BY <1>1, <1>10, <1>11, <1>12, EvolvesTransitive DEF Listed

LEMMA MarkExitedInv == ASSUME IInv, MarkExited PROVE IInv'
<1>1. /\ kpc = "die" /\ arg \in list /\ arg \in Pids /\ arg \in PidOrNone /\ Listed(pcb)
      /\ pcb[arg].state # "ZOMBIE"
  BY StaticListed, NoPid DEF MarkExited, IInv, Static, Dynamic, KernelStepsSound
<1>2. PICK t : t = AfterDeath(arg)
  OBVIOUS
<1>3. Evolves(pcb, t) /\ Listed(t)
  BY <1>1, <1>2, AfterDeathEvolves, EvolvesListed
<1>4. Static' /\ \A p \in Pids : pcb'[p].state = "RUNNING" => pcb[p].state = "RUNNING"
  <2>1. CASE LeavesAtDeath(arg)
    <3>1. PICK u : u = IF pcb[arg].thread THEN t ELSE AnswerWait(t, pcb[arg].parent)
      OBVIOUS
    <3>4. Evolves(pcb, u)
      <4>1. CASE pcb[arg].thread
        BY <1>3, <3>1, <4>1
      <4>2. CASE ~pcb[arg].thread
        <5>1. pcb[arg].parent \in list
          BY <2>1, <4>2 DEF LeavesAtDeath, AnswersWait
        <5>2. Evolves(t, u)
          BY <1>3, <3>1, <4>2, <5>1, AnswerEvolves
        <5>. QED
          BY <1>1, <1>3, <5>2, EvolvesTransitive DEF Listed
      <4>. QED
        BY <4>1, <4>2
    <3>5. /\ pcb' = [u EXCEPT ![arg].state = "DEAD"]
          /\ list' = list \ {arg} /\ runq' = runq \ {arg} /\ deferred' = deferred \cup {arg}
          /\ UNCHANGED <<next_pid, used>>
      BY <1>2, <2>1, <3>1 DEF MarkExited
    <3>6. Static'
      BY <1>1, <3>4, <3>5, EvolvesKeeps, DeathStep DEF IInv
    <3>7. \A p \in Pids : pcb'[p].state = "RUNNING" => u[p].state = "RUNNING"
      BY <1>1, <3>4, <3>5 DEF Evolves, Table, Pcb
    <3>. QED
      BY <3>4, <3>6, <3>7, EvolvesKeeps
  <2>2. CASE ~LeavesAtDeath(arg)
    <3>1. PICK pa : pa = pcb[arg].parent
      OBVIOUS
    <3>2. PICK u : u = IF pa \in list /\ t[pa].state = "WAITING" /\ t[pa].vfork_child = 0
                       THEN [t EXCEPT ![pa].state = "READY"] ELSE t
      OBVIOUS
    <3>3. pcb' = u /\ UNCHANGED <<list, runq, deferred, next_pid, used>>
      BY <1>2, <2>2, <3>1, <3>2 DEF MarkExited
    <3>4. CASE u = t
      BY <1>3, <3>3, <3>4, EvolvesKeeps, EvolveStep DEF IInv
    <3>5. CASE pa \in list /\ u = [t EXCEPT ![pa].state = "READY"]
      <4>1. Evolves(t, u)
        BY <1>3, <3>5, SetStateEvolves, StatesFacts
      <4>2. Evolves(pcb, u)
        BY <1>1, <1>3, <4>1, EvolvesTransitive DEF Listed
      <4>. QED
        BY <3>3, <4>2, EvolvesKeeps, EvolveStep DEF IInv
    <3>. QED
      BY <3>2, <3>4, <3>5
  <2>. QED
    BY <2>1, <2>2
<1>5. /\ kpc' = ret /\ arg' \in {arg, 0} /\ ret' = "trap"
      /\ UNCHANGED <<current, next_pid, used, dirs, cr3, pgsig>>
  BY DEF MarkExited, GoTo
<1>6. kpc' \in {"trap", "pick", "pgnext", "halt"}
  BY <1>5 DEF IInv, Dynamic
<1>7. kpc' = "pick" => \A p \in Pids : pcb'[p].state # "RUNNING"
  BY <1>1, <1>4, <1>5, OnlyCurrentRuns
<1>. QED
  BY <1>1, <1>4, <1>5, <1>6, <1>7, NoPid, OnlyCurrentRuns, KernelNext DEF IInv, Dynamic

LEMMA TimerInv == ASSUME IInv, NEW woken \in SUBSET Pids, Timer(woken) PROVE IInv'
<1>1. ASSUME NEW q \in Pids
      PROVE  /\ pcb'[q] \in Pcb /\ pcb'[q].stack = pcb[q].stack /\ pcb'[q].dir = pcb[q].dir
             /\ \/ pcb'[q].state = pcb[q].state
                \/ pcb[q].state \in LiveStates /\ pcb'[q].state \in LiveStates \ {"RUNNING"}
  <2>1. pcb[q] \in Pcb
    BY DEF IInv, Static, Table
  <2>2. CASE q \notin woken
    BY <2>1, <2>2 DEF Timer
  <2>3. CASE q \in woken
    <3>1. q \in list /\ pcb[q].state \in LiveStates
      BY <2>3 DEF Timer, IInv, Static
    <3>2. [pcb[q] EXCEPT !.state = "READY"] \in Pcb
      BY <2>1, SetState, StatesFacts
    <3>3. [pcb[q] EXCEPT !.state = "READY", !.futex = 0] \in Pcb
      <4>1. ASSUME NEW x \in Pcb, NEW s \in States, NEW c \in PidOrNone
            PROVE  [x EXCEPT !.state = s, !.futex = c] \in Pcb
        BY DEF Pcb
      <4>. QED
        BY <2>1, <4>1, NoPid, StatesFacts
    <3>4. \/ pcb'[q] = [pcb[q] EXCEPT !.state = "READY"]
          \/ pcb'[q] = [pcb[q] EXCEPT !.state = "READY", !.futex = 0]
      BY <2>3 DEF Timer
    <3>5. CASE pcb'[q] = [pcb[q] EXCEPT !.state = "READY"]
      BY <2>1, <3>1, <3>2, <3>5, StatesFacts DEF Pcb
    <3>6. CASE pcb'[q] = [pcb[q] EXCEPT !.state = "READY", !.futex = 0]
      BY <2>1, <3>1, <3>3, <3>6, StatesFacts DEF Pcb
    <3>. QED
      BY <3>4, <3>5, <3>6
  <2>. QED
    BY <2>2, <2>3
<1>2. PICK t : pcb' = t
  OBVIOUS
<1>3. t \in Table
  BY <1>1, <1>2 DEF Timer, Table
<1>4. Evolves(pcb, t)
  BY <1>1, <1>2, <1>3 DEF Evolves
<1>5. Static'
  BY <1>2, <1>4, EvolvesKeeps, EvolveStep DEF Timer, IInv
<1>6. \A p \in Pids : pcb'[p].state = "RUNNING" => p = current'
  BY <1>2, <1>4, EvolvesKeeps, OnlyCurrentRuns DEF Timer
<1>7. kpc' \in {"halt", "trap"} /\ arg' = 0
  BY DEF Timer, GoTo
<1>. QED
  BY <1>5, <1>6, <1>7, NoPid, KernelNext DEF Timer, IInv, Dynamic

LEMMA HandleTrapInv == ASSUME IInv, HandleTrap PROVE IInv'
<1>1. PICK t : pcb' = t
  OBVIOUS
<1>2. CASE current # 0 /\ pcb[current].state = "RUNNING"
  <2>1. current \in list /\ current \in Pids /\ Listed(pcb)
    BY <1>2, StaticListed, StatesFacts DEF IInv, Static, Dynamic, PidOrNone, Pids
  <2>2. Evolves(pcb, t)
    BY <1>1, <1>2, <2>1, SetStateEvolves, StatesFacts DEF HandleTrap
  <2>3. t[current].state = "READY"
    BY <1>1, <1>2, <2>1, ListedPcb DEF HandleTrap, Listed, Table, Pcb
  <2>4. \A p \in Pids : pcb'[p].state # "RUNNING"
    BY <1>1, <2>2, <2>3, EvolvesKeeps, OnlyCurrentRuns
  <2>5. Static'
    BY <1>1, <2>2, EvolvesKeeps, EvolveStep DEF IInv, HandleTrap
  <2>. QED
    BY <2>4, <2>5, NoPid, KernelNext DEF HandleTrap, GoTo, IInv, Dynamic
<1>3. CASE ~(current # 0 /\ pcb[current].state = "RUNNING")
  <2>1. pcb' = pcb
    BY <1>3 DEF HandleTrap
  <2>2. 0 \notin Pids
    BY DEF Pids
  <2>3. \A p \in Pids : pcb'[p].state # "RUNNING"
    BY <1>3, <2>1, <2>2, OnlyCurrentRuns
  <2>4. Static'
    BY <2>1, StaticListed, SameEvolves, EvolvesKeeps, EvolveStep DEF IInv, HandleTrap
  <2>. QED
    BY <2>3, <2>4, NoPid, KernelNext DEF HandleTrap, GoTo, IInv, Dynamic
<1>. QED
  BY <1>2, <1>3

LEMMA PickNextInv == ASSUME IInv, NEW p \in Pids, PickNext(p) PROVE IInv'
<1>1. /\ p \in runq /\ pcb[p].state = "READY" /\ p \in list /\ p \in PidOrNone
      /\ kpc = "pick" /\ pcb[p] \in Pcb /\ pcb[p].dir # 0
  BY NoPid DEF PickNext, Runnable, IInv, Static, Table
<1>2. pcb[p].dir \in Dirs
  BY <1>1, ConstantsAssumption DEF Pcb, Dirs
<1>3. /\ pcb' = pcb /\ list' = list /\ runq' = runq /\ deferred' = deferred
      /\ next_pid' = next_pid /\ used' = used /\ current' = current /\ dirs' = dirs
      /\ ret' = ret /\ pgsig' = pgsig
      /\ kpc' = "dispatch" /\ arg' = p /\ cr3' = pcb[p].dir
  BY DEF PickNext, GoTo
<1>4. Static'
  BY <1>3, StaticListed, SameEvolves, EvolvesKeeps, EvolveStep DEF IInv
<1>5. CurrentRuns' /\ KernelStepsSound'
  BY <1>1, <1>3, OnlyCurrentRuns DEF CurrentRuns, KernelStepsSound, IInv, Static
<1>6. Dynamic'
  BY <1>1, <1>2, <1>3, <1>5, DynamicNext DEF IInv, Dynamic
<1>. QED
  BY <1>4, <1>6 DEF IInv

LEMMA PickIdleInv == ASSUME IInv, PickIdle PROVE IInv'
<1>1. deferred \subseteq Pids /\ deferred \in SUBSET Allocated /\ Reapable(0) = deferred
  BY DEF IInv, Static, Allocated, Reapable, Pids
<1>2. Static'
  <2>1. Keeps(pcb, pcb)
    BY StaticListed, SameEvolves, EvolvesKeeps DEF IInv
  <2>2. /\ Reap(deferred, pcb, list, runq) /\ used' = used \ StacksFreed(deferred)
        /\ next_pid' = next_pid
    BY <1>1 DEF PickIdle
  <2>. QED
    BY <1>1, <2>1, <2>2, ReapStep DEF IInv
<1>3. /\ kpc' = "user" /\ arg' = 0 /\ current' = 0 /\ deferred' = {} /\ cr3' = cr3
      /\ ret' = ret /\ pgsig' = pgsig /\ dirs' \subseteq dirs /\ list' \subseteq list
  BY <1>1 DEF PickIdle, GoTo, Reap
<1>4. \A p \in list' : pcb'[p].state # "RUNNING"
  BY <1>1, <1>3, OnlyCurrentRuns DEF PickIdle, Reap, IInv, Static
<1>5. CurrentRuns' /\ KernelStepsSound'
  BY <1>3, <1>4 DEF CurrentRuns, KernelStepsSound
<1>6. Dynamic'
  BY <1>3, <1>5, NoPid, DynamicNext DEF IInv, Dynamic
<1>. QED
  BY <1>2, <1>6 DEF IInv

LEMMA DispatchSignalInv == ASSUME IInv, DispatchSignal PROVE IInv'
<1>1. /\ kpc = "dispatch" /\ arg \in list /\ arg \in Pids /\ Listed(pcb)
      /\ pcb[arg].state = "READY"
  BY StaticListed DEF DispatchSignal, IInv, Static, Dynamic, KernelStepsSound
<1>2. PICK P : P = pcb[arg].pending \ {NextSignal(arg)}
  OBVIOUS
<1>3. PICK r : r = [pcb[arg] EXCEPT !.pending = P]
  OBVIOUS
<1>4. r \in Pcb
  <2>1. P \in SUBSET Pendable
    BY <1>1, <1>2, ListedPcb DEF Pcb
  <2>2. ASSUME NEW x \in Pcb PROVE [x EXCEPT !.pending = P] \in Pcb
    BY <2>1 DEF Pcb
  <2>. QED
    BY <1>1, <1>3, <2>2, ListedPcb
<1>5. r.stack = pcb[arg].stack /\ r.dir = pcb[arg].dir /\ r.state = "READY"
  BY <1>1, <1>3, ListedPcb DEF Pcb
<1>6. PICK t : t = [pcb EXCEPT ![arg] = r]
  OBVIOUS
<1>7. Evolves(pcb, t) /\ Listed(t) /\ t[arg] = r
  BY <1>1, <1>4, <1>5, <1>6, SetEvolves, EvolvesListed, StatesFacts DEF Listed, Table
<1>8. t = [pcb EXCEPT ![arg].pending = @ \ {NextSignal(arg)}]
  BY <1>2, <1>3, <1>6
<1>9. CASE NextSignal(arg) = "TERM"
  <2>1. pcb' = t /\ Die(arg, "pick")
    BY <1>8, <1>9 DEF DispatchSignal
  <2>2. Static'
    BY <1>7, <2>1, EvolvesKeeps, EvolveStep DEF DispatchSignal, IInv
  <2>3. \A p \in Pids : pcb'[p].state # "RUNNING"
    BY <1>1, <1>7, <2>1, EvolvesKeeps, OnlyCurrentRuns
  <2>4. arg' \in list' /\ pcb'[arg'].state # "ZOMBIE"
    BY <1>1, <1>5, <1>7, <2>1 DEF DispatchSignal, Die, GoTo
  <2>. QED
    BY <2>1, <2>2, <2>3, <2>4, KernelNext DEF DispatchSignal, Die, GoTo, IInv, Dynamic
<1>10. CASE NextSignal(arg) # "TERM"
  <2>1. pcb' = Stop(t, arg) /\ GoTo("pick", 0) /\ ret' = ret
    BY <1>8, <1>10 DEF DispatchSignal
  <2>2. Evolves(t, Stop(t, arg))
    BY <1>1, <1>7, StopEvolves
  <2>3. Evolves(pcb, Stop(t, arg))
    BY <1>1, <1>7, <2>2, EvolvesTransitive DEF Listed
  <2>4. Static'
    BY <2>1, <2>3, EvolvesKeeps, EvolveStep DEF DispatchSignal, IInv
  <2>5. \A p \in Pids : pcb'[p].state # "RUNNING"
    BY <1>1, <2>1, <2>3, EvolvesKeeps, OnlyCurrentRuns
  <2>. QED
    BY <2>1, <2>4, <2>5, NoPid, KernelNext DEF DispatchSignal, GoTo, IInv, Dynamic
<1>. QED
  BY <1>9, <1>10

LEMMA RunInv == ASSUME IInv, Run PROVE IInv'
<1>1. /\ kpc = "dispatch" /\ arg \in list /\ arg \in runq /\ arg \in Pids /\ arg \in PidOrNone
      /\ pcb[arg].state = "READY" /\ cr3 = pcb[arg].dir /\ Listed(pcb) /\ arg \notin deferred
  BY StaticListed, NoPid, StatesFacts DEF Run, IInv, Static, Dynamic, KernelStepsSound
<1>2. /\ deferred \subseteq Pids /\ deferred \in SUBSET Allocated
      /\ Reapable(arg) = deferred
  BY <1>1 DEF IInv, Static, Allocated, Reapable
<1>3. PICK r : r = [pcb[arg] EXCEPT !.state = "RUNNING"]
  OBVIOUS
<1>4. r \in Pcb
  BY <1>1, <1>3, SetState, ListedPcb, StatesFacts
<1>5. r.stack = pcb[arg].stack /\ r.dir = pcb[arg].dir /\ r.state = "RUNNING"
  BY <1>1, <1>3, ListedPcb DEF Pcb
<1>6. PICK t : t = [pcb EXCEPT ![arg] = r]
  OBVIOUS
<1>7. t = [pcb EXCEPT ![arg].state = "RUNNING"]
  BY <1>3, <1>6
<1>8. t \in Table /\ t[arg] = r /\ \A p \in Pids \ {arg} : t[p] = pcb[p]
  BY <1>1, <1>4, <1>6 DEF Listed, Table
<1>9. Keeps(pcb, t)
  BY <1>1, <1>5, <1>8, ListedPcb, StatesFacts DEF Keeps
<1>10. /\ Reap(deferred, t, list, runq) /\ used' = used \ StacksFreed(deferred)
       /\ next_pid' = next_pid
  BY <1>2, <1>7 DEF Run
<1>11. Static'
  BY <1>2, <1>9, <1>10, ReapStep DEF IInv
<1>12. /\ kpc' = "user" /\ arg' = 0 /\ current' = arg /\ deferred' = {} /\ cr3' = cr3
       /\ ret' = ret /\ pgsig' = pgsig /\ dirs' \subseteq dirs
       /\ list' = list \ deferred /\ runq' = runq \ deferred
       /\ pcb' = [p \in Pids |-> IF p \in deferred THEN FreePcb ELSE t[p]]
  BY <1>2, <1>10 DEF Run, GoTo, Reap
<1>13. pcb'[arg] = r /\ \A p \in list' \ {arg} : pcb'[p] = pcb[p] /\ p \in Pids
  BY <1>1, <1>8, <1>12 DEF IInv, Static
<1>14. CurrentRuns' /\ KernelStepsSound'
  BY SMTT(30), <1>1, <1>5, <1>12, <1>13, OnlyCurrentRuns DEF CurrentRuns, KernelStepsSound
<1>15. Dynamic'
  BY <1>1, <1>12, <1>14, NoPid, DynamicNext DEF IInv, Dynamic
<1>. QED
  BY <1>11, <1>15 DEF IInv

\* A new process.
LEMMA ChildPcb ==
    ASSUME IInv, NEW p \in list, NEW d \in Dirs, NEW s \in Stacks
    PROVE  /\ ChildOf(p, d, s) \in Pcb /\ ChildOf(p, d, s).state = "READY"
           /\ ChildOf(p, d, s).dir = d /\ ChildOf(p, d, s).stack = s
<1>1. pcb[p] \in Pcb
  BY StaticListed, ListedPcb DEF IInv
<1>2. d \in 0 .. NDirs /\ s \in 0 .. NStacks /\ p \in PidOrNone
  BY ConstantsAssumption, NoPid DEF Dirs, Stacks, IInv, Static
<1>3. /\ pcb[p].pgid \in PidOrNone /\ pcb[p].thread \in BOOLEAN
      /\ pcb[p].vforkvm \in BOOLEAN
  BY <1>1 DEF Pcb
<1>4. FreePcb \in Pcb
  BY ConstantsAssumption DEF FreePcb, Pcb, States, PidOrNone
<1>5. PICK f \in Pcb, st \in States, g \in PidOrNone, th \in BOOLEAN, vm \in BOOLEAN :
        /\ f = FreePcb /\ st = "READY" /\ g = pcb[p].pgid
        /\ th = pcb[p].thread /\ vm = pcb[p].vforkvm
  BY <1>3, <1>4, StatesFacts
<1>6. PICK y : y = [f EXCEPT !.state = st, !.parent = p, !.pgid = g]
  OBVIOUS
<1>7. y \in Pcb /\ y.state = st
  BY <1>2, <1>6 DEF Pcb
<1>8. PICK r : r = [y EXCEPT !.thread = th, !.vforkvm = vm, !.dir = d, !.stack = s]
  OBVIOUS
<1>9. r \in Pcb /\ r.state = st /\ r.dir = d /\ r.stack = s
  BY <1>2, <1>7, <1>8 DEF Pcb
<1>10. ChildOf(p, d, s) = r
  BY <1>5, <1>6, <1>8 DEF ChildOf
<1>. QED
  BY <1>5, <1>9, <1>10

LEMMA ForkInv == ASSUME IInv, Fork PROVE IInv'
<1>1. /\ current \in list /\ Listed(pcb) /\ kpc = "user"
  BY Caller DEF Fork
<1>2. PICK d \in Dirs, s \in Stacks :
        /\ Allocate(s)
        /\ pcb' = [pcb EXCEPT ![next_pid] = ChildOf(current, d, s)]
        /\ dirs' = dirs \cup {d} /\ used' = used \cup {s}
  BY DEF Fork
<1>3. PICK r \in Pcb : /\ r = ChildOf(current, d, s)
                       /\ r.state = "READY" /\ r.dir = d /\ r.stack = s
  BY <1>1, ChildPcb
<1>4. s \in Stacks \ used /\ next_pid <= MaxPid /\ next_pid' = next_pid + 1 /\ d # 0
  BY <1>2 DEF Allocate, Dirs
<1>5. Keeps(pcb, pcb)
  BY <1>1, SameEvolves, EvolvesKeeps
<1>6. /\ list' = list \cup {next_pid} /\ runq' = runq \cup {next_pid} /\ deferred' = deferred
      /\ current' = current /\ cr3' = cr3 /\ ret' = ret /\ pgsig' = pgsig
      /\ kpc' = "trap" /\ arg' = 0
  BY DEF Fork, GoTo
<1>7. pcb' = [pcb EXCEPT ![next_pid] = r]
  BY <1>2, <1>3
<1>8. Static'
  BY <1>2, <1>3, <1>4, <1>5, <1>6, <1>7, BirthStep, StatesFacts DEF IInv
<1>9. \A p \in Pids : pcb'[p].state = "RUNNING" => p = current'
  BY <1>1, <1>3, <1>6, <1>7, OnlyCurrentRuns DEF Listed, Table
<1>. QED
  BY <1>2, <1>6, <1>8, <1>9, NoPid, KernelNext DEF IInv, Dynamic

LEMMA CloneThreadInv == ASSUME IInv, NEW faulty \in BOOLEAN, CloneThread(faulty) PROVE IInv'
<1>1. /\ current \in list /\ Listed(pcb) /\ kpc = "user" /\ pcb[current] \in Pcb
      /\ pcb[current].dir \in Dirs
  BY Caller DEF CloneThread
<1>2. PICK s \in Stacks :
        /\ Allocate(s) /\ used' = used \cup {s}
        /\ pcb' = [pcb EXCEPT ![next_pid] =
                     [ChildOf(current, pcb[current].dir, s) EXCEPT
                         !.thread = TRUE, !.parent = pcb[current].parent,
                         !.ctid = IF faulty THEN 0 ELSE next_pid]]
  BY DEF CloneThread
<1>3. s \in Stacks \ used /\ next_pid <= MaxPid /\ next_pid' = next_pid + 1
      /\ next_pid \in Pids /\ pcb[current].dir # 0
  BY <1>1, <1>2, ConstantsAssumption DEF Allocate, Dirs, IInv, Static, Pids
<1>4. PICK c : c = ChildOf(current, pcb[current].dir, s)
  OBVIOUS
<1>5. c \in Pcb /\ c.state = "READY" /\ c.dir = pcb[current].dir /\ c.stack = s
  BY <1>1, <1>4, ChildPcb
<1>6. PICK i : i = IF faulty THEN 0 ELSE next_pid
  OBVIOUS
<1>7. PICK r : r = [c EXCEPT !.thread = TRUE, !.parent = pcb[current].parent, !.ctid = i]
  OBVIOUS
<1>8. r \in Pcb /\ r.state = "READY" /\ r.dir = c.dir /\ r.stack = s
  <2>1. ASSUME NEW x \in Pcb, NEW y \in PidOrNone, NEW z \in PidOrNone
        PROVE  [x EXCEPT !.thread = TRUE, !.parent = y, !.ctid = z] \in Pcb
    BY DEF Pcb
  <2>2. i \in PidOrNone /\ pcb[current].parent \in PidOrNone
    BY <1>1, <1>3, <1>6, NoPid DEF Pcb
  <2>. QED
    BY <1>5, <1>7, <2>1, <2>2 DEF Pcb
<1>9. pcb' = [pcb EXCEPT ![next_pid] = r]
  BY <1>2, <1>4, <1>6, <1>7
<1>10. /\ list' = list \cup {next_pid} /\ deferred' = deferred
       /\ runq' \subseteq runq \cup {next_pid}
       /\ current' = current /\ cr3' = cr3 /\ pgsig' = pgsig /\ dirs' = dirs
  BY DEF CloneThread
<1>11. \/ kpc' = "trap" /\ arg' = 0 /\ ret' = ret
       \/ kpc' = "die" /\ arg' = next_pid /\ ret' = "trap"
  BY DEF CloneThread, Die, GoTo
<1>12. Keeps(pcb, pcb)
  BY <1>1, SameEvolves, EvolvesKeeps
<1>13. Static'
  BY <1>2, <1>3, <1>5, <1>8, <1>9, <1>10, <1>12, BirthStep, StatesFacts DEF IInv
<1>14. \A p \in Pids : pcb'[p].state = "RUNNING" => p = current'
  BY <1>1, <1>8, <1>9, <1>10, OnlyCurrentRuns DEF Listed, Table
<1>15. pcb'[next_pid].state = "READY" /\ next_pid \in PidOrNone
  BY <1>1, <1>3, <1>8, <1>9, NoPid DEF Listed, Table
<1>. QED
  BY <1>3, <1>10, <1>11, <1>13, <1>14, <1>15, NoPid, KernelNext DEF IInv, Dynamic

\* Reaping nobody.
LEMMA ReapNobody ==
    ASSUME NEW t \in Table, NEW L, NEW R, NEW p, deferred = {}, Reap(Reapable(p), t, L, R)
    PROVE  pcb' = t /\ list' = L /\ runq' = R /\ deferred' = {} /\ StacksFreed(Reapable(p)) = {}
BY DEF Reap, Reapable, Table, StacksFreed

LEMMA VforkInv == ASSUME IInv, Vfork PROVE IInv'
<1>1. /\ current \in list /\ current \in Pids /\ Listed(pcb) /\ kpc = "user"
      /\ pcb[current] \in Pcb /\ pcb[current].dir \in Dirs /\ deferred = {}
      /\ pcb[current].state = "RUNNING"
  BY Caller DEF Vfork
<1>a. PICK s \in Stacks : \E t, X, child :
        /\ child = [ChildOf(current, pcb[current].dir, s) EXCEPT
                        !.state = "RUNNING", !.vforkvm = TRUE]
        /\ t = [pcb EXCEPT ![next_pid] = child,
                           ![current].state = "WAITING",
                           ![current].vfork_child = next_pid,
                           ![current].wait_pid = 0,
                           ![current].untraced = FALSE]
        /\ X = Reapable(next_pid) /\ Allocate(s)
        /\ Reap(X, t, list \cup {next_pid}, runq \cup {next_pid})
        /\ dirs' = dirs \ DirsDestroyed(X, t, list \cup {next_pid})
        /\ used' = (used \cup {s}) \ StacksFreed(X)
  BY DEF Vfork
<1>2. PICK t, X, child :
        /\ child = [ChildOf(current, pcb[current].dir, s) EXCEPT
                        !.state = "RUNNING", !.vforkvm = TRUE]
        /\ t = [pcb EXCEPT ![next_pid] = child,
                           ![current].state = "WAITING",
                           ![current].vfork_child = next_pid,
                           ![current].wait_pid = 0,
                           ![current].untraced = FALSE]
        /\ X = Reapable(next_pid) /\ Allocate(s)
        /\ Reap(X, t, list \cup {next_pid}, runq \cup {next_pid})
        /\ dirs' = dirs \ DirsDestroyed(X, t, list \cup {next_pid})
        /\ used' = (used \cup {s}) \ StacksFreed(X)
  BY <1>a
<1>3. /\ s \in Stacks \ used /\ next_pid <= MaxPid /\ next_pid' = next_pid + 1
      /\ next_pid \in Pids /\ next_pid \in PidOrNone /\ pcb[current].dir # 0
      /\ next_pid # current
  BY <1>1, <1>2, ConstantsAssumption, NoPid, StatesFacts
     DEF Allocate, Dirs, IInv, Static, Pids
<1>4. PICK c : c = ChildOf(current, pcb[current].dir, s)
  OBVIOUS
<1>5. c \in Pcb /\ c.state = "READY" /\ c.dir = pcb[current].dir /\ c.stack = s
  BY <1>1, <1>4, ChildPcb
<1>6. child \in Pcb /\ child.state = "RUNNING" /\ child.dir = c.dir /\ child.stack = s
  <2>1. PICK st \in States : st = "RUNNING"
    BY StatesFacts
  <2>2. child = [c EXCEPT !.state = st, !.vforkvm = TRUE]
    BY <1>2, <1>4, <2>1
  <2>. QED
    BY <1>5, <2>1, <2>2 DEF Pcb
<1>7. PICK pr : pr = [pcb[current] EXCEPT !.state = "WAITING", !.vfork_child = next_pid,
                                          !.wait_pid = 0, !.untraced = FALSE]
  OBVIOUS
<1>8. /\ pr \in Pcb /\ pr.state = "WAITING"
      /\ pr.dir = pcb[current].dir /\ pr.stack = pcb[current].stack
  <2>1. PICK st \in States, z \in PidOrNone, m \in Pcb :
          st = "WAITING" /\ z = 0 /\ m = pcb[current]
    BY <1>1, StatesFacts, NoPid
  <2>2. pr = [m EXCEPT !.state = st, !.vfork_child = next_pid, !.wait_pid = z, !.untraced = FALSE]
    BY <1>7, <2>1
  <2>. QED
    BY <1>3, <2>1, <2>2 DEF Pcb
<1>9. PICK t0 : t0 = [pcb EXCEPT ![current] = pr]
  OBVIOUS
<1>10. Evolves(pcb, t0)
  BY <1>1, <1>8, <1>9, SetEvolves, StatesFacts
<1>11. t = [t0 EXCEPT ![next_pid] = child] /\ t \in Table
  <2>1. pcb \in Table /\ t0 \in Table
    BY <1>1, <1>10 DEF Listed, Evolves
  <2>2. t = [pcb EXCEPT ![next_pid] = child, ![current] = pr]
    <3>1. t = [pcb EXCEPT ![next_pid] = child,
                         ![current] = [[pcb EXCEPT ![next_pid] = child][current]
                                         EXCEPT !.state = "WAITING", !.vfork_child = next_pid,
                                                !.wait_pid = 0, !.untraced = FALSE]]
      BY <1>2, <2>1, <1>1, <1>3 DEF Table
    <3>2. [pcb EXCEPT ![next_pid] = child][current] = pcb[current]
      BY <2>1, <1>1, <1>3 DEF Table
    <3>. QED
      BY <1>7, <3>1, <3>2
  <2>. QED
    BY <1>1, <1>3, <1>6, <1>8, <1>9, <2>1, <2>2 DEF Table
<1>12. /\ pcb' = t /\ list' = list \cup {next_pid} /\ runq' = runq \cup {next_pid}
       /\ deferred' = {} /\ used' = used \cup {s}
  <2>1. Reap(Reapable(next_pid), t, list \cup {next_pid}, runq \cup {next_pid})
    BY <1>2
  <2>. QED
    BY <1>1, <1>2, <1>11, <2>1, ReapNobody
<1>13. Static'
  BY <1>1, <1>3, <1>5, <1>6, <1>10, <1>11, <1>12, EvolvesKeeps, BirthStep, StatesFacts DEF IInv
<1>14. /\ kpc' = "user" /\ arg' = 0 /\ current' = next_pid /\ cr3' = pcb[current].dir
       /\ ret' = ret /\ pgsig' = pgsig /\ dirs' \subseteq dirs
  BY <1>2 DEF Vfork, GoTo
<1>15. /\ pcb'[next_pid] = child
       /\ \A p \in Pids : pcb'[p].state = "RUNNING" => p = next_pid
  <2>1. t0 \in Table /\ t0[current] = pr /\ pcb'[next_pid] = child
        /\ \A p \in Pids \ {next_pid} : pcb'[p] = t0[p]
    BY <1>1, <1>3, <1>9, <1>10, <1>11, <1>12 DEF Evolves, Listed, Table
  <2>. QED
    BY <1>1, <1>3, <1>8, <1>10, <2>1, OnlyCurrentRuns, EvolvesKeeps
<1>16. CurrentRuns' /\ KernelStepsSound'
  <2>1. list' \subseteq Pids
    BY <1>13, StaticNext
  <2>. QED
    BY <1>3, <1>5, <1>6, <1>12, <1>14, <1>15, <2>1 DEF CurrentRuns, KernelStepsSound
<1>17. Dynamic'
  BY <1>1, <1>3, <1>12, <1>14, <1>16, NoPid, DynamicNext DEF IInv, Dynamic
<1>. QED
  BY <1>13, <1>17 DEF IInv

\* A system call that frees the processes X and returns.
LEMMA ReapReturns ==
    ASSUME IInv, NEW t, Evolves(pcb, t), NEW X \in SUBSET list, kpc = "user",
           Reap(Reapable(current) \cup X, t, list, runq), deferred = {},
           used' = used \ StacksFreed(Reapable(current) \cup X),
           dirs' \subseteq Dirs, cr3' \in Dirs,
           GoTo("trap", 0), UNCHANGED <<current, next_pid, ret, pgsig>>
    PROVE  IInv'
<1>1. Reapable(current) \cup X = X /\ X \in SUBSET Allocated
  BY DEF Reapable, Allocated
<1>2. Static'
  BY <1>1, EvolvesKeeps, ReapStep DEF IInv
<1>3. FreePcb.state # "RUNNING"
  BY DEF FreePcb
<1>4. pcb' = [p \in Pids |-> IF p \in X THEN FreePcb ELSE t[p]]
  BY <1>1 DEF Reap
<1>5. \A p \in Pids : pcb'[p].state = "RUNNING" => p = current'
  BY <1>3, <1>4, EvolvesKeeps, OnlyCurrentRuns
<1>. QED
  BY <1>2, <1>5, NoPid, KernelNext DEF GoTo, IInv, Dynamic

LEMMA ExecInv == ASSUME IInv, Exec PROVE IInv'
<1>1. /\ current \in list /\ current \in Pids /\ Listed(pcb) /\ kpc = "user" /\ deferred = {}
  BY Caller DEF Exec
<1>2. PICK u : u = ReleaseVforkParent(pcb, current)
  OBVIOUS
<1>3. Evolves(pcb, u) /\ Listed(u) /\ u[current] \in Pcb
  BY <1>1, <1>2, ReleaseEvolves, EvolvesListed, ListedPcb
<1>a. PICK d \in Dirs : \E t :
        /\ t = [u EXCEPT ![current].state = "READY", ![current].dir = d,
                         ![current].vforkvm = FALSE, ![current].pending = {}]
        /\ Reap(Reapable(current), t, list, runq)
        /\ dirs' \subseteq dirs \cup {d}
        /\ used' = used \ StacksFreed(Reapable(current))
        /\ cr3' = d
  BY <1>2 DEF Exec
<1>4. PICK t :
        /\ t = [u EXCEPT ![current].state = "READY", ![current].dir = d,
                         ![current].vforkvm = FALSE, ![current].pending = {}]
        /\ Reap(Reapable(current), t, list, runq)
        /\ dirs' \subseteq dirs \cup {d}
        /\ used' = used \ StacksFreed(Reapable(current))
        /\ cr3' = d
  BY <1>a
<1>5. PICK r : r = [u[current] EXCEPT !.state = "READY", !.dir = d,
                                      !.vforkvm = FALSE, !.pending = {}]
  OBVIOUS
<1>6. r \in Pcb /\ r.stack = u[current].stack /\ r.dir = d /\ r.state = "READY"
  <2>1. PICK st \in States, m \in Pcb : st = "READY" /\ m = u[current]
    BY <1>3, StatesFacts
  <2>2. r = [m EXCEPT !.state = st, !.dir = d, !.vforkvm = FALSE, !.pending = {}]
    BY <1>5, <2>1
  <2>3. d \in 0 .. NDirs
    BY ConstantsAssumption DEF Dirs
  <2>. QED
    BY <2>1, <2>2, <2>3 DEF Pcb
<1>7. d # 0 /\ d \in Dirs
  BY DEF Dirs
<1>8. Evolves(u, [u EXCEPT ![current] = r])
  BY <1>1, <1>3, <1>6, <1>7, SetEvolves, StatesFacts
<1>9. t = [u EXCEPT ![current] = r]
  BY <1>4, <1>5
<1>10. Evolves(pcb, t)
  BY <1>1, <1>3, <1>8, <1>9, EvolvesTransitive DEF Listed
<1>11. dirs' \subseteq Dirs /\ cr3' \in Dirs
  BY <1>4, <1>7 DEF IInv, Dynamic
<1>12. Reap(Reapable(current) \cup {}, t, list, runq)
       /\ used' = used \ StacksFreed(Reapable(current) \cup {})
  BY <1>4
<1>13. GoTo("trap", 0) /\ UNCHANGED <<current, next_pid, ret, pgsig>>
  BY DEF Exec
<1>. QED
  BY <1>1, <1>10, <1>11, <1>12, <1>13, ReapReturns

LEMMA WaitReportsInv ==
    ASSUME IInv, NEW w \in PidOrNone, NEW untraced \in BOOLEAN, WaitReports(w, untraced)
    PROVE  IInv'
<1>1. /\ current \in list /\ Listed(pcb) /\ kpc = "user" /\ deferred = {}
  BY Caller DEF WaitReports
<1>a. PICK c \in list : \E t, X :
        /\ X = IF pcb[c].state = "ZOMBIE" THEN {c} ELSE {}
        /\ t = IF pcb[c].state = "ZOMBIE" THEN AnswerWait(pcb, current)
               ELSE [pcb EXCEPT ![c].stop = FALSE]
        /\ Reap(Reapable(current) \cup X, t, list, runq)
        /\ dirs' \subseteq dirs
        /\ used' = used \ StacksFreed(Reapable(current) \cup X)
  BY DEF WaitReports
<1>2. PICK t, X :
        /\ X = IF pcb[c].state = "ZOMBIE" THEN {c} ELSE {}
        /\ t = IF pcb[c].state = "ZOMBIE" THEN AnswerWait(pcb, current)
               ELSE [pcb EXCEPT ![c].stop = FALSE]
        /\ Reap(Reapable(current) \cup X, t, list, runq)
        /\ dirs' \subseteq dirs
        /\ used' = used \ StacksFreed(Reapable(current) \cup X)
  BY <1>a
<1>3. Evolves(pcb, t)
  BY <1>1, <1>2, AnswerEvolves, ClearStopEvolves
<1>4. X \in SUBSET list
  BY <1>2
<1>5. dirs' \subseteq Dirs /\ cr3' \in Dirs
  BY <1>2 DEF WaitReports, IInv, Dynamic
<1>6. GoTo("trap", 0) /\ UNCHANGED <<current, next_pid, ret, pgsig>>
  BY DEF WaitReports
<1>. QED
  BY <1>1, <1>2, <1>3, <1>4, <1>5, <1>6, ReapReturns

LEMMA WaitFindsNothingInv ==
    ASSUME IInv, NEW w \in PidOrNone, NEW untraced \in BOOLEAN, NEW blocks \in BOOLEAN,
           WaitFindsNothing(w, untraced, blocks)
    PROVE  IInv'
<1>1. /\ current \in list /\ Listed(pcb) /\ kpc = "user" /\ deferred = {}
      /\ pcb[current] \in Pcb
  BY Caller DEF WaitFindsNothing
<1>2. PICK t :
        /\ t = IF blocks THEN [pcb EXCEPT ![current].state = "WAITING",
                                         ![current].wait_pid = w,
                                         ![current].untraced = untraced]
               ELSE pcb
        /\ Reap(Reapable(current), t, list, runq)
        /\ dirs' \subseteq dirs
        /\ used' = used \ StacksFreed(Reapable(current))
  BY DEF WaitFindsNothing
<1>3. Evolves(pcb, t)
  <2>1. CASE ~blocks
    BY <1>1, <1>2, <2>1, SameEvolves
  <2>2. CASE blocks
    <3>1. PICK r : r = [pcb[current] EXCEPT !.state = "WAITING", !.wait_pid = w,
                                            !.untraced = untraced]
      OBVIOUS
    <3>2. r \in Pcb /\ r.stack = pcb[current].stack /\ r.dir = pcb[current].dir
          /\ r.state = "WAITING"
      <4>1. PICK st \in States, m \in Pcb : st = "WAITING" /\ m = pcb[current]
        BY <1>1, StatesFacts
      <4>2. r = [m EXCEPT !.state = st, !.wait_pid = w, !.untraced = untraced]
        BY <3>1, <4>1
      <4>. QED
        BY <4>1, <4>2 DEF Pcb
    <3>3. Evolves(pcb, [pcb EXCEPT ![current] = r])
      BY <1>1, <3>2, SetEvolves, StatesFacts
    <3>4. t = [pcb EXCEPT ![current] = r]
      BY <1>2, <2>2, <3>1
    <3>. QED
      BY <3>3, <3>4
  <2>. QED
    BY <2>1, <2>2
<1>4. dirs' \subseteq Dirs /\ cr3' \in Dirs
  BY <1>2 DEF WaitFindsNothing, IInv, Dynamic
<1>5. Reap(Reapable(current) \cup {}, t, list, runq)
      /\ used' = used \ StacksFreed(Reapable(current) \cup {})
  BY <1>2
<1>6. GoTo("trap", 0) /\ UNCHANGED <<current, next_pid, ret, pgsig>>
  BY DEF WaitFindsNothing
<1>. QED
  BY <1>1, <1>3, <1>4, <1>5, <1>6, ReapReturns

-----------------------------------------------------------------------------
LEMMA InitInv == Init => IInv
<1>. SUFFICES ASSUME Init PROVE IInv
  OBVIOUS
<1>1. 1 \in Pids /\ 1 \in PidOrNone /\ 0 \in PidOrNone /\ 1 \in Stacks /\ 1 \in Dirs
      /\ 2 \in 1 .. MaxPid + 1
  BY ConstantsAssumption DEF Pids, PidOrNone, Stacks, Dirs
<1>2. PICK r : r = [FreePcb EXCEPT !.state = "RUNNING", !.pgid = 1, !.dir = 1, !.stack = 1]
  OBVIOUS
<1>3. FreePcb \in Pcb /\ FreePcb.state = "FREE"
  BY ConstantsAssumption DEF FreePcb, Pcb, States, PidOrNone
<1>4. r \in Pcb /\ r.state = "RUNNING" /\ r.dir = 1 /\ r.stack = 1
  <2>1. PICK f \in Pcb, st \in States : f = FreePcb /\ st = "RUNNING"
    BY <1>3, StatesFacts
  <2>2. r = [f EXCEPT !.state = st, !.pgid = 1, !.dir = 1, !.stack = 1]
    BY <1>2, <2>1
  <2>3. 1 \in 0 .. NDirs /\ 1 \in 0 .. NStacks
    BY ConstantsAssumption
  <2>. QED
    BY <1>1, <2>1, <2>2, <2>3 DEF Pcb
<1>5. pcb = [p \in Pids |-> IF p = 1 THEN r ELSE FreePcb]
  BY <1>2 DEF Init
<1>6. StacksConserved
  BY <1>1, <1>4, <1>5 DEF Init, StacksConserved, Allocated
<1>7. Static
  BY <1>1, <1>3, <1>4, <1>5, <1>6, StatesFacts DEF Init, Static, Table, Pids
<1>8. CurrentRuns /\ KernelStepsSound
  BY <1>1, <1>4, <1>5 DEF Init, CurrentRuns, KernelStepsSound
<1>9. Dynamic
  BY <1>1, <1>8 DEF Init, Dynamic, NoPgsig
<1>. QED
  BY <1>7, <1>9 DEF IInv

LEMMA StutterInv == ASSUME IInv, UNCHANGED vars PROVE IInv'
BY DEF vars, IInv, Static, Dynamic, StacksConserved, Allocated, CurrentRuns, KernelStepsSound

LEMMA GroupsArePids == \A g \in Groups : g \in Pids
BY ConstantsAssumption DEF Pids

LEMMA NextInv == ASSUME IInv, Next PROVE IInv'
<1>1. CASE Syscall
  BY <1>1, ForkInv, ForkFailsInv, VforkInv, ExecInv, ExecFailsInv, ExitInv, SleepInv,
     CloneThreadInv, WaitReportsInv, WaitFindsNothingInv, FutexWaitInv, FutexWakeInv,
     SetpgidInv, KillInv, GroupsArePids DEF Syscall
<1>2. CASE Interrupt
  BY <1>2, TimerInv, KillPgrpInv, GroupsArePids DEF Interrupt
<1>3. CASE KernelStep
  BY <1>3, MarkExitedInv, PgrpSendInv, PgrpNextInv, HandleTrapInv, PickIdleInv,
     DispatchSignalInv, RunInv, PickNextInv DEF KernelStep
<1>. QED
  BY <1>1, <1>2, <1>3 DEF Next

THEOREM Invariance == Spec => []IInv
<1>1. IInv /\ [Next]_vars => IInv'
  BY NextInv, StutterInv
<1>. QED
  BY <1>1, InitInv, PTL DEF Spec

\* Every variable keeps its type, for any number of processes, stacks and
\* page directories and any programs.
THEOREM TypeCorrect == Spec => []TypeOK
BY Invariance, IInvStrong, PTL

\* The process list, the run queue and the deferred-reap list are always
\* consistent with the process states, and no DEAD process survives a
\* return to user mode (process_remove_from_list, process_reap_deferred).
THEOREM ListsExact == Spec => []QueuesConsistent
BY Invariance, IInvStrong, PTL

\* Only the current process is RUNNING, and it runs in its own address space
\* (scheduler_handle_trap, sys_vfork, process_set_current).
THEOREM OneRuns == Spec => []CurrentRuns
BY Invariance, IInvStrong, PTL

\* Kernel stacks are neither leaked nor shared (process_alloc_kernel_stack,
\* process_free_kernel_stack).
THEOREM StacksExact == Spec => []StacksConserved
BY Invariance, IInvStrong, PTL

\* The kernel routines are only called on processes they may be called on:
\* no zombie is killed twice, no freed process is dispatched.
THEOREM CallsSound == Spec => []KernelStepsSound
BY Invariance, IInvStrong, PTL

\* No pid is given out twice and no process lacks an address space.
THEOREM PidsExact == Spec => []PidsSound
BY Invariance, IInvStrong, PTL

=============================================================================
